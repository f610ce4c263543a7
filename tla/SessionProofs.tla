---------------------------- MODULE SessionProofs ----------------------------
(***************************************************************************)
(* Proofs about Session for every archive tar can make, every path, every  *)
(* environment and every argv: the tree is the archive, absolute paths     *)
(* lead back to their nodes, and what a program passes to a child arrives. *)
(***************************************************************************)
EXTENDS Session, SequenceTheorems, WellFoundedInduction, TLAPS

(* STRING: the provers do not know that literals are in it. *)
Text == STRING \cup {"", "bin", "PWD", "PATH", "./userboot-stage2"}
Val == Seq(Seq(Text) \ {<<>>}) \ {<<>>}
Binding == [key : Text, val : Val]

(* No variable is set twice. *)
IsEnv(e) ==
    /\ e \in Seq(Binding)
    /\ \A i, j \in DOMAIN e : e[i].key = e[j].key => i = j

(* The entries that have been read are the tree. *)
TreeInv ==
    /\ archive \in Archives /\ left \subseteq archive
    /\ DOMAIN tree = {<<>>} \cup UNION {Prefixes(Names(e.path)) : e \in archive \ left}
    /\ \A e \in archive \ left : tree[Names(e.path)] = e.type
    /\ \A n \in DOMAIN tree : (\A e \in archive \ left : Names(e.path) # n) => tree[n] = "dir"

(* Why InitVFS may have stopped. *)
Stopper(e) ==
    \/ ~HasItsSize(e)
    \/ /\ Names(e.path) # <<>>
       /\ \E f \in archive \ left : IsStrictPrefix(Names(e.path), Names(f.path))
StopInv == left = {} \/ status = "none" \/ (status = "ended" /\ \E e \in left : Stopper(e))

IsDir(t, n) == n \in DOMAIN t /\ t[n] = "dir"

(* What is in a startup channel. *)
Handed(t, c) ==
    /\ c.params \in Argvs \cup {Stage2Params}
    /\ c.argv = PackParams(c.params) /\ c.size = PackSize(c.params)
    /\ IsEnv(Unpack(c.env))
    /\ c.inherits => Unpack(c.env) = c.caller
    /\ IsDir(t, c.from)

StartedIn(t, ch) == ch = <<>> \/ (ch = <<ch[1]>> /\ Handed(t, ch[1]))

(* The inductive invariant. *)
SessionInv ==
    /\ TreeInv
    /\ StopInv
    /\ status \in Statuses
    /\ IsDir(tree, cwd)
    /\ IsEnv(env)
    /\ EnvironIsCurrent
    /\ StartedIn(tree, child)


-----------------------------------------------------------------------------
(* Loops: what a recursive function over the first n elements is. *)

(* A set of numbers has a smallest one. *)
LEMMA Least ==
    ASSUME NEW T, T \subseteq Nat, T # {}
    PROVE  \E n \in T : \A x \in T : n <= x
<1>. DEFINE R == {ss \in Nat \X Nat : ss[1] < ss[2]}
<1>1. IsWellFoundedOn(R, Nat)
    BY NatLessThanWellFounded, Zenon DEF OpToRel
<1>. HIDE DEF R
<1>2. PICK n \in T : \A y \in T : ~(<<y, n>> \in R)
    BY <1>1, WFMin, Zenon
<1>3. ASSUME NEW x \in T PROVE n <= x
    <2>1. ~(<<x, n>> \in R) /\ x \in Nat /\ n \in Nat
        BY <1>2
    <2>. QED  BY <2>1 DEF R
<1>. QED  BY <1>3, Zenon

(* f[i] is the result of n rounds of a loop that starts with b. *)
IsLoop(n, S, b, step, f) ==
    /\ f \in [0 .. n -> S]
    /\ f[0] = b
    /\ \A i \in 1 .. n : f[i] = step[<<i, f[i - 1]>>]

LEMMA LoopExists ==
    ASSUME NEW n \in Nat, NEW S, NEW b \in S, NEW step \in [(1 .. n) \X S -> S]
    PROVE  \E f : IsLoop(n, S, b, step, f)
<1>1. PICK T : T = {k \in 0 .. n : \A f : ~IsLoop(k, S, b, step, f)}
    BY Zenon
<1>2. SUFFICES ASSUME T # {} PROVE FALSE
    BY <1>1
<1>3. PICK k \in T : \A x \in T : k <= x
    <2>1. T \subseteq Nat
        BY <1>1
    <2>. QED  BY <1>2, <2>1, Least, Zenon
<1>4. k \in 0 .. n /\ \A f : ~IsLoop(k, S, b, step, f)
    BY <1>1, <1>3, Zenon
<1>5. CASE k = 0
    <2>1. PICK f : f = [i \in 0 .. k |-> b]
        BY Zenon
    <2>2. IsLoop(k, S, b, step, f)
        BY <1>5, <2>1 DEF IsLoop
    <2>. QED  BY <1>4, <2>2, Zenon
<1>6. CASE k # 0
    <2>1. k - 1 \in 0 .. n /\ ~(k <= k - 1)
        BY <1>4, <1>6
    <2>2. k - 1 \notin T
        BY <1>3, <2>1, Zenon
    <2>3. PICK g : IsLoop(k - 1, S, b, step, g)
        BY <1>1, <2>1, <2>2, Zenon
    <2>4. PICK f : f = [i \in 0 .. k |-> IF i = k THEN step[<<k, g[k - 1]>>] ELSE g[i]]
        BY Zenon
    <2>5. g[k - 1] \in S /\ step[<<k, g[k - 1]>>] \in S
        BY <1>4, <1>6, <2>3 DEF IsLoop
    <2>6. f \in [0 .. k -> S] /\ f[0] = b
        BY <1>4, <1>6, <2>3, <2>4, <2>5 DEF IsLoop
    <2>7. ASSUME NEW i \in 1 .. k PROVE f[i] = step[<<i, f[i - 1]>>]
        <3>1. f[i - 1] = g[i - 1]
            BY <1>4, <1>6, <2>4, <2>7
        <3>2. CASE i = k
            <4>1. f[k] = step[<<k, g[k - 1]>>]
                BY <1>4, <2>4
            <4>. QED  BY <3>1, <3>2, <4>1, Zenon
        <3>3. CASE i # k
            <4>1. i \in 1 .. k - 1 /\ f[i] = g[i]
                BY <1>4, <1>6, <2>4, <3>3
            <4>. QED  BY <2>3, <3>1, <4>1, Zenon DEF IsLoop
        <3>. QED  BY <3>2, <3>3
    <2>8. IsLoop(k, S, b, step, f)
        BY <2>6, <2>7, Zenon DEF IsLoop
    <2>. QED  BY <1>4, <2>8, Zenon
<1>. QED  BY <1>5, <1>6

-----------------------------------------------------------------------------
(* argv. *)

Args == [arg : Text, size : Nat]

(* Each string begins where the one before it ends, after its null byte. *)
LEMMA StrAtSteps ==
    ASSUME NEW params \in Seq(Args)
    PROVE  /\ \A i \in 1 .. Len(params) + 1 : StrAt(params, i) \in Nat
           /\ \A i \in 1 .. Len(params) :
                StrAt(params, i + 1) = StrAt(params, i) + params[i].size + 1
<1>1. PICK n \in Nat : n = Len(params)
    BY LenProperties
<1>2. \A i \in 1 .. n : params[i].size \in Nat
    <2>1. \A i \in 1 .. n : params[i] \in Args
        BY <1>1, ElementOfSeq, Zenon
    <2>. QED  BY <2>1 DEF Args
<1>. DEFINE step == [x \in (1 .. n) \X Nat |-> x[2] + params[x[1]].size + 1]
            round(f) == [k \in 0 .. n |-> IF k = 0 THEN 4 + 4 * n ELSE f[k - 1] + params[k].size + 1]
            end == CHOOSE f : f = round(f)
<1>3. step \in [(1 .. n) \X Nat -> Nat] /\ 4 + 4 * n \in Nat
    BY <1>2
<1>4. PICK f : IsLoop(n, Nat, 4 + 4 * n, step, f)
    BY <1>3, LoopExists, Zenon
<1>5. f = round(f)
    <2>1. f = [k \in 0 .. n |-> f[k]]
        BY <1>4, Zenon DEF IsLoop
    <2>2. \A k \in 0 .. n : f[k] = IF k = 0 THEN 4 + 4 * n ELSE f[k - 1] + params[k].size + 1
        BY <1>4 DEF IsLoop
    <2>. QED  BY <2>1, <2>2, Zenon
<1>6. end = round(end)
    <2>. HIDE DEF round
    <2>. QED  BY <1>5, Zenon
<1>7. \A i : StrAt(params, i) = end[i - 1]
    BY <1>1, Zenon DEF StrAt
<1>. HIDE DEF end
<1>8. /\ end[0] = 4 + 4 * n
      /\ \A k \in 1 .. n : end[k] = end[k - 1] + params[k].size + 1
    BY <1>6
<1>9. \A k \in 0 .. n : end[k] \in Nat
    <2>1. PICK T : T = {k \in 0 .. n : end[k] \notin Nat}
        BY Zenon
    <2>2. SUFFICES ASSUME T # {} PROVE FALSE
        BY <2>1
    <2>3. PICK k \in T : \A x \in T : k <= x
        <3>1. T \subseteq Nat
            BY <2>1
        <3>. QED  BY <2>2, <3>1, Least, Zenon
    <2>4. k \in 1 .. n
        BY <1>8, <2>1, <2>3
    <2>5. k - 1 \in 0 .. n /\ ~(k <= k - 1)
        BY <2>4
    <2>6. end[k - 1] \in Nat
        BY <2>1, <2>3, <2>5, Zenon
    <2>7. end[k] \in Nat
        <3>1. end[k] = end[k - 1] + params[k].size + 1 /\ params[k].size \in Nat
            BY <1>2, <1>8, <2>4, Zenon
        <3>. QED  BY <2>6, <3>1
    <2>. QED  BY <2>1, <2>3, <2>7, Zenon
<1>10. \A i \in 1 .. n + 1 : i - 1 \in 0 .. n
    BY <1>1
<1>11. \A i \in 1 .. n + 1 : StrAt(params, i) \in Nat
    BY <1>7, <1>9, <1>10, Zenon
<1>12. ASSUME NEW i \in 1 .. n
       PROVE  StrAt(params, i + 1) = StrAt(params, i) + params[i].size + 1
    <2>1. PICK j : j = i + 1 /\ j - 1 = i
        OBVIOUS
    <2>2. StrAt(params, j) = end[i] /\ StrAt(params, i) = end[i - 1]
        BY <1>7, <2>1, Zenon
    <2>. QED  BY <1>8, <2>1, <2>2, Zenon
<1>. QED  BY <1>1, <1>11, <1>12, Zenon

(* So the strings follow each other without overlap. *)
LEMMA StringsFollow ==
    ASSUME NEW params \in Seq(Args), NEW i \in 1 .. Len(params),
           NEW j \in i + 1 .. Len(params) + 1
    PROVE  StrAt(params, i) + params[i].size + 1 <= StrAt(params, j)
<1>1. PICK n \in Nat : n = Len(params)
    BY LenProperties
<1>2. PICK at : at = [k \in 1 .. n + 1 |-> StrAt(params, k)]
    BY Zenon
<1>3. PICK size : size = [k \in 1 .. n |-> params[k].size]
    BY Zenon
<1>4. \A k \in 1 .. n : size[k] \in Nat
    <2>1. \A k \in 1 .. n : params[k] \in Args
        BY <1>1, ElementOfSeq, Zenon
    <2>2. \A k \in 1 .. n : params[k].size \in Nat
        BY <2>1 DEF Args
    <2>. QED  BY <1>3, <2>2, Zenon
<1>5. \A k \in 1 .. n + 1 : at[k] \in Nat
    BY <1>1, <1>2, StrAtSteps, Zenon
<1>6. \A k \in 1 .. n : k \in 1 .. n + 1 /\ k + 1 \in 1 .. n + 1
    BY <1>1
<1>7. \A k \in 1 .. n : at[k + 1] = at[k] + size[k] + 1
    BY <1>1, <1>2, <1>3, <1>6, StrAtSteps, Zenon
<1>8. SUFFICES at[i] + size[i] + 1 <= at[j]
    <2>1. j \in 1 .. n + 1
        BY <1>1
    <2>. QED  BY <1>1, <1>2, <1>3, <1>6, <2>1, Zenon
<1>9. PICK T : T = {k \in i + 1 .. n + 1 : ~(at[i] + size[i] + 1 <= at[k])}
    BY Zenon
<1>10. SUFFICES ASSUME T # {} PROVE FALSE
    BY <1>1, <1>9, Zenon
<1>11. PICK k \in T : \A x \in T : k <= x
    <2>1. T \subseteq Nat
        BY <1>1, <1>9
    <2>. QED  BY <1>10, <2>1, Least, Zenon
<1>12. k \in i + 1 .. n + 1 /\ ~(at[i] + size[i] + 1 <= at[k])
    BY <1>9, <1>11, Zenon
<1>13. CASE k = i + 1
    <2>1. at[k] = at[i] + size[i] + 1
        BY <1>1, <1>7, <1>13, Zenon
    <2>2. at[i] \in Nat /\ size[i] \in Nat
        BY <1>1, <1>4, <1>5, <1>6, Zenon
    <2>. QED  BY <1>12, <2>1, <2>2
<1>14. CASE k # i + 1
    <2>1. PICK l : l = k - 1
        BY Zenon
    <2>2. l \in i + 1 .. n + 1 /\ ~(k <= l) /\ l \in 1 .. n /\ k = l + 1
        BY <1>1, <1>12, <1>14, <2>1
    <2>3. at[i] + size[i] + 1 <= at[l]
        BY <1>9, <1>11, <2>2, Zenon
    <2>4. at[k] = at[l] + size[l] + 1
        BY <1>7, <2>2, Zenon
    <2>5. at[i] \in Nat /\ size[i] \in Nat /\ at[l] \in Nat /\ size[l] \in Nat
        BY <1>1, <1>4, <1>5, <1>6, <2>2, Zenon
    <2>. QED  BY <1>12, <2>3, <2>4, <2>5
<1>. QED  BY <1>13, <1>14

(* What PackParams stores for string k is where it is. *)
LEMMA PackedAt ==
    ASSUME NEW params \in Seq(Args), NEW k \in 1 .. Len(params)
    PROVE  /\ StrAt(params, k) \in DOMAIN PackParams(params).strs
           /\ PackParams(params).strs[StrAt(params, k)] = params[k]
           /\ StrAt(params, k) + params[k].size < PackSize(params)
<1>1. PICK n \in Nat : n = Len(params) /\ DOMAIN params = 1 .. n
    BY LenProperties
<1>2. PICK o : o = StrAt(params, k)
    BY Zenon
<1>3. \A i \in 1 .. n : StrAt(params, i) = o => i = k
    <2>1. SUFFICES ASSUME NEW i \in 1 .. n, StrAt(params, i) = o, i # k PROVE FALSE
        BY Zenon
    <2>2. i \in 1 .. Len(params) + 1 /\ k \in 1 .. Len(params) + 1
        BY <1>1
    <2>3. StrAt(params, i) \in Nat /\ StrAt(params, k) \in Nat
        BY <2>2, StrAtSteps, Zenon
    <2>4. params[i].size \in Nat /\ params[k].size \in Nat
        <3>1. params[i] \in Args /\ params[k] \in Args
            BY <1>1, ElementOfSeq, Zenon
        <3>. QED  BY <3>1 DEF Args
    <2>5. CASE i < k
        <3>1. k \in i + 1 .. Len(params) + 1
            BY <1>1, <2>5
        <3>2. StrAt(params, i) + params[i].size + 1 <= StrAt(params, k)
            BY <1>1, <3>1, StringsFollow, Zenon
        <3>. QED  BY <1>2, <2>1, <2>3, <2>4, <3>2
    <2>6. CASE k < i
        <3>1. i \in k + 1 .. Len(params) + 1
            BY <1>1, <2>6
        <3>2. StrAt(params, k) + params[k].size + 1 <= StrAt(params, i)
            BY <1>1, <3>1, StringsFollow, Zenon
        <3>. QED  BY <1>2, <2>1, <2>3, <2>4, <3>2
    <2>. QED  BY <1>1, <2>1, <2>5, <2>6
<1>4. (CHOOSE i \in DOMAIN params : StrAt(params, i) = o) = k
    BY <1>1, <1>2, <1>3, Zenon
<1>5. PICK strs : strs = PackParams(params).strs
    BY Zenon
<1>6. strs = [q \in {StrAt(params, i) : i \in DOMAIN params} |->
                params[CHOOSE i \in DOMAIN params : StrAt(params, i) = q]]
    BY <1>5 DEF PackParams
<1>7. o \in {StrAt(params, i) : i \in DOMAIN params}
    BY <1>1, <1>2, Zenon
<1>8. o \in DOMAIN strs /\ strs[o] = params[k]
    BY <1>4, <1>6, <1>7, Zenon
<1>9. StrAt(params, k) + params[k].size < PackSize(params)
    <2>1. Len(params) + 1 \in k + 1 .. Len(params) + 1 /\ k \in 1 .. Len(params) + 1
          /\ Len(params) + 1 \in 1 .. Len(params) + 1
        BY <1>1
    <2>2. StrAt(params, k) + params[k].size + 1 <= PackSize(params)
        BY <2>1, StringsFollow, Zenon DEF PackSize
    <2>3. StrAt(params, k) \in Nat /\ PackSize(params) \in Nat
        BY <2>1, StrAtSteps, Zenon DEF PackSize
    <2>4. params[k].size \in Nat
        <3>1. params[k] \in Args
            BY ElementOfSeq, Zenon
        <3>. QED  BY <3>1 DEF Args
    <2>. QED  BY <2>2, <2>3, <2>4
<1>. QED  BY <1>2, <1>5, <1>8, <1>9, Zenon

(* UnpackParams turns it into a pointer to the string, wherever the buffer is. *)
LEMMA ArgvArrives ==
    ASSUME NEW params \in Seq(Args), NEW addr \in Nat, NEW argv,
           argv = UnpackParams(PackParams(params), addr)
    PROVE  /\ DOMAIN argv = DOMAIN params
           /\ \A k \in 1 .. Len(params) : argv[k] - addr = StrAt(params, k)
<1>1. PICK n \in Nat : n = Len(params) /\ DOMAIN params = 1 .. n
    BY LenProperties
<1>2. PICK page : page = PackParams(params)
    BY Zenon
<1>3. page.argc = n /\ page.argv = [i \in 1 .. n |-> StrAt(params, i) - EntryAt(i)]
    BY <1>1, <1>2 DEF PackParams
<1>4. argv = [i \in 1 .. n |-> page.argv[i] + addr + EntryAt(i)]
    BY <1>2, <1>3, Zenon DEF UnpackParams
<1>5. ASSUME NEW k \in 1 .. n PROVE argv[k] - addr = StrAt(params, k)
    <2>1. argv[k] = StrAt(params, k) - EntryAt(k) + addr + EntryAt(k)
        <3>1. argv[k] = page.argv[k] + addr + EntryAt(k)
            BY <1>4
        <3>2. page.argv[k] = StrAt(params, k) - EntryAt(k)
            BY <1>3
        <3>. QED  BY <3>1, <3>2
    <2>2. EntryAt(k) \in Nat /\ k \in 1 .. Len(params) + 1
        BY <1>1 DEF EntryAt
    <2>3. StrAt(params, k) \in Nat
        BY <2>2, StrAtSteps, Zenon
    <2>. QED  BY <2>1, <2>2, <2>3
<1>. QED  BY <1>1, <1>4, <1>5, Zenon

-----------------------------------------------------------------------------
(* The environment. *)

Envs == {e \in Seq(Binding) : IsEnv(e)}

(* In an environment a variable has one place. *)
LEMMA FirstWithIs ==
    ASSUME NEW e, IsEnv(e), NEW i \in DOMAIN e
    PROVE  FirstWith(e, e[i].key) = i
<1>1. PICK n \in Nat : n = Len(e) /\ DOMAIN e = 1 .. n
    BY LenProperties DEF IsEnv
<1>2. \A j \in DOMAIN e : e[j].key = e[i].key => j = i
    BY Zenon DEF IsEnv
<1>3. \A j \in 1 .. i - 1 : j \in DOMAIN e /\ j # i
    BY <1>1
<1>. QED  BY <1>2, <1>3, Zenon DEF FirstWith

(* What setVal makes of e. *)
IsSet(e, key, val, f) ==
    /\ IsEnv(f)
    /\ Len(e) <= Len(f)
    /\ \A i \in 1 .. Len(e) :
        /\ f[i].key = e[i].key
        /\ e[i].key # key => f[i] = e[i]
        /\ e[i].key = key => f[i].val = val
    /\ ~HasVal(e, key) => f = Append(e, [key |-> key, val |-> val])
    /\ HasVal(e, key) => Len(f) = Len(e)

LEMMA setValIs ==
    ASSUME NEW e, IsEnv(e), NEW key \in Text, NEW val \in Val
    PROVE  IsSet(e, key, val, setVal(e, key, val))
<1>1. PICK n \in Nat : n = Len(e) /\ DOMAIN e = 1 .. n
    BY LenProperties DEF IsEnv
<1>2. PICK x, f : x = [key |-> key, val |-> val] /\ f = setVal(e, key, val)
    BY Zenon
<1>3. x \in Binding /\ x.key = key /\ x.val = val
    BY <1>2 DEF Binding
<1>4. \A i \in 1 .. n : e[i] \in Binding
    BY <1>1, ElementOfSeq, Zenon DEF IsEnv
<1>5. \A i, j \in 1 .. n : e[i].key = e[j].key => i = j
    BY <1>1, Zenon DEF IsEnv
<1>6. CASE HasVal(e, key)
    <2>1. PICK i \in 1 .. n : e[i].key = key
        BY <1>1, <1>6, Zenon DEF HasVal
    <2>2. f = [e EXCEPT ![i].val = val]
        BY <1>1, <1>2, <1>6, <2>1, FirstWithIs, Zenon DEF setVal
    <2>3. [e[i] EXCEPT !.val = val] \in Binding /\ [e[i] EXCEPT !.val = val].key = key
          /\ [e[i] EXCEPT !.val = val].val = val
        BY <1>4, <2>1 DEF Binding
    <2>4. PICK y : y = [e[i] EXCEPT !.val = val]
        BY Zenon
    <2>5. f = [e EXCEPT ![i] = y]
        BY <2>2, <2>4
    <2>6. f \in Seq(Binding) /\ Len(f) = n /\ \A j \in 1 .. n : f[j] = IF j = i THEN y ELSE e[j]
        BY <1>1, <2>3, <2>4, <2>5, ExceptSeq DEF IsEnv
    <2>7. DOMAIN f = 1 .. n
        BY <2>6, LenProperties
    <2>8. \A j \in 1 .. n : f[j].key = e[j].key
        BY <2>1, <2>3, <2>4, <2>6, Zenon
    <2>9. IsEnv(f)
        BY <1>5, <2>6, <2>7, <2>8, Zenon DEF IsEnv
    <2>10. \A j \in 1 .. n : (e[j].key # key => f[j] = e[j]) /\ (e[j].key = key => f[j].val = val)
        BY <1>5, <2>1, <2>3, <2>4, <2>6, Zenon
    <2>11. Len(e) <= Len(f) /\ Len(e) = n /\ Len(f) = Len(e)
        BY <1>1, <2>6
    <2>. QED  BY <1>2, <1>6, <2>8, <2>9, <2>10, <2>11, Zenon DEF IsSet
<1>7. CASE ~HasVal(e, key)
    <2>1. f = Append(e, x)
        BY <1>2, <1>7, Zenon DEF setVal
    <2>2. /\ f \in Seq(Binding) /\ Len(f) = n + 1 /\ \A j \in 1 .. n : f[j] = e[j]
          /\ f[n + 1] = x
        BY <1>1, <1>3, <2>1, AppendProperties DEF IsEnv
    <2>3. DOMAIN f = 1 .. n + 1
        BY <2>2, LenProperties
    <2>4. \A j \in 1 .. n : e[j].key # key
        BY <1>1, <1>7, Zenon DEF HasVal
    <2>5. ASSUME NEW i \in 1 .. n + 1, NEW j \in 1 .. n + 1, f[i].key = f[j].key PROVE i = j
        <3>1. (i \in 1 .. n \/ i = n + 1) /\ (j \in 1 .. n \/ j = n + 1)
            BY <1>1
        <3>. QED  BY <1>3, <1>5, <2>2, <2>4, <2>5, <3>1, Zenon
    <2>6. IsEnv(f)
        BY <2>2, <2>3, <2>5, Zenon DEF IsEnv
    <2>7. Len(e) = n /\ n <= Len(f)
        BY <1>1, <2>2
    <2>. QED  BY <1>2, <1>7, <2>1, <2>2, <2>4, <2>6, <2>7, Zenon DEF IsSet
<1>. QED  BY <1>6, <1>7

(* What getenv finds afterwards. *)
LEMMA getValAfterSet ==
    ASSUME NEW e, IsEnv(e), NEW key, NEW val, NEW f, IsSet(e, key, val, f), NEW other
    PROVE  /\ HasVal(f, key) /\ getVal(f, key) = val
           /\ other # key => /\ HasVal(f, other) <=> HasVal(e, other)
                             /\ HasVal(e, other) => getVal(f, other) = getVal(e, other)
<1>1. PICK n \in Nat, m \in Nat : n = Len(e) /\ DOMAIN e = 1 .. n /\ m = Len(f) /\ DOMAIN f = 1 .. m
    BY LenProperties, SMTT(30) DEF IsEnv, IsSet
<1>2. \A i \in 1 .. n : i \in 1 .. m
    BY <1>1 DEF IsSet
<1>3. CASE HasVal(e, key)
    <2>1. PICK i \in 1 .. n : e[i].key = key
        BY <1>1, <1>3, Zenon DEF HasVal
    <2>2. i \in DOMAIN f /\ f[i].key = key /\ f[i].val = val
        BY <1>1, <1>2, <2>1, Zenon DEF IsSet
    <2>3. FirstWith(f, key) = i
        BY <2>2, FirstWithIs, Zenon DEF IsSet
    <2>4. m = n
        BY <1>1, <1>3, Zenon DEF IsSet
    <2>5. \A j \in 1 .. n : f[j].key = e[j].key /\ (e[j].key # key => f[j] = e[j])
        BY <1>1, Zenon DEF IsSet
    <2>6. ASSUME other # key PROVE HasVal(f, other) <=> HasVal(e, other)
        BY <1>1, <2>4, <2>5, Zenon DEF HasVal
    <2>7. ASSUME other # key, HasVal(e, other) PROVE getVal(f, other) = getVal(e, other)
        <3>1. PICK j \in 1 .. n : e[j].key = other
            BY <1>1, <2>7, Zenon DEF HasVal
        <3>2. FirstWith(e, other) = j /\ FirstWith(f, other) = j /\ f[j] = e[j]
            BY <1>1, <2>4, <2>5, <2>7, <3>1, FirstWithIs, Zenon DEF IsSet
        <3>. QED  BY <3>2, Zenon DEF getVal
    <2>. QED  BY <2>2, <2>3, <2>6, <2>7, Zenon DEF HasVal, getVal
<1>4. CASE ~HasVal(e, key)
    <2>1. PICK x : x = [key |-> key, val |-> val]
        BY Zenon
    <2>2. f = Append(e, x) /\ x.key = key /\ x.val = val
        BY <1>4, <2>1 DEF IsSet
    <2>3. m = n + 1 /\ f[n + 1] = x /\ \A j \in 1 .. n : f[j] = e[j]
        BY <1>1, <2>2 DEF IsEnv
    <2>4. n + 1 \in DOMAIN f /\ \A j \in DOMAIN f : j \in 1 .. n \/ j = n + 1
        BY <1>1, <2>3
    <2>5. FirstWith(f, key) = n + 1
        BY <2>2, <2>3, <2>4, FirstWithIs, Zenon DEF IsSet
    <2>6. ASSUME other # key PROVE HasVal(f, other) <=> HasVal(e, other)
        BY <1>1, <1>2, <2>2, <2>3, <2>4, <2>6, Zenon DEF HasVal
    <2>7. ASSUME other # key, HasVal(e, other) PROVE getVal(f, other) = getVal(e, other)
        <3>1. PICK j \in 1 .. n : e[j].key = other
            BY <1>1, <2>7, Zenon DEF HasVal
        <3>2. FirstWith(e, other) = j /\ FirstWith(f, other) = j /\ f[j] = e[j]
            BY <1>1, <1>2, <2>3, <2>7, <3>1, FirstWithIs, Zenon DEF IsSet
        <3>. QED  BY <3>2, Zenon DEF getVal
    <2>. QED  BY <2>2, <2>3, <2>4, <2>5, <2>6, <2>7, Zenon DEF HasVal, getVal
<1>. QED  BY <1>3, <1>4

(* A function that goes on like a loop as long as it stays in S is the loop. *)
LEMMA LoopTyped ==
    ASSUME NEW n \in Nat, NEW S, NEW b \in S, NEW step \in [(1 .. n) \X S -> S],
           NEW f, f = [i \in 0 .. n |-> f[i]], f[0] = b,
           \A i \in 1 .. n : f[i - 1] \in S => f[i] = step[<<i, f[i - 1]>>]
    PROVE  IsLoop(n, S, b, step, f)
<1>1. \A i \in 0 .. n : f[i] \in S
    <2>1. PICK T : T = {i \in 0 .. n : f[i] \notin S}
        BY Zenon
    <2>2. SUFFICES ASSUME T # {} PROVE FALSE
        BY <2>1, Zenon
    <2>3. PICK k \in T : \A x \in T : k <= x
        <3>1. T \subseteq Nat
            BY <2>1
        <3>. QED  BY <2>2, <3>1, Least, Zenon
    <2>4. k \in 0 .. n /\ f[k] \notin S
        BY <2>1, <2>3, Zenon
    <2>5. k \in 1 .. n /\ k - 1 \in 0 .. n /\ ~(k <= k - 1)
        <3>1. k # 0
            BY <2>4, Zenon
        <3>. QED  BY <2>4, <3>1
    <2>6. f[k - 1] \in S
        BY <2>1, <2>3, <2>5, Zenon
    <2>7. step[<<k, f[k - 1]>>] \in S
        BY <2>5, <2>6
    <2>. QED  BY <2>4, <2>5, <2>6, <2>7, Zenon
<1>2. f \in [0 .. n -> S]
    BY <1>1, Zenon
<1>3. \A i \in 1 .. n : i - 1 \in 0 .. n
    OBVIOUS
<1>. QED  BY <1>1, <1>2, <1>3, Zenon DEF IsLoop

(* The rounds of Others. *)
Kept(n, e) ==
    [x \in (1 .. n) \X Seq(Binding) |->
        IF e[x[1]].key \in {"PWD", "PATH"} THEN x[2] ELSE Append(x[2], e[x[1]])]

LEMMA OthersLoop ==
    ASSUME NEW e \in Seq(Binding)
    PROVE  \E f : IsLoop(Len(e), Seq(Binding), <<>>, Kept(Len(e), e), f) /\ Others(e) = f[Len(e)]
<1>1. PICK n \in Nat : n = Len(e)
    BY LenProperties
<1>2. \A i \in 1 .. n : e[i] \in Binding
    BY <1>1, ElementOfSeq, Zenon
<1>. DEFINE round(f) == [i \in 0 .. n |->
                            IF i = 0 THEN <<>>
                            ELSE IF e[i].key \in {"PWD", "PATH"} THEN f[i - 1]
                            ELSE Append(f[i - 1], e[i])]
            others == CHOOSE f : f = round(f)
<1>3. PICK step : step = Kept(n, e)
    BY Zenon
<1>4. \A i \in 1 .. n, q \in Seq(Binding) :
        step[<<i, q>>] = IF e[i].key \in {"PWD", "PATH"} THEN q ELSE Append(q, e[i])
    BY <1>3 DEF Kept
<1>5. step \in [(1 .. n) \X Seq(Binding) -> Seq(Binding)] /\ <<>> \in Seq(Binding)
    BY <1>2, <1>3, AppendProperties, EmptySeq DEF Kept
<1>6. PICK f : IsLoop(n, Seq(Binding), <<>>, step, f)
    BY <1>5, LoopExists, Zenon
<1>7. f = round(f)
    <2>1. f = [i \in 0 .. n |-> f[i]]
        BY <1>6, Zenon DEF IsLoop
    <2>2. \A i \in 0 .. n : i # 0 => i \in 1 .. n /\ i - 1 \in 0 .. n
        BY <1>1
    <2>3. \A i \in 0 .. n : f[i] \in Seq(Binding)
        BY <1>6, Zenon DEF IsLoop
    <2>4. \A i \in 0 .. n : f[i] = IF i = 0 THEN <<>>
                            ELSE IF e[i].key \in {"PWD", "PATH"} THEN f[i - 1]
                            ELSE Append(f[i - 1], e[i])
        BY <1>4, <1>6, <2>2, <2>3, Zenon DEF IsLoop
    <2>. QED  BY <2>1, <2>4, Zenon
<1>8. others = round(others)
    <2>. HIDE DEF round
    <2>. QED  BY <1>7, Zenon
<1>9. Others(e) = others[n]
    BY <1>1, Zenon DEF Others
<1>. HIDE DEF others
<1>10. \A i \in 1 .. n : i # 0 /\ i \in 0 .. n
    BY <1>1
<1>11. /\ others = [i \in 0 .. n |-> others[i]]
       /\ others[0] = <<>>
       /\ \A i \in 1 .. n : others[i - 1] \in Seq(Binding) => others[i] = step[<<i, others[i - 1]>>]
    <2>1. others = [i \in 0 .. n |-> others[i]]
        BY <1>8, Zenon
    <2>2. 0 \in 0 .. n
        BY <1>1
    <2>. QED  BY <1>4, <1>8, <1>10, <2>1, <2>2, Zenon
<1>12. IsLoop(n, Seq(Binding), <<>>, step, others)
    BY <1>5, <1>11, LoopTyped, Zenon
<1>. QED  BY <1>1, <1>3, <1>9, <1>12, Zenon

(* Others does not see the two variables. *)
LEMMA OthersAgree ==
    ASSUME NEW s \in Seq(Binding), NEW t \in Seq(Binding), Len(s) <= Len(t),
           \A i \in 1 .. Len(s) : \/ s[i] = t[i]
                                  \/ s[i].key \in {"PWD", "PATH"} /\ t[i].key \in {"PWD", "PATH"},
           \A i \in Len(s) + 1 .. Len(t) : t[i].key \in {"PWD", "PATH"}
    PROVE  Others(s) = Others(t)
<1>1. PICK n \in Nat, m \in Nat : n = Len(s) /\ m = Len(t)
    BY LenProperties
<1>2. PICK f : IsLoop(n, Seq(Binding), <<>>, Kept(n, s), f) /\ Others(s) = f[n]
    BY <1>1, OthersLoop, Zenon
<1>3. PICK g : IsLoop(m, Seq(Binding), <<>>, Kept(m, t), g) /\ Others(t) = g[m]
    BY <1>1, OthersLoop, Zenon
<1>4. \A i \in 1 .. n : i - 1 \in 0 .. n /\ i - 1 \in 0 .. m /\ i \in 1 .. m
    BY <1>1
<1>5. \A i \in 1 .. n : f[i] = IF s[i].key \in {"PWD", "PATH"} THEN f[i - 1]
                               ELSE Append(f[i - 1], s[i])
    BY <1>2, <1>4 DEF IsLoop, Kept
<1>6. \A i \in 1 .. m : g[i] = IF t[i].key \in {"PWD", "PATH"} THEN g[i - 1]
                               ELSE Append(g[i - 1], t[i])
    <2>1. \A i \in 1 .. m : i - 1 \in 0 .. m
        BY <1>1
    <2>. QED  BY <1>3, <2>1 DEF IsLoop, Kept
<1>7. PICK T : T = {i \in 0 .. m : g[i] # f[IF i <= n THEN i ELSE n]}
    BY Zenon
<1>8. T = {}
    <2>1. SUFFICES ASSUME T # {} PROVE FALSE
        BY Zenon
    <2>2. PICK k \in T : \A x \in T : k <= x
        <3>1. T \subseteq Nat
            BY <1>1, <1>7
        <3>. QED  BY <2>1, <3>1, Least, Zenon
    <2>3. k \in 0 .. m /\ g[k] # f[IF k <= n THEN k ELSE n]
        BY <1>7, <2>2, Zenon
    <2>4. k # 0
        <3>1. g[0] = f[0]
            BY <1>2, <1>3, Zenon DEF IsLoop
        <3>. QED  BY <1>1, <2>3, <3>1
    <2>5. k \in 1 .. m /\ k - 1 \in 0 .. m /\ ~(k <= k - 1)
        BY <1>1, <2>3, <2>4
    <2>6. g[k - 1] = f[IF k - 1 <= n THEN k - 1 ELSE n]
        BY <1>7, <2>2, <2>5, Zenon
    <2>7. CASE k <= n
        <3>1. k \in 1 .. n /\ g[k - 1] = f[k - 1] /\ g[k] # f[k]
            BY <1>1, <2>3, <2>5, <2>6, <2>7
        <3>2. f[k] = IF s[k].key \in {"PWD", "PATH"} THEN f[k - 1] ELSE Append(f[k - 1], s[k])
            BY <1>5, <3>1, Zenon
        <3>3. g[k] = IF t[k].key \in {"PWD", "PATH"} THEN g[k - 1] ELSE Append(g[k - 1], t[k])
            BY <1>6, <2>5, Zenon
        <3>4. CASE s[k] = t[k]
            BY <3>1, <3>2, <3>3, <3>4, Zenon
        <3>5. CASE s[k].key \in {"PWD", "PATH"} /\ t[k].key \in {"PWD", "PATH"}
            <4>1. f[k] = f[k - 1] /\ g[k] = g[k - 1]
                BY <3>2, <3>3, <3>5
            <4>. QED  BY <3>1, <4>1, Zenon
        <3>. QED  BY <1>1, <3>1, <3>4, <3>5
    <2>8. CASE ~(k <= n)
        <3>1. k \in n + 1 .. m /\ g[k - 1] = f[n] /\ g[k] # f[n]
            BY <1>1, <2>3, <2>5, <2>6, <2>8
        <3>. QED  BY <1>1, <1>6, <2>5, <3>1, Zenon
    <2>. QED  BY <2>7, <2>8
<1>9. g[m] = f[IF m <= n THEN m ELSE n]
    <2>1. m \in 0 .. m
        BY <1>1
    <2>. QED  BY <1>7, <1>8, <2>1, Zenon
<1>10. g[m] = f[n]
    BY <1>1, <1>9
<1>. QED  BY <1>2, <1>3, <1>10, Zenon

(* So setting one of them does not show. *)
LEMMA OthersAfterSet ==
    ASSUME NEW e, IsEnv(e), NEW key \in {"PWD", "PATH"}, NEW val, NEW f, IsSet(e, key, val, f)
    PROVE  Others(f) = Others(e)
<1>1. PICK n \in Nat : n = Len(e)
    BY LenProperties DEF IsEnv
<1>2. e \in Seq(Binding) /\ f \in Seq(Binding) /\ Len(e) <= Len(f)
    BY Zenon DEF IsEnv, IsSet
<1>3. \A i \in 1 .. Len(e) : \/ e[i] = f[i]
                             \/ e[i].key \in {"PWD", "PATH"} /\ f[i].key \in {"PWD", "PATH"}
    BY Zenon DEF IsSet
<1>4. ASSUME NEW i \in Len(e) + 1 .. Len(f) PROVE f[i].key \in {"PWD", "PATH"}
    <2>1. CASE HasVal(e, key)
        <3>1. Len(f) = Len(e)
            BY <2>1, Zenon DEF IsSet
        <3>. QED  BY <1>1, <3>1
    <2>2. CASE ~HasVal(e, key)
        <3>1. PICK x : x = [key |-> key, val |-> val]
            BY Zenon
        <3>2. f = Append(e, x) /\ x.key = key
            BY <2>2, <3>1 DEF IsSet
        <3>3. Len(f) = n + 1 /\ f[n + 1] = x
            BY <1>1, <1>2, <3>2
        <3>4. i = n + 1
            BY <1>1, <3>3
        <3>. QED  BY <3>2, <3>3, <3>4, Zenon
    <2>. QED  BY <2>1, <2>2
<1>. QED  BY <1>2, <1>3, <1>4, OthersAgree, Zenon

(* The rounds of Unpack and of UnpackEnvp, which set the variables k[i] to v[i]. *)
AreVars(n, k, v) == \A i \in 1 .. n : k[i] \in Text /\ v[i] \in Val
SetAll(n, k, v) == [x \in (1 .. n) \X Envs |-> setVal(x[2], k[x[1]], v[x[1]])]

SetsAll(n, k, v, step) ==
    /\ step \in [(1 .. n) \X Envs -> Envs]
    /\ <<>> \in Envs
    /\ \A i \in 1 .. n, e \in Envs : step[<<i, e>>] = setVal(e, k[i], v[i])

LEMMA SetAllIs ==
    ASSUME NEW n \in Nat, NEW k, NEW v, AreVars(n, k, v), NEW step, step = SetAll(n, k, v)
    PROVE  SetsAll(n, k, v, step)
<1>1. \A i \in 1 .. n, e \in Envs : setVal(e, k[i], v[i]) \in Envs
    <2>1. SUFFICES ASSUME NEW i \in 1 .. n, NEW e \in Envs PROVE setVal(e, k[i], v[i]) \in Envs
        BY Zenon
    <2>2. IsEnv(e)
        BY Zenon DEF Envs
    <2>3. IsEnv(setVal(e, k[i], v[i]))
        BY <2>1, <2>2, setValIs, Zenon DEF IsSet, AreVars
    <2>. QED  BY <2>3, Zenon DEF Envs, IsEnv
<1>2. <<>> \in Envs
    BY DEF Envs, IsEnv
<1>. QED  BY <1>1, <1>2 DEF SetAll, SetsAll

(* A function that goes round as Unpack and UnpackEnvp do is such a loop. *)
IsUnpacked(n, k, v, f) ==
    f = [i \in 0 .. n |-> IF i = 0 THEN <<>> ELSE setVal(f[i - 1], k[i], v[i])]

LEMMA UnpackedExists ==
    ASSUME NEW n \in Nat, NEW k, NEW v, AreVars(n, k, v)
    PROVE  \E f : IsUnpacked(n, k, v, f)
<1>1. PICK step : step = SetAll(n, k, v)
    BY Zenon
<1>2. SetsAll(n, k, v, step)
    BY <1>1, SetAllIs, Zenon
<1>3. PICK f : IsLoop(n, Envs, <<>>, step, f)
    BY <1>2, LoopExists, Zenon DEF SetsAll
<1>4. f = [i \in 0 .. n |-> f[i]]
    BY <1>3, Zenon DEF IsLoop
<1>5. \A i \in 0 .. n : i # 0 => i \in 1 .. n /\ i - 1 \in 0 .. n
    OBVIOUS
<1>6. \A i \in 0 .. n : f[i] \in Envs
    BY <1>3, Zenon DEF IsLoop
<1>7. \A i \in 0 .. n : f[i] = IF i = 0 THEN <<>> ELSE setVal(f[i - 1], k[i], v[i])
    BY <1>2, <1>3, <1>5, <1>6, Zenon DEF IsLoop, SetsAll
<1>. QED  BY <1>4, <1>7, Zenon DEF IsUnpacked

(* It keeps to environments. *)
Unpacks(n, k, v, f) ==
    /\ f[0] = <<>>
    /\ \A i \in 0 .. n : IsEnv(f[i])
    /\ \A i \in 1 .. n : f[i] = setVal(f[i - 1], k[i], v[i])

LEMMA UnpackedIs ==
    ASSUME NEW n \in Nat, NEW k, NEW v, AreVars(n, k, v),
           NEW f, IsUnpacked(n, k, v, f)
    PROVE  Unpacks(n, k, v, f)
<1>1. PICK step : step = SetAll(n, k, v)
    BY Zenon
<1>2. SetsAll(n, k, v, step)
    BY <1>1, SetAllIs, Zenon
<1>3. \A i \in 1 .. n : i # 0 /\ i \in 0 .. n
    OBVIOUS
<1>4. 0 \in 0 .. n
    OBVIOUS
<1>5. f = [i \in 0 .. n |-> f[i]] /\ f[0] = <<>>
    BY <1>4, Zenon DEF IsUnpacked
<1>6. \A i \in 1 .. n : f[i] = setVal(f[i - 1], k[i], v[i])
    BY <1>3, Zenon DEF IsUnpacked
<1>7. \A i \in 1 .. n : f[i - 1] \in Envs => f[i] = step[<<i, f[i - 1]>>]
    BY <1>2, <1>6, Zenon DEF SetsAll
<1>8. IsLoop(n, Envs, <<>>, step, f)
    BY <1>2, <1>5, <1>7, LoopTyped, Zenon DEF SetsAll
<1>9. \A i \in 0 .. n : f[i] \in Envs
    BY <1>8, Zenon DEF IsLoop
<1>. QED  BY <1>5, <1>6, <1>9, Zenon DEF Envs, Unpacks

(* What execve passes on has every variable once. *)
LEMMA UnpackEnvpIs ==
    ASSUME NEW envp \in Seq(Binding)
    PROVE  IsEnv(UnpackEnvp(envp))
<1>1. PICK n \in Nat : n = Len(envp)
    BY LenProperties
<1>2. PICK k, v : k = [i \in 1 .. n |-> envp[i].key] /\ v = [i \in 1 .. n |-> envp[i].val]
    BY Zenon
<1>3. AreVars(n, k, v)
    <2>1. \A i \in 1 .. n : envp[i] \in Binding
        BY <1>1, ElementOfSeq, Zenon
    <2>2. \A i \in 1 .. n : envp[i].key \in Text /\ envp[i].val \in Val
        BY <2>1 DEF Binding
    <2>. QED  BY <1>2, <2>2, Zenon DEF AreVars
<1>. DEFINE round(f) == [i \in 0 .. n |-> IF i = 0 THEN <<>>
                                          ELSE setVal(f[i - 1], envp[i].key, envp[i].val)]
            unpacked == CHOOSE f : f = round(f)
<1>4. \A i \in 0 .. n : i # 0 => i \in 1 .. n
    BY <1>1
<1>5. ASSUME NEW f PROVE IsUnpacked(n, k, v, f) <=> f = round(f)
    <2>1. \A i \in 0 .. n :
            (IF i = 0 THEN <<>> ELSE setVal(f[i - 1], k[i], v[i]))
              = IF i = 0 THEN <<>> ELSE setVal(f[i - 1], envp[i].key, envp[i].val)
        BY <1>2, <1>4, Zenon
    <2>2. [i \in 0 .. n |-> IF i = 0 THEN <<>> ELSE setVal(f[i - 1], k[i], v[i])] = round(f)
        BY <2>1, Zenon
    <2>. HIDE DEF round
    <2>. QED  BY <2>2, Zenon DEF IsUnpacked
<1>6. UnpackEnvp(envp) = unpacked[n]
    BY <1>1, Zenon DEF UnpackEnvp
<1>7. IsUnpacked(n, k, v, unpacked)
    <2>. HIDE DEF round
    <2>1. \E f : f = round(f)
        BY <1>3, <1>5, UnpackedExists, Zenon
    <2>2. unpacked = round(unpacked)
        BY <2>1, Zenon
    <2>. QED  BY <1>5, <2>2, Zenon
<1>. HIDE DEF unpacked
<1>8. n \in 0 .. n
    BY <1>1
<1>9. Unpacks(n, k, v, unpacked)
    BY <1>3, <1>7, UnpackedIs, Zenon
<1>. QED  BY <1>6, <1>8, <1>9, Zenon DEF Unpacks

(* What Pack writes. *)
LEMMA PackIs ==
    ASSUME NEW e \in Seq(Binding), NEW n \in Nat, n = Len(e), NEW buffer, buffer = Pack(e)
    PROVE  /\ Len(buffer) \div 2 = n
           /\ \A i \in 1 .. n : buffer[2 * i - 1] = e[i].key /\ buffer[2 * i] = e[i].val
<1>1. buffer = [i \in 1 .. 2 * n |-> IF i % 2 = 1 THEN e[(i + 1) \div 2].key ELSE e[i \div 2].val]
    BY Zenon DEF Pack
<1>2. Len(buffer) = 2 * n
    BY <1>1
<1>3. (2 * n) \div 2 = n
    OBVIOUS
<1>4. ASSUME NEW i \in 1 .. n PROVE buffer[2 * i - 1] = e[i].key /\ buffer[2 * i] = e[i].val
    <2>1. /\ 2 * i - 1 \in 1 .. 2 * n /\ (2 * i - 1) % 2 = 1 /\ (2 * i - 1 + 1) \div 2 = i
          /\ 2 * i \in 1 .. 2 * n /\ (2 * i) % 2 # 1 /\ (2 * i) \div 2 = i
        OBVIOUS
    <2>. QED  BY <1>1, <2>1, Zenon
<1>. QED  BY <1>2, <1>3, <1>4, Zenon

(* An environment survives Pack and Unpack. *)
LEMMA UnpackOfPack ==
    ASSUME NEW e, IsEnv(e)
    PROVE  Unpack(Pack(e)) = e
<1>1. PICK n \in Nat : n = Len(e) /\ DOMAIN e = 1 .. n /\ e \in Seq(Binding)
    BY LenProperties DEF IsEnv
<1>2. PICK k, v : k = [i \in 1 .. n |-> e[i].key] /\ v = [i \in 1 .. n |-> e[i].val]
    BY Zenon
<1>3. AreVars(n, k, v)
    <2>1. \A i \in 1 .. n : e[i] \in Binding
        BY <1>1, ElementOfSeq, Zenon
    <2>2. \A i \in 1 .. n : e[i].key \in Text /\ e[i].val \in Val
        BY <2>1 DEF Binding
    <2>. QED  BY <1>2, <2>2, Zenon DEF AreVars
<1>4. PICK buffer : buffer = Pack(e)
    BY Zenon
<1>5. /\ Len(buffer) \div 2 = n
      /\ \A i \in 1 .. n : buffer[2 * i - 1] = e[i].key /\ buffer[2 * i] = e[i].val
    BY <1>1, <1>4, PackIs
<1>. DEFINE round(f) == [i \in 0 .. n |-> IF i = 0 THEN <<>>
                                          ELSE setVal(f[i - 1], buffer[2 * i - 1], buffer[2 * i])]
            unpacked == CHOOSE f : f = round(f)
<1>6. \A i \in 0 .. n : i # 0 => i \in 1 .. n
    BY <1>1
<1>7. ASSUME NEW f PROVE IsUnpacked(n, k, v, f) <=> f = round(f)
    <2>1. \A i \in 0 .. n :
            (IF i = 0 THEN <<>> ELSE setVal(f[i - 1], k[i], v[i]))
              = IF i = 0 THEN <<>> ELSE setVal(f[i - 1], buffer[2 * i - 1], buffer[2 * i])
        BY <1>2, <1>5, <1>6, Zenon
    <2>2. [i \in 0 .. n |-> IF i = 0 THEN <<>> ELSE setVal(f[i - 1], k[i], v[i])] = round(f)
        BY <2>1, Zenon
    <2>. HIDE DEF round
    <2>. QED  BY <2>2, Zenon DEF IsUnpacked
<1>8. Unpack(buffer) = unpacked[n]
    BY <1>5, Zenon DEF Unpack
<1>9. IsUnpacked(n, k, v, unpacked)
    <2>. HIDE DEF round
    <2>1. \E f : f = round(f)
        BY <1>3, <1>7, UnpackedExists, Zenon
    <2>2. unpacked = round(unpacked)
        BY <2>1, Zenon
    <2>. QED  BY <1>7, <2>2, Zenon
<1>. HIDE DEF unpacked
<1>10. Unpacks(n, k, v, unpacked)
    BY <1>3, <1>9, UnpackedIs, Zenon
<1>11. \A i \in 0 .. n : unpacked[i] = SubSeq(e, 1, i)
    <2>1. PICK T : T = {i \in 0 .. n : unpacked[i] # SubSeq(e, 1, i)}
        BY Zenon
    <2>2. SUFFICES ASSUME T # {} PROVE FALSE
        BY <2>1, Zenon
    <2>3. PICK j \in T : \A x \in T : j <= x
        <3>1. T \subseteq Nat
            BY <2>1
        <3>. QED  BY <2>2, <3>1, Least, Zenon
    <2>4. j \in 0 .. n /\ unpacked[j] # SubSeq(e, 1, j)
        BY <2>1, <2>3, Zenon
    <2>5. j # 0
        <3>1. SubSeq(e, 1, 0) = <<>>
            BY <1>1, SubSeqEmpty
        <3>. QED  BY <1>10, <2>4, <3>1, Zenon DEF Unpacks
    <2>6. j \in 1 .. n /\ j - 1 \in 0 .. n /\ ~(j <= j - 1)
        BY <2>4, <2>5
    <2>7. PICK p : p = SubSeq(e, 1, j - 1)
        BY Zenon
    <2>8. unpacked[j - 1] = p
        BY <2>1, <2>3, <2>6, <2>7, Zenon
    <2>9. p \in Seq(Binding) /\ Len(p) = j - 1 /\ \A i \in 1 .. j - 1 : p[i] = e[i]
        <3>1. \A i \in 1 .. j - 1 : e[i] \in Binding
            BY <1>1, <2>6
        <3>. QED  BY <1>1, <2>6, <2>7, <3>1, SubSeqProperties
    <2>10. ~HasVal(p, e[j].key)
        <3>1. \A i \in DOMAIN p : i \in 1 .. j - 1
            BY <2>9, LenProperties
        <3>2. \A i \in 1 .. j - 1 : i \in DOMAIN e /\ i # j
            BY <1>1, <2>6
        <3>3. j \in DOMAIN e
            BY <1>1, <2>6
        <3>. QED  BY <2>9, <3>1, <3>2, <3>3, Zenon DEF HasVal, IsEnv
    <2>11. unpacked[j] = Append(p, [key |-> e[j].key, val |-> e[j].val])
        BY <1>2, <1>10, <2>6, <2>8, <2>10, Zenon DEF Unpacks, setVal
    <2>12. e[j] \in Binding /\ [key |-> e[j].key, val |-> e[j].val] = e[j]
        <3>1. e[j] \in Binding
            BY <1>1, <2>6, ElementOfSeq, Zenon
        <3>. QED  BY <3>1 DEF Binding
    <2>13. SubSeq(e, 1, j) = Append(p, e[j])
        <3>1. 1 \in 1 .. Len(e) /\ j \in 1 .. Len(e)
            BY <1>1, <2>6
        <3>2. SubSeq(e, 1, j) = p \o <<e[j]>>
            BY <1>1, <2>7, <3>1, SubSeqRecursiveSecond
        <3>. QED  BY <2>9, <2>12, <3>2, AppendIsConcat
    <2>. QED  BY <2>4, <2>11, <2>12, <2>13, Zenon
<1>12. SubSeq(e, 1, n) = e /\ n \in 0 .. n
    BY <1>1, SubSeqFull
<1>. QED  BY <1>4, <1>8, <1>11, <1>12, Zenon

-----------------------------------------------------------------------------
(* Paths. *)

(* The path of an entry: "./" and names, perhaps with a slash at the end. *)
IsArchivePath(p) ==
    /\ p \in Seq(Text)
    /\ Len(p) >= 2 /\ p[1] = "." /\ p[Len(p)] # "."
    /\ \A i \in 2 .. Len(p) - 1 : p[i] \notin {"", "."}

AreNames(n) == n \in Seq(Text) /\ \A i \in 1 .. Len(n) : n[i] \notin {"", "."}

LastName(p) == IF p[Len(p)] = "" THEN Len(p) - 1 ELSE Len(p)

(* The rounds of Names. *)
KeptNames(n, p) ==
    [x \in (1 .. n) \X Seq(Text) |->
        IF p[x[1]] \in {"", "."} THEN x[2] ELSE Append(x[2], p[x[1]])]

LEMMA NamesLoop ==
    ASSUME NEW p \in Seq(Text)
    PROVE  \E f : /\ f[0] = <<>>
                  /\ \A i \in 1 .. Len(p) : f[i] = IF p[i] \in {"", "."} THEN f[i - 1]
                                                   ELSE Append(f[i - 1], p[i])
                  /\ Names(p) = f[Len(p)]
<1>1. PICK n \in Nat : n = Len(p)
    BY LenProperties
<1>2. \A i \in 1 .. n : p[i] \in Text
    BY <1>1, ElementOfSeq, Zenon
<1>. DEFINE round(f) == [i \in 0 .. n |->
                            IF i = 0 THEN <<>>
                            ELSE IF p[i] \in {"", "."} THEN f[i - 1]
                            ELSE Append(f[i - 1], p[i])]
            names == CHOOSE f : f = round(f)
<1>3. PICK step : step = KeptNames(n, p)
    BY Zenon
<1>4. \A i \in 1 .. n, q \in Seq(Text) :
        step[<<i, q>>] = IF p[i] \in {"", "."} THEN q ELSE Append(q, p[i])
    BY <1>3 DEF KeptNames
<1>5. step \in [(1 .. n) \X Seq(Text) -> Seq(Text)] /\ <<>> \in Seq(Text)
    BY <1>2, <1>3, AppendProperties, EmptySeq DEF KeptNames
<1>6. PICK f : IsLoop(n, Seq(Text), <<>>, step, f)
    BY <1>5, LoopExists, Zenon
<1>7. f = round(f)
    <2>1. f = [i \in 0 .. n |-> f[i]]
        BY <1>6, Zenon DEF IsLoop
    <2>2. \A i \in 0 .. n : i # 0 => i \in 1 .. n /\ i - 1 \in 0 .. n
        BY <1>1
    <2>3. \A i \in 0 .. n : f[i] \in Seq(Text)
        BY <1>6, Zenon DEF IsLoop
    <2>4. \A i \in 0 .. n : f[i] = IF i = 0 THEN <<>>
                            ELSE IF p[i] \in {"", "."} THEN f[i - 1]
                            ELSE Append(f[i - 1], p[i])
        BY <1>4, <1>6, <2>2, <2>3, Zenon DEF IsLoop
    <2>. QED  BY <2>1, <2>4, Zenon
<1>8. names = round(names)
    <2>. HIDE DEF round
    <2>. QED  BY <1>7, Zenon
<1>9. Names(p) = names[n]
    BY <1>1, Zenon DEF Names
<1>. HIDE DEF names
<1>10. (\A i \in 1 .. n : i # 0 /\ i \in 0 .. n) /\ 0 \in 0 .. n
    BY <1>1
<1>11. /\ names[0] = <<>>
       /\ \A i \in 1 .. n : names[i] = IF p[i] \in {"", "."} THEN names[i - 1]
                                       ELSE Append(names[i - 1], p[i])
    BY <1>8, <1>10, Zenon
<1>. QED  BY <1>1, <1>9, <1>11, Zenon

(* The names are what is left without the dot and the slash at the end. *)
HasNames(p, l, names) ==
    /\ AreNames(names)
    /\ l \in 1 .. Len(p)
    /\ Len(names) = l - 1
    /\ \A i \in 1 .. l - 1 : names[i] = p[i + 1]

LEMMA NamesIs ==
    ASSUME NEW p, IsArchivePath(p)
    PROVE  HasNames(p, LastName(p), Names(p))
<1>1. PICK n \in Nat : n = Len(p) /\ p \in Seq(Text) /\ n >= 2
    BY LenProperties DEF IsArchivePath
<1>2. PICK f : /\ f[0] = <<>>
               /\ \A i \in 1 .. n : f[i] = IF p[i] \in {"", "."} THEN f[i - 1]
                                           ELSE Append(f[i - 1], p[i])
               /\ Names(p) = f[n]
    BY <1>1, NamesLoop, Zenon
<1>3. f[1] = <<>>
    <2>1. 1 \in 1 .. n /\ 1 - 1 = 0
        BY <1>1
    <2>2. p[1] = "."
        BY DEF IsArchivePath
    <2>3. f[1] = f[1 - 1]
        BY <1>2, <2>1, <2>2
    <2>. QED  BY <1>2, <2>1, <2>3
<1>4. SubSeq(p, 2, 1) = <<>>
    BY SubSeqEmpty
<1>5. \A i \in 2 .. n : SubSeq(p, 2, i) = Append(SubSeq(p, 2, i - 1), p[i])
    <2>1. SUFFICES ASSUME NEW i \in 2 .. n
                   PROVE  SubSeq(p, 2, i) = Append(SubSeq(p, 2, i - 1), p[i])
        BY Zenon
    <2>2. 2 \in 1 .. Len(p) /\ i \in 2 .. Len(p)
        BY <1>1
    <2>3. SubSeq(p, 2, i) = SubSeq(p, 2, i - 1) \o <<p[i]>>
        BY <1>1, <2>2, SubSeqRecursiveSecond
    <2>4. \A j \in 2 .. i - 1 : p[j] \in Text
        BY <1>1
    <2>5. SubSeq(p, 2, i - 1) \in Seq(Text) /\ p[i] \in Text
        BY <1>1, <2>4, SubSeqProperties
    <2>. QED  BY <2>3, <2>5, AppendIsConcat
<1>6. \A i \in 1 .. n - 1 : f[i] = SubSeq(p, 2, i)
    <2>1. PICK T : T = {i \in 1 .. n - 1 : f[i] # SubSeq(p, 2, i)}
        BY Zenon
    <2>2. SUFFICES ASSUME T # {} PROVE FALSE
        BY <2>1, Zenon
    <2>3. PICK j \in T : \A x \in T : j <= x
        <3>1. T \subseteq Nat
            BY <1>1, <2>1
        <3>. QED  BY <2>2, <3>1, Least, Zenon
    <2>4. j \in 1 .. n - 1 /\ f[j] # SubSeq(p, 2, j) /\ j # 1
        BY <1>3, <1>4, <2>1, <2>3, Zenon
    <2>5. j \in 2 .. n /\ j - 1 \in 1 .. n - 1 /\ ~(j <= j - 1) /\ j \in 1 .. n /\ j \in 2 .. Len(p) - 1
        BY <1>1, <2>4
    <2>6. f[j - 1] = SubSeq(p, 2, j - 1)
        BY <2>1, <2>3, <2>5, Zenon
    <2>7. f[j] = Append(f[j - 1], p[j])
        BY <1>2, <2>5, Zenon DEF IsArchivePath
    <2>. QED  BY <1>5, <2>4, <2>5, <2>6, <2>7, Zenon
<1>7. n \in 1 .. n /\ n \in 2 .. n /\ n - 1 \in 1 .. n - 1 /\ p[n] # "."
    <2>1. p[n] # "."
        BY <1>1, Zenon DEF IsArchivePath
    <2>. QED  BY <1>1, <2>1
<1>8. Names(p) = SubSeq(p, 2, LastName(p))
    <2>1. CASE p[n] = ""
        <3>1. f[n] = f[n - 1] /\ LastName(p) = n - 1
            BY <1>1, <1>2, <1>7, <2>1, Zenon DEF LastName
        <3>. QED  BY <1>2, <1>6, <1>7, <3>1, Zenon
    <2>2. CASE p[n] # ""
        <3>1. f[n] = Append(f[n - 1], p[n]) /\ LastName(p) = n
            BY <1>1, <1>2, <1>7, <2>2, Zenon DEF LastName
        <3>. QED  BY <1>2, <1>5, <1>6, <1>7, <3>1, Zenon
    <2>. QED  BY <2>1, <2>2
<1>9. PICK l \in 1 .. n : l = LastName(p)
    <2>1. LastName(p) = IF p[n] = "" THEN n - 1 ELSE n
        BY <1>1, Zenon DEF LastName
    <2>2. n \in 1 .. n /\ n - 1 \in 1 .. n
        BY <1>1
    <2>. QED  BY <2>1, <2>2, Zenon
<1>10. \A i \in 2 .. l : p[i] \in Text /\ p[i] \notin {"", "."}
    <2>1. SUFFICES ASSUME NEW i \in 2 .. l PROVE p[i] \in Text /\ p[i] \notin {"", "."}
        BY Zenon
    <2>2. i \in 1 .. Len(p) /\ i \in 2 .. n
        BY <1>1
    <2>3. CASE i = n
        <3>1. l = n
            BY <1>1, <2>3
        <3>2. n - 1 # n
            BY <1>1
        <3>3. p[n] # ""
            BY <1>1, <1>9, <3>1, <3>2, Zenon DEF LastName
        <3>. QED  BY <1>1, <1>7, <2>2, <2>3, <3>3, ElementOfSeq, Zenon
    <2>4. CASE i # n
        <3>1. i \in 2 .. Len(p) - 1
            BY <1>1, <2>2, <2>4
        <3>. QED  BY <1>1, <2>2, <3>1, ElementOfSeq, Zenon DEF IsArchivePath
    <2>. QED  BY <2>3, <2>4
<1>11. PICK q : q = SubSeq(p, 2, l)
    BY Zenon
<1>12. q \in Seq(Text) /\ Len(q) = l - 1 /\ \A i \in 1 .. l - 1 : q[i] = p[i + 1]
    <2>1. l \in Int /\ 2 \in Int /\ l - 2 + 1 = l - 1 /\ (2 <= l \/ l = 1)
        BY <1>1
    <2>2. /\ q \in Seq(Text) /\ Len(q) = IF 2 <= l THEN l - 2 + 1 ELSE 0
          /\ \A i \in 1 .. l - 2 + 1 : q[i] = p[2 + i - 1]
        <3>1. \A i \in 2 .. l : p[i] \in Text
            BY <1>10, Zenon
        <3>. QED  BY <1>11, <2>1, <3>1, SubSeqProperties
    <2>3. Len(q) = l - 1
        BY <2>1, <2>2
    <2>4. \A i \in 1 .. l - 1 : 2 + i - 1 = i + 1
        OBVIOUS
    <2>. QED  BY <2>1, <2>2, <2>3, <2>4, Zenon
<1>13. q = Names(p)
    BY <1>8, <1>9, <1>11, Zenon
<1>14. AreNames(q)
    <2>1. \A i \in 1 .. Len(q) : i \in 1 .. l - 1 /\ i + 1 \in 2 .. l
        BY <1>1, <1>12
    <2>. QED  BY <1>10, <1>12, <2>1, Zenon DEF AreNames
<1>. QED  BY <1>1, <1>9, <1>12, <1>13, <1>14, Zenon DEF HasNames


(* CleanPath stops at the last part that is not empty. *)
EndsAt(q, k) == (k = 1 \/ q[k] # "") /\ \A j \in k + 1 .. Len(q) : q[j] = ""
WithoutDot(p) == IF Len(p) >= 2 /\ p[1] = "." THEN Tail(p) ELSE p

LEMMA CleanPathIs ==
    ASSUME NEW p, NEW q \in Seq(Text), q = WithoutDot(p), q # Root,
           NEW k \in 1 .. Len(q), EndsAt(q, k)
    PROVE  CleanPath(p) = SubSeq(q, 1, k)
<1>1. PICK n \in Nat : n = Len(q) /\ DOMAIN q = 1 .. n
    BY LenProperties
<1>2. PICK D : D = {i \in DOMAIN q : (i = 1 \/ q[i] # "") /\ \A j \in i + 1 .. Len(q) : q[j] = ""}
    BY Zenon
<1>3. k \in D
    BY <1>1, <1>2, Zenon DEF EndsAt
<1>4. ASSUME NEW i \in D PROVE i = k
    <2>1. /\ i \in 1 .. n /\ (i = 1 \/ q[i] # "")
          /\ \A j \in i + 1 .. n : q[j] = ""
        BY <1>1, <1>2, Zenon
    <2>2. i \in 1 .. n
        BY <2>1, Zenon
    <2>3. CASE i < k
        <3>1. k \in i + 1 .. n /\ k # 1
            BY <1>1, <2>3, <2>2
        <3>. QED  BY <2>1, <3>1, Zenon DEF EndsAt
    <2>4. CASE k < i
        <3>1. i \in k + 1 .. n /\ i # 1
            BY <1>1, <2>4, <2>2
        <3>. QED  BY <1>1, <2>1, <3>1, Zenon DEF EndsAt
    <2>. QED  BY <1>1, <2>3, <2>4, <2>2
<1>5. (CHOOSE i \in DOMAIN q : (i = 1 \/ q[i] # "") /\ \A j \in i + 1 .. Len(q) : q[j] = "") = k
    BY <1>2, <1>3, <1>4, Zenon
<1>. QED  BY <1>5, Zenon DEF CleanPath, WithoutDot

(* Names are clean, with or without the slash of the root in front of them. *)
LEMMA CleanNames ==
    ASSUME NEW n, AreNames(n), n # <<>>
    PROVE  CleanPath(n) = n
<1>1. PICK k \in Nat : k = Len(n) /\ n \in Seq(Text) /\ k # 0 /\ k \in 1 .. Len(n)
    <2>1. n \in Seq(Text)
        BY Zenon DEF AreNames
    <2>2. Len(n) \in Nat \ {0}
        BY <2>1, EmptySeq
    <2>3. Len(n) \in 1 .. Len(n)
        BY <2>2
    <2>. QED  BY <2>1, <2>2, <2>3
<1>2. 1 \in 1 .. Len(n)
    BY <1>1
<1>3. n[1] \notin {"", "."} /\ n[k] # ""
    BY <1>1, <1>2 DEF AreNames
<1>4. n # Root /\ n = WithoutDot(n)
    <2>1. Root[1] = ""
        BY DEF Root
    <2>. QED  BY <1>3, <2>1, Zenon DEF WithoutDot
<1>5. EndsAt(n, k)
    <2>1. \A j \in k + 1 .. Len(n) : FALSE
        BY <1>1
    <2>. QED  BY <1>3, <2>1, Zenon DEF EndsAt
<1>6. CleanPath(n) = SubSeq(n, 1, k)
    BY <1>1, <1>3, <1>4, <1>5, CleanPathIs, Zenon
<1>. QED  BY <1>1, <1>6, SubSeqFull, Zenon

LEMMA SingleIs ==
    ASSUME NEW S, NEW x \in S
    PROVE  <<x>> \in Seq(S) /\ Len(<<x>>) = 1 /\ <<x>>[1] = x
    OBVIOUS

IsRooted(p, n) == p = <<"">> \o n

LEMMA CleanAbsPath ==
    ASSUME NEW n, AreNames(n), n # <<>>, NEW p, IsRooted(p, n)
    PROVE  CleanPath(p) = p /\ Tail(p) = n /\ p # Root /\ IsAbsPath(p)
<1>1. PICK k \in Nat : k = Len(n) /\ n \in Seq(Text) /\ k # 0
    <2>1. n \in Seq(Text)
        BY Zenon DEF AreNames
    <2>2. Len(n) \in Nat \ {0}
        BY <2>1, EmptySeq
    <2>. QED  BY <2>1, <2>2
<1>2. /\ p \in Seq(Text) /\ Len(p) = k + 1 /\ p[1] = ""
      /\ \A i \in 1 .. k : p[i + 1] = n[i]
    <2>1. PICK e : e = <<"">>
        BY Zenon
    <2>2. e \in Seq(Text) /\ Len(e) = 1 /\ e[1] = ""
        <3>1. "" \in Text
            BY DEF Text
        <3>. QED  BY <2>1, <3>1, SingleIs, Zenon
    <2>3. Len(e) = 1
        BY <2>2, Zenon
    <2>4. PICK q : q = e \o n
        BY Zenon
    <2>5. /\ q \in Seq(Text) /\ Len(q) = Len(e) + Len(n)
          /\ \A i \in 1 .. Len(e) + Len(n) : q[i] = IF i <= Len(e) THEN e[i] ELSE n[i - Len(e)]
        BY <1>1, <2>2, <2>4, ConcatProperties, Zenon
    <2>6. Len(q) = Len(e) + Len(n)
        BY <2>5, Zenon
    <2>7. Len(q) = k + 1 /\ 1 \in 1 .. Len(e) + Len(n) /\ 1 <= Len(e)
        BY <1>1, <2>3, <2>6
    <2>8. \A i \in 1 .. k : i + 1 \in 1 .. Len(e) + Len(n) /\ ~(i + 1 <= Len(e)) /\ i + 1 - Len(e) = i
        BY <1>1, <2>3
    <2>9. q[1] = "" /\ \A i \in 1 .. k : q[i + 1] = n[i]
        <3>1. q[1] = e[1]
            BY <2>5, <2>7, Zenon
        <3>2. \A i \in 1 .. k : q[i + 1] = n[i]
            <4>1. SUFFICES ASSUME NEW i \in 1 .. k PROVE q[i + 1] = n[i]
                BY Zenon
            <4>2. PICK j : j = i + 1 /\ j \in 1 .. Len(e) + Len(n) /\ ~(j <= Len(e)) /\ j - Len(e) = i
                BY <2>8
            <4>3. q[j] = n[j - Len(e)]
                BY <2>5, <4>2, Zenon
            <4>. QED  BY <4>2, <4>3, Zenon
        <3>. QED  BY <2>2, <3>1, <3>2, Zenon
    <2>10. p = q
        BY <2>1, <2>4, Zenon DEF IsRooted
    <2>. QED  BY <2>5, <2>7, <2>9, <2>10, Zenon
<1>3. 1 \in 1 .. Len(n) /\ k \in 1 .. Len(n) /\ k \in 1 .. k /\ 1 \in 1 .. k
    BY <1>1
<1>4. p[k + 1] # "" /\ p[1 + 1] # ""
    BY <1>2, <1>3, Zenon DEF AreNames
<1>5. p # Root /\ p # <<"">>
    <2>1. Root[2] = ""
        BY DEF Root
    <2>2. Len(<<"">>) = 1 /\ Len(p) = k + 1
        BY <1>2, SingleIs, Zenon
    <2>3. 1 + 1 = 2 /\ k + 1 # 1
        BY <1>1
    <2>. QED  BY <1>4, <2>1, <2>2, <2>3, Zenon
<1>6. p = WithoutDot(p)
    BY <1>2, Zenon DEF WithoutDot
<1>7. k + 1 \in 1 .. Len(p) /\ EndsAt(p, k + 1)
    <2>1. Len(p) = k + 1
        BY <1>2, Zenon
    <2>2. k + 1 \in 1 .. Len(p) /\ \A j \in k + 1 + 1 .. Len(p) : FALSE
        BY <1>1, <2>1
    <2>. QED  BY <1>4, <2>2, Zenon DEF EndsAt
<1>8. CleanPath(p) = SubSeq(p, 1, k + 1)
    BY <1>2, <1>4, <1>5, <1>6, <1>7, CleanPathIs, Zenon
<1>9. CleanPath(p) = p
    BY <1>2, <1>8, SubSeqFull, Zenon
<1>10. Tail(p) = n
    <2>1. PICK t : t = Tail(p)
        BY Zenon
    <2>2. Len(p) = k + 1 /\ p \in Seq(Text)
        BY <1>2, Zenon
    <2>3. p # <<>>
        BY <1>1, <2>2
    <2>4. t \in Seq(Text) /\ Len(t) = Len(p) - 1 /\ \A i \in 1 .. Len(t) : t[i] = p[i + 1]
        BY <2>1, <2>2, <2>3, HeadTailProperties, Zenon
    <2>5. Len(t) = k
        <3>1. Len(t) = Len(p) - 1
            BY <2>4, Zenon
        <3>. QED  BY <1>1, <2>2, <3>1
    <2>. QED  BY <1>1, <1>2, <2>1, <2>4, <2>5, SeqEqual, Zenon
<1>. QED  BY <1>2, <1>5, <1>9, <1>10, Zenon DEF IsAbsPath, IsEmpty

(* CleanPath leaves the names of an entry, or nothing for the root. *)
LEMMA CleanArchivePath ==
    ASSUME NEW p, IsArchivePath(p)
    PROVE  CleanPath(p) = IF Names(p) = <<>> THEN <<"">> ELSE Names(p)
<1>1. p \in Seq(Text) /\ p[1] = "."
    BY Zenon DEF IsArchivePath
<1>2. PICK n \in Nat : n = Len(p) /\ n >= 2
    BY <1>1, LenProperties DEF IsArchivePath
<1>3. PICK q, l, names : q = Tail(p) /\ l = LastName(p) /\ names = Names(p)
    BY Zenon
<1>4. p # <<>>
    BY <1>2, EmptySeq
<1>5. q \in Seq(Text) /\ Len(q) = n - 1 /\ \A i \in 1 .. Len(q) : q[i] = p[i + 1]
    BY <1>1, <1>2, <1>3, <1>4, HeadTailProperties, Zenon
<1>6. q = WithoutDot(p)
    BY <1>1, <1>2, <1>3, Zenon DEF WithoutDot
<1>7. HasNames(p, l, names)
    BY <1>3, NamesIs, Zenon
<1>8. l \in 1 .. n /\ Len(names) = l - 1 /\ names \in Seq(Text) /\ Len(q) = n - 1
    BY <1>2, <1>5, <1>7, Zenon DEF HasNames, AreNames
<1>9. (l = n /\ p[n] # "") \/ (l = n - 1 /\ p[n] = "")
    BY <1>2, <1>3, Zenon DEF LastName
<1>10. CASE l = 1
    <2>1. l # n /\ Len(names) = 0 /\ n - 1 = l
        <3>1. l = n \/ l = n - 1
            BY <1>9, Zenon
        <3>. QED  BY <1>2, <1>8, <1>10, <3>1
    <2>2. names = <<>>
        BY <1>8, <2>1, EmptySeq
    <2>3. 1 \in 1 .. Len(q) /\ 1 + 1 = n /\ Len(q) = 1 /\ \A j \in 1 + 1 .. Len(q) : FALSE
        <3>1. n - 1 = 1 /\ Len(q) = n - 1
            BY <1>8, <1>10, <2>1, Zenon
        <3>2. n = 2 /\ Len(q) = 1
            BY <3>1
        <3>. QED  BY <3>2
    <2>4. q[1] = ""
        <3>1. q[1] = p[1 + 1]
            BY <1>5, <2>3, Zenon
        <3>. QED  BY <1>9, <2>1, <2>3, <3>1, Zenon
    <2>5. q # Root
        <3>1. Len(Root) = 2
            BY DEF Root
        <3>2. Len(q) # Len(Root)
            BY <2>3, <3>1
        <3>. QED  BY <3>2, Zenon
    <2>6. EndsAt(q, 1)
        BY <2>3, Zenon DEF EndsAt
    <2>7. CleanPath(p) = SubSeq(q, 1, 1)
        BY <1>5, <1>6, <2>3, <2>5, <2>6, CleanPathIs, Zenon
    <2>8. SubSeq(q, 1, 1) = q
        BY <1>5, <2>3, SubSeqFull
    <2>9. q = <<"">>
        <3>1. PICK e : e = <<"">>
            BY Zenon
        <3>2. "" \in Text
            BY DEF Text
        <3>3. e \in Seq(Text) /\ Len(e) = 1 /\ e[1] = ""
            BY <3>1, <3>2, SingleIs, Zenon
        <3>4. Len(e) = 1
            BY <3>3, Zenon
        <3>5. Len(q) = Len(e) /\ \A i \in 1 .. Len(q) : i = 1
            BY <2>3, <3>4
        <3>. QED  BY <1>5, <2>4, <3>1, <3>3, <3>5, SeqEqual, Zenon
    <2>. QED  BY <1>3, <2>2, <2>7, <2>8, <2>9, Zenon
<1>11. CASE l # 1
    <2>1. PICK k : k = l - 1
        BY Zenon
    <2>2. k \in 1 .. l - 1 /\ k \in 1 .. Len(q) /\ k \in 1 .. Len(names) /\ 1 \in 1 .. l - 1
          /\ 1 \in 1 .. Len(q) /\ 1 \in 1 .. Len(names)
        BY <1>2, <1>8, <1>11, <2>1
    <2>3. \A i \in 1 .. l - 1 : i \in 1 .. Len(q) /\ i \in 1 .. Len(names)
        BY <1>2, <1>8
    <2>4. \A i \in 1 .. l - 1 : q[i] = names[i] /\ q[i] \notin {"", "."}
        BY <1>5, <1>7, <2>3, Zenon DEF HasNames, AreNames
    <2>5. q # Root
        <3>1. Root[1] = ""
            BY DEF Root
        <3>. QED  BY <2>2, <2>4, <3>1, Zenon
    <2>6. \A j \in k + 1 .. Len(q) : q[j] = ""
        <3>1. SUFFICES ASSUME NEW j \in k + 1 .. Len(q) PROVE q[j] = ""
            BY Zenon
        <3>2. l # n /\ j = n - 1 /\ j + 1 = n /\ j \in 1 .. Len(q)
            <4>1. l = n \/ l = n - 1
                BY <1>9, Zenon
            <4>. QED  BY <1>2, <1>8, <2>1, <4>1
        <3>. QED  BY <1>5, <1>9, <3>2, Zenon
    <2>7. EndsAt(q, k)
        BY <2>2, <2>4, <2>6, Zenon DEF EndsAt
    <2>8. CleanPath(p) = SubSeq(q, 1, k)
        BY <1>5, <1>6, <2>2, <2>5, <2>7, CleanPathIs, Zenon
    <2>9. PICK c : c = SubSeq(q, 1, k)
        BY Zenon
    <2>10. /\ c \in Seq(Text) /\ Len(c) = k
           /\ \A i \in 1 .. k : c[i] = q[i]
        <3>1. \A i \in 1 .. k : q[i] \in Text
            <4>1. \A i \in 1 .. k : i \in 1 .. Len(q)
                BY <2>1, <2>3
            <4>. QED  BY <1>5, <4>1, ElementOfSeq, Zenon
        <3>. QED  BY <1>8, <2>1, <2>2, <2>9, <3>1, SubSeqProperties, SMTT(30)
    <2>11. c = names
        <3>1. Len(c) = k
            BY <2>10, Zenon
        <3>2. Len(c) = Len(names) /\ \A i \in 1 .. Len(c) : i \in 1 .. k /\ i \in 1 .. l - 1
            BY <1>8, <2>1, <3>1
        <3>3. \A i \in 1 .. Len(c) : c[i] = names[i]
            BY <2>4, <2>10, <3>2, Zenon
        <3>. QED  BY <1>8, <2>10, <3>2, <3>3, SeqEqual, Zenon
    <2>12. names # <<>>
        BY <1>8, <2>2, EmptySeq
    <2>. QED  BY <1>3, <2>8, <2>9, <2>11, <2>12, Zenon
<1>. QED  BY <1>10, <1>11

-----------------------------------------------------------------------------
(* The tree. *)

(* The prefixes of names. *)
ArePrefixes(t, P) ==
    /\ t \in P /\ <<>> \in P
    /\ \A d \in P : AreNames(d) /\ (d # t => IsStrictPrefix(d, t))

LEMMA PrefixesAre ==
    ASSUME NEW t, AreNames(t)
    PROVE  ArePrefixes(t, Prefixes(t))
<1>1. t \in Seq(Text) /\ \A i \in 1 .. Len(t) : t[i] \in Text /\ t[i] \notin {"", "."}
    BY ElementOfSeq, Zenon DEF AreNames
<1>2. PICK n \in Nat : n = Len(t)
    BY <1>1, LenProperties
<1>3. Prefixes(t) = {SubSeq(t, 1, l) : l \in 0 .. n}
    BY <1>2, Zenon DEF Prefixes
<1>4. t \in Prefixes(t)
    <2>1. SubSeq(t, 1, n) = t
        BY <1>1, <1>2, SubSeqFull
    <2>2. n \in 0 .. n
        BY <1>2
    <2>. QED  BY <1>3, <2>1, <2>2, Zenon
<1>5. <<>> \in Prefixes(t)
    <2>1. SubSeq(t, 1, 0) = <<>>
        BY SubSeqEmpty
    <2>2. 0 \in 0 .. n
        BY <1>2
    <2>. QED  BY <1>3, <2>1, <2>2, Zenon
<1>6. ASSUME NEW d \in Prefixes(t) PROVE AreNames(d) /\ (d # t => IsStrictPrefix(d, t))
    <2>1. PICK l \in 0 .. n : d = SubSeq(t, 1, l)
        BY <1>3, Zenon
    <2>2. \A i \in 1 .. l : i \in 1 .. Len(t)
        BY <1>2
    <2>3. \A i \in 1 .. l : t[i] \in Text
        BY <1>1, <2>2, Zenon
    <2>4. d \in Seq(Text) /\ Len(d) = l /\ \A i \in 1 .. l : d[i] = t[i]
        BY <1>2, <2>1, <2>3, SubSeqProperties
    <2>5. AreNames(d)
        BY <1>1, <2>2, <2>4, Zenon DEF AreNames
    <2>. QED  BY <2>5, Zenon DEF IsStrictPrefix
<1>. QED  BY <1>4, <1>5, <1>6, Zenon DEF ArePrefixes

(* The empty sequence has no other prefix. *)
LEMMA NothingBeforeRoot ==
    ASSUME NEW d, AreNames(d)
    PROVE  ~IsStrictPrefix(d, <<>>)
<1>1. \A l \in 0 .. Len(<<>>) : SubSeq(<<>>, 1, l) = <<>>
    BY SubSeqEmpty
<1>. QED  BY <1>1, Zenon DEF IsStrictPrefix, Prefixes

(* What ArchiveAssumption says of an entry. *)
LEMMA ArchiveEntries ==
    ASSUME archive \in Archives, NEW e \in archive
    PROVE  /\ IsArchivePath(e.path)
           /\ AreNames(Names(e.path))
           /\ e.type \in {"dir", "file"}
           /\ Names(e.path) = <<>> => e.type = "dir"
           /\ IsEmpty(CleanPath(e.path)) <=> Names(e.path) = <<>>
           /\ Names(e.path) # <<>> => CleanPath(e.path) = Names(e.path)
<1>1. PICK p : p = e.path
    BY Zenon
<1>2. p \in Path /\ e.type \in {"dir", "file"}
    BY <1>1, ArchiveAssumption DEF ArchiveAssumption, IsArchive
<1>3. p \in Seq(Text)
    <2>1. p \in Seq(STRING)
        BY <1>2, Zenon DEF Path
    <2>2. STRING \subseteq Text
        BY Zenon DEF Text
    <2>. QED  BY <2>1, <2>2, SeqMonotonic, Zenon
<1>4. /\ Len(p) >= 2 /\ p[1] = "." /\ p[Len(p)] # "."
      /\ \A i \in 2 .. Len(p) - 1 : p[i] \notin {"", "."}
      /\ p[Len(p)] = "" => e.type = "dir"
    BY <1>1, ArchiveAssumption, Zenon DEF ArchiveAssumption, IsArchive
<1>5. IsArchivePath(p)
    BY <1>3, <1>4, Zenon DEF IsArchivePath
<1>6. PICK names, l : names = Names(p) /\ l = LastName(p)
    BY Zenon
<1>7. HasNames(p, l, names)
    BY <1>5, <1>6, NamesIs, Zenon
<1>8. AreNames(names) /\ Len(names) = l - 1 /\ names \in Seq(Text) /\ l \in 1 .. Len(p)
    BY <1>7, Zenon DEF HasNames, AreNames
<1>9. ASSUME names = <<>> PROVE e.type = "dir"
    <2>1. Len(names) = 0
        BY <1>9, EmptySeq
    <2>2. Len(p) \in Nat /\ Len(p) >= 2
        BY <1>3, <1>4, LenProperties, Zenon
    <2>3. l # Len(p)
        BY <1>8, <2>1, <2>2
    <2>. QED  BY <1>4, <1>6, <2>3, Zenon DEF LastName
<1>10. CleanPath(p) = IF names = <<>> THEN <<"">> ELSE names
    BY <1>5, <1>6, CleanArchivePath, Zenon
<1>11. ASSUME names # <<>> PROVE names # <<"">>
    <2>1. <<"">>[1] = ""
        OBVIOUS
    <2>2. 1 \in 1 .. Len(names)
        BY <1>8, <1>11, EmptySeq
    <2>. QED  BY <1>8, <2>1, <2>2, Zenon DEF AreNames
<1>. QED  BY <1>1, <1>2, <1>5, <1>6, <1>8, <1>9, <1>10, <1>11, Zenon DEF IsEmpty

(* Nodes are names, and the root is one of them. *)
LEMMA NodesAreNames ==
    ASSUME TreeInv
    PROVE  <<>> \in DOMAIN tree /\ \A n \in DOMAIN tree : AreNames(n)
<1>1. DOMAIN tree = {<<>>} \cup UNION {Prefixes(Names(e.path)) : e \in archive \ left}
    BY Zenon DEF TreeInv
<1>2. ASSUME NEW n \in DOMAIN tree PROVE AreNames(n)
    <2>1. CASE n = <<>>
        <3>1. <<>> \in Seq(Text) /\ Len(<<>>) = 0
            BY EmptySeq, Zenon
        <3>2. \A i \in 1 .. Len(<<>>) : FALSE
            BY <3>1
        <3>. QED  BY <2>1, <3>1, <3>2, Zenon DEF AreNames
    <2>2. CASE n # <<>>
        <3>1. PICK e \in archive : n \in Prefixes(Names(e.path))
            BY <1>1, <2>2, Zenon
        <3>2. AreNames(Names(e.path))
            BY ArchiveEntries, Zenon DEF TreeInv
        <3>. QED  BY <3>1, <3>2, PrefixesAre, Zenon DEF ArePrefixes
    <2>. QED  BY <2>1, <2>2
<1>. QED  BY <1>1, <1>2, Zenon

(* The tree grows and its nodes stay what they are. *)
Grows == \A n \in DOMAIN tree : n \in DOMAIN tree' /\ tree'[n] = tree[n]

(* An entry that is the root changes nothing. *)
LEMMA RootEntry ==
    ASSUME TreeInv, NEW e \in archive, InitVFS(e), HasItsSize(e), Names(e.path) = <<>>
    PROVE  TreeInv' /\ Grows /\ UNCHANGED <<status, child>>
<1>. archive \in Archives
    BY Zenon DEF TreeInv
<1>1. /\ e \in left /\ left' = left \ {e} /\ tree' = tree /\ status' = status /\ child' = child
      /\ archive' = archive
    <2>1. IsEmpty(CleanPath(e.path))
        BY ArchiveEntries, Zenon
    <2>. QED  BY <2>1, Zenon DEF InitVFS
<1>2. PICK R, S : R = archive \ left /\ S = archive \ left'
    BY Zenon
<1>3. S = R \cup {e} /\ left \subseteq archive /\ left' \subseteq archive /\ left' \subseteq left
    BY <1>1, <1>2, Zenon DEF TreeInv
<1>4. Prefixes(<<>>) = {<<>>}
    <2>1. AreNames(<<>>)
        BY ArchiveEntries, Zenon
    <2>2. ArePrefixes(<<>>, Prefixes(<<>>))
        BY <2>1, PrefixesAre, Zenon
    <2>. QED  BY <2>2, NothingBeforeRoot, Zenon DEF ArePrefixes
<1>5. DOMAIN tree' = {<<>>} \cup UNION {Prefixes(Names(f.path)) : f \in S}
    <2>1. DOMAIN tree = {<<>>} \cup UNION {Prefixes(Names(f.path)) : f \in R}
        BY <1>2, Zenon DEF TreeInv
    <2>2. UNION {Prefixes(Names(f.path)) : f \in S}
            = {<<>>} \cup UNION {Prefixes(Names(f.path)) : f \in R}
        BY <1>3, <1>4, Zenon
    <2>. QED  BY <1>1, <2>1, <2>2, Zenon
<1>6. tree[<<>>] = "dir"
    <2>1. \A f \in R : Names(f.path) # <<>>
        BY <1>1, <1>2, ArchiveAssumption, Zenon DEF ArchiveAssumption, IsArchive
    <2>2. <<>> \in DOMAIN tree
        BY NodesAreNames, Zenon
    <2>. QED  BY <1>2, <2>1, <2>2, Zenon DEF TreeInv
<1>7. \A f \in S : tree'[Names(f.path)] = f.type
    BY <1>1, <1>2, <1>3, <1>6, ArchiveEntries, Zenon DEF TreeInv
<1>8. \A n \in DOMAIN tree' : (\A f \in S : Names(f.path) # n) => tree'[n] = "dir"
    BY <1>1, <1>2, <1>3, Zenon DEF TreeInv
<1>9. TreeInv'
    BY <1>1, <1>2, <1>3, <1>5, <1>7, <1>8, Zenon DEF TreeInv
<1>. QED  BY <1>1, <1>9, Zenon DEF Grows

(* InitVFS stops: it changes nothing. *)
Stop == status' = "ended" /\ child' = <<>> /\ UNCHANGED <<left, tree>>

(* Any other makes its node and the directories above it.  No assert of Add fails
   if nothing below it came earlier: the node is new, since tar lists it once, and
   what is above it is no file. *)
LEMMA NamedEntry ==
    ASSUME TreeInv, NEW e \in archive, InitVFS(e), HasItsSize(e), Names(e.path) # <<>>
    PROVE  \/ TreeInv' /\ Grows /\ UNCHANGED <<status, child>>
           \/ Stopper(e) /\ Stop
<1>. archive \in Archives
    BY Zenon DEF TreeInv
<1>1. PICK node, P : node = Names(e.path) /\ P = Prefixes(node)
    BY Zenon
<1>2. CleanPath(e.path) = node /\ ~IsEmpty(CleanPath(e.path)) /\ AreNames(node)
    BY <1>1, ArchiveEntries, Zenon
<1>3. /\ e \in left /\ archive' = archive
      /\ \/ /\ MayAdd(node) /\ left' = left \ {e}
            /\ tree' = ParsePathRelative(node, e.type) /\ status' = status /\ child' = child
         \/ ~MayAdd(node) /\ Stop
    BY <1>2, Zenon DEF InitVFS, Stop
<1>4. node \in P /\ <<>> \in P /\ \A d \in P : d # node => IsStrictPrefix(d, node)
    BY <1>1, <1>2, PrefixesAre, Zenon DEF ArePrefixes
<1>5. PICK R : R = archive \ left
    BY Zenon
<1>6. /\ DOMAIN tree = {<<>>} \cup UNION {Prefixes(Names(f.path)) : f \in R}
      /\ \A f \in R : tree[Names(f.path)] = f.type
      /\ \A n \in DOMAIN tree : (\A f \in R : Names(f.path) # n) => tree[n] = "dir"
    BY <1>5, Zenon DEF TreeInv
<1>7. \A f \in R : f \in archive /\ f # e /\ Names(f.path) # node
    BY <1>1, <1>3, <1>5, ArchiveAssumption, Zenon DEF ArchiveAssumption, IsArchive
<1>8. \A f \in R : ArePrefixes(Names(f.path), Prefixes(Names(f.path)))
    BY <1>7, ArchiveEntries, PrefixesAre, Zenon
<1>9. \A f \in R : Names(f.path) \in DOMAIN tree
    BY <1>6, <1>8, Zenon DEF ArePrefixes
<1>10. CASE node \in DOMAIN tree
    <2>1. PICK f \in R : node \in Prefixes(Names(f.path))
        BY <1>1, <1>6, <1>10, Zenon
    <2>2. IsStrictPrefix(node, Names(f.path))
        BY <1>7, <1>8, <2>1, Zenon DEF ArePrefixes
    <2>3. Stopper(e)
        BY <1>1, <1>5, <2>2, Zenon DEF Stopper
    <2>. QED  BY <1>3, <1>10, <2>3, Zenon DEF MayAdd
<1>11. SUFFICES ASSUME node \notin DOMAIN tree
                PROVE  TreeInv' /\ Grows /\ UNCHANGED <<status, child>>
    BY <1>10, Zenon
<1>12. \A d \in P : d \in DOMAIN tree => tree[d] = "dir"
    <2>1. SUFFICES ASSUME NEW d \in P, d \in DOMAIN tree, tree[d] # "dir" PROVE FALSE
        BY Zenon
    <2>2. PICK f \in R : Names(f.path) = d /\ f.type # "dir"
        BY <1>6, <2>1, Zenon
    <2>3. f.type = "file"
        BY <1>7, <2>2, ArchiveEntries
    <2>4. IsStrictPrefix(d, node)
        BY <1>4, <1>11, <2>1, Zenon
    <2>. QED  BY <1>1, <1>7, <2>2, <2>3, <2>4, ArchiveAssumption, Zenon
                 DEF ArchiveAssumption, IsArchive
<1>13. /\ tree' = [n \in DOMAIN tree \cup P |->
                    IF n \in DOMAIN tree THEN tree[n] ELSE IF n = node THEN e.type ELSE "dir"]
       /\ left' = left \ {e} /\ status' = status /\ child' = child
    <2>1. MayAdd(node)
        BY <1>1, <1>11, <1>12, Zenon DEF MayAdd
    <2>. QED  BY <1>1, <1>3, <2>1, Zenon DEF ParsePathRelative
<1>14. PICK S : S = archive \ left'
    BY Zenon
<1>15. S = R \cup {e} /\ left \subseteq archive /\ left' \subseteq archive
    BY <1>3, <1>5, <1>13, <1>14, Zenon DEF TreeInv
<1>16. Grows
    BY <1>13, Zenon DEF Grows
<1>17. DOMAIN tree' = {<<>>} \cup UNION {Prefixes(Names(f.path)) : f \in S}
    <2>1. DOMAIN tree' = DOMAIN tree \cup P
        BY <1>13, Zenon
    <2>2. UNION {Prefixes(Names(f.path)) : f \in S} = P \cup UNION {Prefixes(Names(f.path)) : f \in R}
        BY <1>1, <1>15, Zenon
    <2>. QED  BY <1>6, <2>1, <2>2, Zenon
<1>18. \A f \in S : tree'[Names(f.path)] = f.type
    <2>1. tree'[node] = e.type
        BY <1>4, <1>11, <1>13, Zenon
    <2>2. \A f \in R : tree'[Names(f.path)] = f.type
        BY <1>6, <1>9, <1>16, Zenon DEF Grows
    <2>. QED  BY <1>1, <1>15, <2>1, <2>2, Zenon
<1>19. \A n \in DOMAIN tree' : (\A f \in S : Names(f.path) # n) => tree'[n] = "dir"
    <2>1. SUFFICES ASSUME NEW n \in DOMAIN tree', \A f \in S : Names(f.path) # n PROVE tree'[n] = "dir"
        BY Zenon
    <2>2. n # node /\ \A f \in R : Names(f.path) # n
        BY <1>1, <1>15, <2>1, Zenon
    <2>3. n \in DOMAIN tree \cup P
        BY <1>13, <2>1, Zenon
    <2>4. CASE n \in DOMAIN tree
        BY <1>6, <1>16, <2>2, <2>4, Zenon DEF Grows
    <2>5. CASE n \notin DOMAIN tree
        BY <1>13, <2>2, <2>3, <2>5, Zenon
    <2>. QED  BY <2>4, <2>5, Zenon
<1>20. TreeInv'
    BY <1>3, <1>14, <1>15, <1>17, <1>18, <1>19, Zenon DEF TreeInv
<1>. QED  BY <1>13, <1>16, <1>20, Zenon

-----------------------------------------------------------------------------
(* Searches. *)

(* A search fails or finds a node of the tree. *)
Searched(r) ==
    \/ r.type \in {"none", "trap", "loop"}
    \/ r.node \in DOMAIN tree /\ r.type = tree[r.node]

LEMMA FailsIs ==
    ASSUME NEW why
    PROVE  Fails(why).type = why
    BY DEF Fails

LEMMA FoundIs ==
    ASSUME NEW n
    PROVE  Found(n).type = tree[n] /\ Found(n).node = n
    BY DEF Found

LEMMA RelPathSearched ==
    ASSUME NEW p, NEW dir
    PROVE  Searched(GetNodeFromRelPathImpl(p, dir))
<1>1. Searched(Fails("trap")) /\ Searched(Fails("none"))
    BY FailsIs, Zenon DEF Searched
<1>2. dir \o p \in DOMAIN tree => Searched(Found(dir \o p))
    BY FoundIs, Zenon DEF Searched
<1>. QED  BY <1>1, <1>2, Zenon DEF GetNodeFromRelPathImpl

LEMMA PathSearched ==
    ASSUME NEW p, NEW wd, <<>> \in DOMAIN tree
    PROVE  Searched(GetNodeFromPathImpl(p, wd))
<1>1. Searched(Fails("none")) /\ Searched(Found(<<>>))
    BY FailsIs, FoundIs, Zenon DEF Searched
<1>2. Searched(GetNodeFromAbsPath(p))
    BY <1>1, RelPathSearched, Zenon DEF GetNodeFromAbsPath
<1>. QED  BY <1>1, <1>2, RelPathSearched, Zenon DEF GetNodeFromPathImpl

LEMMA AnySearched ==
    ASSUME NEW p, NEW wd, NEW e, <<>> \in DOMAIN tree
    PROVE  Searched(GetNodeFromPath(p, wd, e))
<1>1. ASSUME NEW path PROVE Searched(SearchPath(p, wd, path))
    <2>1. PICK dir : dir = GetNodeFromPathImpl(path[1], wd)
        BY Zenon
    <2>2. PICK there : there = IF dir.type = "dir" THEN GetNodeFromRelPathImpl(CleanPath(p), dir.node)
                               ELSE IF dir.type = "file" THEN Fails("none") ELSE dir
        BY Zenon
    <2>3. Searched(Fails("none")) /\ Searched(Fails("loop"))
        BY FailsIs, Zenon DEF Searched
    <2>4. Searched(there)
        BY <2>1, <2>2, <2>3, RelPathSearched, PathSearched, Zenon
    <2>5. SearchPath(p, wd, path) = IF there.type # "none" THEN there
                                    ELSE IF Len(path) > 1 THEN Fails("loop")
                                    ELSE GetNodeFromRelPathImpl(CleanPath(p), wd)
        BY <2>1, <2>2, Zenon DEF SearchPath
    <2>. QED  BY <2>3, <2>4, <2>5, RelPathSearched, Zenon
<1>. QED  BY <1>1, PathSearched, Zenon DEF GetNodeFromPath

(* So what is found to be a directory is one. *)
LEMMA DirsFound ==
    ASSUME NEW p, NEW wd, NEW e, <<>> \in DOMAIN tree, GetNodeFromPath(p, wd, e).type = "dir"
    PROVE  IsDir(tree, GetNodeFromPath(p, wd, e).node)
<1>1. PICK r : r = GetNodeFromPath(p, wd, e)
    BY Zenon
<1>2. Searched(r) /\ r.type = "dir"
    BY <1>1, AnySearched, Zenon
<1>3. "dir" \notin {"none", "trap", "loop"}
    OBVIOUS
<1>. QED  BY <1>1, <1>2, <1>3, Zenon DEF Searched, IsDir

(* A node is found by its absolute path. *)
LEMMA AbsPathFound ==
    ASSUME NEW n, AreNames(n), n \in DOMAIN tree, NEW wd, NEW e
    PROVE  GetNodeFromPath(getAbsPath(n), wd, e) = Found(n)
<1>1. PICK p : p = getAbsPath(n)
    BY Zenon
<1>2. SUFFICES IsAbsPath(p) /\ GetNodeFromAbsPath(p) = Found(n)
    <2>1. ~IsEmpty(p)
        BY <1>2, Zenon DEF IsAbsPath
    <2>. QED  BY <1>1, <1>2, <2>1, Zenon DEF GetNodeFromPath, GetNodeFromPathImpl
<1>3. CASE n = <<>>
    <2>1. p = Root
        BY <1>1, <1>3, Zenon DEF getAbsPath
    <2>2. Root[1] = "" /\ Root # <<"">> /\ Root[1] # "."
        BY DEF Root
    <2>3. CleanPath(Root) = Root
        BY <2>2, Zenon DEF CleanPath
    <2>. QED  BY <1>3, <2>1, <2>2, <2>3, Zenon DEF IsAbsPath, IsEmpty, GetNodeFromAbsPath
<1>4. CASE n # <<>>
    <2>1. IsRooted(p, n)
        BY <1>1, <1>4, Zenon DEF getAbsPath, IsRooted
    <2>2. CleanPath(p) = p /\ Tail(p) = n /\ p # Root /\ IsAbsPath(p)
        BY <1>4, <2>1, CleanAbsPath, Zenon
    <2>3. CleanPath(n) = n
        BY <1>4, CleanNames, Zenon
    <2>4. GetNodeFromAbsPath(p) = GetNodeFromRelPathImpl(n, <<>>)
        BY <2>2, <2>3, Zenon DEF GetNodeFromAbsPath
    <2>5. n \in Seq(Text) /\ \A i \in 1 .. Len(n) : n[i] # ""
        BY Zenon DEF AreNames
    <2>6. <<>> \o n = n
        BY <2>5, ConcatEmptySeq, Zenon
    <2>7. \A i \in DOMAIN n : n[i] # ""
        BY <2>5, LenProperties, Zenon
    <2>8. GetNodeFromRelPathImpl(n, <<>>) = Found(n)
        BY <2>6, <2>7, Zenon DEF GetNodeFromRelPathImpl
    <2>. QED  BY <2>2, <2>4, <2>8, Zenon
<1>. QED  BY <1>3, <1>4, Zenon

(* It is a value PWD can have. *)
LEMMA AbsPathIsVal ==
    ASSUME NEW n, AreNames(n)
    PROVE  <<getAbsPath(n)>> \in Val
<1>1. PICK p : p = getAbsPath(n)
    BY Zenon
<1>2. "" \in Text
    BY DEF Text
<1>3. n \in Seq(Text)
    BY Zenon DEF AreNames
<1>4. p \in Seq(Text) /\ p # <<>>
    <2>1. CASE n = <<>>
        <3>1. ASSUME NEW x \in Text PROVE <<x, x>> \in Seq(Text) /\ <<x, x>> # <<>>
            OBVIOUS
        <3>. QED  BY <1>1, <1>2, <2>1, <3>1, Zenon DEF getAbsPath, Root
    <2>2. CASE n # <<>>
        <3>1. <<"">> \in Seq(Text)
            BY <1>2, SingleIs, Zenon
        <3>2. p = <<"">> \o n
            BY <1>1, <2>2, Zenon DEF getAbsPath
        <3>3. PICK q : q = <<"">>
            BY Zenon
        <3>4. q \o n \in Seq(Text)
            BY <1>3, <3>1, <3>3, ConcatProperties, Zenon
        <3>5. q \in Seq(Text) /\ Len(q) = 1
            BY <1>2, <3>3, SingleIs, Zenon
        <3>6. q \o n # <<>>
            <4>1. Len(q \o n) = Len(q) + Len(n) /\ Len(n) \in Nat
                BY <1>3, <3>5, ConcatProperties, LenProperties, Zenon
            <4>2. Len(q \o n) # 0
                BY <3>5, <4>1
            <4>3. Len(<<>>) = 0
                OBVIOUS
            <4>. QED  BY <4>2, <4>3, Zenon
        <3>. QED  BY <3>2, <3>3, <3>4, <3>6, Zenon
    <2>. QED  BY <2>1, <2>2, Zenon
<1>5. p \in Seq(Text) \ {<<>>}
    BY <1>4, Zenon
<1>6. PICK S : S = Seq(Text) \ {<<>>}
    BY Zenon
<1>7. <<p>> \in Seq(S) \ {<<>>}
    BY <1>5, <1>6
<1>. QED  BY <1>1, <1>6, <1>7, Zenon DEF Val

-----------------------------------------------------------------------------
(* The steps. *)

(* What programs set and pass on. *)
LEMMA SettingsAre == Settings \subseteq Binding
<1>1. STRING \subseteq Text
    BY Zenon DEF Text
<1>2. Path \subseteq Seq(Text) \ {<<>>}
    BY <1>1, SeqMonotonic, Zenon DEF Path
<1>3. \A v \in Seq(Path) \ {<<>>} : v \in Val
    BY <1>2, SeqMonotonic, Zenon DEF Val
<1>4. Var \subseteq Binding
    BY <1>1, <1>3 DEF Var, Binding
<1>. QED  BY <1>4, SessionAssumption, Zenon DEF SessionAssumption

LEMMA ArgvsAre == Argvs \cup {Stage2Params} \subseteq Seq(Args)
<1>1. STRING \subseteq Text /\ "./userboot-stage2" \in Text
    BY Zenon DEF Text
<1>2. [arg : STRING, size : Nat] \subseteq Args
    BY <1>1 DEF Args
<1>3. Argvs \subseteq Seq(Args)
    BY <1>2, SessionAssumption, SeqMonotonic, Zenon DEF SessionAssumption
<1>4. [arg |-> "./userboot-stage2", size |-> 17] \in Args
    BY <1>1 DEF Args
<1>5. Stage2Params \in Seq(Args)
    BY <1>4, SingleIs, Zenon DEF Stage2Params
<1>. QED  BY <1>3, <1>5, Zenon

(* What LoadElfProgram writes. *)
LEMMA LoadElfProgramHands ==
    ASSUME IsDir(tree, cwd), NEW params \in Argvs \cup {Stage2Params},
           NEW envp, IsEnv(envp), NEW inherits, inherits => envp = env
    PROVE  Handed(tree, LoadElfProgram(params, envp, inherits))
<1>1. PICK c : c = LoadElfProgram(params, envp, inherits)
    BY Zenon
<1>2. /\ c.env = Pack(envp) /\ c.argv = PackParams(params) /\ c.size = PackSize(params)
      /\ c.params = params /\ c.from = cwd /\ c.caller = env /\ c.inherits = inherits
    BY <1>1 DEF LoadElfProgram
<1>3. Unpack(c.env) = envp
    BY <1>2, UnpackOfPack, Zenon
<1>. QED  BY <1>1, <1>2, <1>3, Zenon DEF Handed

LEMMA OneStarted ==
    ASSUME NEW t, NEW c, Handed(t, c)
    PROVE  StartedIn(t, <<c>>)
<1>1. <<c>>[1] = c
    OBVIOUS
<1>. QED  BY <1>1, Zenon DEF StartedIn

LEMMA EmptyEnv == IsEnv(<<>>)
    BY DEF IsEnv

LEMMA InitKeeps == Init => SessionInv
<1>. SUFFICES ASSUME Init PROVE SessionInv
    OBVIOUS
<1>1. /\ archive \in Archives /\ left = archive /\ tree = [n \in {<<>>} |-> "dir"] /\ status = "none"
      /\ cwd = <<>> /\ env = <<>> /\ environ = <<>>
      /\ child = <<LoadElfProgram(Stage2Params, <<>>, TRUE)>>
    BY Zenon DEF Init
<1>2. archive \ left = {} /\ left \subseteq archive
    BY <1>1, Zenon
<1>3. DOMAIN tree = {<<>>} /\ tree[<<>>] = "dir"
    BY <1>1, Zenon
<1>4. TreeInv /\ StopInv
    BY <1>1, <1>2, <1>3, Zenon DEF TreeInv, StopInv
<1>5. IsDir(tree, cwd)
    BY <1>1, <1>3, Zenon DEF IsDir
<1>6. Handed(tree, LoadElfProgram(Stage2Params, <<>>, TRUE))
    BY <1>1, <1>5, EmptyEnv, LoadElfProgramHands, Zenon
<1>7. StartedIn(tree, child)
    BY <1>1, <1>6, OneStarted, Zenon
<1>8. status \in Statuses
    BY <1>1 DEF Statuses
<1>. QED  BY <1>1, <1>4, <1>5, <1>7, <1>8, EmptyEnv, Zenon DEF SessionInv, EnvironIsCurrent

LEMMA InitVFSKeeps ==
    ASSUME SessionInv, NEW e \in archive, InitVFS(e)
    PROVE  SessionInv'
<1>1. TreeInv /\ IsDir(tree, cwd) /\ StartedIn(tree, child) /\ status \in Statuses
    BY Zenon DEF SessionInv
<1>2. cwd' = cwd /\ env' = env /\ environ' = environ /\ archive' = archive /\ status = "none"
    BY Zenon DEF InitVFS
<1>3. IsEnv(env') /\ Others(environ') = Others(env')
    BY <1>2, Zenon DEF SessionInv, EnvironIsCurrent
<1>4. \/ TreeInv' /\ Grows /\ UNCHANGED <<status, child>>
      \/ e \in left /\ Stopper(e) /\ Stop
    <2>1. CASE HasItsSize(e)
        BY <1>1, <2>1, RootEntry, NamedEntry, Zenon DEF InitVFS
    <2>2. CASE ~HasItsSize(e)
        BY <2>2, Zenon DEF InitVFS, Stopper, Stop
    <2>. QED  BY <2>1, <2>2, Zenon
<1>5. CASE TreeInv' /\ Grows /\ UNCHANGED <<status, child>>
    <2>1. TreeInv' /\ Grows /\ status' = status /\ child' = child
        BY <1>5
    <2>2. \A n : IsDir(tree, n) => IsDir(tree', n)
        BY <2>1, Zenon DEF Grows, IsDir
    <2>3. IsDir(tree', cwd') /\ StartedIn(tree', child')
        BY <1>1, <1>2, <2>1, <2>2, Zenon DEF StartedIn, Handed
    <2>4. StopInv' /\ status' \in Statuses
        BY <1>1, <1>2, <2>1, Zenon DEF StopInv
    <2>. QED  BY <1>3, <2>1, <2>3, <2>4, Zenon DEF SessionInv, EnvironIsCurrent
<1>6. CASE e \in left /\ Stopper(e) /\ Stop
    <2>1. status' = "ended" /\ child' = <<>> /\ left' = left /\ tree' = tree
        BY <1>6 DEF Stop
    <2>2. TreeInv' /\ IsDir(tree', cwd') /\ StartedIn(tree', child')
        BY <1>1, <1>2, <2>1, Zenon DEF TreeInv, StartedIn
    <2>3. StopInv'
        BY <1>2, <1>6, <2>1, Zenon DEF StopInv, Stopper
    <2>4. status' \in Statuses
        BY <2>1 DEF Statuses
    <2>. QED  BY <1>3, <2>2, <2>3, <2>4, Zenon DEF SessionInv, EnvironIsCurrent
<1>. QED  BY <1>4, <1>5, <1>6, Zenon

(* Steps that leave the tree alone. *)
LEMMA TreeStays ==
    ASSUME TreeInv, archive' = archive, left' = left, tree' = tree
    PROVE  TreeInv'
    BY Zenon DEF TreeInv

(* Programs run when all has been read. *)
LEMMA AllRead ==
    ASSUME StopInv, status = "running", left' = left
    PROVE  StopInv'
<1>1. "running" # "none" /\ "running" # "ended"
    OBVIOUS
<1>. QED  BY <1>1, Zenon DEF StopInv

LEMMA AfterIs ==
    ASSUME NEW r
    PROVE  After(r) \in Statuses
    BY DEF After, Statuses

LEMMA OtherwiseKeeps ==
    ASSUME SessionInv, status = "running", NEW r, Otherwise(r)
    PROVE  SessionInv'
<1>1. /\ status' = After(r) /\ cwd' = cwd /\ env' = env
      /\ archive' = archive /\ left' = left /\ tree' = tree /\ environ' = environ /\ child' = child
    BY Zenon DEF Otherwise
<1>2. TreeInv' /\ StopInv'
    BY <1>1, TreeStays, AllRead, Zenon DEF SessionInv
<1>3. status' \in Statuses
    BY <1>1, AfterIs, Zenon
<1>4. Others(environ') = Others(env')
    BY <1>1, Zenon DEF SessionInv, EnvironIsCurrent
<1>. QED  BY <1>1, <1>2, <1>3, <1>4, Zenon DEF SessionInv, EnvironIsCurrent

(* chdir and a child that follows PWD set PWD to the path of the directory. *)
LEMMA PWDSet ==
    ASSUME TreeInv, NEW e, IsEnv(e), NEW n, IsDir(tree, n)
    PROVE  IsSet(e, "PWD", <<getAbsPath(n)>>, setVal(e, "PWD", <<getAbsPath(n)>>))
<1>1. "PWD" \in Text
    BY DEF Text
<1>2. <<getAbsPath(n)>> \in Val
    BY NodesAreNames, AbsPathIsVal, Zenon DEF IsDir
<1>. QED  BY <1>1, <1>2, setValIs, Zenon

LEMMA OthersStay ==
    ASSUME NEW e, IsEnv(e), NEW key \in {"PWD", "PATH"}, NEW val, NEW f, IsSet(e, key, val, f)
    PROVE  IsEnv(f) /\ Others(f) = Others(e)
<1>1. IsEnv(f)
    BY Zenon DEF IsSet
<1>2. Others(f) = Others(e)
    BY OthersAfterSet
<1>. QED  BY <1>1, <1>2

LEMMA chdirKeeps ==
    ASSUME SessionInv, NEW p, chdir(p)
    PROVE  SessionInv'
<1>1. PICK r : r = GetNodeFromPath(p, cwd, env)
    BY Zenon
<1>2. CASE r.type # "dir"
    BY <1>1, <1>2, OtherwiseKeeps, Zenon DEF chdir
<1>3. CASE r.type = "dir"
    <2>1. /\ cwd' = r.node /\ env' = setVal(env, "PWD", <<getAbsPath(r.node)>>)
          /\ archive' = archive /\ left' = left /\ tree' = tree
          /\ status' = status /\ environ' = environ /\ child' = child
        BY <1>1, <1>3, Zenon DEF chdir
    <2>2. TreeInv /\ IsEnv(env) /\ Others(environ) = Others(env)
        BY Zenon DEF SessionInv, EnvironIsCurrent
    <2>3. IsDir(tree, r.node)
        BY <1>1, <1>3, <2>2, NodesAreNames, DirsFound, Zenon
    <2>4. IsSet(env, "PWD", <<getAbsPath(r.node)>>, env')
        BY <2>1, <2>2, <2>3, PWDSet, Zenon
    <2>5. IsEnv(env') /\ Others(env') = Others(env)
        BY <2>2, <2>4, OthersStay, Zenon
    <2>6. TreeInv' /\ StopInv'
        BY <2>1, <2>2, TreeStays, AllRead, Zenon DEF SessionInv, chdir
    <2>. QED  BY <2>1, <2>2, <2>3, <2>5, <2>6, Zenon DEF SessionInv, EnvironIsCurrent
<1>. QED  BY <1>2, <1>3, Zenon

LEMMA setenvKeeps ==
    ASSUME SessionInv, NEW s \in Settings, NEW overwrite, setenv(s.key, s.val, overwrite)
    PROVE  SessionInv'
<1>1. /\ env' = setVal(env, s.key, s.val) /\ environ' = env' /\ cwd' = cwd
      /\ archive' = archive /\ left' = left /\ tree' = tree /\ status' = status /\ child' = child
    BY Zenon DEF setenv
<1>2. s \in Binding
    BY SettingsAre, Zenon
<1>3. s.key \in Text /\ s.val \in Val
    BY <1>2 DEF Binding
<1>4. IsSet(env, s.key, s.val, setVal(env, s.key, s.val))
    BY <1>3, setValIs, Zenon DEF SessionInv
<1>5. IsEnv(env')
    BY <1>1, <1>4, Zenon DEF IsSet
<1>6. TreeInv' /\ StopInv'
    BY <1>1, TreeStays, AllRead, Zenon DEF SessionInv, setenv
<1>. QED  BY <1>1, <1>5, <1>6, Zenon DEF SessionInv, EnvironIsCurrent

LEMMA ExecImplKeeps ==
    ASSUME SessionInv, NEW p, NEW params \in Argvs, NEW envp, IsEnv(envp),
           NEW inherits, inherits => envp = env, ExecImpl(p, params, envp, inherits)
    PROVE  SessionInv'
<1>1. PICK c : c = LoadElfProgram(params, envp, inherits)
    BY Zenon
<1>2. \/ \E r : Otherwise(r)
      \/ child' = <<c>> /\ UNCHANGED <<archive, left, tree, status, cwd, env, environ>>
    BY <1>1, Zenon DEF ExecImpl
<1>3. CASE \E r : Otherwise(r)
    BY <1>3, OtherwiseKeeps, Zenon DEF ExecImpl
<1>4. CASE child' = <<c>> /\ UNCHANGED <<archive, left, tree, status, cwd, env, environ>>
    <2>1. /\ child' = <<c>> /\ archive' = archive /\ left' = left /\ tree' = tree
          /\ status' = status /\ cwd' = cwd /\ env' = env /\ environ' = environ
        BY <1>4
    <2>2. Handed(tree, c)
        BY <1>1, LoadElfProgramHands, Zenon DEF SessionInv
    <2>3. StartedIn(tree', child')
        BY <2>1, <2>2, OneStarted, Zenon
    <2>4. TreeInv' /\ StopInv'
        BY <2>1, TreeStays, AllRead, Zenon DEF SessionInv, ExecImpl
    <2>. QED  BY <2>1, <2>3, <2>4, Zenon DEF SessionInv, EnvironIsCurrent
<1>. QED  BY <1>2, <1>3, <1>4, Zenon

LEMMA execKeeps ==
    ASSUME SessionInv, NEW p, NEW params \in Argvs,
           execv(p, params) \/ \E envp \in Environments : execve(p, params, envp)
    PROVE  SessionInv'
<1>1. CASE execv(p, params)
    BY <1>1, ExecImplKeeps, Zenon DEF execv, SessionInv
<1>2. ASSUME NEW envp \in Environments, execve(p, params, envp)
      PROVE  SessionInv'
    <2>1. envp \in Seq(Binding)
        BY SettingsAre, SessionAssumption, SeqMonotonic, Zenon DEF SessionAssumption
    <2>2. IsEnv(UnpackEnvp(envp))
        BY <2>1, UnpackEnvpIs, Zenon
    <2>. QED  BY <1>2, <2>2, ExecImplKeeps, Zenon DEF execve
<1>. QED  BY <1>1, <1>2, Zenon

(* What __libc_start_main of a child works out before main. *)
Sought(e) == IF HasVal(e, "PWD") THEN GetNodeFromPath(getVal(e, "PWD")[1], <<>>, e)
             ELSE Fails("none")
Moved(e, r) == IF r.type = "dir" THEN setVal(e, "PWD", <<getAbsPath(r.node)>>) ELSE e
WithPath(e) == IF HasVal(e, "PATH") THEN e ELSE setVal(e, "PATH", <<<<"", "bin">>>>)
Starts(e, r) ==
    /\ child # <<>> /\ left = {} /\ child' = <<>> /\ environ' = e
    /\ cwd' = IF r.type = "dir" THEN r.node ELSE <<>>
    /\ env' = WithPath(Moved(e, r))
    /\ status' = After(r)
    /\ archive' = archive /\ left' = left /\ tree' = tree

LEMMA StartIs ==
    ASSUME Start, NEW e, e = Unpack(child[1].env)
    PROVE  Starts(e, Sought(e))
    BY Zenon DEF Start, Starts, Sought, Moved, WithPath

LEMMA SoughtIs ==
    ASSUME TreeInv, NEW e, Sought(e).type = "dir"
    PROVE  IsDir(tree, Sought(e).node)
<1>1. CASE HasVal(e, "PWD")
    BY <1>1, NodesAreNames, DirsFound, Zenon DEF Sought
<1>2. CASE ~HasVal(e, "PWD")
    <2>1. Sought(e).type = "none"
        BY <1>2, FailsIs, Zenon DEF Sought
    <2>2. "none" # "dir"
        OBVIOUS
    <2>. QED  BY <2>1, <2>2, Zenon
<1>. QED  BY <1>1, <1>2, Zenon

(* The default of PATH, if it has to be set. *)
LEMMA PathSet ==
    ASSUME NEW e, IsEnv(e)
    PROVE  WithPath(e) = e \/ (~HasVal(e, "PATH") /\ IsSet(e, "PATH", <<<<"", "bin">>>>, WithPath(e)))
<1>1. "PATH" \in Text /\ "" \in Text /\ "bin" \in Text
    BY DEF Text
<1>2. ASSUME NEW x \in Text, NEW y \in Text PROVE <<x, y>> \in Seq(Text) /\ <<x, y>> # <<>>
    OBVIOUS
<1>3. PICK S : S = Seq(Text) \ {<<>>}
    BY Zenon
<1>4. ASSUME NEW p \in S PROVE <<p>> \in Seq(S) /\ <<p>> # <<>>
    OBVIOUS
<1>5. <<"", "bin">> \in S
    BY <1>1, <1>2, <1>3, Zenon
<1>6. <<<<"", "bin">>>> \in Val
    BY <1>3, <1>4, <1>5, Zenon DEF Val
<1>. QED  BY <1>1, <1>6, setValIs, Zenon DEF WithPath

(* The root is a directory: no file has its name. *)
LEMMA RootIsDir ==
    ASSUME TreeInv
    PROVE  IsDir(tree, <<>>)
<1>1. <<>> \in DOMAIN tree
    BY NodesAreNames, Zenon
<1>2. CASE \E e \in archive \ left : Names(e.path) = <<>>
    BY <1>1, <1>2, ArchiveEntries, Zenon DEF TreeInv, IsDir
<1>3. CASE \A e \in archive \ left : Names(e.path) # <<>>
    BY <1>1, <1>3, Zenon DEF TreeInv, IsDir
<1>. QED  BY <1>2, <1>3, Zenon

LEMMA StartKeeps ==
    ASSUME SessionInv, Start
    PROVE  SessionInv'
<1>1. PICK e, r : e = Unpack(child[1].env) /\ r = Sought(e)
    BY Zenon
<1>2. Starts(e, r)
    BY <1>1, StartIs, Zenon
<1>3. TreeInv /\ Handed(tree, child[1])
    BY <1>2, Zenon DEF SessionInv, StartedIn, Starts
<1>4. IsEnv(e)
    BY <1>1, <1>3, Zenon DEF Handed
<1>5. IsEnv(Moved(e, r)) /\ Others(Moved(e, r)) = Others(e)
    <2>1. CASE r.type = "dir"
        <3>1. IsSet(e, "PWD", <<getAbsPath(r.node)>>, Moved(e, r))
            BY <1>1, <1>3, <1>4, <2>1, SoughtIs, PWDSet, Zenon DEF Moved
        <3>. QED  BY <1>4, <3>1, OthersStay, Zenon
    <2>2. CASE r.type # "dir"
        BY <1>4, <2>2, Zenon DEF Moved
    <2>. QED  BY <2>1, <2>2, Zenon
<1>6. IsEnv(env') /\ Others(env') = Others(e)
    <2>1. PICK m : m = Moved(e, r)
        BY Zenon
    <2>2. env' = WithPath(m) /\ IsEnv(m) /\ Others(m) = Others(e)
        BY <1>2, <1>5, <2>1, Zenon DEF Starts
    <2>3. CASE WithPath(m) = m
        BY <2>2, <2>3, Zenon
    <2>4. CASE IsSet(m, "PATH", <<<<"", "bin">>>>, WithPath(m))
        BY <2>2, <2>4, OthersStay, Zenon
    <2>. QED  BY <2>2, <2>3, <2>4, PathSet, Zenon
<1>7. IsDir(tree', cwd')
    <2>1. IsDir(tree, <<>>)
        BY <1>3, RootIsDir, Zenon
    <2>. QED  BY <1>1, <1>2, <1>3, <2>1, SoughtIs, Zenon DEF Starts
<1>8. TreeInv' /\ StopInv'
    BY <1>2, <1>3, TreeStays, Zenon DEF Starts, StopInv
<1>9. status' \in Statuses
    BY <1>2, AfterIs, Zenon DEF Starts
<1>10. environ' = e /\ child' = <<>>
    BY <1>2, Zenon DEF Starts
<1>. QED  BY <1>6, <1>7, <1>8, <1>9, <1>10, Zenon DEF SessionInv, EnvironIsCurrent, StartedIn

LEMMA ExitKeeps ==
    ASSUME SessionInv, Exit
    PROVE  SessionInv'
<1>1. /\ status' = "ended" /\ archive' = archive /\ left' = left /\ tree' = tree
      /\ cwd' = cwd /\ env' = env /\ environ' = environ /\ child' = child
    BY Zenon DEF Exit
<1>2. status' \in Statuses
    BY <1>1 DEF Statuses
<1>3. TreeInv' /\ StopInv'
    BY <1>1, TreeStays, AllRead, Zenon DEF SessionInv, Exit
<1>. QED  BY <1>1, <1>2, <1>3, Zenon DEF SessionInv, EnvironIsCurrent

-----------------------------------------------------------------------------
(* The theorems. *)

LEMMA StutterKeeps ==
    ASSUME SessionInv, UNCHANGED vars
    PROVE  SessionInv'
<1>1. /\ archive' = archive /\ left' = left /\ tree' = tree /\ status' = status
      /\ cwd' = cwd /\ env' = env /\ environ' = environ /\ child' = child
    BY DEF vars
<1>2. TreeInv' /\ StopInv'
    BY <1>1, TreeStays, Zenon DEF SessionInv, StopInv, Stopper
<1>. QED  BY <1>1, <1>2, Zenon DEF SessionInv, EnvironIsCurrent

(* Whatever programs do, in whatever order the entries of the archive are: InitVFS
   has built exactly the part of the tree it has read and stops only for a reason
   that Stopper gives, the working directory is one of its
   directories, no variable is set twice in gEnvp, and a startup channel holds what
   the caller of exec passed. *)
THEOREM SessionInvariance == Spec => []SessionInv
<1>1. SessionInv /\ [Next]_vars => SessionInv'
    <2>1. SUFFICES ASSUME SessionInv, [Next]_vars PROVE SessionInv'
        OBVIOUS
    <2>2. CASE UNCHANGED vars
        BY <2>1, <2>2, StutterKeeps, Zenon
    <2>3. ASSUME NEW e \in archive, InitVFS(e) PROVE SessionInv'
        BY <2>1, <2>3, InitVFSKeeps, Zenon
    <2>4. CASE Start
        BY <2>1, <2>4, StartKeeps, Zenon
    <2>5. ASSUME NEW p \in Inputs, chdir(p) PROVE SessionInv'
        BY <2>1, <2>5, chdirKeeps, Zenon
    <2>6. ASSUME NEW s \in Settings, NEW overwrite \in BOOLEAN, setenv(s.key, s.val, overwrite)
          PROVE  SessionInv'
        BY <2>1, <2>6, setenvKeeps, Zenon
    <2>7. ASSUME NEW p \in Inputs, NEW params \in Argvs,
                 execv(p, params) \/ \E envp \in Environments : execve(p, params, envp)
          PROVE  SessionInv'
        BY <2>1, <2>7, execKeeps, Zenon
    <2>8. CASE Exit
        BY <2>1, <2>8, ExitKeeps, Zenon
    <2>. QED  BY <2>1, <2>2, <2>3, <2>4, <2>5, <2>6, <2>7, <2>8, Zenon DEF Next
<1>. QED  BY <1>1, InitKeeps, PTL DEF Spec

(* The working directory is always a directory of the tree, and at most one child
   is waiting to start. *)
THEOREM CwdIsADirectory == Spec => []SessionTypeOK
<1>1. SessionInv => SessionTypeOK
    <2>1. SUFFICES ASSUME SessionInv PROVE SessionTypeOK
        OBVIOUS
    <2>2. ASSUME NEW c PROVE Len(<<c>>) <= 1 /\ Len(<<>>) <= 1
        OBVIOUS
    <2>3. Len(child) <= 1
        BY <2>1, <2>2, Zenon DEF SessionInv, StartedIn
    <2>. QED  BY <2>1, <2>3, Zenon DEF SessionInv, TreeInv, IsDir, SessionTypeOK
<1>. QED  BY <1>1, SessionInvariance, PTL

(* For every archive and every order of its entries, InitVFS builds its directories
   and files and no others, unless it meets an entry that has not its size or a
   directory that comes after what is in it. *)
THEOREM TheTreeIsBuilt == Spec => []TreeIsTheArchive
<1>1. SessionInv => TreeIsTheArchive
    <2>1. SUFFICES ASSUME SessionInv PROVE TreeIsTheArchive
        OBVIOUS
    <2>2. ASSUME left = {}
          PROVE  /\ DOMAIN tree = {<<>>} \cup UNION {Prefixes(Names(e.path)) : e \in archive}
                 /\ \A e \in archive : tree[Names(e.path)] = e.type
        <3>1. archive \ left = archive
            BY <2>2, Zenon
        <3>. QED  BY <2>1, <3>1, Zenon DEF SessionInv, TreeInv
    <2>3. ASSUME status = "ended", left # {} PROVE \E e \in left : Stopper(e)
        <3>1. status # "none"
            BY <2>3
        <3>. QED  BY <2>1, <2>3, <3>1, Zenon DEF SessionInv, StopInv
    <2>. QED  BY <2>2, <2>3, Zenon DEF TreeIsTheArchive, Stopper
<1>. QED  BY <1>1, SessionInvariance, PTL

(* getAbsPath and GetNodeFromPath agree on every node of every tree, whatever the
   working directory and the environment are. *)
THEOREM AbsPathsLeadBack == Spec => []AbsPathsResolve
<1>1. SessionInv => AbsPathsResolve
    BY NodesAreNames, AbsPathFound, Zenon DEF SessionInv, AbsPathsResolve
<1>. QED  BY <1>1, SessionInvariance, PTL

(* environ and getenv agree on every variable but PWD and PATH, after any calls of
   setenv and chdir and any number of children. *)
THEOREM EnvironFollows == Spec => []EnvironIsCurrent
<1>1. SessionInv => EnvironIsCurrent
    BY Zenon DEF SessionInv
<1>. QED  BY <1>1, SessionInvariance, PTL

(* For any number of arguments of any lengths and any address of the child's copy,
   UnpackParams gives pointers to the strings PackParams was given, all of them
   inside the buffer. *)
THEOREM ArgvArrivesWhole == Spec => []ArgvSurvives
<1>1. SessionInv => ArgvSurvives
    <2>1. SUFFICES ASSUME SessionInv, NEW i \in DOMAIN child, NEW addr \in Addresses
                   PROVE  LET page == child[i].argv
                              argv == UnpackParams(page, addr)
                          IN  /\ DOMAIN argv = DOMAIN child[i].params
                              /\ \A k \in DOMAIN argv :
                                  /\ argv[k] - addr \in DOMAIN page.strs
                                  /\ page.strs[argv[k] - addr] = child[i].params[k]
                                  /\ argv[k] - addr + child[i].params[k].size < child[i].size
        BY Zenon DEF ArgvSurvives
    <2>2. ASSUME NEW c PROVE DOMAIN <<c>> = {1} /\ DOMAIN <<>> = {}
        OBVIOUS
    <2>3. i = 1 /\ Handed(tree, child[1])
        <3>1. StartedIn(tree, child)
            BY <2>1, Zenon DEF SessionInv
        <3>2. child # <<>>
            BY <2>2, Zenon
        <3>3. child = <<child[1]>> /\ Handed(tree, child[1])
            BY <3>1, <3>2, Zenon DEF StartedIn
        <3>4. DOMAIN child = {1}
            BY <2>2, <3>3, Zenon
        <3>. QED  BY <3>3, <3>4, Zenon
    <2>4. PICK c, params, page, argv :
            /\ c = child[1] /\ params = c.params /\ page = PackParams(params)
            /\ argv = UnpackParams(page, addr)
        BY Zenon
    <2>5. page = c.argv /\ c.size = PackSize(params) /\ params \in Seq(Args)
        BY <2>3, <2>4, ArgvsAre, Zenon DEF Handed
    <2>6. addr \in Nat
        BY SessionAssumption, Zenon DEF SessionAssumption
    <2>7. DOMAIN argv = DOMAIN params /\ \A k \in 1 .. Len(params) : argv[k] - addr = StrAt(params, k)
        <3>1. argv = UnpackParams(PackParams(params), addr)
            BY <2>4, Zenon
        <3>. QED  BY <2>5, <2>6, <3>1, ArgvArrives
    <2>8. DOMAIN params = 1 .. Len(params)
        BY <2>5, LenProperties, Zenon
    <2>9. ASSUME NEW k \in 1 .. Len(params)
          PROVE  /\ argv[k] - addr \in DOMAIN page.strs
                 /\ page.strs[argv[k] - addr] = params[k]
                 /\ argv[k] - addr + params[k].size < c.size
        <3>1. argv[k] - addr = StrAt(params, k)
            BY <2>7, Zenon
        <3>2. /\ StrAt(params, k) \in DOMAIN PackParams(params).strs
              /\ PackParams(params).strs[StrAt(params, k)] = params[k]
              /\ StrAt(params, k) + params[k].size < PackSize(params)
            BY <2>5, PackedAt
        <3>. QED  BY <2>4, <2>5, <3>1, <3>2, Zenon
    <2>10. child[i] = c /\ child[i].params = params /\ child[i].argv = page
        BY <2>3, <2>4, <2>5, Zenon
    <2>11. UnpackParams(child[i].argv, addr) = argv
        BY <2>4, <2>10, Zenon
    <2>12. DOMAIN argv = 1 .. Len(params)
        BY <2>7, <2>8, Zenon
    <2>. QED  BY <2>7, <2>9, <2>10, <2>11, <2>12, Zenon
<1>. QED  BY <1>1, SessionInvariance, PTL

(* Setting a variable to the value it has changes nothing. *)
LEMMA SetAgain ==
    ASSUME NEW e, IsEnv(e), NEW key, NEW val, HasVal(e, key), getVal(e, key) = val
    PROVE  setVal(e, key, val) = e
<1>1. PICK i \in DOMAIN e : e[i].key = key
    BY Zenon DEF HasVal
<1>2. FirstWith(e, key) = i
    BY <1>1, FirstWithIs, Zenon
<1>3. e[i].val = val
    BY <1>2, Zenon DEF getVal
<1>4. setVal(e, key, val) = [e EXCEPT ![i].val = val]
    BY <1>2, Zenon DEF setVal
<1>5. e \in Seq(Binding)
    BY Zenon DEF IsEnv
<1>6. e[i] \in Binding /\ e = [j \in DOMAIN e |-> e[j]]
    BY <1>5, LenProperties
<1>7. [e[i] EXCEPT !.val = val] = e[i]
    BY <1>3, <1>6 DEF Binding
<1>8. [e EXCEPT ![i].val = val] = [e EXCEPT ![i] = e[i]]
    BY <1>7
<1>9. [e EXCEPT ![i] = e[i]] = e
    BY <1>6, Zenon
<1>. QED  BY <1>4, <1>8, <1>9, Zenon

(* A new variable goes behind the others. *)
LEMMA EnvIsPrefix ==
    ASSUME NEW e, IsEnv(e)
    PROVE  IsPrefix(e, e)
<1>1. e \in Seq(Binding)
    BY Zenon DEF IsEnv
<1>2. PICK n \in Nat : n = Len(e)
    BY <1>1, LenProperties
<1>3. SubSeq(e, 1, n) = e
    BY <1>1, <1>2, SubSeqFull
<1>4. n \in 0 .. Len(e)
    BY <1>2
<1>. QED  BY <1>3, <1>4, Zenon DEF IsPrefix, Prefixes

LEMMA SetIsPrefix ==
    ASSUME NEW e, IsEnv(e), NEW key, ~HasVal(e, key), NEW val, NEW f, IsSet(e, key, val, f)
    PROVE  IsPrefix(e, f)
<1>1. e \in Seq(Binding) /\ f \in Seq(Binding)
    BY Zenon DEF IsEnv, IsSet
<1>2. PICK x : f = Append(e, x)
    BY Zenon DEF IsSet
<1>3. PICK n \in Nat : n = Len(e)
    BY <1>1, LenProperties
<1>4. Len(f) = n + 1 /\ \A i \in 1 .. n : f[i] = e[i]
    BY <1>1, <1>2, <1>3
<1>5. SubSeq(f, 1, n) = e
    BY <1>1, <1>3, <1>4
<1>6. n \in 0 .. Len(f)
    BY <1>4
<1>. QED  BY <1>5, <1>6, Zenon DEF IsPrefix, Prefixes

Keeps(key, e, f) ==
    /\ HasVal(f, key) <=> HasVal(e, key)
    /\ HasVal(e, key) => getVal(f, key) = getVal(e, key)

LEMMA OtherValStays ==
    ASSUME NEW e, IsEnv(e), NEW key, NEW val, NEW f, IsSet(e, key, val, f), NEW other, other # key
    PROVE  Keeps(other, e, f)
    BY getValAfterSet DEF Keeps

(* A child that inherits its parent's environment follows PWD back to where the
   parent was, and has no other directory to choose. *)
LEMMA FollowsPWD ==
    ASSUME TreeInv, NEW e, IsEnv(e), NEW n, IsDir(tree, n), TellsWhere(e, n)
    PROVE  /\ Sought(e).type = IF HasVal(e, "PWD") THEN "dir" ELSE "none"
           /\ HasVal(e, "PWD") => Sought(e).node = n
           /\ Moved(e, Sought(e)) = e
<1>1. CASE HasVal(e, "PWD")
    <2>1. getVal(e, "PWD") = <<getAbsPath(n)>>
        BY <1>1, Zenon DEF TellsWhere
    <2>2. ASSUME NEW x PROVE <<x>>[1] = x
        OBVIOUS
    <2>3. getVal(e, "PWD")[1] = getAbsPath(n)
        BY <2>1, <2>2, Zenon
    <2>4. GetNodeFromPath(getAbsPath(n), <<>>, e) = Found(n)
        BY NodesAreNames, AbsPathFound, Zenon DEF IsDir
    <2>5. Sought(e) = Found(n)
        BY <1>1, <2>3, <2>4, Zenon DEF Sought
    <2>6. Sought(e).type = "dir" /\ Sought(e).node = n
        BY <2>5, FoundIs, Zenon DEF IsDir
    <2>7. Moved(e, Sought(e)) = e
        BY <1>1, <2>1, <2>6, SetAgain, Zenon DEF Moved
    <2>. QED  BY <1>1, <2>6, <2>7, Zenon
<1>2. CASE ~HasVal(e, "PWD")
    <2>1. Sought(e).type = "none"
        BY <1>2, FailsIs, Zenon DEF Sought
    <2>2. "none" # "dir"
        OBVIOUS
    <2>. QED  BY <1>2, <2>1, <2>2, Zenon DEF Moved
<1>. QED  BY <1>1, <1>2, Zenon

(* A child of execv starts in the directory its parent was in when it called execv,
   with the parent's variables, in their order and before any of its own, whatever
   the parent has done since and whatever the tree and the environment are. *)
THEOREM ChildrenStartAtHome == Spec => ChildStartsWhereItsParentWas
<1>. DEFINE Step == /\ child # <<>> /\ child' = <<>> /\ left = {}
                    /\ child[1].inherits
                    /\ TellsWhere(child[1].caller, child[1].from)
            Home == /\ status' = "running"
                    /\ cwd' = child[1].from
                    /\ TellsWhere(env', cwd')
                    /\ IsPrefix(child[1].caller, env')
<1>1. SessionInv /\ [Next]_vars => [Step => Home]_vars
    <2>1. SUFFICES ASSUME SessionInv, Next, Step PROVE Home
        BY Zenon
    <2>2. Start
        <3>1. \A e \in archive : ~InitVFS(e)
            BY <2>1, Zenon DEF InitVFS
        <3>2. child' # child
            BY <2>1, Zenon
        <3>3. \A c : child' # <<c>>
            BY <2>1
        <3>4. \A r : ~Otherwise(r)
            BY <3>2 DEF Otherwise
        <3>5. \A p : ~chdir(p)
            BY <3>2, <3>4 DEF chdir
        <3>6. \A key, val, overwrite : ~setenv(key, val, overwrite)
            BY <3>2 DEF setenv
        <3>7. \A p, params, envp, inherits : ~ExecImpl(p, params, envp, inherits)
            BY <3>3, <3>4, Zenon DEF ExecImpl
        <3>8. ~Exit
            BY <3>2 DEF Exit
        <3>. QED  BY <2>1, <3>1, <3>5, <3>6, <3>7, <3>8, Zenon DEF Next, execv, execve
    <2>3. PICK c, e, r : c = child[1] /\ e = Unpack(c.env) /\ r = Sought(e)
        BY Zenon
    <2>4. Starts(e, r) /\ TreeInv /\ Handed(tree, c)
        BY <2>1, <2>2, <2>3, StartIs, Zenon DEF SessionInv, StartedIn
    <2>5. IsEnv(e) /\ e = c.caller /\ IsDir(tree, c.from) /\ TellsWhere(e, c.from)
        BY <2>1, <2>3, <2>4, Zenon DEF Handed
    <2>6. /\ r.type = IF HasVal(e, "PWD") THEN "dir" ELSE "none"
          /\ HasVal(e, "PWD") => r.node = c.from
          /\ Moved(e, r) = e
        BY <2>3, <2>4, <2>5, FollowsPWD, Zenon
    <2>7. status' = "running"
        <3>1. status' = After(r) /\ r.type \in {"dir", "none"}
            BY <2>4, <2>6, Zenon DEF Starts
        <3>2. r.type # "trap" /\ r.type # "loop"
            BY <3>1
        <3>. QED  BY <3>1, <3>2 DEF After
    <2>8. cwd' = c.from
        <3>1. CASE HasVal(e, "PWD")
            BY <2>4, <2>6, <3>1, Zenon DEF Starts
        <3>2. CASE ~HasVal(e, "PWD")
            <4>1. r.type = "none" /\ "none" # "dir"
                BY <2>6, <3>2
            <4>2. cwd' = <<>>
                BY <2>4, <4>1, Zenon DEF Starts
            <4>. QED  BY <2>5, <3>2, <4>2, Zenon DEF TellsWhere
        <3>. QED  BY <3>1, <3>2, Zenon
    <2>9. env' = WithPath(e)
        BY <2>4, <2>6, Zenon DEF Starts
    <2>10. TellsWhere(env', cwd') /\ IsPrefix(e, env')
        <3>1. CASE WithPath(e) = e
            BY <2>5, <2>8, <2>9, <3>1, EnvIsPrefix, Zenon
        <3>2. CASE ~HasVal(e, "PATH") /\ IsSet(e, "PATH", <<<<"", "bin">>>>, WithPath(e))
            <4>1. "PWD" # "PATH"
                OBVIOUS
            <4>2. /\ HasVal(env', "PWD") <=> HasVal(e, "PWD")
                  /\ HasVal(e, "PWD") => getVal(env', "PWD") = getVal(e, "PWD")
                <5>1. PICK other, key, val : /\ other = "PWD" /\ key = "PATH"
                                             /\ val = <<<<"", "bin">>>>
                    BY Zenon
                <5>2. other # key /\ IsSet(e, key, val, WithPath(e))
                    BY <3>2, <4>1, <5>1, Zenon
                <5>3. Keeps(other, e, WithPath(e))
                    BY <2>5, <5>2, OtherValStays
                <5>. QED  BY <2>9, <5>1, <5>3, Zenon DEF Keeps
            <4>3. TellsWhere(env', cwd')
                BY <2>5, <2>8, <4>2, Zenon DEF TellsWhere
            <4>. QED  BY <2>5, <2>9, <3>2, <4>3, SetIsPrefix, Zenon
        <3>. QED  BY <2>5, <3>1, <3>2, PathSet, Zenon
    <2>. QED  BY <2>3, <2>5, <2>7, <2>8, <2>10, Zenon
<1>. QED  BY <1>1, SessionInvariance, PTL DEF Spec, ChildStartsWhereItsParentWas
=============================================================================
