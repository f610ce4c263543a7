--------------------------- MODULE SchedulerProofs ---------------------------
(***************************************************************************)
(* Proofs about Scheduler, and about the machine of Interrupts that it     *)
(* runs on, for every set of task addresses, every set of signal masks and *)
(* every set of exit values.                                               *)
(***************************************************************************)
EXTENDS Interrupts, TLAPS, SequenceTheorems

(* Cycling the queue to node n rotates it. *)
LEMMA CycleToRotates ==
    ASSUME NEW S, NEW q \in Seq(S), NEW n \in 2 .. Len(q)
    PROVE  /\ CycleTo(q, n) \in Seq(S)
           /\ Len(CycleTo(q, n)) = Len(q)
           /\ \A i \in 1 .. Len(q) :
                CycleTo(q, n)[i] = IF i <= Len(q) - n + 1 THEN q[i + n - 1]
                                   ELSE q[i - (Len(q) - n + 1)]
<1>. DEFINE a == SubSeq(q, n, Len(q))
            b == SubSeq(q, 1, n - 1)
            c == a \o b
<1>0. Len(q) \in Nat /\ \A i \in 1 .. Len(q) : q[i] \in S
    BY LenProperties, ElementOfSeq
<1>1. /\ a \in Seq(S) /\ Len(a) = Len(q) - n + 1
      /\ \A i \in 1 .. Len(q) - n + 1 : a[i] = q[n + i - 1]
    <2>1. \A i \in n .. Len(q) : q[i] \in S
        BY <1>0
    <2>. QED  BY <1>0, <2>1, SubSeqProperties
<1>2. /\ b \in Seq(S) /\ Len(b) = n - 1
      /\ \A i \in 1 .. n - 1 : b[i] = q[i]
    <2>1. \A i \in 1 .. n - 1 : q[i] \in S
        BY <1>0
    <2>2. /\ b \in Seq(S) /\ Len(b) = IF 1 <= n - 1 THEN (n - 1) - 1 + 1 ELSE 0
          /\ \A i \in 1 .. (n - 1) - 1 + 1 : b[i] = q[1 + i - 1]
        BY <1>0, <2>1, SubSeqProperties
    <2>. QED  BY <2>2, <1>0
<1>. HIDE DEF a, b
<1>3. /\ c \in Seq(S) /\ Len(c) = Len(a) + Len(b)
      /\ \A i \in 1 .. Len(a) + Len(b) :
            c[i] = IF i <= Len(a) THEN a[i] ELSE b[i - Len(a)]
    BY <1>1, <1>2, ConcatProperties, Zenon
<1>4. CycleTo(q, n) = c
    BY DEF CycleTo, a, b, c
<1>. HIDE DEF c
<1>5. Len(a) + Len(b) = Len(q)
    BY <1>0, <1>1, <1>2
<1>6. ASSUME NEW i \in 1 .. Len(q)
      PROVE  c[i] = IF i <= Len(q) - n + 1 THEN q[i + n - 1]
                           ELSE q[i - (Len(q) - n + 1)]
    <2>1. CASE i <= Len(a)
        <3>1. i \in 1 .. Len(q) - n + 1
            BY <1>0, <1>1, <2>1
        <3>2. c[i] = a[i]
            BY <1>3, <1>5, <2>1
        <3>. QED  BY <1>0, <1>1, <3>1, <3>2
    <2>2. CASE i > Len(a)
        <3>1. i - Len(a) \in 1 .. n - 1
            BY <1>0, <1>1, <2>2
        <3>2. c[i] = b[i - Len(a)]
            BY <1>3, <1>5, <2>2
        <3>3. b[i - Len(a)] = q[i - Len(a)]
            BY <1>2, <3>1
        <3>4. ~(i <= Len(q) - n + 1) /\ Len(a) = Len(q) - n + 1
            BY <1>0, <1>1, <2>2
        <3>. QED  BY <3>2, <3>3, <3>4
    <2>. QED  BY <1>0, <1>1, <2>1, <2>2
<1>. QED
    BY <1>3, <1>4, <1>5, <1>6

(* The same rotation after the front node has been unlinked. *)
LEMMA DropAndCycleToRotates ==
    ASSUME NEW S, NEW q \in Seq(S), NEW n \in 2 .. Len(q)
    PROVE  /\ DropAndCycleTo(q, n) \in Seq(S)
           /\ Len(DropAndCycleTo(q, n)) = Len(q) - 1
           /\ \A i \in 1 .. Len(q) - 1 :
                DropAndCycleTo(q, n)[i] =
                    IF i <= Len(q) - n + 1 THEN q[i + n - 1]
                    ELSE q[i - (Len(q) - n + 1) + 1]
<1>. DEFINE a == SubSeq(q, n, Len(q))
            b == SubSeq(q, 2, n - 1)
            c == a \o b
<1>0. Len(q) \in Nat /\ \A i \in 1 .. Len(q) : q[i] \in S
    BY LenProperties, ElementOfSeq
<1>1. /\ a \in Seq(S) /\ Len(a) = Len(q) - n + 1
      /\ \A i \in 1 .. Len(q) - n + 1 : a[i] = q[n + i - 1]
    <2>1. \A i \in n .. Len(q) : q[i] \in S
        BY <1>0
    <2>. QED  BY <1>0, <2>1, SubSeqProperties
<1>2. /\ b \in Seq(S) /\ Len(b) = n - 2
      /\ \A i \in 1 .. n - 2 : b[i] = q[i + 1]
    <2>1. \A i \in 2 .. n - 1 : q[i] \in S
        BY <1>0
    <2>2. /\ b \in Seq(S) /\ Len(b) = IF 2 <= n - 1 THEN (n - 1) - 2 + 1 ELSE 0
          /\ \A i \in 1 .. (n - 1) - 2 + 1 : b[i] = q[2 + i - 1]
        BY <1>0, <2>1, SubSeqProperties
    <2>. QED  BY <2>2, <1>0
<1>. HIDE DEF a, b
<1>3. /\ c \in Seq(S) /\ Len(c) = Len(a) + Len(b)
      /\ \A i \in 1 .. Len(a) + Len(b) :
            c[i] = IF i <= Len(a) THEN a[i] ELSE b[i - Len(a)]
    BY <1>1, <1>2, ConcatProperties, Zenon
<1>4. DropAndCycleTo(q, n) = c
    BY DEF DropAndCycleTo, a, b, c
<1>. HIDE DEF c
<1>5. Len(a) + Len(b) = Len(q) - 1
    BY <1>0, <1>1, <1>2
<1>6. ASSUME NEW i \in 1 .. Len(q) - 1
      PROVE  c[i] = IF i <= Len(q) - n + 1 THEN q[i + n - 1]
                           ELSE q[i - (Len(q) - n + 1) + 1]
    <2>1. CASE i <= Len(a)
        <3>1. i \in 1 .. Len(q) - n + 1
            BY <1>0, <1>1, <2>1
        <3>2. c[i] = a[i]
            BY <1>3, <1>5, <2>1
        <3>. QED  BY <1>0, <1>1, <3>1, <3>2
    <2>2. CASE i > Len(a)
        <3>1. i - Len(a) \in 1 .. n - 2
            BY <1>0, <1>1, <2>2
        <3>2. c[i] = b[i - Len(a)]
            BY <1>3, <1>5, <2>2
        <3>3. b[i - Len(a)] = q[i - Len(a) + 1]
            BY <1>2, <3>1, Zenon
        <3>4. ~(i <= Len(q) - n + 1) /\ Len(a) = Len(q) - n + 1
            BY <1>0, <1>1, <2>2
        <3>. QED  BY <3>2, <3>3, <3>4
    <2>. QED  BY <1>0, <1>1, <2>1, <2>2
<1>. QED
    BY <1>3, <1>4, <1>5, <1>6, Zenon

Injective(q) == \A i, j \in DOMAIN q : q[i] = q[j] => i = j

(* Where element i of the rotated queue comes from. *)
Source(L, n, i) == IF i <= L - n + 1 THEN i + n - 1 ELSE i - (L - n + 1)

LEMMA SourceIsOneToOne ==
    ASSUME NEW L \in Nat, NEW n \in 2 .. L
    PROVE  /\ \A i \in 1 .. L : Source(L, n, i) \in 1 .. L
           /\ \A i, j \in 1 .. L : Source(L, n, i) = Source(L, n, j) => i = j
           /\ \A a \in 1 .. L : \E i \in 1 .. L : Source(L, n, i) = a
           /\ Source(L, n, 1) = n
<1>1. \A i \in 1 .. L : Source(L, n, i) \in 1 .. L
    BY DEF Source
<1>2. \A i, j \in 1 .. L : Source(L, n, i) = Source(L, n, j) => i = j
    BY DEF Source
<1>3. ASSUME NEW a \in 1 .. L PROVE \E i \in 1 .. L : Source(L, n, i) = a
    <2>1. CASE a >= n
        <3>1. a - n + 1 \in 1 .. L /\ Source(L, n, a - n + 1) = a
            BY <2>1 DEF Source
        <3>. QED  BY <3>1
    <2>2. CASE a < n
        <3>1. a + (L - n + 1) \in 1 .. L /\ Source(L, n, a + (L - n + 1)) = a
            BY <2>2 DEF Source
        <3>. QED  BY <3>1
    <2>. QED  BY <2>1, <2>2
<1>4. Source(L, n, 1) = n
    BY DEF Source
<1>. QED  BY <1>1, <1>2, <1>3, <1>4

(* The same when the front node has been unlinked. *)
SourceDropped(L, n, i) ==
    IF i <= L - n + 1 THEN i + n - 1 ELSE i - (L - n + 1) + 1

LEMMA SourceDroppedIsOneToOne ==
    ASSUME NEW L \in Nat, NEW n \in 2 .. L
    PROVE  /\ \A i \in 1 .. L - 1 : SourceDropped(L, n, i) \in 2 .. L
           /\ \A i, j \in 1 .. L - 1 :
                SourceDropped(L, n, i) = SourceDropped(L, n, j) => i = j
           /\ \A a \in 2 .. L : \E i \in 1 .. L - 1 : SourceDropped(L, n, i) = a
           /\ SourceDropped(L, n, 1) = n
<1>1. \A i \in 1 .. L - 1 : SourceDropped(L, n, i) \in 2 .. L
    BY DEF SourceDropped
<1>2. \A i, j \in 1 .. L - 1 :
        SourceDropped(L, n, i) = SourceDropped(L, n, j) => i = j
    BY DEF SourceDropped
<1>3. ASSUME NEW a \in 2 .. L
      PROVE  \E i \in 1 .. L - 1 : SourceDropped(L, n, i) = a
    <2>1. CASE a >= n
        <3>1. a - n + 1 \in 1 .. L - 1 /\ SourceDropped(L, n, a - n + 1) = a
            BY <2>1 DEF SourceDropped
        <3>. QED  BY <3>1
    <2>2. CASE a < n
        <3>1. a + (L - n) \in 1 .. L - 1 /\ SourceDropped(L, n, a + (L - n)) = a
            BY <2>2 DEF SourceDropped
        <3>. QED  BY <3>1
    <2>. QED  BY <2>1, <2>2
<1>4. SourceDropped(L, n, 1) = n
    BY DEF SourceDropped
<1>. QED  BY <1>1, <1>2, <1>3, <1>4

(* Neither way of leaving the processor loses or duplicates another task, and
   the node that was chosen ends up in front. *)
LEMMA CycleToKeepsTasks ==
    ASSUME NEW S, NEW q \in Seq(S), NEW n \in 2 .. Len(q), Injective(q)
    PROVE  /\ CycleTo(q, n) \in Seq(S)
           /\ Len(CycleTo(q, n)) = Len(q)
           /\ Injective(CycleTo(q, n))
           /\ Range(CycleTo(q, n)) = Range(q)
           /\ CycleTo(q, n)[1] = q[n]
<1>. DEFINE c == CycleTo(q, n)
            L == Len(q)
<1>1. /\ c \in Seq(S) /\ Len(c) = L
      /\ \A i \in 1 .. L : c[i] = q[Source(L, n, i)]
    BY CycleToRotates DEF Source
<1>2. L \in Nat /\ DOMAIN q = 1 .. L /\ DOMAIN c = 1 .. L
    BY <1>1, LenProperties
<1>. HIDE DEF c, L
<1>3. n \in 2 .. L
    BY DEF L
<1>4. Injective(c)
    <2>1. ASSUME NEW i \in 1 .. L, NEW j \in 1 .. L, c[i] = c[j]
          PROVE  Source(L, n, i) = Source(L, n, j)
        <3>1. \A m \in 1 .. L : Source(L, n, m) \in 1 .. L
            BY <1>2, <1>3, SourceIsOneToOne, Zenon
        <3>. QED  BY <1>1, <1>2, <2>1, <3>1 DEF Injective
    <2>. QED  BY <1>2, <1>3, <2>1, SourceIsOneToOne DEF Injective
<1>5. Range(c) = Range(q)
    <2>1. ASSUME NEW i \in 1 .. L PROVE c[i] \in Range(q)
        <3>1. Source(L, n, i) \in 1 .. L /\ c[i] = q[Source(L, n, i)]
            BY <1>1, <1>2, <1>3, SourceIsOneToOne, Zenon
        <3>. QED  BY <1>2, <3>1 DEF Range
    <2>2. ASSUME NEW a \in 1 .. L PROVE q[a] \in Range(c)
        <3>1. PICK i \in 1 .. L : Source(L, n, i) = a
            BY <1>2, <1>3, SourceIsOneToOne
        <3>. QED  BY <1>1, <1>2, <3>1 DEF Range
    <2>. QED  BY <1>2, <2>1, <2>2, Zenon DEF Range
<1>6. c[1] = q[n]
    BY <1>1, <1>2, <1>3, SourceIsOneToOne
<1>. QED  BY <1>1, <1>4, <1>5, <1>6 DEF c, L

LEMMA DropAndCycleToKeepsOthers ==
    ASSUME NEW S, NEW q \in Seq(S), NEW n \in 2 .. Len(q), Injective(q)
    PROVE  /\ DropAndCycleTo(q, n) \in Seq(S)
           /\ Len(DropAndCycleTo(q, n)) = Len(q) - 1
           /\ Injective(DropAndCycleTo(q, n))
           /\ Range(DropAndCycleTo(q, n)) = Range(q) \ {q[1]}
           /\ DropAndCycleTo(q, n)[1] = q[n]
<1>. DEFINE c == DropAndCycleTo(q, n)
            L == Len(q)
<1>1. /\ c \in Seq(S) /\ Len(c) = L - 1
      /\ \A i \in 1 .. L - 1 : c[i] = q[SourceDropped(L, n, i)]
    BY DropAndCycleToRotates DEF SourceDropped
<1>2. L \in Nat /\ DOMAIN q = 1 .. L /\ DOMAIN c = 1 .. L - 1
    BY <1>1, LenProperties
<1>. HIDE DEF c, L
<1>3. n \in 2 .. L
    BY DEF L
<1>4. Injective(c)
    <2>1. ASSUME NEW i \in 1 .. L - 1, NEW j \in 1 .. L - 1, c[i] = c[j]
          PROVE  SourceDropped(L, n, i) = SourceDropped(L, n, j)
        <3>1. \A m \in 1 .. L - 1 : SourceDropped(L, n, m) \in 1 .. L
            BY <1>2, <1>3 DEF SourceDropped
        <3>. QED  BY <1>1, <1>2, <2>1, <3>1 DEF Injective
    <2>. QED  BY <1>2, <1>3, <2>1, SourceDroppedIsOneToOne DEF Injective
<1>5. Range(c) = Range(q) \ {q[1]}
    <2>1. ASSUME NEW i \in 1 .. L - 1 PROVE c[i] \in Range(q) \ {q[1]}
        <3>1. PICK a \in 2 .. L : c[i] = q[a]
            BY <1>1, <1>2, <1>3, SourceDroppedIsOneToOne, Zenon
        <3>2. q[a] # q[1] /\ q[a] \in Range(q)
            BY <1>2 DEF Injective, Range
        <3>. QED  BY <3>1, <3>2
    <2>2. ASSUME NEW a \in 2 .. L PROVE q[a] \in Range(c)
        <3>1. PICK i \in 1 .. L - 1 : SourceDropped(L, n, i) = a
            BY <1>2, <1>3, SourceDroppedIsOneToOne
        <3>. QED  BY <1>1, <1>2, <3>1 DEF Range
    <2>. QED  BY <1>2, <2>1, <2>2 DEF Range
<1>6. c[1] = q[n]
    BY <1>1, <1>2, <1>3, SourceDroppedIsOneToOne
<1>. QED  BY <1>1, <1>4, <1>5, <1>6 DEF c, L

-----------------------------------------------------------------------------

WaitLists == [Addrs -> SUBSET Entries]
AtMostOne(w) == \A t \in Addrs : \A e, f \in w[t] : e = f

(* What sending sig from sender may do to the wait lists w: no entry is added,
   an entry left unanswered is as it was, and an entry of a listener in the set
   ls that expects the signal is answered. *)
Answers(w, s, ls, sender, sig) ==
    /\ s \in WaitLists
    /\ \A t \in Addrs : w[t] = {} => s[t] = {}
    /\ AtMostOne(w) => AtMostOne(s)
    /\ \A t \in Addrs : \A e \in s[t] : e.received = NoSignal => e \in w[t]
    /\ \A t \in Addrs \cap ls : \A e \in s[t] :
            e.task = sender /\ sig \in e.expecting => e.received = sig

LEMMA SendSignalAnswers ==
    ASSUME NEW w \in WaitLists, NEW l, NEW sender \in Addrs,
           NEW sig \in Signals, NEW v \in Retvals
    PROVE  Answers(w, SendSignal(w, l, sender, sig, v), l[sender], sender, sig)
<1>. DEFINE s == SendSignal(w, l, sender, sig, v)
            upd(e) == IF e.task = sender /\ sig \in e.expecting
                      THEN [e EXCEPT !.received = sig, !.value = v] ELSE e
<1>1. \A e \in Entries :
        /\ upd(e) \in Entries
        /\ upd(e).task = e.task /\ upd(e).expecting = e.expecting
        /\ upd(e).received = NoSignal => upd(e) = e
        /\ e.task = sender /\ sig \in e.expecting => upd(e).received = sig
    BY Zenon DEF Entries, Signals, NoSignal
<1>2. \A t \in Addrs : s[t] = IF t \in l[sender] THEN {upd(e) : e \in w[t]} ELSE w[t]
    BY DEF SendSignal
<1>3. s = [t \in Addrs |-> s[t]]
    BY DEF SendSignal
<1>4. \A t \in Addrs : w[t] \in SUBSET Entries
    BY DEF WaitLists
<1>. HIDE DEF s, upd
<1>5. \A t \in Addrs : \A f \in s[t] :
        \E e \in w[t] : f = IF t \in l[sender] THEN upd(e) ELSE e
    BY <1>2, Zenon
<1>6. s \in WaitLists
    <2>1. ASSUME NEW t \in Addrs, NEW f \in s[t] PROVE f \in Entries
        BY <1>1, <1>4, <1>5
    <2>. QED  BY <1>3, <2>1 DEF WaitLists
<1>7. \A t \in Addrs : w[t] = {} => s[t] = {}
    BY <1>5
<1>8. AtMostOne(w) => AtMostOne(s)
    <2>. SUFFICES ASSUME AtMostOne(w), NEW t \in Addrs,
                         NEW f \in s[t], NEW g \in s[t]
                  PROVE  f = g
        BY DEF AtMostOne
    <2>. QED  BY <1>5 DEF AtMostOne
<1>9. ASSUME NEW t \in Addrs, NEW f \in s[t], f.received = NoSignal
      PROVE  f \in w[t]
    BY <1>1, <1>4, <1>5, <1>9
<1>10. ASSUME NEW t \in Addrs \cap l[sender], NEW f \in s[t],
              f.task = sender, sig \in f.expecting
       PROVE  f.received = sig
    <2>1. PICK e \in w[t] : f = upd(e)
        BY <1>5
    <2>. QED  BY <1>1, <1>4, <1>10, <2>1
<1>. QED  BY <1>6, <1>7, <1>8, <1>9, <1>10 DEF s, Answers

(* The tail of Schedule leaves the task it switches to with nothing to wait
   for and makes no other task wait. *)
LEMMA SwitchToFacts ==
    ASSUME NEW q, NEW w \in WaitLists, NEW l,
           q[1] \in Addrs, AtMostOne(w), canRunTask(w, q[1]), SwitchTo(q, w, l)
    PROVE  /\ gTaskQueue' = q
           /\ waiting' \in WaitLists
           /\ AtMostOne(waiting')
           /\ waiting'[q[1]] = {}
           /\ \A t \in Addrs : w[t] = {} => waiting'[t] = {}
           /\ \A t \in Addrs : \A e \in waiting'[t] :
                e.received = NoSignal => e \in w[t]
           /\ result' \in Results
<1>. DEFINE new == q[1]
            got == {e \in w[new] : e.received # NoSignal}
            Drained(x) == /\ x \in WaitLists /\ AtMostOne(x) /\ x[new] = {}
                          /\ \A t \in Addrs : x[t] \subseteq w[t]
<1>0. Head(q) = new /\ "kRunning" \in Signals /\ 0 \in Retvals
    BY SchedulerAssumption DEF Signals
<1>1. ASSUME NEW x, Drained(x), waiting' = SendSignal(x, l, new, "kRunning", 0)
      PROVE  /\ waiting' \in WaitLists /\ AtMostOne(waiting') /\ waiting'[new] = {}
             /\ \A t \in Addrs : w[t] = {} => waiting'[t] = {}
             /\ \A t \in Addrs : \A e \in waiting'[t] :
                    e.received = NoSignal => e \in w[t]
    <2>1. /\ waiting' \in WaitLists /\ AtMostOne(waiting')
          /\ \A t \in Addrs : x[t] = {} => waiting'[t] = {}
          /\ \A t \in Addrs : \A e \in waiting'[t] :
                e.received = NoSignal => e \in x[t]
        <3>1. Answers(x, waiting', l[new], new, "kRunning")
            BY <1>0, <1>1, SendSignalAnswers
        <3>. QED  BY <1>1, <3>1 DEF Answers
    <2>. QED  BY <1>1, <2>1
<1>2. CASE got = {} /\ waiting' = SendSignal(w, l, new, "kRunning", 0)
           /\ result' = NoResult
    <2>1. w[new] = {}
        BY <1>2 DEF canRunTask
    <2>2. NoResult \in Results
        BY SchedulerAssumption DEF NoResult, Results
    <2>. QED  BY <1>1, <1>2, <2>1, <2>2 DEF SwitchTo
<1>3. CASE \E e \in got :
            /\ waiting' = SendSignal([w EXCEPT ![new] = @ \ {e}], l, new, "kRunning", 0)
            /\ result' = [status |-> "K_OK", ebx |-> e.received, ecx |-> e.value]
    <2>1. PICK e \in got :
            /\ waiting' = SendSignal([w EXCEPT ![new] = @ \ {e}], l, new, "kRunning", 0)
            /\ result' = [status |-> "K_OK", ebx |-> e.received, ecx |-> e.value]
        BY <1>3, Zenon
    <2>. DEFINE x == [w EXCEPT ![new] = @ \ {e}]
    <2>2. \A t \in Addrs : x[t] = IF t = new THEN w[t] \ {e} ELSE w[t]
        BY DEF WaitLists
    <2>3. x \in WaitLists
        BY DEF WaitLists
    <2>4. w[new] \ {e} = {}
        BY DEF AtMostOne
    <2>5. Drained(x)
        BY <2>2, <2>3, <2>4 DEF AtMostOne
    <2>6. e \in Entries
        BY DEF WaitLists
    <2>7. result' \in Results
        BY <2>1, <2>6 DEF Entries, Results
    <2>. QED  BY <1>1, <2>1, <2>5, <2>7, Zenon DEF SwitchTo
<1>. QED  BY <1>0, <1>2, <1>3, Zenon DEF SwitchTo

-----------------------------------------------------------------------------

(* The current task and the nodes Schedule may choose. *)
LEMMA QueueFacts ==
    ASSUME SchedulerInv
    PROVE  /\ gTaskQueue \in Seq(Addrs) /\ Injective(gTaskQueue)
           /\ Len(gTaskQueue) \in Nat \ {0}
           /\ DOMAIN gTaskQueue = 1 .. Len(gTaskQueue)
           /\ Current = gTaskQueue[1] /\ Current \in Queued
           /\ Queued \subseteq Addrs
           /\ \A n \in NextNode :
                /\ n \in 2 .. Len(gTaskQueue)
                /\ gTaskQueue[n] \in Queued \ {Current}
                /\ canRunTask(waiting, gTaskQueue[n])
<1>1. /\ gTaskQueue \in Seq(Addrs) /\ Injective(gTaskQueue)
      /\ Len(gTaskQueue) \in Nat
      /\ DOMAIN gTaskQueue = 1 .. Len(gTaskQueue)
      /\ \A i \in 1 .. Len(gTaskQueue) : gTaskQueue[i] \in Addrs
    BY LenProperties, ElementOfSeq DEF SchedulerInv, TypeOK, QueueIsSound, Injective
<1>2. Queued = {gTaskQueue[i] : i \in 1 .. Len(gTaskQueue)}
    BY <1>1 DEF Queued, Range
<1>3. Kernel \in Queued
    BY DEF SchedulerInv, OnlyQueuedTasksWait
<1>4. Len(gTaskQueue) \in Nat \ {0}
    BY <1>1, <1>2, <1>3
<1>5. Current = gTaskQueue[1]
    BY DEF Current
<1>6. Current \in Queued /\ Queued \subseteq Addrs
    BY <1>1, <1>2, <1>4, <1>5
<1>7. ASSUME NEW n \in NextNode
      PROVE  /\ n \in 2 .. Len(gTaskQueue)
             /\ gTaskQueue[n] \in Queued \ {Current}
             /\ canRunTask(waiting, gTaskQueue[n])
    <2>1. n \in 2 .. Len(gTaskQueue) /\ canRunTask(waiting, gTaskQueue[n])
        BY DEF NextNode, Candidates
    <2>2. gTaskQueue[n] # gTaskQueue[1]
        BY <1>1, <1>4, <2>1 DEF Injective
    <2>. QED  BY <1>1, <1>2, <1>5, <2>1, <2>2
<1>. QED  BY <1>1, <1>4, <1>5, <1>6, <1>7

LEMMA InitEstablishesInv == Init => SchedulerInv
<1>. SUFFICES ASSUME NEW first \in Tasks,
                     gTaskQueue = <<Kernel, first>>, live = {Kernel, first},
                     parent = [t \in Addrs |-> IF t = first THEN Kernel ELSE NoTask],
                     waiting = [t \in Addrs |-> {}],
                     listeners = [t \in Addrs |-> {}], result = NoResult
              PROVE  SchedulerInv
    BY DEF Init
<1>1. Kernel \in Addrs /\ first \in Addrs /\ Kernel # first
    BY SchedulerAssumption DEF Addrs
<1>2. Queued = {Kernel, first} /\ Current = Kernel
    BY DEF Queued, Current, Range
<1>3. TypeOK
    BY <1>1, SchedulerAssumption DEF TypeOK, NoResult, Results
<1>4. QueueIsSound
    BY <1>1, <1>2 DEF QueueIsSound
<1>5. OneWaitAtATime /\ OnlyQueuedTasksWait /\ TerminationWillBeSent
    BY <1>1, <1>2 DEF OneWaitAtATime, OnlyQueuedTasksWait, TerminationWillBeSent, TypeOK, Addrs
<1>. QED  BY <1>3, <1>4, <1>5 DEF SchedulerInv

-----------------------------------------------------------------------------

(* A switch that keeps every task queued: w and l are the lists just before the
   tail of Schedule, equal to the old ones but for the wait of the current task
   and the listeners it joined. *)
LEMMA CycleKeepsInv ==
    ASSUME SchedulerInv, NEW n \in NextNode, NEW w \in WaitLists,
           AtMostOne(w),
           \A t \in Addrs \ {Current} : w[t] = waiting[t],
           Current = Kernel => w[Kernel] = {},
           \A e \in w[Current] : e.received = NoSignal =>
                e.task \in Queued /\ Current \in listeners'[e.task],
           listeners' \in [Addrs -> SUBSET Addrs],
           \A t \in Addrs : listeners[t] \subseteq listeners'[t],
           SwitchTo(CycleTo(gTaskQueue, n), w, listeners'),
           UNCHANGED <<live, parent>>
    PROVE  SchedulerInv'
<1>. DEFINE q == CycleTo(gTaskQueue, n)
<1>1. /\ gTaskQueue \in Seq(Addrs) /\ Injective(gTaskQueue)
      /\ Current \in Queued /\ Queued \subseteq Addrs
      /\ n \in 2 .. Len(gTaskQueue)
      /\ gTaskQueue[n] \in Queued \ {Current}
      /\ canRunTask(waiting, gTaskQueue[n])
    BY QueueFacts
<1>2. /\ q \in Seq(Addrs) /\ Injective(q) /\ Range(q) = Queued
      /\ q[1] = gTaskQueue[n]
    BY <1>1, CycleToKeepsTasks, SMTT(30) DEF Queued
<1>. HIDE DEF q
<1>3. q[1] \in Addrs /\ canRunTask(w, q[1])
    BY <1>1, <1>2 DEF canRunTask
<1>4. /\ gTaskQueue' = q
      /\ waiting' \in WaitLists
      /\ AtMostOne(waiting')
      /\ waiting'[q[1]] = {}
      /\ \A t \in Addrs : w[t] = {} => waiting'[t] = {}
      /\ \A t \in Addrs : \A e \in waiting'[t] : e.received = NoSignal => e \in w[t]
      /\ result' \in Results
    BY <1>3, SwitchToFacts DEF q
<1>5. Queued' = Queued /\ Current' = q[1]
    BY <1>2, <1>4, SMTT(30) DEF Queued, Current
<1>6. TypeOK'
    BY <1>2, <1>4 DEF TypeOK, WaitLists, SchedulerInv
<1>7. QueueIsSound'
    BY <1>2, <1>4, <1>5, Zenon DEF QueueIsSound, Injective, SchedulerInv
<1>8. OneWaitAtATime'
    BY <1>4, <1>5 DEF OneWaitAtATime, AtMostOne
<1>9. OnlyQueuedTasksWait'
    <2>1. Kernel \in Addrs /\ w[Kernel] = {}
        BY DEF SchedulerInv, OnlyQueuedTasksWait, Addrs
    <2>2. \A t \in Addrs \ Queued : w[t] = {}
        BY <1>1 DEF SchedulerInv, OnlyQueuedTasksWait
    <2>. QED  BY <1>4, <1>5, <2>1, <2>2, Zenon DEF OnlyQueuedTasksWait, SchedulerInv
<1>10. TerminationWillBeSent'
    <2>. SUFFICES ASSUME NEW t \in live, NEW e \in waiting'[t],
                         "kTerminated" \in e.expecting, e.received = NoSignal
                  PROVE  e.task \in Queued /\ t \in listeners'[e.task]
        BY <1>5 DEF TerminationWillBeSent
    <2>1. t \in Addrs /\ e \in w[t]
        BY <1>4 DEF SchedulerInv, TypeOK
    <2>2. CASE t = Current
        BY <2>1, <2>2
    <2>3. CASE t # Current
        <3>1. e \in waiting[t]
            BY <2>1, <2>3, Zenon
        <3>2. e.task \in Queued /\ t \in listeners[e.task]
            BY <3>1 DEF SchedulerInv, TerminationWillBeSent
        <3>. QED  BY <1>1, <3>2
    <2>. QED  BY <2>2, <2>3
<1>. QED  BY <1>6, <1>7, <1>8, <1>9, <1>10 DEF SchedulerInv

LEMMA TimerTickKeepsInv ==
    ASSUME SchedulerInv, TimerTick
    PROVE  SchedulerInv'
<1>0. /\ waiting \in WaitLists /\ AtMostOne(waiting) /\ waiting[Current] = {}
      /\ listeners \in [Addrs -> SUBSET Addrs]
    BY DEF SchedulerInv, TypeOK, WaitLists, AtMostOne, OneWaitAtATime
<1>1. CASE \E n \in NextNode : SwitchTo(CycleTo(gTaskQueue, n), waiting, listeners)
    <2>1. PICK n \in NextNode : SwitchTo(CycleTo(gTaskQueue, n), waiting, listeners')
        BY <1>1 DEF TimerTick
    <2>2. listeners' = listeners /\ UNCHANGED <<live, parent>>
        BY DEF TimerTick
    <2>. QED  BY <1>0, <2>1, <2>2, CycleKeepsInv
<1>2. CASE result' = NoResult /\ UNCHANGED <<gTaskQueue, waiting>>
    <2>1. NoResult \in Results
        BY SchedulerAssumption DEF NoResult, Results
    <2>2. UNCHANGED <<gTaskQueue, live, parent, waiting, listeners>>
        BY <1>2 DEF TimerTick
    <2>3. Queued' = Queued /\ Current' = Current
        BY <2>2 DEF Queued, Current
    <2>. QED  BY <1>2, <2>1, <2>2, <2>3 DEF SchedulerInv, TypeOK, QueueIsSound,
                OneWaitAtATime, OnlyQueuedTasksWait, TerminationWillBeSent
<1>. QED  BY <1>1, <1>2 DEF TimerTick

LEMMA ProcessCreateKeepsInv ==
    ASSUME SchedulerInv, NEW t \in Tasks, ProcessCreate(t)
    PROVE  SchedulerInv'
<1>1. /\ t \in Addrs \ live /\ live' = live \cup {t} /\ Current \in Addrs
      /\ gTaskQueue' = gTaskQueue /\ Queued' = Queued /\ Current' = Current
      /\ parent' = [parent EXCEPT ![t] = Current]
      /\ waiting' = [waiting EXCEPT ![t] = {}]
      /\ listeners' = [listeners EXCEPT ![t] = {}]
      /\ result' = NoResult
    BY DEF ProcessCreate, Addrs, Queued, Current
<1>2. t \notin Queued /\ waiting' = waiting
    <2>1. t \notin Queued
        BY <1>1 DEF SchedulerInv, QueueIsSound
    <2>2. waiting[t] = {}
        BY <1>1, <2>1 DEF SchedulerInv, OnlyQueuedTasksWait
    <2>. QED  BY <1>1, <2>1, <2>2 DEF SchedulerInv, TypeOK
<1>3. NoResult \in Results
    BY SchedulerAssumption DEF NoResult, Results
<1>4. TypeOK'
    BY <1>1, <1>2, <1>3 DEF SchedulerInv, TypeOK
<1>5. QueueIsSound' /\ OneWaitAtATime' /\ OnlyQueuedTasksWait'
    BY <1>1, <1>2 DEF SchedulerInv, QueueIsSound, OneWaitAtATime, OnlyQueuedTasksWait
<1>6. TerminationWillBeSent'
    <2>. SUFFICES ASSUME NEW u \in live', NEW e \in waiting[u],
                         "kTerminated" \in e.expecting, e.received = NoSignal
                  PROVE  e.task \in Queued /\ u \in listeners'[e.task]
        BY <1>1, <1>2 DEF TerminationWillBeSent
    <2>1. u # t
        BY <1>1, <1>2 DEF SchedulerInv, OnlyQueuedTasksWait
    <2>2. e.task \in Queued /\ u \in listeners[e.task]
        BY <1>1, <2>1 DEF SchedulerInv, TerminationWillBeSent
    <2>3. e.task # t
        BY <1>2, <2>2
    <2>4. e.task \in Addrs
        BY <2>2, QueueFacts
    <2>. QED  BY <1>1, <2>2, <2>3, <2>4 DEF SchedulerInv, TypeOK
<1>. QED  BY <1>4, <1>5, <1>6 DEF SchedulerInv

LEMMA ProcessStartKeepsInv ==
    ASSUME SchedulerInv, NEW t \in Tasks, ProcessStart(t)
    PROVE  SchedulerInv'
<1>1. /\ t \in Addrs /\ t \in live \ Queued
      /\ gTaskQueue' = Append(gTaskQueue, t)
      /\ waiting' = SendSignal(waiting, listeners, t, "kReady", 0)
      /\ result' = NoResult
      /\ UNCHANGED <<live, parent, listeners>>
    BY DEF ProcessStart, Addrs
<1>2. NoResult \in Results /\ 0 \in Retvals /\ "kReady" \in Signals
    BY SchedulerAssumption DEF NoResult, Results, Signals
<1>3. waiting \in WaitLists /\ AtMostOne(waiting)
    BY DEF SchedulerInv, TypeOK, WaitLists, AtMostOne, OneWaitAtATime
<1>4. Answers(waiting, waiting', listeners[t], t, "kReady")
    BY <1>1, <1>2, <1>3, SendSignalAnswers
<1>5. /\ gTaskQueue \in Seq(Addrs) /\ Injective(gTaskQueue)
      /\ Len(gTaskQueue) \in Nat \ {0}
      /\ DOMAIN gTaskQueue = 1 .. Len(gTaskQueue)
      /\ Current = gTaskQueue[1] /\ Current \in Queued /\ Queued \subseteq Addrs
    BY QueueFacts
<1>6. /\ gTaskQueue' \in Seq(Addrs)
      /\ Len(gTaskQueue') = Len(gTaskQueue) + 1
      /\ \A i \in 1 .. Len(gTaskQueue) : gTaskQueue'[i] = gTaskQueue[i]
      /\ gTaskQueue'[Len(gTaskQueue) + 1] = t
    BY <1>1, <1>5, AppendProperties
<1>7. DOMAIN gTaskQueue' = 1 .. Len(gTaskQueue) + 1
    BY <1>6, LenProperties
<1>8. Queued' = Queued \cup {t} /\ Current' = Current
    <2>1. Current' = gTaskQueue'[1]
        BY DEF Current
    <2>2. Queued' = {gTaskQueue'[i] : i \in 1 .. Len(gTaskQueue) + 1}
        BY <1>7 DEF Queued, Range
    <2>3. Queued = {gTaskQueue[i] : i \in 1 .. Len(gTaskQueue)}
        BY <1>5 DEF Queued, Range
    <2>4. Queued' \subseteq Queued \cup {t}
        BY <1>5, <1>6, <2>2, <2>3
    <2>5. Queued \cup {t} \subseteq Queued'
        BY <1>5, <1>6, <2>2, <2>3
    <2>. QED  BY <1>5, <1>6, <2>1, <2>4, <2>5, SMTT(30)
<1>9. Injective(gTaskQueue')
    <2>1. \A i \in 1 .. Len(gTaskQueue) : gTaskQueue[i] # t
        BY <1>1, <1>5, Zenon DEF Queued, Range
    <2>. QED  BY <1>5, <1>6, <1>7, <2>1 DEF Injective
<1>10. TypeOK'
    BY <1>1, <1>2, <1>4, <1>6 DEF SchedulerInv, TypeOK, Answers, WaitLists
<1>11. QueueIsSound'
    BY <1>1, <1>8, <1>9, Zenon DEF SchedulerInv, QueueIsSound, Injective
<1>12. OneWaitAtATime'
    BY <1>3, <1>4, <1>5, <1>8 DEF SchedulerInv, OneWaitAtATime, Answers, AtMostOne
<1>13. OnlyQueuedTasksWait'
    BY <1>4, <1>5, <1>8, Zenon DEF SchedulerInv, OnlyQueuedTasksWait, Answers, Addrs
<1>14. TerminationWillBeSent'
    BY <1>1, <1>4, <1>8, Zenon DEF SchedulerInv, TypeOK, TerminationWillBeSent, Answers
<1>. QED  BY <1>10, <1>11, <1>12, <1>13, <1>14 DEF SchedulerInv

LEMMA ProcessInfoKeepsInv ==
    ASSUME SchedulerInv, ProcessInfo
    PROVE  SchedulerInv'
<1>1. UNCHANGED <<gTaskQueue, live, parent, waiting, listeners>>
    BY DEF ProcessInfo
<1>2. result' \in Results
    BY SchedulerAssumption DEF ProcessInfo, NoResult, Results
<1>3. Queued' = Queued /\ Current' = Current
    BY <1>1 DEF Queued, Current
<1>. QED  BY <1>1, <1>2, <1>3 DEF SchedulerInv, TypeOK, QueueIsSound,
            OneWaitAtATime, OnlyQueuedTasksWait, TerminationWillBeSent

LEMMA ProcessWaitReturnsKeepsInv ==
    ASSUME SchedulerInv, NEW h \in Handles, NEW mask \in Masks,
           ProcessWaitReturns(h, mask)
    PROVE  SchedulerInv'
<1>1. UNCHANGED <<gTaskQueue, live, parent, waiting, listeners>>
    BY DEF ProcessWaitReturns
<1>2. result' \in Results
    BY SchedulerAssumption DEF ProcessWaitReturns, Results, Handles
<1>3. Queued' = Queued /\ Current' = Current
    BY <1>1, Zenon DEF Queued, Current
<1>. QED  BY <1>1, <1>2, <1>3 DEF SchedulerInv, TypeOK, QueueIsSound,
            OneWaitAtATime, OnlyQueuedTasksWait, TerminationWillBeSent

LEMMA ProcessWaitBlocksKeepsInv ==
    ASSUME SchedulerInv, NEW h \in Addrs, NEW mask \in Masks,
           ProcessWaitBlocks(h, mask)
    PROVE  SchedulerInv'
<1>. DEFINE me == Current
            new == [task |-> h, expecting |-> mask, received |-> NoSignal, value |-> 0]
            w == WaitOn(me, h, mask)
<1>1. /\ me \in Addrs /\ me # Kernel /\ h \in Queued
      /\ listeners' = [listeners EXCEPT ![h] = @ \cup {me}]
      /\ UNCHANGED <<live, parent>>
    BY SchedulerAssumption DEF ProcessWaitBlocks, Addrs
<1>2. /\ waiting \in WaitLists /\ AtMostOne(waiting) /\ waiting[me] = {}
      /\ listeners \in [Addrs -> SUBSET Addrs]
    BY DEF SchedulerInv, TypeOK, WaitLists, AtMostOne, OneWaitAtATime
<1>3. new \in Entries
    BY SchedulerAssumption DEF Entries
<1>4. w = [waiting EXCEPT ![me] = {new}]
    BY <1>1, <1>2 DEF WaitOn, WaitLists
<1>. HIDE DEF me, new, w
<1>5. w \in WaitLists /\ w[me] = {new} /\ \A t \in Addrs \ {me} : w[t] = waiting[t]
    BY <1>1, <1>2, <1>3, <1>4 DEF WaitLists
<1>6. AtMostOne(w)
    BY <1>2, <1>5 DEF AtMostOne
<1>7. \A e \in w[me] : e.task \in Queued /\ me \in listeners'[e.task]
    BY <1>1, <1>2, <1>5, SMTT(30) DEF new
<1>8. /\ listeners' \in [Addrs -> SUBSET Addrs]
      /\ \A t \in Addrs : listeners[t] \subseteq listeners'[t]
    BY <1>1, <1>2
<1>9. PICK n \in NextNode : SwitchTo(CycleTo(gTaskQueue, n), w, listeners')
    BY DEF ProcessWaitBlocks, w, me
<1>. QED  BY <1>1, <1>5, <1>6, <1>7, <1>8, <1>9, CycleKeepsInv, Zenon DEF me

LEMMA TerminateKeepsInv ==
    ASSUME SchedulerInv, NEW retval \in Retvals, Terminate(retval)
    PROVE  SchedulerInv'
<1>. DEFINE dead == Current
            s == SendSignal(waiting, listeners, dead, "kTerminated", retval)
            w == [s EXCEPT ![dead] = {}]
<1>1. /\ dead \in Addrs /\ dead # Kernel
      /\ listeners' = [listeners EXCEPT ![dead] = {}]
      /\ live' = live \ {dead}
      /\ parent' = [parent EXCEPT ![dead] = NoTask]
    BY SchedulerAssumption DEF Terminate, Addrs
<1>2. PICK n \in NextNode : SwitchTo(DropAndCycleTo(gTaskQueue, n), w, listeners')
    BY DEF Terminate
<1>3. /\ waiting \in WaitLists /\ AtMostOne(waiting) /\ waiting[dead] = {}
      /\ listeners \in [Addrs -> SUBSET Addrs]
    BY DEF SchedulerInv, TypeOK, WaitLists, AtMostOne, OneWaitAtATime
<1>4. /\ gTaskQueue \in Seq(Addrs) /\ Injective(gTaskQueue)
      /\ dead = gTaskQueue[1] /\ dead \in Queued /\ Queued \subseteq Addrs
      /\ n \in 2 .. Len(gTaskQueue)
      /\ gTaskQueue[n] \in Queued \ {dead}
      /\ canRunTask(waiting, gTaskQueue[n])
    BY QueueFacts
<1>. DEFINE q == DropAndCycleTo(gTaskQueue, n)
<1>5. /\ q \in Seq(Addrs) /\ Injective(q) /\ Range(q) = Queued \ {dead}
      /\ q[1] = gTaskQueue[n]
    BY <1>4, DropAndCycleToKeepsOthers DEF Queued
<1>6. Answers(waiting, s, listeners[dead], dead, "kTerminated")
    BY <1>1, <1>3, SendSignalAnswers DEF Signals
<1>7. \A t \in Addrs : canRunTask(waiting, t) => canRunTask(s, t)
    <2>. SUFFICES ASSUME NEW t \in Addrs, NEW e \in waiting[t], e.received # NoSignal
                  PROVE  \E f \in s[t] : f.received # NoSignal
        BY <1>6 DEF canRunTask, Answers
    <2>1. e \in Entries
        BY <1>3 DEF WaitLists
    <2>2. CASE t \in listeners[dead] /\ e.task = dead /\ "kTerminated" \in e.expecting
        <3>1. [e EXCEPT !.received = "kTerminated", !.value = retval] \in s[t]
            BY <2>2, Zenon DEF SendSignal
        <3>2. [e EXCEPT !.received = "kTerminated", !.value = retval].received # NoSignal
            BY <2>1, Zenon DEF Entries, NoSignal
        <3>. QED  BY <3>1, <3>2, Zenon
    <2>3. CASE ~(t \in listeners[dead] /\ e.task = dead /\ "kTerminated" \in e.expecting)
        BY <2>3, Zenon DEF SendSignal
    <2>. QED  BY <2>2, <2>3, Zenon
<1>. HIDE DEF s, q, dead
<1>8. /\ w \in WaitLists /\ w[dead] = {} /\ AtMostOne(w)
      /\ \A t \in Addrs \ {dead} : w[t] = s[t]
    BY <1>1, <1>3, <1>6, SMTT(30) DEF Answers, WaitLists, AtMostOne
<1>. HIDE DEF w
<1>9. q[1] \in Addrs /\ canRunTask(w, q[1])
    BY <1>4, <1>5, <1>7, <1>8, SMTT(30) DEF canRunTask
<1>10. /\ gTaskQueue' = q
       /\ waiting' \in WaitLists
       /\ AtMostOne(waiting')
       /\ waiting'[q[1]] = {}
       /\ \A t \in Addrs : w[t] = {} => waiting'[t] = {}
       /\ \A t \in Addrs : \A e \in waiting'[t] : e.received = NoSignal => e \in w[t]
       /\ result' \in Results
    BY <1>2, <1>8, <1>9, SwitchToFacts, Zenon DEF q
<1>11. Queued' = Queued \ {dead} /\ Current' = q[1]
    BY <1>5, <1>10, SMTT(30) DEF Queued, Current
<1>12. TypeOK'
    BY <1>1, <1>3, <1>5, <1>10, Zenon DEF SchedulerInv, TypeOK, WaitLists
<1>13. QueueIsSound'
    BY <1>1, <1>5, <1>10, <1>11, Zenon DEF SchedulerInv, QueueIsSound, Injective
<1>14. OneWaitAtATime'
    BY <1>10, <1>11, Zenon DEF OneWaitAtATime, AtMostOne
<1>15. OnlyQueuedTasksWait'
    <2>1. \A t \in Addrs : waiting[t] = {} => w[t] = {}
        BY <1>6, <1>8 DEF Answers
    <2>2. \A t \in Addrs : waiting[t] = {} => waiting'[t] = {}
        BY <1>10, <2>1
    <2>3. Kernel \in Addrs
        BY Zenon DEF Addrs
    <2>. QED  BY <1>1, <1>3, <1>11, <2>2, <2>3, Zenon DEF SchedulerInv, OnlyQueuedTasksWait
<1>16. TerminationWillBeSent'
    <2>. SUFFICES ASSUME NEW t \in live', NEW e \in waiting'[t],
                         "kTerminated" \in e.expecting, e.received = NoSignal
                  PROVE  e.task \in Queued' /\ t \in listeners'[e.task]
        BY Zenon DEF TerminationWillBeSent
    <2>1. t \in live /\ t \in Addrs /\ t # dead
        BY <1>1 DEF SchedulerInv, TypeOK
    <2>2. e \in s[t] /\ e \in waiting[t]
        BY <1>6, <1>8, <1>10, <2>1 DEF Answers
    <2>3. e.task \in Queued /\ t \in listeners[e.task]
        BY <2>1, <2>2 DEF SchedulerInv, TerminationWillBeSent
    <2>4. e.task # dead
        <3>1. SUFFICES ASSUME e.task = dead PROVE FALSE
            OBVIOUS
        <3>2. e.received = "kTerminated"
            BY <1>6, <2>1, <2>2, <2>3, <3>1 DEF Answers
        <3>. QED  BY <3>2 DEF NoSignal
    <2>. QED  BY <1>1, <1>3, <1>4, <1>11, <2>3, <2>4, Zenon
<1>. QED  BY <1>12, <1>13, <1>14, <1>15, <1>16 DEF SchedulerInv

LEMMA NextKeepsInv == SchedulerInv /\ [Next]_vars => SchedulerInv'
<1>. SUFFICES ASSUME SchedulerInv, [Next]_vars PROVE SchedulerInv'
    OBVIOUS
<1>1. CASE TimerTick
    BY <1>1, TimerTickKeepsInv
<1>2. CASE \E t \in Tasks : ProcessCreate(t)
    BY <1>2, ProcessCreateKeepsInv
<1>3. CASE \E t \in Tasks : ProcessStart(t)
    BY <1>3, ProcessStartKeepsInv
<1>4. CASE \E h \in Handles, mask \in Masks : ProcessWaitReturns(h, mask)
    BY <1>4, ProcessWaitReturnsKeepsInv
<1>5. CASE \E h \in Addrs, mask \in Masks : ProcessWaitBlocks(h, mask)
    BY <1>5, ProcessWaitBlocksKeepsInv
<1>6. CASE ProcessKill
    BY <1>6, TerminateKeepsInv DEF ProcessKill
<1>7. CASE UserException
    BY <1>7, TerminateKeepsInv, SchedulerAssumption, Zenon DEF UserException
<1>8. CASE UNCHANGED vars
    <2>1. Queued' = Queued /\ Current' = Current
        BY <1>8 DEF vars, Queued, Current
    <2>. QED  BY <1>8, <2>1 DEF vars, SchedulerInv, TypeOK, QueueIsSound,
                OneWaitAtATime, OnlyQueuedTasksWait, TerminationWillBeSent
<1>9. CASE ProcessInfo
    BY <1>9, ProcessInfoKeepsInv
<1>. QED  BY <1>1, <1>2, <1>3, <1>4, <1>5, <1>6, <1>7, <1>8, <1>9 DEF Next

(* The inductive invariant holds in every reachable state. *)
THEOREM Invariance == Spec => []SchedulerInv
<1>. QED  BY InitEstablishesInv, NextKeepsInv, PTL DEF Spec

(* Every field of the scheduler keeps its type. *)
THEOREM TypeCorrect == Spec => []TypeOK
<1>1. SchedulerInv => TypeOK
    BY DEF SchedulerInv
<1>. QED  BY <1>1, Invariance, PTL

(* The run queue holds each task at most once and only live tasks. *)
THEOREM RunQueueIsSound == Spec => []QueueIsSound
<1>1. SchedulerInv => QueueIsSound
    BY DEF SchedulerInv
<1>. QED  BY <1>1, Invariance, PTL

(* A ProcessWait is answered before its task runs again. *)
THEOREM WaitsAreAnswered == Spec => []OneWaitAtATime
<1>1. SchedulerInv => OneWaitAtATime
    BY DEF SchedulerInv
<1>. QED  BY <1>1, Invariance, PTL

(* No wait for a termination is lost, whatever addresses are reused. *)
THEOREM NoLostTermination == Spec => []TerminationWillBeSent
<1>1. SchedulerInv => TerminationWillBeSent
    BY DEF SchedulerInv
<1>. QED  BY <1>1, Invariance, PTL

(* The assert of Schedule never fails: the kernel task can always run. *)
THEOREM ScheduleAssertHolds == Spec => []ScheduleFindsATask
<1>1. SchedulerInv => ScheduleFindsATask
    <2>. SUFFICES ASSUME SchedulerInv PROVE ScheduleFindsATask
        OBVIOUS
    <2>1. /\ gTaskQueue # <<>>
          /\ DOMAIN gTaskQueue = 1 .. Len(gTaskQueue)
          /\ Len(gTaskQueue) \in Nat
          /\ Current = gTaskQueue[1]
        BY QueueFacts
    <2>2. PICK i \in 1 .. Len(gTaskQueue) : gTaskQueue[i] = Kernel
        BY <2>1, Zenon DEF SchedulerInv, OnlyQueuedTasksWait, Queued, Range
    <2>3. canRunTask(waiting, Kernel)
        BY DEF SchedulerInv, OnlyQueuedTasksWait, canRunTask
    <2>4. Current # Kernel => i \in Candidates
        BY <2>1, <2>2, <2>3 DEF Candidates
    <2>. QED  BY <2>1, <2>4 DEF ScheduleFindsATask
<1>. QED  BY <1>1, Invariance, PTL

-----------------------------------------------------------------------------

(* With the masks libc uses, a task that is listed as a listener still has its
   unanswered wait, so it is queued and alive. *)
LibcMasksOnly == \A m \in Masks : m \subseteq {"kTerminated"}

ListenInv ==
    /\ \A t \in Addrs : \A e \in waiting[t] : e.expecting = {"kTerminated"}
    /\ \A t \in live : \A a \in listeners[t] :
            \E e \in waiting[a] : e.task = t /\ e.received = NoSignal

LEMMA OtherSignalsChangeNothing ==
    ASSUME NEW w \in WaitLists, NEW l, NEW sender, NEW sig, NEW v,
           sig # "kTerminated",
           \A t \in Addrs : \A e \in w[t] : e.expecting = {"kTerminated"}
    PROVE  SendSignal(w, l, sender, sig, v) = w
<1>1. \A t \in Addrs :
        {IF e.task = sender /\ sig \in e.expecting
         THEN [e EXCEPT !.received = sig, !.value = v] ELSE e : e \in w[t]} = w[t]
    BY Zenon
<1>2. w = [t \in Addrs |-> w[t]]
    BY DEF WaitLists
<1>. QED  BY <1>1, <1>2, ZenonT(60) DEF SendSignal

LEMMA SwitchToKeepsUnanswered ==
    ASSUME NEW q, NEW w \in WaitLists, NEW l, SwitchTo(q, w, l), q[1] \in Addrs,
           \A t \in Addrs : \A e \in w[t] : e.expecting = {"kTerminated"}
    PROVE  \A t \in Addrs :
                /\ waiting'[t] \subseteq w[t]
                /\ \A e \in w[t] : e.received = NoSignal => e \in waiting'[t]
<1>. DEFINE new == q[1]
<1>0. Head(q) = new
    OBVIOUS
<1>1. CASE waiting' = SendSignal(w, l, new, "kRunning", 0)
    BY <1>1, OtherSignalsChangeNothing, SMTT(30)
<1>2. CASE \E e \in w[new] : /\ e.received # NoSignal
            /\ waiting' = SendSignal([w EXCEPT ![new] = @ \ {e}], l, new, "kRunning", 0)
    <2>1. PICK e \in w[new] : /\ e.received # NoSignal
            /\ waiting' = SendSignal([w EXCEPT ![new] = @ \ {e}], l, new, "kRunning", 0)
        BY <1>2, Zenon
    <2>. DEFINE x == [w EXCEPT ![new] = @ \ {e}]
    <2>2. x \in WaitLists /\ \A t \in Addrs : x[t] = IF t = new THEN w[t] \ {e} ELSE w[t]
        BY DEF WaitLists
    <2>. HIDE DEF x
    <2>3. waiting' = x
        <3>1. \A t \in Addrs : \A f \in x[t] : f.expecting = {"kTerminated"}
            BY <2>2, Zenon
        <3>2. waiting' = SendSignal(x, l, new, "kRunning", 0)
            BY <2>1 DEF x
        <3>. QED  BY <2>2, <3>1, <3>2, OtherSignalsChangeNothing, SMTT(30)
    <2>. QED  BY <2>1, <2>2, <2>3, Zenon
<1>. QED  BY <1>0, <1>1, <1>2, Zenon DEF SwitchTo

LEMMA NextKeepsListenInv ==
    ASSUME LibcMasksOnly, SchedulerInv, ListenInv, [Next]_vars
    PROVE  ListenInv'
<1>0. /\ waiting \in WaitLists /\ waiting[Current] = {}
      /\ listeners \in [Addrs -> SUBSET Addrs] /\ live \subseteq Addrs
      /\ Current \in Queued /\ Queued \subseteq Addrs /\ Queued \subseteq live
    BY QueueFacts DEF SchedulerInv, TypeOK, WaitLists, OneWaitAtATime, QueueIsSound
<1>1. CASE TimerTick
    <2>1. UNCHANGED <<live, listeners>>
        BY <1>1 DEF TimerTick
    <2>2. CASE UNCHANGED waiting
        BY <2>1, <2>2 DEF ListenInv
    <2>3. CASE \E n \in NextNode : SwitchTo(CycleTo(gTaskQueue, n), waiting, listeners)
        <3>1. PICK n \in NextNode : SwitchTo(CycleTo(gTaskQueue, n), waiting, listeners)
            BY <2>3, Zenon
        <3>2. CycleTo(gTaskQueue, n)[1] \in Addrs
            BY <1>0, QueueFacts, CycleToKeepsTasks, SMTT(60)
        <3>3. \A t \in Addrs :
                /\ waiting'[t] \subseteq waiting[t]
                /\ \A e \in waiting[t] : e.received = NoSignal => e \in waiting'[t]
            BY <1>0, <3>1, <3>2, SwitchToKeepsUnanswered DEF ListenInv
        <3>. QED  BY <1>0, <2>1, <3>3 DEF ListenInv
    <2>. QED  BY <1>1, <2>2, <2>3 DEF TimerTick
<1>2. ASSUME NEW t \in Tasks, ProcessCreate(t) PROVE ListenInv'
    <2>1. /\ t \in Addrs \ live /\ live' = live \cup {t}
          /\ waiting' = [waiting EXCEPT ![t] = {}]
          /\ listeners' = [listeners EXCEPT ![t] = {}]
        BY <1>2 DEF ProcessCreate, Addrs
    <2>2. waiting' = waiting
        <3>1. waiting[t] = {}
            BY <1>0, <2>1 DEF SchedulerInv, OnlyQueuedTasksWait
        <3>. QED  BY <2>1, <3>1, <1>0 DEF WaitLists
    <2>3. \A u \in live' : listeners'[u] = IF u = t THEN {} ELSE listeners[u]
        BY <1>0, <2>1
    <2>. QED  BY <2>1, <2>2, <2>3 DEF ListenInv
<1>3. ASSUME NEW t \in Tasks, ProcessStart(t) PROVE ListenInv'
    <2>1. /\ waiting' = SendSignal(waiting, listeners, t, "kReady", 0)
          /\ UNCHANGED <<live, listeners>>
        BY <1>3 DEF ProcessStart
    <2>2. waiting' = waiting
        BY <1>0, <2>1, OtherSignalsChangeNothing, SMTT(30) DEF ListenInv
    <2>. QED  BY <2>1, <2>2 DEF ListenInv
<1>4. ASSUME NEW h \in Handles, NEW mask \in Masks, ProcessWaitReturns(h, mask)
      PROVE  ListenInv'
    BY <1>4, SMTT(60) DEF ProcessWaitReturns, ListenInv
<1>5. ASSUME NEW h \in Addrs, NEW mask \in Masks, ProcessWaitBlocks(h, mask)
      PROVE  ListenInv'
    <2>. DEFINE me == Current
                new == [task |-> h, expecting |-> mask, received |-> NoSignal, value |-> 0]
                w == WaitOn(me, h, mask)
    <2>1. /\ me \in Addrs /\ mask = {"kTerminated"} /\ live' = live
          /\ listeners' = [listeners EXCEPT ![h] = @ \cup {me}]
        BY <1>0, <1>5 DEF ProcessWaitBlocks, LibcMasksOnly
    <2>2. w = [waiting EXCEPT ![me] = {new}] /\ new \in Entries
        BY <1>0, <2>1, SchedulerAssumption DEF WaitOn, WaitLists, Entries
    <2>3. PICK n \in NextNode : SwitchTo(CycleTo(gTaskQueue, n), w, listeners')
        BY <1>5, Zenon DEF ProcessWaitBlocks
    <2>4. CycleTo(gTaskQueue, n)[1] \in Addrs
        BY <1>0, QueueFacts, CycleToKeepsTasks, SMTT(30)
    <2>. HIDE DEF w
    <2>5. /\ w \in WaitLists
          /\ \A t \in Addrs : w[t] = IF t = me THEN {new} ELSE waiting[t]
        BY <1>0, <2>1, <2>2, Zenon DEF WaitLists
    <2>6. \A t \in Addrs : \A e \in w[t] : e.expecting = {"kTerminated"}
        BY <2>1, <2>5, SMTT(30) DEF ListenInv
    <2>7. \A t \in Addrs :
            /\ waiting'[t] \subseteq w[t]
            /\ \A e \in w[t] : e.received = NoSignal => e \in waiting'[t]
        BY <2>3, <2>4, <2>5, <2>6, SwitchToKeepsUnanswered, Zenon
    <2>8. ASSUME NEW t \in live, NEW a \in listeners'[t]
          PROVE  \E e \in w[a] : e.task = t /\ e.received = NoSignal
        <3>1. CASE a \in listeners[t]
            <4>1. PICK e \in waiting[a] : e.task = t /\ e.received = NoSignal
                BY <3>1 DEF ListenInv
            <4>2. a \in Addrs /\ a # me
                BY <1>0, <3>1, <4>1, Zenon
            <4>3. w[a] = waiting[a]
                BY <2>5, <4>2, Zenon
            <4>. QED  BY <4>1, <4>3
        <3>2. CASE a = me /\ t = h
            <4>1. new \in w[a] /\ new.task = t /\ new.received = NoSignal
                BY <2>1, <2>5, <3>2
            <4>. QED  BY <4>1, Zenon
        <3>. QED  BY <1>0, <2>1, <3>1, <3>2
    <2>9. \A t \in live : listeners'[t] \subseteq Addrs
        BY <1>0, <2>1
    <2>. QED  BY <2>1, <2>6, <2>7, <2>8, <2>9, SMTT(60) DEF ListenInv
<1>6. ASSUME NEW retval \in Retvals, Terminate(retval) PROVE ListenInv'
    <2>. DEFINE dead == Current
                s == SendSignal(waiting, listeners, dead, "kTerminated", retval)
                w == [s EXCEPT ![dead] = {}]
    <2>1. /\ dead \in Addrs /\ live' = live \ {dead}
          /\ listeners' = [listeners EXCEPT ![dead] = {}]
        BY <1>0, <1>6 DEF Terminate
    <2>2. PICK n \in NextNode : SwitchTo(DropAndCycleTo(gTaskQueue, n), w, listeners')
        BY <1>6, Zenon DEF Terminate
    <2>3. DropAndCycleTo(gTaskQueue, n)[1] \in Addrs
        BY <1>0, QueueFacts, DropAndCycleToKeepsOthers, SMTT(30)
    <2>4. s \in WaitLists
        BY <1>0, <2>1, SendSignalAnswers DEF Answers, Signals
    <2>5. \A t \in Addrs : \A f \in s[t] : \E e \in waiting[t] :
            f.expecting = e.expecting
        <3>. SUFFICES ASSUME NEW t \in Addrs, NEW f \in s[t]
                      PROVE  \E e \in waiting[t] : f.expecting = e.expecting
            OBVIOUS
        <3>1. waiting[t] \subseteq Entries
            BY <1>0 DEF WaitLists
        <3>2. PICK e \in waiting[t] :
                \/ f = e
                \/ f = [e EXCEPT !.received = "kTerminated", !.value = retval]
            BY Zenon DEF SendSignal
        <3>. QED  BY <3>1, <3>2, Zenon DEF Entries
    <2>6. \A t \in Addrs : \A e \in waiting[t] : e.task # dead => e \in s[t]
        BY Zenon DEF SendSignal
    <2>. HIDE DEF s
    <2>7. /\ w \in WaitLists
          /\ \A t \in Addrs : w[t] = IF t = dead THEN {} ELSE s[t]
        BY <2>1, <2>4 DEF WaitLists
    <2>. HIDE DEF w
    <2>8. \A t \in Addrs : \A e \in w[t] : e.expecting = {"kTerminated"}
        BY <2>5, <2>7, SMTT(30) DEF ListenInv
    <2>9. \A t \in Addrs :
            /\ waiting'[t] \subseteq w[t]
            /\ \A e \in w[t] : e.received = NoSignal => e \in waiting'[t]
        BY <2>2, <2>3, <2>7, <2>8, SwitchToKeepsUnanswered, Zenon
    <2>10. ASSUME NEW t \in live', NEW a \in listeners'[t]
           PROVE  \E e \in waiting'[a] : e.task = t /\ e.received = NoSignal
        <3>1. t \in live /\ t # dead /\ a \in listeners[t] /\ a \in Addrs
            BY <1>0, <2>1
        <3>2. PICK e \in waiting[a] : e.task = t /\ e.received = NoSignal
            BY <3>1 DEF ListenInv
        <3>3. a # dead
            BY <1>0, <3>2
        <3>. QED  BY <2>6, <2>7, <2>9, <3>1, <3>2, <3>3, Zenon
    <2>. QED  BY <2>8, <2>9, <2>10, Zenon DEF ListenInv
<1>7. CASE UNCHANGED vars
    BY <1>7, SMTT(30) DEF vars, ListenInv
<1>8. CASE ProcessKill
    BY <1>6, <1>8 DEF ProcessKill
<1>9. CASE UserException
    BY <1>6, <1>9, SchedulerAssumption DEF UserException
<1>10. CASE ProcessInfo
    BY <1>10, SMTT(30) DEF ProcessInfo, ListenInv
<1>. QED  BY <1>1, <1>2, <1>3, <1>4, <1>5, <1>7, <1>8, <1>9, <1>10 DEF Next

(* As long as user programs wait for TASK_TERMINATED only, as libc does,
   SendSignal never follows a pointer to a deleted listener. *)
THEOREM ListenersStayLive == ASSUME LibcMasksOnly PROVE Spec => []ListenersAreLive
<1>1. Init => ListenInv
    BY DEF Init, ListenInv, Addrs
<1>2. SchedulerInv /\ ListenInv /\ [Next]_vars => ListenInv'
    BY NextKeepsListenInv, Zenon
<1>3. SchedulerInv /\ ListenInv => ListenersAreLive
    BY Zenon DEF SchedulerInv, TypeOK, OnlyQueuedTasksWait, QueueIsSound, ListenInv,
           ListenersAreLive
<1>. QED  BY <1>1, <1>2, <1>3, Invariance, PTL DEF Spec

-----------------------------------------------------------------------------

(* What one step may do to the run queue. *)
LEMMA QueueSteps ==
    ASSUME [Next]_vars
    PROVE  \/ gTaskQueue' = gTaskQueue
           \/ \E t \in Tasks : gTaskQueue' = Append(gTaskQueue, t)
           \/ \E n \in NextNode : gTaskQueue' = CycleTo(gTaskQueue, n)
           \/ \E n \in NextNode : gTaskQueue' = DropAndCycleTo(gTaskQueue, n)
<1>1. \A q, w, l : SwitchTo(q, w, l) => gTaskQueue' = q
    BY DEF SwitchTo
<1>2. ASSUME NEW retval, Terminate(retval)
      PROVE  \E n \in NextNode : gTaskQueue' = DropAndCycleTo(gTaskQueue, n)
    BY <1>1, <1>2 DEF Terminate
<1>3. CASE TimerTick
    BY <1>1, <1>3 DEF TimerTick
<1>4. CASE \E t \in Tasks : ProcessCreate(t) \/ ProcessStart(t)
    BY <1>4 DEF ProcessCreate, ProcessStart
<1>5. CASE \E h \in Handles, m \in Masks : ProcessWaitReturns(h, m)
    BY <1>5 DEF ProcessWaitReturns
<1>6. CASE \E h \in Addrs, m \in Masks : ProcessWaitBlocks(h, m)
    BY <1>1, <1>6 DEF ProcessWaitBlocks
<1>7. CASE ProcessKill \/ UserException
    BY <1>2, <1>7 DEF ProcessKill, UserException
<1>8. CASE UNCHANGED vars
    BY <1>8 DEF vars
<1>9. CASE ProcessInfo
    BY <1>9 DEF ProcessInfo
<1>. QED  BY <1>3, <1>4, <1>5, <1>6, <1>7, <1>8, <1>9, Zenon DEF Next

LEMMA PositionIsUnique ==
    ASSUME NEW q, Injective(q), NEW i \in DOMAIN q
    PROVE  Position(q, q[i]) = i
BY DEF Position, Injective

(* A runnable task that is neither left nor chosen by a context switch moves
   towards the head of the queue. *)
THEOREM RunnableTasksMoveUp == Spec => RunnableTasksAdvance
<1>1. SchedulerInv /\ [Next]_vars => \A t \in Queued \cap Queued' : MovesUp(t)
    <2>. SUFFICES ASSUME SchedulerInv, [Next]_vars, NEW t \in Queued \cap Queued',
                         canRunTask(waiting, t), Current # Current',
                         t # Current, t # Current'
                  PROVE  Position(gTaskQueue', t) < Position(gTaskQueue, t)
        BY DEF MovesUp
    <2>. DEFINE L == Len(gTaskQueue)
    <2>1. /\ gTaskQueue \in Seq(Addrs) /\ Injective(gTaskQueue)
          /\ L \in Nat \ {0} /\ DOMAIN gTaskQueue = 1 .. L
          /\ Current = gTaskQueue[1]
        BY QueueFacts
    <2>2. Current' = gTaskQueue'[1]
        BY DEF Current
    <2>3. PICK p \in 1 .. L : gTaskQueue[p] = t
        BY <2>1 DEF Queued, Range
    <2>4. Position(gTaskQueue, t) = p
        BY <2>1, <2>3, PositionIsUnique
    <2>5. p \in Candidates
        BY <2>1, <2>3 DEF Candidates
    <2>6. ASSUME NEW n \in NextNode, gTaskQueue'[1] = gTaskQueue[n]
          PROVE  n \in 2 .. L /\ n < p
        BY <2>1, <2>2, <2>3, <2>5, <2>6, SMTT(30) DEF NextNode, Candidates
    <2>7. ASSUME NEW n \in NextNode, gTaskQueue' = CycleTo(gTaskQueue, n)
          PROVE  Position(gTaskQueue', t) < p
        <3>1. n \in 2 .. L
            BY DEF NextNode, Candidates
        <3>2. /\ gTaskQueue' \in Seq(Addrs) /\ Len(gTaskQueue') = L
              /\ Injective(gTaskQueue') /\ gTaskQueue'[1] = gTaskQueue[n]
            BY <2>1, <2>7, <3>1, CycleToKeepsTasks, Zenon
        <3>3. n < p
            BY <2>6, <3>2, Zenon
        <3>4. p - n + 1 \in 1 .. L /\ gTaskQueue'[p - n + 1] = t
            <4>1. \A i \in 1 .. L : gTaskQueue'[i] =
                    IF i <= L - n + 1 THEN gTaskQueue[i + n - 1]
                    ELSE gTaskQueue[i - (L - n + 1)]
                BY <2>1, <2>7, <3>1, CycleToRotates, Zenon
            <4>. HIDE DEF L
            <4>2. p - n + 1 \in 1 .. L /\ p - n + 1 <= L - n + 1 /\ p - n + 1 + n - 1 = p
                BY <2>1, <3>1, <3>3
            <4>. QED  BY <2>3, <4>1, <4>2, Zenon
        <3>5. DOMAIN gTaskQueue' = 1 .. L
            BY <3>2, LenProperties
        <3>6. Position(gTaskQueue', t) = p - n + 1
            BY <3>2, <3>4, <3>5, PositionIsUnique
        <3>. QED  BY <2>1, <3>1, <3>6
    <2>8. ASSUME NEW n \in NextNode, gTaskQueue' = DropAndCycleTo(gTaskQueue, n)
          PROVE  Position(gTaskQueue', t) < p
        <3>1. n \in 2 .. L
            BY DEF NextNode, Candidates
        <3>2. /\ gTaskQueue' \in Seq(Addrs) /\ Len(gTaskQueue') = L - 1
              /\ Injective(gTaskQueue') /\ gTaskQueue'[1] = gTaskQueue[n]
            <4>1. /\ DropAndCycleTo(gTaskQueue, n) \in Seq(Addrs)
                  /\ Len(DropAndCycleTo(gTaskQueue, n)) = L - 1
                  /\ Injective(DropAndCycleTo(gTaskQueue, n))
                  /\ DropAndCycleTo(gTaskQueue, n)[1] = gTaskQueue[n]
                BY <2>1, <3>1, DropAndCycleToKeepsOthers
            <4>. QED  BY <2>8, <4>1, Zenon
        <3>3. n < p
            BY <2>6, <3>2
        <3>4. p - n + 1 \in 1 .. L - 1 /\ gTaskQueue'[p - n + 1] = t
            <4>1. \A i \in 1 .. L - 1 : gTaskQueue'[i] =
                    IF i <= L - n + 1 THEN gTaskQueue[i + n - 1]
                    ELSE gTaskQueue[i - (L - n + 1) + 1]
                BY <2>1, <2>8, <3>1, DropAndCycleToRotates, Zenon
            <4>. HIDE DEF L
            <4>2. p - n + 1 \in 1 .. L - 1 /\ p - n + 1 <= L - n + 1
                  /\ p - n + 1 + n - 1 = p
                BY <2>1, <3>1, <3>3
            <4>. QED  BY <2>3, <4>1, <4>2
        <3>5. DOMAIN gTaskQueue' = 1 .. L - 1
            BY <3>2, LenProperties
        <3>6. Position(gTaskQueue', t) = p - n + 1
            BY <3>2, <3>4, <3>5, PositionIsUnique
        <3>. QED  BY <2>1, <3>1, <3>6
    <2>9. gTaskQueue' # gTaskQueue
        BY DEF Current
    <2>10. ASSUME NEW u \in Tasks, gTaskQueue' = Append(gTaskQueue, u) PROVE FALSE
        <3>1. gTaskQueue'[1] = gTaskQueue[1]
            BY <2>1, <2>10, AppendProperties, SMTT(30) DEF Addrs
        <3>. QED  BY <2>1, <2>2, <3>1
    <2>. QED  BY <2>4, <2>7, <2>8, <2>9, <2>10, QueueSteps
<1>. QED  BY <1>1, Invariance, PTL DEF Spec, RunnableTasksAdvance

-----------------------------------------------------------------------------
(* Interrupts: with its registers and the PIC hidden the machine is the
   scheduler, so all that is proved above holds on it, and between its steps the
   registers belong to the current task. *)

(* A step of the machine is a step of the scheduler or leaves it alone. *)
LEMMA StepsAreSchedulerSteps == [MachineNext]_machineVars => [Next]_vars
<1>. SUFFICES ASSUME [MachineNext]_machineVars PROVE [Next]_vars
    OBVIOUS
<1>1. CASE UNCHANGED machineVars
    BY <1>1 DEF machineVars
<1>2. CASE Pit
    BY <1>2 DEF Pit
<1>3. CASE Irq0
    BY <1>3 DEF Irq0, Vector
<1>4. CASE Int80OrFault
    BY <1>4 DEF Int80OrFault, Vector
<1>5. CASE EnableInterrupts
    BY <1>5 DEF EnableInterrupts
<1>6. ASSUME NEW v \in Vectors, ExceptionDispatcher(v) PROVE [Next]_vars
    BY <1>6 DEF ExceptionDispatcher
<1>7. CASE TimerCallback
    BY <1>7 DEF TimerCallback, Next
<1>8. CASE SyscallHandler
    BY <1>8 DEF SyscallHandler, Next
<1>9. CASE DispatchUserException
    BY <1>9 DEF DispatchUserException, Next
<1>10. CASE Return
    BY <1>10 DEF Return
<1>. QED  BY <1>1, <1>2, <1>3, <1>4, <1>5, <1>6, <1>7, <1>8, <1>9, <1>10, Zenon DEF MachineNext, Cpu

(* What interrupts do to the processor leaves the scheduler of Scheduler, whose
   handlers are single steps. *)
THEOREM MachineImplementsScheduler == MachineSpec => Spec
<1>1. MachineInit => Init
    BY DEF MachineInit
<1>. QED  BY <1>1, StepsAreSchedulerSteps, PTL DEF MachineSpec, Spec

(* The inductive invariant: needs that of the scheduler, for the task that is
   switched to is queued and its directory is not deleted. *)
MachineInv == MachineTypeOK /\ InterruptsOnlyInTasks /\ TasksRunInTheirOwnSpace

CurrentIsSound == Current \in Addrs /\ Current \in live /\ Kernel \in live

LEMMA CurrentFacts == SchedulerInv => CurrentIsSound
<1>. SUFFICES ASSUME SchedulerInv PROVE CurrentIsSound
    OBVIOUS
<1>1. Current \in Queued /\ Current \in Addrs
    BY QueueFacts
<1>. QED  BY <1>1 DEF CurrentIsSound, SchedulerInv, QueueIsSound, OnlyQueuedTasksWait

LEMMA CurrentFactsNext == SchedulerInv' => CurrentIsSound'
BY CurrentFacts, PTL

LEMMA PlacesDiffer ==
    /\ InTask # Leaving /\ InTask # Booting /\ Leaving # Booting
    /\ {InTask, Leaving, Booting} \subseteq Places
    /\ \A v \in Vectors : /\ <<"stub", v>> \in Places /\ <<"handler", v>> \in Places
                          /\ <<"stub", v>> \notin {InTask, Leaving, Booting}
                          /\ <<"handler", v>> \notin {InTask, Leaving, Booting}
    /\ \A v, w \in Vectors : /\ <<"stub", v>> # <<"handler", w>>
                             /\ <<"stub", v>> = <<"stub", w>> => v = w
                             /\ <<"handler", v>> = <<"handler", w>> => v = w
BY DEF InTask, Leaving, Booting, Places, Vectors

(* The two ways out of a handler that has called Schedule. *)
LEMMA SchedulesKeepsInv ==
    ASSUME MachineInv, SchedulerInv', NEW v \in Vectors, at = <<"handler", v>>,
           Schedules
    PROVE  MachineInv'
<1>1. CASE switch_task
    BY <1>1, CurrentFactsNext, PlacesDiffer, SchedulerAssumption, Zenon
    DEF switch_task, MachineInv, MachineTypeOK, InterruptsOnlyInTasks,
        TasksRunInTheirOwnSpace, InHandler, Addrs, CurrentIsSound
<1>2. CASE Returns /\ Current' = Current
    BY <1>2, CurrentFactsNext, PlacesDiffer, Zenon
    DEF Returns, MachineInv, MachineTypeOK, InterruptsOnlyInTasks,
        TasksRunInTheirOwnSpace, InHandler, CurrentIsSound
<1>. QED  BY <1>1, <1>2 DEF Schedules, Current

LEMMA ReturnsKeepsInv ==
    ASSUME MachineInv, SchedulerInv', NEW v \in Vectors, at = <<"handler", v>>,
           Returns, Current' = Current
    PROVE  MachineInv'
BY CurrentFactsNext, PlacesDiffer, Zenon
DEF Returns, MachineInv, MachineTypeOK, InterruptsOnlyInTasks,
    TasksRunInTheirOwnSpace, InHandler, CurrentIsSound

LEMMA SyscallReturnsOrSchedules ==
    ASSUME SchedulerInv, SyscallHandler
    PROVE  Schedules \/ (Returns /\ Current' = Current)
<1>1. ASSUME NEW t \in Tasks, ProcessCreate(t) PROVE Current' = Current
    BY <1>1 DEF ProcessCreate, Current
<1>2. ASSUME NEW t \in Tasks, ProcessStart(t) PROVE Current' = Current
    <2>1. /\ gTaskQueue \in Seq(Addrs) /\ Len(gTaskQueue) \in Nat \ {0}
          /\ t \in Addrs /\ gTaskQueue' = Append(gTaskQueue, t)
        BY <1>2, QueueFacts DEF ProcessStart, Addrs
    <2>. QED  BY <2>1, AppendProperties DEF Current
<1>3. ASSUME NEW h \in Handles, NEW mask \in Masks, ProcessWaitReturns(h, mask)
      PROVE  Current' = Current
    BY <1>3 DEF ProcessWaitReturns, Current
<1>4. ProcessInfo => Current' = Current
    BY SMTT(60) DEF ProcessInfo, Current
<1>. QED  BY <1>1, <1>2, <1>3, <1>4 DEF SyscallHandler

LEMMA MachineStep ==
    ASSUME SchedulerInv, SchedulerInv', MachineInv, [MachineNext]_machineVars
    PROVE  MachineInv'
<1>. USE DEF MachineInv, MachineTypeOK, InterruptsOnlyInTasks, TasksRunInTheirOwnSpace,
             InHandler, CurrentIsSound
<1>0. UNCHANGED vars => Current' = Current /\ live' = live
    BY DEF vars, Current
<1>1. CASE UNCHANGED machineVars
    BY <1>0, <1>1 DEF machineVars, machine
<1>2. CASE Pit
    BY <1>0, <1>2, Zenon DEF Pit
<1>3. CASE Irq0
    BY <1>0, <1>3, PlacesDiffer, Zenon DEF Irq0, Vector, Vectors
<1>4. CASE Int80OrFault
    BY <1>0, <1>4, PlacesDiffer, Zenon DEF Int80OrFault, Vector, Vectors
<1>5. CASE EnableInterrupts
    BY <1>0, <1>5, PlacesDiffer DEF EnableInterrupts, Vectors
<1>6. ASSUME NEW v \in Vectors, ExceptionDispatcher(v) PROVE MachineInv'
    BY <1>0, <1>6, PlacesDiffer, CurrentFacts, Zenon
    DEF ExceptionDispatcher, SendEndOfInterrupt, Addrs, Vectors
<1>7. CASE TimerCallback
    BY <1>7, SchedulesKeepsInv, Zenon DEF TimerCallback, Vectors
<1>8. CASE SyscallHandler
    <2>1. at = <<"handler", "kSyscallHandler">> /\ "kSyscallHandler" \in Vectors
        BY <1>8 DEF SyscallHandler, Vectors
    <2>. QED  BY <1>8, <2>1, SyscallReturnsOrSchedules, SchedulesKeepsInv, ReturnsKeepsInv
<1>9. CASE DispatchUserException
    BY <1>9, SchedulesKeepsInv, Zenon DEF DispatchUserException, Vectors
<1>10. CASE Return
    BY <1>0, <1>10, PlacesDiffer, CurrentFacts, Zenon DEF Return, Vectors
<1>. QED  BY <1>1, <1>2, <1>3, <1>4, <1>5, <1>6, <1>7, <1>8, <1>9, <1>10 DEF MachineNext, Cpu

LEMMA MachineInitInv == MachineInit => MachineInv
<1>. SUFFICES ASSUME MachineInit PROVE MachineInv
    OBVIOUS
<1>1. Current = Kernel /\ Kernel \in live
    BY DEF MachineInit, Init, Current
<1>. QED  BY <1>1, PlacesDiffer, SchedulerAssumption, Zenon
          DEF MachineInit, MachineInv, MachineTypeOK, InterruptsOnlyInTasks,
              TasksRunInTheirOwnSpace, InHandler, Addrs

LEMMA MachineInvariance == MachineSpec => []MachineInv
<1>1. MachineSpec => []SchedulerInv
    BY MachineImplementsScheduler, Invariance, PTL
<1>2. MachineInv /\ SchedulerInv /\ SchedulerInv' /\ [MachineNext]_machineVars => MachineInv'
    BY MachineStep
<1>. QED  BY <1>1, <1>2, MachineInitInv, PTL DEF MachineSpec

(* isr_handler's assert holds, no handler is interrupted and no task runs with
   interrupts disabled, for any number of tasks. *)
THEOREM HandlersAreNotInterrupted == MachineSpec => []InterruptsOnlyInTasks
<1>1. MachineInv => InterruptsOnlyInTasks
    BY DEF MachineInv
<1>. QED  BY <1>1, MachineInvariance, PTL

(* A task runs in its own page directory and is interrupted onto its own kernel
   stack; no deleted directory is ever in use. *)
THEOREM SpacesFollowTasks == MachineSpec => []TasksRunInTheirOwnSpace
<1>1. MachineInv => TasksRunInTheirOwnSpace
    BY DEF MachineInv
<1>. QED  BY <1>1, MachineInvariance, PTL
=============================================================================
