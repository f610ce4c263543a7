--------------------------- MODULE StartupProofs ----------------------------
(***************************************************************************)
(* Proofs about Startup: passing the startup data over a channel changes   *)
(* nothing of how programs use their pages; and with one startup channel   *)
(* open at a time every program gets what was sent to it, without waiting, *)
(* and no end of the channel is leaked.                                    *)
(***************************************************************************)
EXTENDS Startup, TLAPS

LEMMA StepsAreExecSteps == [StartupNext]_programVars => [ExecNext]_allVars
<1>. SUFFICES ASSUME StartupNext PROVE [ExecNext]_allVars
    BY DEF programVars
<1>1. PICK t \in Tasks : Loads(t) \/ Reads(t) \/ InProgram(t) \/ EndsAnywhere(t)
    BY DEF StartupNext
<1>6. ~panic
    BY DEF StartupNext
<1>2. CASE Loads(t)
    BY <1>2, <1>6 DEF Loads, ChannelCreate, TransferHandle, ChannelWrite, StartProcess, CloseOut,
                ExecNext
<1>3. CASE Reads(t)
    BY <1>3 DEF Reads, ChannelReadBlocking, CloseIn
<1>4. CASE InProgram(t)
    BY <1>4, <1>6 DEF InProgram, ExecNext
<1>5. CASE EndsAnywhere(t)
    BY <1>5, <1>6 DEF EndsAnywhere, ExecNext
<1>. QED  BY <1>1, <1>2, <1>3, <1>4, <1>5

(* Programs that exchange their startup data run as ExecMemory has them. *)
THEOREM StartupImplementsExec == StartupSpec => ExecSpec
<1>1. StartupInit => ExecInit
    BY DEF StartupInit
<1>. QED  BY <1>1, StepsAreExecSteps, PTL DEF StartupSpec, ExecSpec

-----------------------------------------------------------------------------

(* A process that is being loaded waits for its one loader to start it, and was
   no process before. *)
HasChild(t) == pc[t] \in {"map", "run"}
LoadingInv ==
    /\ pc \in [Tasks -> Pcs] /\ child \in [Tasks -> Tasks]
    /\ \A t \in Tasks : pc[t] = "none" <=> t \notin live
    /\ \A t \in Tasks : HasChild(t) =>
        /\ pc[child[t]] = "created"
        /\ \A u \in Tasks : HasChild(u) /\ child[u] = child[t] => u = t

(* The bytes of the blocks from the r-th to the last. *)
Unread(m, r) ==
    LET s == Stream(m)
        u5 == s[5] \o s[6]
        u4 == s[4] \o u5
        u3 == s[3] \o u4
        u2 == s[2] \o u3
        u1 == s[1] \o u2
    IN  <<u1, u2, u3, u4, u5, s[6], <<>>>>[r]

(* A loader holds the end it writes to until it closes it; the other end is its
   own, then its child's, and what is in the channel and what is still to be
   written make up the whole message. *)
Writer(t) ==
    /\ wr[t] # 0 => out[t] \in Names /\ holder[out[t]]["end1"] = t
    /\ wr[t] \in 1 .. Started - 1 => pc[t] = "run" /\ sent[child[t]] \in Messages
    /\ wr[t] = Started => pc[t] = "unmap"
    /\ wr[t] = 1 => holder[out[t]]["end2"] = t /\ queue[out[t]]["end2"] = <<>>
    /\ wr[t] \in 2 .. Started - 1 =>
        /\ holder[out[t]]["end2"] = child[t]
        /\ queue[out[t]]["end2"] \o Unread(sent[child[t]], wr[t] - 1)
                = Unread(sent[child[t]], 1)

(* The blocks g are the first n of the message m. *)
HasRead(g, m, n) ==
    /\ g \in Seq(Seq(Nat)) /\ Len(g) = n
    /\ \A i \in 1 .. n : g[i] = Stream(m)[i]

(* A started process holds the end it reads from until it closes it; it has got
   the blocks it has read, and all the others are in the channel. *)
Reader(t) ==
    /\ rd[t] = 0 => got[t] = <<>>
    /\ rd[t] # 0 =>
        /\ pc[t] \in {"start", "libc", "main", "abort"}
        /\ in[t] \in Names
        /\ holder[in[t]]["end2"] = t
        /\ sent[t] \in Messages
        /\ HasRead(got[t], sent[t], rd[t] - 1)
        /\ queue[in[t]]["end2"] = Unread(sent[t], rd[t])

(* No process holds another end than these. *)
Holds(t, c, e) ==
    \/ e = "end1" /\ wr[t] # 0 /\ out[t] = c
    \/ e = "end2" /\ wr[t] = 1 /\ out[t] = c
    \/ e = "end2" /\ rd[t] # 0 /\ in[t] = c
    \/ /\ e = "end2" /\ pc[t] = "created"
       /\ \A u \in Tasks : HasChild(u) /\ child[u] = t => wr[u] \in 2 .. Started - 1 /\ out[u] = c

HoldersAreKnown ==
    \A t \in Tasks, c \in Names, e \in Ch!Ends : holder[c][e] = t => Holds(t, c, e)

ChannelTypes ==
    /\ holder \in [Names -> [Ch!Ends -> Tasks \cup {"closed"}]]
    /\ queue \in [Names -> [Ch!Ends -> Seq(Nat)]]

StartupTypes ==
    /\ wr \in [Tasks -> 0 .. Started] /\ rd \in [Tasks -> 0 .. NumReads + 1]
    /\ out \in [Tasks -> Names \cup {NoName}] /\ in \in [Tasks -> Names \cup {NoName}]
    /\ DOMAIN sent = Tasks /\ DOMAIN got = Tasks

(* The inductive invariant, besides LoadingInv. *)
StartupInv ==
    /\ ChannelTypes /\ StartupTypes
    /\ \A t \in Tasks : Writer(t) /\ Reader(t)
    /\ HoldersAreKnown

-----------------------------------------------------------------------------

LEMMA BlocksAreBytes ==
    ASSUME NEW m \in Messages
    PROVE  /\ Stream(m) \in Seq(Seq(Nat)) /\ Len(Stream(m)) = NumReads
           /\ \A i \in 1 .. NumReads : Stream(m)[i] \in Seq(Nat)
<1>1. m[1] \in Seq(Nat) /\ m[2] \in Seq(Nat) /\ m[3] \in Seq(Nat)
    BY StartupAssumption
<1>2. /\ <<Len(m[1])>> \in Seq(Nat)
      /\ <<Len(m[2])>> \in Seq(Nat)
      /\ <<Len(m[3])>> \in Seq(Nat)
    BY <1>1
<1>. QED  BY <1>1, <1>2 DEF Stream, NumReads

(* Facts about sequences of bytes. *)
LEMMA ConcatBytes ==
    ASSUME NEW x \in Seq(Nat), NEW y \in Seq(Nat)
    PROVE  /\ x \o y \in Seq(Nat)
           /\ Len(x \o y) = Len(x) + Len(y)
           /\ \A i \in 1 .. Len(x) + Len(y) :
                (x \o y)[i] = IF i <= Len(x) THEN x[i] ELSE y[i - Len(x)]
    OBVIOUS

LEMMA ConcatNoBytes ==
    ASSUME NEW x \in Seq(Nat)
    PROVE  x \o <<>> = x /\ <<>> \o x = x
    OBVIOUS

LEMMA ConcatAssociates ==
    ASSUME NEW x \in Seq(Nat), NEW y \in Seq(Nat), NEW z \in Seq(Nat)
    PROVE  (x \o y) \o z = x \o (y \o z)
    OBVIOUS

LEMMA EqualBytes ==
    ASSUME NEW x \in Seq(Nat), NEW y \in Seq(Nat),
           Len(x) = Len(y), \A i \in 1 .. Len(x) : x[i] = y[i]
    PROVE  x = y
    OBVIOUS

LEMMA SubSeqBytes ==
    ASSUME NEW c, NEW lo \in Int, NEW hi \in Int, \A i \in lo .. hi : c[i] \in Nat
    PROVE  /\ SubSeq(c, lo, hi) \in Seq(Nat)
           /\ Len(SubSeq(c, lo, hi)) = IF lo <= hi THEN hi - lo + 1 ELSE 0
           /\ \A i \in 1 .. hi - lo + 1 : SubSeq(c, lo, hi)[i] = c[lo + i - 1]
    OBVIOUS

(* What is left to read begins with the next block. *)
LEMMA UnreadSplits ==
    ASSUME NEW m \in Messages
    PROVE  /\ \A r \in 1 .. NumReads : Unread(m, r) = Stream(m)[r] \o Unread(m, r + 1)
           /\ Unread(m, NumReads + 1) = <<>>
           /\ \A r \in 1 .. NumReads + 1 : Unread(m, r) \in Seq(Nat)
<1>. DEFINE s == Stream(m)
            u5 == s[5] \o s[6]
            u4 == s[4] \o u5
            u3 == s[3] \o u4
            u2 == s[2] \o u3
            u1 == s[1] \o u2
            u == <<u1, u2, u3, u4, u5, s[6], <<>>>>
<1>1. /\ s[1] \in Seq(Nat) /\ s[2] \in Seq(Nat) /\ s[3] \in Seq(Nat)
      /\ s[4] \in Seq(Nat) /\ s[5] \in Seq(Nat) /\ s[6] \in Seq(Nat)
    BY BlocksAreBytes DEF NumReads
<1>2. \A r : Unread(m, r) = u[r]
    BY DEF Unread
<1>. HIDE DEF s
<1>3. u5 \in Seq(Nat)
    BY <1>1, ConcatBytes, Zenon
<1>4. u4 \in Seq(Nat)
    BY <1>1, <1>3, ConcatBytes, Zenon
<1>5. u3 \in Seq(Nat)
    BY <1>1, <1>4, ConcatBytes, Zenon
<1>6. u2 \in Seq(Nat)
    BY <1>1, <1>5, ConcatBytes, Zenon
<1>7. u1 \in Seq(Nat)
    BY <1>1, <1>6, ConcatBytes, Zenon
<1>8. s[6] = s[6] \o <<>>
    BY <1>1, ConcatNoBytes, Zenon
<1>9. /\ u5 = s[5] \o s[6] /\ u4 = s[4] \o u5 /\ u3 = s[3] \o u4
      /\ u2 = s[2] \o u3 /\ u1 = s[1] \o u2
    OBVIOUS
<1>. HIDE DEF u1, u2, u3, u4, u5
<1>10. /\ u[1] = u1 /\ u[2] = u2 /\ u[3] = u3 /\ u[4] = u4 /\ u[5] = u5
       /\ u[6] = s[6] /\ u[7] = <<>>
    OBVIOUS
<1>11. <<>> \in Seq(Nat)
    OBVIOUS
<1>. HIDE DEF u
<1>12. ASSUME NEW r \in 1 .. NumReads
       PROVE  u[r] = s[r] \o u[r + 1]
    <2>1. \/ r = 1 /\ r + 1 = 2
          \/ r = 2 /\ r + 1 = 3
          \/ r = 3 /\ r + 1 = 4
          \/ r = 4 /\ r + 1 = 5
          \/ r = 5 /\ r + 1 = 6
          \/ r = 6 /\ r + 1 = 7
        BY DEF NumReads
    <2>. QED  BY <1>8, <1>9, <1>10, <2>1, Zenon
<1>13. ASSUME NEW r \in 1 .. NumReads + 1
       PROVE  u[r] \in Seq(Nat)
    <2>1. r = 1 \/ r = 2 \/ r = 3 \/ r = 4 \/ r = 5 \/ r = 6 \/ r = 7
        BY DEF NumReads
    <2>. QED  BY <1>1, <1>3, <1>4, <1>5, <1>6, <1>7, <1>10, <1>11, <2>1, Zenon
<1>14. u[NumReads + 1] = <<>>
    BY <1>10 DEF NumReads
<1>. QED  BY <1>2, <1>12, <1>13, <1>14, Zenon DEF s

(* A program knows the size of the next block: it is 1, or the number it has just
   read. *)
LEMMA AsksForNextBlock ==
    ASSUME NEW t \in Tasks, NEW m \in Messages, rd[t] \in 1 .. NumReads,
           HasRead(got[t], m, rd[t] - 1)
    PROVE  Asks(t) = Len(Stream(m)[rd[t]])
<1>. DEFINE s == Stream(m)
            k == rd[t] - 1
<1>0. m[1] \in Seq(Nat) /\ m[2] \in Seq(Nat) /\ m[3] \in Seq(Nat)
    BY StartupAssumption
<1>1. /\ s[1] = <<Len(m[1])>> /\ s[2] = m[1] /\ s[3] = <<Len(m[2])>>
      /\ s[4] = m[2] /\ s[5] = <<Len(m[3])>> /\ s[6] = m[3]
    BY DEF Stream
<1>2. Len(got[t]) = k /\ \A i \in 1 .. k : got[t][i] = s[i]
    BY Zenon DEF HasRead
<1>. HIDE DEF s
<1>3. \A n : Len(<<n>>) = 1 /\ <<n>>[1] = n
    OBVIOUS
<1>4. CASE rd[t] = 1 \/ rd[t] = 3 \/ rd[t] = 5
    <2>1. Asks(t) = 1
        BY <1>4 DEF Asks
    <2>2. \E n : s[rd[t]] = <<n>>
        BY <1>1, <1>4, Zenon
    <2>. QED  BY <1>3, <2>1, <2>2 DEF s
<1>5. CASE rd[t] = 2 \/ rd[t] = 4 \/ rd[t] = 6
    <2>1. Asks(t) = got[t][k][1]
        BY <1>5 DEF Asks
    <2>2. /\ k \in 1 .. k
          /\ \/ k = 1 /\ rd[t] = 2
             \/ k = 3 /\ rd[t] = 4
             \/ k = 5 /\ rd[t] = 6
        BY <1>5
    <2>. HIDE DEF k
    <2>3. got[t][k] = s[k]
        BY <1>2, <2>2, Zenon
    <2>4. s[k][1] = Len(s[rd[t]])
        <3>1. CASE rd[t] = 2
            BY <1>1, <1>3, <2>2, <3>1
        <3>2. CASE rd[t] = 4
            BY <1>1, <1>3, <2>2, <3>2
        <3>3. CASE rd[t] = 6
            BY <1>1, <1>3, <2>2, <3>3
        <3>. QED  BY <1>5, <3>1, <3>2, <3>3, Zenon
    <2>. QED  BY <2>1, <2>3, <2>4 DEF s
<1>. QED  BY <1>4, <1>5 DEF NumReads

LEMMA SplitConcat ==
    ASSUME NEW x \in Seq(Nat), NEW y \in Seq(Nat)
    PROVE  /\ Len(x) <= Len(x \o y)
           /\ SubSeq(x \o y, 1, Len(x)) = x
           /\ SubSeq(x \o y, Len(x) + 1, Len(x \o y)) = y
<1>. DEFINE c == x \o y
            n == Len(x)
            lo == n + 1
            hi == Len(c)
<1>1. /\ c \in Seq(Nat) /\ hi = n + Len(y)
      /\ \A i \in 1 .. n + Len(y) : c[i] = IF i <= n THEN x[i] ELSE y[i - n]
    BY ConcatBytes, Zenon
<1>2. n \in Nat /\ Len(y) \in Nat
    OBVIOUS
<1>. HIDE DEF c, n
<1>3. /\ hi \in Int /\ lo \in Int /\ n \in Int /\ 1 \in Int
      /\ \A i \in 1 .. n : c[i] \in Nat
      /\ \A i \in lo .. hi : c[i] \in Nat
    BY <1>1, <1>2
<1>4. n <= hi
    BY <1>1, <1>2
<1>. HIDE DEF lo, hi
<1>5. SubSeq(c, 1, n) = x
    <2>. DEFINE d == SubSeq(c, 1, n)
    <2>1. /\ d \in Seq(Nat)
          /\ Len(d) = IF 1 <= n THEN n - 1 + 1 ELSE 0
          /\ \A i \in 1 .. n - 1 + 1 : d[i] = c[1 + i - 1]
        BY <1>3, SubSeqBytes
    <2>. HIDE DEF d
    <2>2. Len(d) = n
        BY <1>2, <2>1
    <2>3. ASSUME NEW i \in 1 .. Len(d) PROVE d[i] = x[i]
        <3>1. /\ i \in 1 .. n - 1 + 1 /\ 1 + i - 1 = i
              /\ i \in 1 .. n + Len(y) /\ i <= n
            BY <1>2, <2>2
        <3>. QED  BY <1>1, <2>1, <3>1, Zenon
    <2>. QED  BY <2>1, <2>2, <2>3, EqualBytes, Zenon DEF d, n
<1>6. SubSeq(c, lo, hi) = y
    <2>. DEFINE d == SubSeq(c, lo, hi)
    <2>1. /\ d \in Seq(Nat)
          /\ Len(d) = IF lo <= hi THEN hi - lo + 1 ELSE 0
          /\ \A i \in 1 .. hi - lo + 1 : d[i] = c[lo + i - 1]
        BY <1>3, SubSeqBytes
    <2>. HIDE DEF d
    <2>2. Len(d) = Len(y)
        BY <1>1, <1>2, <2>1 DEF lo
    <2>3. ASSUME NEW i \in 1 .. Len(d) PROVE d[i] = y[i]
        <3>. DEFINE j == lo + i - 1
        <3>1. /\ i \in 1 .. hi - lo + 1
              /\ j \in 1 .. n + Len(y) /\ ~(j <= n) /\ j - n = i
            BY <1>1, <1>2, <2>2 DEF lo
        <3>2. d[i] = c[j]
            BY <2>1, <3>1, Zenon
        <3>. HIDE DEF j
        <3>3. c[j] = IF j <= n THEN x[j] ELSE y[j - n]
            BY <1>1, <3>1, Zenon
        <3>. QED  BY <3>1, <3>2, <3>3, Zenon
    <2>. QED  BY <2>1, <2>2, <2>3, EqualBytes, Zenon DEF d
<1>. QED  BY <1>4, <1>5, <1>6, Zenon DEF c, n, lo, hi

(* A read takes the next block off what is left. *)
LEMMA ReadTakesBlock ==
    ASSUME NEW m \in Messages, NEW r \in 1 .. NumReads
    PROVE  /\ Len(Stream(m)[r]) <= Len(Unread(m, r))
           /\ SubSeq(Unread(m, r), 1, Len(Stream(m)[r])) = Stream(m)[r]
           /\ SubSeq(Unread(m, r), Len(Stream(m)[r]) + 1, Len(Unread(m, r))) = Unread(m, r + 1)
<1>. DEFINE x == Stream(m)[r]
            y == Unread(m, r + 1)
<1>1. r + 1 \in 1 .. NumReads + 1
    BY DEF NumReads
<1>2. x \in Seq(Nat) /\ y \in Seq(Nat)
    BY <1>1, BlocksAreBytes, UnreadSplits, Zenon
<1>3. Unread(m, r) = x \o y
    BY UnreadSplits, Zenon
<1>. HIDE DEF x, y
<1>4. /\ Len(x) <= Len(x \o y)
      /\ SubSeq(x \o y, 1, Len(x)) = x
      /\ SubSeq(x \o y, Len(x) + 1, Len(x \o y)) = y
    BY <1>2, SplitConcat, Zenon
<1>5. /\ Len(x) <= Len(Unread(m, r))
      /\ SubSeq(Unread(m, r), 1, Len(x)) = x
      /\ SubSeq(Unread(m, r), Len(x) + 1, Len(Unread(m, r))) = y
    BY <1>3, <1>4, Zenon
<1>. QED  BY <1>5, Zenon DEF x, y

-----------------------------------------------------------------------------

LEMMA StartupPlaces ==
    ASSUME StartupInv, NEW t \in Tasks
    PROVE  /\ wr[t] \in 0 .. Started /\ rd[t] \in 0 .. NumReads + 1
           /\ wr[t] # 0 => pc[t] \in {"run", "unmap"}
           /\ wr[t] \in 1 .. Started - 1 => wr[t] # 0 /\ HasChild(t)
           /\ rd[t] # 0 => pc[t] \in {"start", "libc", "main", "abort"}
<1>1. wr \in [Tasks -> 0 .. Started] /\ rd \in [Tasks -> 0 .. NumReads + 1]
    BY Zenon DEF StartupInv, StartupTypes
<1>2. wr[t] \in 0 .. Started /\ rd[t] \in 0 .. NumReads + 1
    BY <1>1
<1>3. /\ wr[t] \in 1 .. Started - 1 => pc[t] = "run"
      /\ wr[t] = Started => pc[t] = "unmap"
      /\ rd[t] # 0 => pc[t] \in {"start", "libc", "main", "abort"}
    BY Zenon DEF StartupInv, Writer, Reader
<1>. QED  BY <1>2, <1>3 DEF Started, NumReads, HasChild

(* Channels in use differ, and a process that is being loaded reads nothing. *)
LEMMA WritersAreApart ==
    ASSUME StartupInv, LoadingInv, NEW t \in Tasks, NEW u \in Tasks, t # u
    PROVE  /\ wr[t] # 0 /\ wr[u] # 0 => out[t] # out[u]
           /\ rd[t] # 0 /\ rd[u] # 0 => in[t] # in[u]
           /\ HasChild(t) /\ HasChild(u) => child[t] # child[u]
<1>1. Writer(t) /\ Writer(u) /\ Reader(t) /\ Reader(u)
    BY Zenon DEF StartupInv
<1>2. wr[t] # 0 /\ wr[u] # 0 => out[t] # out[u]
    BY <1>1, Zenon DEF Writer
<1>3. rd[t] # 0 /\ rd[u] # 0 => in[t] # in[u]
    BY <1>1, Zenon DEF Reader
<1>4. HasChild(t) /\ HasChild(u) => child[t] # child[u]
    BY Zenon DEF LoadingInv
<1>. QED  BY <1>2, <1>3, <1>4, Zenon

LEMMA ChildIsIdle ==
    ASSUME StartupInv, LoadingInv, NEW t \in Tasks, HasChild(t)
    PROVE  /\ child[t] \in Tasks /\ child[t] # t /\ pc[child[t]] = "created"
           /\ rd[child[t]] = 0 /\ wr[child[t]] = 0 /\ got[child[t]] = <<>>
           /\ rd[t] = 0
<1>1. child[t] \in Tasks /\ pc[child[t]] = "created"
    BY DEF LoadingInv
<1>2. Writer(child[t]) /\ Reader(child[t]) /\ Reader(t)
    BY <1>1, Zenon DEF StartupInv
<1>3. wr[child[t]] = 0 /\ rd[child[t]] = 0
    BY <1>1, StartupPlaces
<1>4. rd[t] = 0 /\ child[t] # t
    BY <1>1, StartupPlaces DEF HasChild
<1>. QED  BY <1>1, <1>2, <1>3, <1>4, Zenon DEF Reader

LEMMA ReadersAreApart ==
    ASSUME StartupInv, LoadingInv, NEW t \in Tasks, NEW u \in Tasks,
           wr[t] \in 1 .. Started - 1, rd[u] # 0
    PROVE  out[t] # in[u] /\ child[t] # u /\ t # u
<1>1. Writer(t) /\ Reader(u)
    BY Zenon DEF StartupInv
<1>2. pc[t] = "run" /\ HasChild(t)
    BY <1>1 DEF Writer, HasChild
<1>3. /\ pc[child[t]] = "created" /\ rd[child[t]] = 0 /\ rd[t] = 0
    BY <1>2, ChildIsIdle, Zenon
<1>4. child[t] # u /\ t # u
    BY <1>3
<1>5. wr[t] = 1 \/ wr[t] \in 2 .. Started - 1
    BY DEF Started, NumReads
<1>6. holder[out[t]]["end2"] \in {t, child[t]}
    BY <1>1, <1>5, Zenon DEF Writer
<1>. QED  BY <1>1, <1>4, <1>6, Zenon DEF Reader

(* A step that leaves a loader's channel and message alone. *)
LEMMA WriterStays ==
    ASSUME NEW t \in Tasks, Writer(t), wr'[t] = wr[t],
           wr[t] # 0 => /\ out'[t] = out[t] /\ pc'[t] = pc[t]
                        /\ holder'[out[t]]["end1"] = holder[out[t]]["end1"],
           wr[t] \in 1 .. Started - 1 =>
                /\ child'[t] = child[t] /\ sent'[child[t]] = sent[child[t]]
                /\ holder'[out[t]]["end2"] = holder[out[t]]["end2"]
                /\ queue'[out[t]]["end2"] = queue[out[t]]["end2"],
           wr[t] \in 0 .. Started
    PROVE  Writer(t)'
<1>1. CASE wr[t] = 0
    BY <1>1 DEF Writer, Started, NumReads
<1>2. CASE wr[t] = Started
    BY <1>2 DEF Writer, Started, NumReads
<1>3. CASE wr[t] \in 1 .. Started - 1
    <2>1. wr[t] # 0 /\ wr[t] # Started /\ (wr[t] # 1 => wr[t] \in 2 .. Started - 1)
        BY <1>3, SMTT(30) DEF Started, NumReads
    <2>. QED  BY <1>3, <2>1, Zenon DEF Writer
<1>. QED  BY <1>1, <1>2, <1>3 DEF Started, NumReads

(* A step that leaves a reader and its channel alone. *)
LEMMA ReaderStays ==
    ASSUME NEW t \in Tasks, Reader(t), rd'[t] = rd[t], got'[t] = got[t],
           rd[t] # 0 => /\ in'[t] = in[t] /\ sent'[t] = sent[t]
                        /\ pc'[t] \in {"start", "libc", "main", "abort"}
                        /\ holder'[in[t]]["end2"] = holder[in[t]]["end2"]
                        /\ queue'[in[t]]["end2"] = queue[in[t]]["end2"]
    PROVE  Reader(t)'
    BY Zenon DEF Reader, HasRead

LEMMA IdleWriter ==
    ASSUME NEW t \in Tasks, wr'[t] = 0
    PROVE  Writer(t)'
<1>1. 0 # 1 /\ 0 # Started /\ 0 \notin 1 .. Started - 1 /\ 0 \notin 2 .. Started - 1
    BY DEF Started, NumReads
<1>. QED  BY <1>1, Zenon DEF Writer

LEMMA IdleReader ==
    ASSUME NEW t \in Tasks, rd'[t] = 0, got'[t] = <<>>
    PROVE  Reader(t)'
    BY Zenon DEF Reader

-----------------------------------------------------------------------------

(* A task goes on holding an end while it stays where it is and the loaders of new
   processes leave alone what they have written. *)
LEMMA HoldsStays ==
    ASSUME NEW u \in Tasks, NEW d, NEW e, Holds(u, d, e),
           pc'[u] = pc[u], wr'[u] = wr[u], out'[u] = out[u], rd'[u] = rd[u], in'[u] = in[u],
           \A x \in Tasks : pc[u] = "created" /\ HasChild(x)' /\ child'[x] = u =>
                HasChild(x) /\ child[x] = u /\ wr'[x] = wr[x] /\ out'[x] = out[x]
    PROVE  Holds(u, d, e)'
<1>1. CASE /\ e = "end2" /\ pc[u] = "created"
           /\ \A x \in Tasks :
                HasChild(x) /\ child[x] = u => wr[x] \in 2 .. Started - 1 /\ out[x] = d
    <2>1. \A x \in Tasks :
            HasChild(x)' /\ child'[x] = u => wr'[x] \in 2 .. Started - 1 /\ out'[x] = d
        BY <1>1, Zenon
    <2>. QED  BY <1>1, <2>1, Zenon DEF Holds
<1>2. CASE \/ e = "end1" /\ wr[u] # 0 /\ out[u] = d
           \/ e = "end2" /\ wr[u] = 1 /\ out[u] = d
           \/ e = "end2" /\ rd[u] # 0 /\ in[u] = d
    BY <1>2, Zenon DEF Holds
<1>. QED  BY <1>1, <1>2, Zenon DEF Holds

LEMMA ChannelCreateKeepsInv ==
    ASSUME StartupInv, LoadingInv, NEW t \in Tasks, ChannelCreate(t)
    PROVE  StartupInv'
<1>1. PICK c \in Names, m \in Messages :
        /\ Ch!Create(t, c)
        /\ out' = [out EXCEPT ![t] = c]
        /\ sent' = [sent EXCEPT ![child[t]] = m]
    BY Zenon DEF ChannelCreate
<1>2. /\ pc[t] = "run" /\ wr[t] = 0
      /\ wr' = [wr EXCEPT ![t] = 1]
      /\ pc' = pc /\ child' = child /\ got' = got /\ rd' = rd /\ in' = in
    BY Zenon DEF ChannelCreate, allVars, userVars
<1>3. ChannelTypes /\ StartupTypes /\ HoldersAreKnown
    BY Zenon DEF StartupInv
<1>4. /\ HasChild(t)
      /\ child[t] \in Tasks /\ child[t] # t /\ pc[child[t]] = "created"
      /\ rd[child[t]] = 0 /\ wr[child[t]] = 0 /\ rd[t] = 0
    BY <1>2, ChildIsIdle DEF HasChild
<1>5. /\ \A d \in Names, e \in Ch!Ends :
            /\ holder'[d][e] = IF d = c THEN t ELSE holder[d][e]
            /\ queue'[d][e] = IF d = c THEN <<>> ELSE queue[d][e]
      /\ \A e \in Ch!Ends : holder[c][e] = "closed"
    BY <1>1, <1>3 DEF Ch!Create, Ch!IsOpen, ChannelTypes
<1>w. /\ wr'[t] = 1 /\ out'[t] = c /\ sent'[child[t]] = m
      /\ \A u \in Tasks : u # t => wr'[u] = wr[u] /\ out'[u] = out[u]
      /\ \A u \in Tasks : u # child[t] => sent'[u] = sent[u]
    BY <1>1, <1>2, <1>3, <1>4, Zenon DEF StartupTypes
<1>6. ChannelTypes'
    BY <1>1, <1>3 DEF Ch!Create, ChannelTypes
<1>7. StartupTypes'
    BY <1>1, <1>2, <1>3, <1>4, SMTT(30) DEF StartupTypes, Started, NumReads
<1>8. ASSUME NEW u \in Tasks, u # t
      PROVE  Writer(u)' /\ Reader(u)'
    <2>1. Writer(u) /\ Reader(u) /\ wr[u] \in 0 .. Started
        BY StartupPlaces, Zenon DEF StartupInv
    <2>2. wr[u] # 0 => out[u] \in Names /\ out[u] # c
        BY <1>5, <2>1, StartupAssumption, Zenon DEF Writer, Ch!Ends
    <2>3. rd[u] # 0 => in[u] \in Names /\ in[u] # c
        BY <1>5, <2>1, StartupAssumption, Zenon DEF Reader, Ch!Ends
    <2>4. ASSUME wr[u] \in 1 .. Started - 1 PROVE sent'[child[u]] = sent[child[u]]
        <3>1. HasChild(u)
            BY <2>4, StartupPlaces, Zenon
        <3>2. child[u] \in Tasks /\ child[u] # child[t]
            BY <1>4, <1>8, <3>1, ChildIsIdle, WritersAreApart, Zenon
        <3>. QED  BY <1>w, <3>2, Zenon
    <2>5. wr[u] # 0 => /\ out'[u] = out[u] /\ pc'[u] = pc[u] /\ child'[u] = child[u]
                       /\ holder'[out[u]]["end1"] = holder[out[u]]["end1"]
                       /\ holder'[out[u]]["end2"] = holder[out[u]]["end2"]
                       /\ queue'[out[u]]["end2"] = queue[out[u]]["end2"]
        BY <1>2, <1>5, <1>8, <1>w, <2>2, Zenon DEF Ch!Ends
    <2>6. wr'[u] = wr[u] /\ (wr[u] \in 1 .. Started - 1 => wr[u] # 0)
        BY <1>8, <1>w, StartupPlaces, Zenon
    <2>7. Writer(u)'
        BY <1>2, <2>1, <2>4, <2>5, <2>6, WriterStays, Zenon
    <2>8. rd[u] # 0 => sent'[u] = sent[u]
        BY <1>4, <1>w, Zenon
    <2>9. Reader(u)'
        BY <1>2, <1>5, <2>1, <2>3, <2>8, ReaderStays, Zenon DEF Ch!Ends, Reader
    <2>. QED  BY <2>7, <2>9
<1>9. Writer(t)' /\ Reader(t)'
    <2>2. holder'[c]["end1"] = t /\ holder'[c]["end2"] = t /\ queue'[c]["end2"] = <<>>
        BY <1>5, Zenon DEF Ch!Ends
    <2>3. 1 # Started /\ 1 \notin 2 .. Started - 1
        BY DEF Started, NumReads
    <2>4. Writer(t)'
        BY <1>2, <1>w, <2>2, <2>3, Zenon DEF Writer
    <2>5. Reader(t)
        BY Zenon DEF StartupInv
    <2>. QED  BY <1>2, <1>4, <2>4, <2>5, ReaderStays, Zenon
<1>10. HoldersAreKnown'
    <2>. SUFFICES ASSUME NEW u \in Tasks, NEW d \in Names, NEW e \in Ch!Ends,
                         holder'[d][e] = u
                  PROVE  Holds(u, d, e)'
        BY Zenon DEF HoldersAreKnown
    <2>1. CASE d = c
        <3>1. u = t
            BY <1>5, <2>1, Zenon
        <3>. QED  BY <1>w, <2>1, <3>1, SMTT(30) DEF Holds, Ch!Ends
    <2>2. CASE d # c
        <3>1. holder[d][e] = u
            BY <1>5, <2>2, Zenon
        <3>2. Holds(u, d, e)
            BY <1>3, <3>1, Zenon DEF HoldersAreKnown
        <3>3. u # t /\ (pc[u] = "created" => child[t] # u)
            BY <1>2, <1>4, <3>2, SMTT(30) DEF Holds, Started, NumReads
        <3>4. pc'[u] = pc[u] /\ rd'[u] = rd[u] /\ in'[u] = in[u]
            BY <1>2, Zenon
        <3>5. wr'[u] = wr[u] /\ out'[u] = out[u]
            BY <1>w, <3>3, Zenon
        <3>6. ASSUME NEW x \in Tasks, pc[u] = "created", HasChild(x)', child'[x] = u
              PROVE  HasChild(x) /\ child[x] = u /\ wr'[x] = wr[x] /\ out'[x] = out[x]
            <4>1. HasChild(x) /\ child[x] = u
                BY <1>2, <3>6, Zenon DEF HasChild
            <4>2. x # t
                BY <3>3, <3>6, <4>1, Zenon
            <4>. QED  BY <1>w, <4>1, <4>2, Zenon
        <3>. QED  BY <3>2, <3>4, <3>5, <3>6, HoldsStays, Zenon
    <2>. QED  BY <2>1, <2>2
<1>11. \A u \in Tasks : Writer(u)' /\ Reader(u)'
    BY <1>8, <1>9, Zenon
<1>. QED  BY <1>6, <1>7, <1>10, <1>11, Zenon DEF StartupInv

LEMMA TransferHandleKeepsInv ==
    ASSUME StartupInv, LoadingInv, NEW t \in Tasks, TransferHandle(t)
    PROVE  StartupInv'
<1>1. /\ pc[t] = "run" /\ wr[t] = 1
      /\ Ch!Give(out[t], "end2", child[t])
      /\ wr' = [wr EXCEPT ![t] = 2]
      /\ pc' = pc /\ child' = child /\ sent' = sent /\ got' = got /\ rd' = rd
      /\ out' = out /\ in' = in
    BY Zenon DEF TransferHandle, allVars, userVars
<1>2. ChannelTypes /\ StartupTypes /\ HoldersAreKnown /\ Writer(t) /\ Reader(t)
    BY Zenon DEF StartupInv
<1>3. 1 \in 1 .. Started - 1 /\ 1 # 0 /\ 2 \in 1 .. Started - 1 /\ 2 # 0 /\ 2 # 1
      /\ 2 \in 2 .. Started - 1 /\ 2 # Started /\ 2 - 1 = 1
    BY DEF Started, NumReads
<1>4. /\ HasChild(t)
      /\ child[t] \in Tasks /\ child[t] # t /\ pc[child[t]] = "created"
      /\ rd[child[t]] = 0 /\ wr[child[t]] = 0 /\ rd[t] = 0
    BY <1>1, ChildIsIdle DEF HasChild
<1>5. /\ out[t] \in Names /\ holder[out[t]]["end1"] = t /\ holder[out[t]]["end2"] = t
      /\ queue[out[t]]["end2"] = <<>> /\ sent[child[t]] \in Messages
    BY <1>1, <1>2, <1>3, Zenon DEF Writer
<1>6. \A d \in Names, e \in Ch!Ends :
            holder'[d][e] = IF d = out[t] /\ e = "end2" THEN child[t] ELSE holder[d][e]
    BY <1>1, <1>2 DEF Ch!Give, ChannelTypes, Ch!Ends
<1>7. queue' = queue
    BY <1>1, Zenon DEF Ch!Give
<1>8. wr'[t] = 2 /\ \A u \in Tasks : u # t => wr'[u] = wr[u]
    BY <1>1, <1>2, Zenon DEF StartupTypes
<1>9. ChannelTypes'
    BY <1>1, <1>2, <1>4, <1>5 DEF Ch!Give, ChannelTypes, Ch!Ends
<1>10. StartupTypes'
    BY <1>1, <1>2, SMTT(30) DEF StartupTypes, Started, NumReads
<1>11. ASSUME NEW u \in Tasks, u # t
       PROVE  Writer(u)' /\ Reader(u)'
    <2>1. Writer(u) /\ Reader(u) /\ wr[u] \in 0 .. Started
        BY StartupPlaces, Zenon DEF StartupInv
    <2>2. wr[u] # 0 => out[u] \in Names /\ out[u] # out[t]
        BY <1>1, <1>3, <1>11, <2>1, WritersAreApart, Zenon DEF Writer
    <2>3. rd[u] # 0 => in[u] \in Names /\ in[u] # out[t]
        BY <1>1, <1>3, <2>1, ReadersAreApart, Zenon DEF Reader
    <2>4. wr[u] # 0 => /\ holder'[out[u]]["end1"] = holder[out[u]]["end1"]
                       /\ holder'[out[u]]["end2"] = holder[out[u]]["end2"]
        BY <1>6, <2>2, Zenon DEF Ch!Ends
    <2>5. wr'[u] = wr[u] /\ (wr[u] \in 1 .. Started - 1 => wr[u] # 0)
        BY <1>8, <1>11, StartupPlaces, Zenon
    <2>6. Writer(u)'
        BY <1>1, <1>7, <2>1, <2>4, <2>5, WriterStays, Zenon
    <2>7. rd[u] # 0 => holder'[in[u]]["end2"] = holder[in[u]]["end2"]
        BY <1>6, <2>3, Zenon DEF Ch!Ends
    <2>8. Reader(u)'
        BY <1>1, <1>7, <2>1, <2>7, ReaderStays, StartupPlaces, Zenon
    <2>. QED  BY <2>6, <2>8
<1>12. Writer(t)' /\ Reader(t)'
    <2>1. holder'[out[t]]["end1"] = t /\ holder'[out[t]]["end2"] = child[t]
        BY <1>5, <1>6, Zenon DEF Ch!Ends
    <2>2. queue'[out[t]]["end2"] \o Unread(sent[child[t]], 1) = Unread(sent[child[t]], 1)
        <3>1. 1 \in 1 .. NumReads + 1
            BY DEF NumReads
        <3>2. Unread(sent[child[t]], 1) \in Seq(Nat)
            BY <1>5, <3>1, UnreadSplits, Zenon
        <3>. QED  BY <1>5, <1>7, <3>2, ConcatNoBytes, Zenon
    <2>3. Writer(t)'
        BY <1>1, <1>3, <1>5, <1>8, <2>1, <2>2, Zenon DEF Writer
    <2>. QED  BY <1>1, <1>2, <1>4, <2>3, ReaderStays, Zenon
<1>13. HoldersAreKnown'
    <2>. SUFFICES ASSUME NEW u \in Tasks, NEW d \in Names, NEW e \in Ch!Ends,
                         holder'[d][e] = u
                  PROVE  Holds(u, d, e)'
        BY Zenon DEF HoldersAreKnown
    <2>1. CASE d = out[t] /\ e = "end2"
        <3>1. u = child[t]
            BY <1>6, <2>1, Zenon
        <3>2. \A x \in Tasks : HasChild(x) /\ child[x] = child[t] => x = t
            BY <1>4, WritersAreApart, Zenon
        <3>. QED  BY <1>1, <1>3, <1>4, <1>8, <2>1, <3>1, <3>2, Zenon DEF Holds, HasChild
    <2>2. CASE ~(d = out[t] /\ e = "end2")
        <3>1. holder[d][e] = u
            BY <1>6, <2>2, Zenon
        <3>2. Holds(u, d, e)
            BY <1>2, <3>1, Zenon DEF HoldersAreKnown
        <3>3. CASE u = t
            BY <1>1, <1>3, <1>4, <1>8, <2>2, <3>2, <3>3, Zenon DEF Holds
        <3>4. CASE u # t
            <4>1. pc[u] = "created" /\ child[t] = u /\ Holds(u, d, e) => FALSE
                BY <1>1, <1>4, SMTT(30) DEF Holds, Started, NumReads
            <4>. QED  BY <1>1, <1>8, <3>2, <3>4, <4>1, Zenon DEF Holds, HasChild
        <3>. QED  BY <3>3, <3>4
    <2>. QED  BY <2>1, <2>2
<1>14. \A u \in Tasks : Writer(u)' /\ Reader(u)'
    BY <1>11, <1>12, Zenon
<1>. QED  BY <1>9, <1>10, <1>13, <1>14, Zenon DEF StartupInv

LEMMA ChannelWriteKeepsInv ==
    ASSUME StartupInv, LoadingInv, NEW t \in Tasks, ChannelWrite(t)
    PROVE  StartupInv'
<1>. DEFINE m == sent[child[t]]
            k == wr[t] - 1
            q == queue[out[t]]["end2"]
<1>1. /\ pc[t] = "run" /\ wr[t] \in 2 .. NumReads + 1
      /\ Ch!Write(out[t], "end1", Stream(m)[k])
      /\ wr' = [wr EXCEPT ![t] = @ + 1]
      /\ pc' = pc /\ child' = child /\ sent' = sent /\ got' = got /\ rd' = rd
      /\ out' = out /\ in' = in
    BY Zenon DEF ChannelWrite, allVars, userVars
<1>2. ChannelTypes /\ StartupTypes /\ HoldersAreKnown /\ Writer(t) /\ Reader(t)
    BY Zenon DEF StartupInv
<1>3. /\ wr[t] \in 1 .. Started - 1 /\ wr[t] \in 2 .. Started - 1 /\ wr[t] # 0
      /\ wr[t] + 1 \in 1 .. Started - 1 /\ wr[t] + 1 \in 2 .. Started - 1
      /\ wr[t] + 1 # 0 /\ wr[t] + 1 # 1 /\ wr[t] + 1 # Started
      /\ k \in 1 .. NumReads /\ k + 1 \in 1 .. NumReads + 1 /\ wr[t] + 1 - 1 = k + 1
    BY <1>1, SMTT(30) DEF Started, NumReads
<1>4. /\ HasChild(t)
      /\ child[t] \in Tasks /\ pc[child[t]] = "created" /\ rd[t] = 0
    BY <1>1, ChildIsIdle DEF HasChild
<1>5. /\ out[t] \in Names /\ holder[out[t]]["end1"] = t /\ holder[out[t]]["end2"] = child[t]
      /\ q \o Unread(m, k) = Unread(m, 1) /\ m \in Messages
    BY <1>1, <1>2, <1>3, Zenon DEF Writer
<1>6. /\ holder' = holder
      /\ queue' = [queue EXCEPT ![out[t]]["end2"] = @ \o Stream(m)[k]]
    <2>1. "end1" # "end2" /\ Ch!Other("end1") = "end2"
        BY DEF Ch!Other
    <2>2. Ch!IsOpen(out[t], "end2")
        BY <1>4, <1>5, StartupAssumption, Zenon DEF Ch!IsOpen
    <2>. QED  BY <1>1, <2>1, <2>2, Zenon DEF Ch!Write
<1>7. Stream(m)[k] \in Seq(Nat) /\ q \in Seq(Nat)
    <2>1. Stream(m)[k] \in Seq(Nat)
        BY <1>3, <1>5, BlocksAreBytes, Zenon
    <2>2. q \in Seq(Nat)
        BY <1>2, <1>5 DEF ChannelTypes, Ch!Ends
    <2>. QED  BY <2>1, <2>2
<1>. DEFINE q2 == q \o Stream(m)[k]
<1>8. q2 \in Seq(Nat)
    BY <1>7, ConcatBytes, Zenon
<1>9. queue' = [queue EXCEPT ![out[t]]["end2"] = q2]
    BY <1>6
<1>. HIDE DEF q2
<1>10. \A d \in Names, e \in Ch!Ends :
            queue'[d][e] = IF d = out[t] /\ e = "end2" THEN q2 ELSE queue[d][e]
    BY <1>2, <1>9 DEF ChannelTypes, Ch!Ends
<1>11. wr'[t] = wr[t] + 1 /\ \A u \in Tasks : u # t => wr'[u] = wr[u]
    BY <1>1, <1>2, Zenon DEF StartupTypes
<1>12. ChannelTypes'
    <2>1. out[t] \in Names /\ holder' = holder
        BY <1>5, <1>6, Zenon
    <2>. QED  BY <1>2, <1>8, <1>9, <2>1 DEF ChannelTypes, Ch!Ends
<1>13. StartupTypes'
    BY <1>1, <1>2, SMTT(30) DEF StartupTypes, Started, NumReads
<1>14. ASSUME NEW u \in Tasks, u # t
       PROVE  Writer(u)' /\ Reader(u)'
    <2>1. Writer(u) /\ Reader(u) /\ wr[u] \in 0 .. Started
        BY StartupPlaces, Zenon DEF StartupInv
    <2>2. wr[u] # 0 => out[u] \in Names /\ out[u] # out[t]
        BY <1>3, <1>14, <2>1, WritersAreApart, Zenon DEF Writer
    <2>3. rd[u] # 0 => in[u] \in Names /\ in[u] # out[t]
        BY <1>3, <2>1, ReadersAreApart, Zenon DEF Reader
    <2>4. wr[u] # 0 => queue'[out[u]]["end2"] = queue[out[u]]["end2"]
        BY <1>10, <2>2, Zenon DEF Ch!Ends
    <2>5. wr'[u] = wr[u] /\ (wr[u] \in 1 .. Started - 1 => wr[u] # 0)
        BY <1>11, <1>14, StartupPlaces, Zenon
    <2>6. Writer(u)'
        BY <1>1, <1>6, <2>1, <2>4, <2>5, WriterStays, Zenon
    <2>7. rd[u] # 0 => queue'[in[u]]["end2"] = queue[in[u]]["end2"]
        BY <1>10, <2>3, Zenon DEF Ch!Ends
    <2>8. Reader(u)'
        BY <1>1, <1>6, <2>1, <2>7, ReaderStays, StartupPlaces, Zenon
    <2>. QED  BY <2>6, <2>8
<1>15. Writer(t)' /\ Reader(t)'
    <2>1. queue'[out[t]]["end2"] = q2
        BY <1>5, <1>10, Zenon DEF Ch!Ends
    <2>2. q2 \o Unread(m, k + 1) = Unread(m, 1)
        <3>1. Unread(m, k) = Stream(m)[k] \o Unread(m, k + 1)
            BY <1>3, <1>5, UnreadSplits, Zenon
        <3>2. Unread(m, k + 1) \in Seq(Nat)
            BY <1>3, <1>5, UnreadSplits, Zenon
        <3>3. q2 \o Unread(m, k + 1) = q \o (Stream(m)[k] \o Unread(m, k + 1))
            BY <1>7, <3>2, ConcatAssociates, Zenon DEF q2
        <3>. QED  BY <1>5, <3>1, <3>3, Zenon
    <2>3. wr'[t] - 1 = k + 1
        BY <1>3, <1>11
    <2>. HIDE DEF k
    <2>4. Writer(t)'
        BY <1>1, <1>3, <1>5, <1>6, <1>11, <2>1, <2>2, <2>3, Zenon DEF Writer
    <2>. QED  BY <1>1, <1>2, <1>4, <2>4, ReaderStays, Zenon
<1>16. HoldersAreKnown'
    <2>. SUFFICES ASSUME NEW u \in Tasks, NEW d \in Names, NEW e \in Ch!Ends,
                         holder[d][e] = u
                  PROVE  Holds(u, d, e)'
        BY <1>6, Zenon DEF HoldersAreKnown
    <2>1. Holds(u, d, e)
        BY <1>2, Zenon DEF HoldersAreKnown
    <2>2. \A x \in Tasks : /\ wr[x] # 0 => wr'[x] # 0
                           /\ wr[x] = 1 => wr'[x] = 1
                           /\ wr[x] \in 2 .. Started - 1 => wr'[x] \in 2 .. Started - 1
        BY <1>1, <1>11 DEF Started, NumReads
    <2>. QED  BY <1>1, <2>1, <2>2, Zenon DEF Holds, HasChild
<1>17. \A u \in Tasks : Writer(u)' /\ Reader(u)'
    BY <1>14, <1>15, Zenon
<1>. QED  BY <1>12, <1>13, <1>16, <1>17, Zenon DEF StartupInv

LEMMA StartProcessKeepsInv ==
    ASSUME StartupInv, LoadingInv, NEW t \in Tasks, StartProcess(t)
    PROVE  StartupInv'
<1>0. PICK x \in Tasks : x = child[t]
    BY DEF LoadingInv
<1>1. /\ pc[t] = "run" /\ wr[t] = NumReads + 2
      /\ pc' = [pc EXCEPT ![t] = "unmap", ![x] = "start"]
      /\ wr' = [wr EXCEPT ![t] = Started]
      /\ rd' = [rd EXCEPT ![x] = 1]
      /\ in' = [in EXCEPT ![x] = out[t]]
      /\ child' = child /\ holder' = holder /\ queue' = queue
      /\ sent' = sent /\ got' = got /\ out' = out
    BY <1>0, Zenon DEF StartProcess, LoadRun, channelVars
<1>2. ChannelTypes /\ StartupTypes /\ HoldersAreKnown /\ Writer(t) /\ Reader(t)
    BY Zenon DEF StartupInv
<1>3. /\ wr[t] \in 1 .. Started - 1 /\ wr[t] \in 2 .. Started - 1 /\ wr[t] # 0 /\ wr[t] # 1
      /\ wr[t] - 1 = NumReads + 1 /\ Started # 0 /\ Started # 1
      /\ Started \notin 1 .. Started - 1 /\ Started \notin 2 .. Started - 1
    BY <1>1 DEF Started, NumReads
<1>4. /\ HasChild(t)
      /\ x # t /\ pc[x] = "created"
      /\ rd[x] = 0 /\ wr[x] = 0 /\ got[x] = <<>> /\ rd[t] = 0
    BY <1>0, <1>1, ChildIsIdle DEF HasChild
<1>5. /\ out[t] \in Names /\ holder[out[t]]["end1"] = t /\ holder[out[t]]["end2"] = x
      /\ queue[out[t]]["end2"] \o Unread(sent[x], NumReads + 1) = Unread(sent[x], 1)
      /\ sent[x] \in Messages
    BY <1>0, <1>1, <1>2, <1>3, Zenon DEF Writer
<1>6. /\ wr'[t] = Started /\ \A u \in Tasks : u # t => wr'[u] = wr[u]
      /\ rd'[x] = 1 /\ in'[x] = out[t]
      /\ \A u \in Tasks : u # x => rd'[u] = rd[u] /\ in'[u] = in[u]
    BY <1>1, <1>2, <1>4, Zenon DEF StartupTypes
<1>7. /\ pc'[t] = "unmap" /\ pc'[x] = "start"
      /\ \A u \in Tasks : u # t /\ u # x => pc'[u] = pc[u]
    BY <1>1, <1>4 DEF LoadingInv
<1>8. ChannelTypes'
    BY <1>1, <1>2, Zenon DEF ChannelTypes
<1>9. StartupTypes'
    <2>1. out[t] \in Names
        BY <1>5
    <2>2. wr' \in [Tasks -> 0 .. Started] /\ rd' \in [Tasks -> 0 .. NumReads + 1]
        BY <1>1, <1>2, SMTT(30) DEF StartupTypes, Started, NumReads
    <2>3. in' \in [Tasks -> Names \cup {NoName}]
        BY <1>1, <1>2, <2>1 DEF StartupTypes
    <2>. QED  BY <1>1, <1>2, <2>2, <2>3, Zenon DEF StartupTypes
<1>10. ASSUME NEW u \in Tasks, u # t, u # x
       PROVE  Writer(u)' /\ Reader(u)'
    <2>1. Writer(u) /\ Reader(u) /\ wr[u] \in 0 .. Started
        BY StartupPlaces, Zenon DEF StartupInv
    <2>2. Writer(u)'
        BY <1>1, <1>6, <1>7, <1>10, <2>1, WriterStays, Zenon
    <2>3. Reader(u)'
        BY <1>1, <1>6, <1>7, <1>10, <2>1, ReaderStays, StartupPlaces, Zenon
    <2>. QED  BY <2>2, <2>3
<1>11. Writer(t)' /\ Reader(t)'
    <2>1. Writer(t)'
        BY <1>1, <1>3, <1>5, <1>6, <1>7, Zenon DEF Writer
    <2>. QED  BY <1>1, <1>2, <1>4, <1>6, <2>1, ReaderStays, Zenon
<1>12. Writer(x)' /\ Reader(x)'
    <2>2. Writer(x)'
        BY <1>4, <1>6, IdleWriter, Zenon
    <2>3. queue[out[t]]["end2"] = Unread(sent[x], 1)
        <3>1. queue[out[t]]["end2"] \in Seq(Nat)
            BY <1>2, <1>5, Zenon DEF ChannelTypes, Ch!Ends
        <3>. QED  BY <1>5, <3>1, UnreadSplits, ConcatNoBytes, Zenon
    <2>4. got'[x] = <<>> /\ rd'[x] - 1 = 0 /\ rd'[x] # 0
        BY <1>1, <1>4, <1>6
    <2>5. HasRead(got'[x], sent'[x], rd'[x] - 1)
        BY <2>4 DEF HasRead
    <2>6. Reader(x)'
        BY <1>1, <1>5, <1>6, <1>7, <2>3, <2>4, <2>5, Zenon DEF Reader, HasRead
    <2>. QED  BY <2>2, <2>6
<1>13. HoldersAreKnown'
    <2>. SUFFICES ASSUME NEW u \in Tasks, NEW d \in Names, NEW e \in Ch!Ends,
                         holder[d][e] = u
                  PROVE  Holds(u, d, e)'
        BY <1>1, Zenon DEF HoldersAreKnown
    <2>1. Holds(u, d, e)
        BY <1>2, Zenon DEF HoldersAreKnown
    <2>2. CASE u = x
        <3>1. e = "end2" /\ out[t] = d
            BY <1>0, <1>4, <2>1, <2>2, SMTT(30) DEF Holds
        <3>. QED  BY <1>6, <2>2, <3>1, SMTT(30) DEF Holds
    <2>3. CASE u = t
        <3>1. e = "end1" /\ out[t] = d
            BY <1>1, <1>3, <1>4, <2>1, <2>3 DEF Holds
        <3>. QED  BY <1>1, <1>3, <1>6, <2>3, <3>1 DEF Holds
    <2>4. CASE u # x /\ u # t
        <3>1. \A v \in Tasks : HasChild(v)' => HasChild(v) /\ v # t
            BY <1>4, <1>7 DEF HasChild
        <3>. QED  BY <1>1, <1>6, <1>7, <2>1, <2>4, <3>1, Zenon DEF Holds
    <2>. QED  BY <2>2, <2>3, <2>4
<1>14. \A u \in Tasks : Writer(u)' /\ Reader(u)'
    BY <1>10, <1>11, <1>12, Zenon
<1>. QED  BY <1>8, <1>9, <1>13, <1>14, Zenon DEF StartupInv

LEMMA CloseOneEnd ==
    ASSUME ChannelTypes, NEW c \in Names, NEW f \in Ch!Ends, Ch!CloseAll({<<c, f>>})
    PROVE  /\ ChannelTypes'
           /\ \A d \in Names, e \in Ch!Ends :
                /\ holder'[d][e] = IF d = c /\ e = f THEN "closed" ELSE holder[d][e]
                /\ queue'[d][e] = IF d = c /\ e = f THEN <<>> ELSE queue[d][e]
<1>1. \A d \in Names, e \in Ch!Ends : <<d, e>> \in {<<c, f>>} <=> d = c /\ e = f
    OBVIOUS
<1>2. \A d \in Names, e \in Ch!Ends :
        /\ holder'[d][e] = IF d = c /\ e = f THEN "closed" ELSE holder[d][e]
        /\ queue'[d][e] = IF d = c /\ e = f THEN <<>> ELSE queue[d][e]
    BY <1>1 DEF Ch!CloseAll
<1>3. /\ holder' = [d \in Names |-> [e \in Ch!Ends |->
                        IF d = c /\ e = f THEN "closed" ELSE holder[d][e]]]
      /\ queue' = [d \in Names |-> [e \in Ch!Ends |->
                        IF d = c /\ e = f THEN <<>> ELSE queue[d][e]]]
    BY <1>1 DEF Ch!CloseAll
<1>4. ChannelTypes'
    BY <1>3 DEF ChannelTypes
<1>. QED  BY <1>2, <1>4

LEMMA CloseOutKeepsInv ==
    ASSUME StartupInv, LoadingInv, NEW t \in Tasks, CloseOut(t)
    PROVE  StartupInv'
<1>1. /\ pc[t] = "unmap" /\ wr[t] = Started
      /\ Ch!CloseAll({<<out[t], "end1">>})
      /\ wr' = [wr EXCEPT ![t] = 0]
      /\ out' = [out EXCEPT ![t] = NoName]
      /\ pc' = pc /\ child' = child /\ sent' = sent /\ got' = got /\ rd' = rd /\ in' = in
    BY Zenon DEF CloseOut, allVars, userVars
<1>2. ChannelTypes /\ StartupTypes /\ HoldersAreKnown /\ Writer(t) /\ Reader(t)
    BY Zenon DEF StartupInv
<1>3. Started # 0 /\ Started # 1 /\ 0 \in 0 .. Started
    BY DEF Started, NumReads
<1>4. out[t] \in Names /\ holder[out[t]]["end1"] = t /\ rd[t] = 0
    <2>1. rd[t] = 0
        BY <1>1, StartupPlaces
    <2>. QED  BY <1>1, <1>2, <1>3, <2>1, Zenon DEF Writer
<1>5. /\ ChannelTypes'
      /\ \A d \in Names, e \in Ch!Ends :
            /\ holder'[d][e] = IF d = out[t] /\ e = "end1" THEN "closed" ELSE holder[d][e]
            /\ queue'[d][e] = IF d = out[t] /\ e = "end1" THEN <<>> ELSE queue[d][e]
    <2>1. "end1" \in Ch!Ends
        BY DEF Ch!Ends
    <2>. QED  BY <1>1, <1>2, <1>4, <2>1, CloseOneEnd, SMTT(30)
<1>6. wr'[t] = 0 /\ \A u \in Tasks : u # t => wr'[u] = wr[u] /\ out'[u] = out[u]
    BY <1>1, <1>2, Zenon DEF StartupTypes
<1>7. StartupTypes'
    BY <1>1, <1>2, <1>3 DEF StartupTypes
<1>8. ASSUME NEW u \in Tasks, u # t
      PROVE  Writer(u)' /\ Reader(u)'
    <2>1. Writer(u) /\ Reader(u) /\ wr[u] \in 0 .. Started
        BY StartupPlaces, Zenon DEF StartupInv
    <2>2. wr[u] # 0 => out[u] \in Names /\ out[u] # out[t]
        BY <1>1, <1>3, <1>8, <2>1, WritersAreApart, Zenon DEF Writer
    <2>3. wr[u] # 0 => /\ holder'[out[u]]["end1"] = holder[out[u]]["end1"]
                       /\ holder'[out[u]]["end2"] = holder[out[u]]["end2"]
                       /\ queue'[out[u]]["end2"] = queue[out[u]]["end2"]
        BY <1>5, <2>2, Zenon DEF Ch!Ends
    <2>4. wr'[u] = wr[u] /\ out'[u] = out[u] /\ (wr[u] \in 1 .. Started - 1 => wr[u] # 0)
        BY <1>6, <1>8, StartupPlaces, Zenon
    <2>5. Writer(u)'
        BY <1>1, <2>1, <2>3, <2>4, WriterStays, Zenon
    <2>6. "end2" \in Ch!Ends /\ "end2" # "end1"
        BY DEF Ch!Ends
    <2>7. rd[u] # 0 => /\ holder'[in[u]]["end2"] = holder[in[u]]["end2"]
                       /\ queue'[in[u]]["end2"] = queue[in[u]]["end2"]
        BY <1>5, <2>1, <2>6, Zenon DEF Reader
    <2>8. Reader(u)'
        BY <1>1, <2>1, <2>7, ReaderStays, StartupPlaces, Zenon
    <2>. QED  BY <2>5, <2>8
<1>9. Writer(t)' /\ Reader(t)'
    BY <1>1, <1>2, <1>4, <1>6, IdleWriter, ReaderStays, Zenon
<1>10. HoldersAreKnown'
    <2>. SUFFICES ASSUME NEW u \in Tasks, NEW d \in Names, NEW e \in Ch!Ends,
                         holder'[d][e] = u
                  PROVE  Holds(u, d, e)'
        BY Zenon DEF HoldersAreKnown
    <2>1. holder[d][e] = u /\ ~(d = out[t] /\ e = "end1")
        BY <1>5, StartupAssumption, Zenon
    <2>2. Holds(u, d, e)
        BY <1>2, <2>1, Zenon DEF HoldersAreKnown
    <2>3. u # t
        BY <1>1, <1>3, <1>4, <2>1, <2>2 DEF Holds
    <2>4. \A x \in Tasks : HasChild(x) => x # t
        BY <1>1 DEF HasChild
    <2>. QED  BY <1>1, <1>6, <2>2, <2>3, <2>4, Zenon DEF Holds, HasChild
<1>11. \A u \in Tasks : Writer(u)' /\ Reader(u)'
    BY <1>8, <1>9, Zenon
<1>. QED  BY <1>5, <1>7, <1>10, <1>11, Zenon DEF StartupInv

LEMMA HasReadMore ==
    ASSUME NEW m, NEW g, NEW r \in 1 .. NumReads, HasRead(g, m, r - 1),
           NEW b \in Seq(Nat), b = Stream(m)[r]
    PROVE  HasRead(Append(g, b), m, r)
<1>1. g \in Seq(Seq(Nat)) /\ Len(g) = r - 1
    BY Zenon DEF HasRead
<1>2. /\ Append(g, b) \in Seq(Seq(Nat)) /\ Len(Append(g, b)) = r
      /\ Append(g, b)[r] = b
      /\ \A i \in 1 .. r - 1 : Append(g, b)[i] = g[i]
    BY <1>1 DEF NumReads
<1>3. \A i \in 1 .. r - 1 : Append(g, b)[i] = Stream(m)[i]
    BY <1>2, Zenon DEF HasRead
<1>4. \A i \in 1 .. r : i = r \/ i \in 1 .. r - 1
    BY DEF NumReads
<1>. QED  BY <1>2, <1>3, <1>4, Zenon DEF HasRead

(* A read succeeds and takes exactly the next block. *)
LEMMA ReadSucceeds ==
    ASSUME StartupInv, LoadingInv, NEW t \in Tasks, rd[t] \in 1 .. NumReads
    PROVE  /\ in[t] \in Names /\ holder[in[t]]["end2"] = t /\ sent[t] \in Messages
           /\ Asks(t) = Len(Stream(sent[t])[rd[t]])
           /\ Asks(t) <= Len(queue[in[t]]["end2"])
           /\ SubSeq(queue[in[t]]["end2"], 1, Asks(t)) = Stream(sent[t])[rd[t]]
           /\ SubSeq(queue[in[t]]["end2"], Asks(t) + 1, Len(queue[in[t]]["end2"]))
                = Unread(sent[t], rd[t] + 1)
<1>1. rd[t] # 0
    BY DEF NumReads
<1>2. /\ in[t] \in Names /\ holder[in[t]]["end2"] = t /\ sent[t] \in Messages
      /\ HasRead(got[t], sent[t], rd[t] - 1)
      /\ queue[in[t]]["end2"] = Unread(sent[t], rd[t])
    BY <1>1, Zenon DEF StartupInv, Reader
<1>3. Asks(t) = Len(Stream(sent[t])[rd[t]])
    BY <1>2, AsksForNextBlock, Zenon
<1>. DEFINE m == sent[t]
            r == rd[t]
<1>4. /\ Len(Stream(m)[r]) <= Len(Unread(m, r))
      /\ SubSeq(Unread(m, r), 1, Len(Stream(m)[r])) = Stream(m)[r]
      /\ SubSeq(Unread(m, r), Len(Stream(m)[r]) + 1, Len(Unread(m, r))) = Unread(m, r + 1)
    BY <1>2, ReadTakesBlock, Zenon
<1>. QED  BY <1>2, <1>3, <1>4, Zenon

LEMMA ChannelReadBlockingKeepsInv ==
    ASSUME StartupInv, LoadingInv, NEW t \in Tasks, ChannelReadBlocking(t)
    PROVE  StartupInv'
<1>. DEFINE q == queue[in[t]]["end2"]
            block == Stream(sent[t])[rd[t]]
            rest == Unread(sent[t], rd[t] + 1)
<1>1. /\ pc[t] = "main" /\ rd[t] \in 1 .. NumReads
      /\ Ch!Read(in[t], "end2", Asks(t))
      /\ IF answer'.status = "K_OK"
         THEN /\ got' = [got EXCEPT ![t] = Append(@, answer'.bytes)]
              /\ rd' = [rd EXCEPT ![t] = @ + 1]
         ELSE got' = got /\ rd' = rd
      /\ pc' = pc /\ child' = child /\ sent' = sent /\ wr' = wr /\ out' = out /\ in' = in
    BY Zenon DEF ChannelReadBlocking, allVars, userVars
<1>2. ChannelTypes /\ StartupTypes /\ HoldersAreKnown /\ Writer(t) /\ Reader(t)
    BY Zenon DEF StartupInv
<1>3. /\ rd[t] # 0 /\ rd[t] + 1 # 0 /\ rd[t] \in Int
      /\ rd[t] + 1 \in 1 .. NumReads + 1 /\ rd[t] + 1 \in 0 .. NumReads + 1
    BY <1>1, SMTT(30) DEF NumReads
<1>4. /\ in[t] \in Names /\ holder[in[t]]["end2"] = t /\ sent[t] \in Messages
      /\ Asks(t) = Len(block) /\ Asks(t) <= Len(q)
      /\ SubSeq(q, 1, Asks(t)) = block
      /\ SubSeq(q, Asks(t) + 1, Len(q)) = rest
    BY <1>1, ReadSucceeds, Zenon
<1>5. block \in Seq(Nat) /\ rest \in Seq(Nat) /\ q \in Seq(Nat)
    <2>1. block \in Seq(Nat) /\ rest \in Seq(Nat)
        BY <1>1, <1>3, <1>4, BlocksAreBytes, UnreadSplits, Zenon
    <2>2. q \in Seq(Nat)
        BY <1>2, <1>4, Zenon DEF ChannelTypes, Ch!Ends
    <2>. QED  BY <2>1, <2>2
<1>6. ~(Asks(t) > Len(q))
    <2>1. Asks(t) = Len(block) /\ Asks(t) <= Len(q)
        BY <1>4, Zenon
    <2>. HIDE DEF block, q
    <2>. QED  BY <1>5, <2>1
<1>7. /\ answer' = [status |-> "K_OK", bytes |-> block]
      /\ queue' = [queue EXCEPT ![in[t]]["end2"] = rest]
      /\ holder' = holder
    BY <1>1, <1>4, <1>6, Zenon DEF Ch!Read
<1>8. answer'.status = "K_OK" /\ answer'.bytes = block
    BY <1>7
<1>. HIDE DEF rest, block
<1>9. \A d \in Names, e \in Ch!Ends :
            queue'[d][e] = IF d = in[t] /\ e = "end2" THEN rest ELSE queue[d][e]
    BY <1>2, <1>7 DEF ChannelTypes, Ch!Ends
<1>10. /\ rd'[t] = rd[t] + 1 /\ got'[t] = Append(got[t], block)
       /\ \A u \in Tasks : u # t => rd'[u] = rd[u] /\ got'[u] = got[u]
    BY <1>1, <1>2, <1>8, Zenon DEF StartupTypes
<1>11. ChannelTypes'
    <2>1. in[t] \in Names
        BY <1>4, Zenon
    <2>. QED  BY <1>2, <1>5, <1>7, <2>1 DEF ChannelTypes, Ch!Ends
<1>12. StartupTypes'
    <2>1. rd' = [rd EXCEPT ![t] = @ + 1] /\ got' = [got EXCEPT ![t] = Append(@, answer'.bytes)]
        BY <1>1, <1>8, Zenon
    <2>2. rd' \in [Tasks -> 0 .. NumReads + 1]
        BY <1>2, <1>3, <2>1 DEF StartupTypes
    <2>3. DOMAIN got' = Tasks
        BY <1>2, <2>1, Zenon DEF StartupTypes
    <2>. QED  BY <1>1, <1>2, <2>2, <2>3, Zenon DEF StartupTypes
<1>13. ASSUME NEW u \in Tasks
       PROVE  Writer(u)'
    <2>1. Writer(u) /\ wr[u] \in 0 .. Started
        BY StartupPlaces, Zenon DEF StartupInv
    <2>2. wr[u] \in 1 .. Started - 1 => out[u] \in Names /\ out[u] # in[t]
        BY <1>3, <2>1, ReadersAreApart, StartupPlaces, Zenon DEF Writer
    <2>3. wr[u] \in 1 .. Started - 1 => queue'[out[u]]["end2"] = queue[out[u]]["end2"]
        BY <1>9, <2>2, Zenon DEF Ch!Ends
    <2>. QED  BY <1>1, <1>7, <2>1, <2>3, WriterStays, Zenon
<1>14. ASSUME NEW u \in Tasks, u # t
       PROVE  Reader(u)'
    <2>1. Reader(u)
        BY Zenon DEF StartupInv
    <2>2. rd[u] # 0 => in[u] \in Names /\ in[u] # in[t]
        BY <1>3, <1>14, <2>1, WritersAreApart, Zenon DEF Reader
    <2>3. rd[u] # 0 => queue'[in[u]]["end2"] = queue[in[u]]["end2"]
        BY <1>9, <2>2, Zenon DEF Ch!Ends
    <2>. QED  BY <1>1, <1>7, <1>10, <1>14, <2>1, <2>3, ReaderStays, StartupPlaces, Zenon
<1>15. Reader(t)'
    <2>1. HasRead(got[t], sent[t], rd[t] - 1)
        BY <1>2, <1>3, Zenon DEF Reader
    <2>2. HasRead(Append(got[t], block), sent[t], rd[t])
        BY <1>1, <1>5, <2>1, HasReadMore, Zenon DEF block
    <2>a. rd'[t] = rd[t] + 1
        BY <1>10, Zenon
    <2>b. rd'[t] - 1 = rd[t]
        BY <1>3, <2>a
    <2>3. HasRead(got'[t], sent'[t], rd'[t] - 1)
        BY <1>1, <1>10, <2>2, <2>b, Zenon
    <2>4. queue'[in'[t]]["end2"] = Unread(sent'[t], rd'[t])
        BY <1>1, <1>4, <1>9, <1>10, Zenon DEF rest, Ch!Ends
    <2>5. rd'[t] # 0 /\ in'[t] \in Names /\ holder'[in'[t]]["end2"] = t
          /\ sent'[t] \in Messages /\ pc'[t] = "main"
        BY <1>1, <1>3, <1>4, <1>7, <1>10, Zenon
    <2>. QED  BY <2>3, <2>4, <2>5, Zenon DEF Reader, HasRead
<1>16. HoldersAreKnown'
    <2>. SUFFICES ASSUME NEW u \in Tasks, NEW d \in Names, NEW e \in Ch!Ends,
                         holder[d][e] = u
                  PROVE  Holds(u, d, e)'
        BY <1>7, Zenon DEF HoldersAreKnown
    <2>1. Holds(u, d, e)
        BY <1>2, Zenon DEF HoldersAreKnown
    <2>2. rd[u] # 0 => rd'[u] # 0
        BY <1>3, <1>10
    <2>. QED  BY <1>1, <2>1, <2>2, Zenon DEF Holds, HasChild
<1>17. \A u \in Tasks : Writer(u)' /\ Reader(u)'
    BY <1>13, <1>14, <1>15, Zenon
<1>. QED  BY <1>11, <1>12, <1>16, <1>17, Zenon DEF StartupInv

LEMMA CloseInKeepsInv ==
    ASSUME StartupInv, LoadingInv, NEW t \in Tasks, CloseIn(t)
    PROVE  StartupInv'
<1>1. /\ pc[t] = "main" /\ rd[t] = NumReads + 1
      /\ Ch!CloseAll({<<in[t], "end2">>})
      /\ rd' = [rd EXCEPT ![t] = 0]
      /\ in' = [in EXCEPT ![t] = NoName]
      /\ sent' = [sent EXCEPT ![t] = <<>>]
      /\ got' = [got EXCEPT ![t] = <<>>]
      /\ pc' = pc /\ child' = child /\ wr' = wr /\ out' = out
    BY Zenon DEF CloseIn, allVars, userVars
<1>2. ChannelTypes /\ StartupTypes /\ HoldersAreKnown /\ Writer(t) /\ Reader(t)
    BY Zenon DEF StartupInv
<1>3. rd[t] # 0 /\ 0 \in 0 .. NumReads + 1
    BY <1>1 DEF NumReads
<1>4. in[t] \in Names /\ holder[in[t]]["end2"] = t
    BY <1>2, <1>3, Zenon DEF Reader
<1>5. wr[t] = 0
    BY <1>1, StartupPlaces
<1>6. /\ ChannelTypes'
      /\ \A d \in Names, e \in Ch!Ends :
            /\ holder'[d][e] = IF d = in[t] /\ e = "end2" THEN "closed" ELSE holder[d][e]
            /\ queue'[d][e] = IF d = in[t] /\ e = "end2" THEN <<>> ELSE queue[d][e]
    <2>1. "end2" \in Ch!Ends
        BY DEF Ch!Ends
    <2>. QED  BY <1>1, <1>2, <1>4, <2>1, CloseOneEnd, SMTT(30)
<1>7. /\ rd'[t] = 0 /\ got'[t] = <<>>
      /\ \A u \in Tasks : u # t => /\ rd'[u] = rd[u] /\ in'[u] = in[u]
                                   /\ got'[u] = got[u] /\ sent'[u] = sent[u]
    BY <1>1, <1>2, Zenon DEF StartupTypes
<1>8. StartupTypes'
    BY <1>1, <1>2, <1>3 DEF StartupTypes
<1>9. ASSUME NEW u \in Tasks
      PROVE  Writer(u)'
    <2>1. Writer(u) /\ wr[u] \in 0 .. Started /\ (wr[u] \in 1 .. Started - 1 => wr[u] # 0)
        BY StartupPlaces, Zenon DEF StartupInv
    <2>2. "end1" \in Ch!Ends /\ "end2" \in Ch!Ends /\ "end1" # "end2"
        BY DEF Ch!Ends
    <2>3. wr[u] # 0 => holder'[out[u]]["end1"] = holder[out[u]]["end1"]
        BY <1>6, <2>1, <2>2, Zenon DEF Writer
    <2>4. ASSUME wr[u] \in 1 .. Started - 1
          PROVE  /\ sent'[child[u]] = sent[child[u]]
                 /\ holder'[out[u]]["end2"] = holder[out[u]]["end2"]
                 /\ queue'[out[u]]["end2"] = queue[out[u]]["end2"]
        <3>1. out[u] \in Names /\ out[u] # in[t] /\ child[u] # t
            BY <1>3, <2>1, <2>4, ReadersAreApart, Zenon DEF Writer
        <3>2. child[u] \in Tasks
            BY <2>4, StartupPlaces, ChildIsIdle, Zenon
        <3>. QED  BY <1>6, <1>7, <2>2, <3>1, <3>2, Zenon
    <2>. QED  BY <1>1, <2>1, <2>3, <2>4, WriterStays, Zenon
<1>10. ASSUME NEW u \in Tasks, u # t
       PROVE  Reader(u)'
    <2>1. Reader(u)
        BY Zenon DEF StartupInv
    <2>2. rd[u] # 0 => in[u] \in Names /\ in[u] # in[t]
        BY <1>3, <1>10, <2>1, WritersAreApart, Zenon DEF Reader
    <2>3. rd[u] # 0 => /\ holder'[in[u]]["end2"] = holder[in[u]]["end2"]
                       /\ queue'[in[u]]["end2"] = queue[in[u]]["end2"]
        BY <1>6, <2>2, Zenon DEF Ch!Ends
    <2>. QED  BY <1>1, <1>7, <1>10, <2>1, <2>3, ReaderStays, StartupPlaces, Zenon
<1>11. Reader(t)'
    BY <1>7, IdleReader, Zenon
<1>12. HoldersAreKnown'
    <2>. SUFFICES ASSUME NEW u \in Tasks, NEW d \in Names, NEW e \in Ch!Ends,
                         holder'[d][e] = u
                  PROVE  Holds(u, d, e)'
        BY Zenon DEF HoldersAreKnown
    <2>1. holder[d][e] = u /\ ~(d = in[t] /\ e = "end2")
        BY <1>6, StartupAssumption, Zenon
    <2>2. Holds(u, d, e)
        BY <1>2, <2>1, Zenon DEF HoldersAreKnown
    <2>3. u # t
        BY <1>1, <1>5, <2>1, <2>2, SMTT(30) DEF Holds
    <2>. QED  BY <1>1, <1>7, <2>2, <2>3, Zenon DEF Holds, HasChild
<1>13. \A u \in Tasks : Writer(u)' /\ Reader(u)'
    BY <1>9, <1>10, <1>11, Zenon
<1>. QED  BY <1>6, <1>8, <1>12, <1>13, Zenon DEF StartupInv

-----------------------------------------------------------------------------

(* How the other steps of a program move it. *)
ProgramMoves ==
    {<<"start", "libc">>, <<"start", "abort">>, <<"libc", "main">>, <<"libc", "abort">>,
     <<"main", "create">>, <<"main", "abort">>, <<"map", "run">>, <<"map", "abort">>,
     <<"unmap", "main">>}
Moves(t) ==
    /\ \E s \in Pcs : <<pc[t], s>> \in ProgramMoves /\ pc' = [pc EXCEPT ![t] = s]
    /\ child' = child /\ live' = live
Creates(t, u) ==
    /\ pc[t] = "create" /\ pc' = [pc EXCEPT ![t] = "map", ![u] = "created"]
    /\ child' = [child EXCEPT ![t] = u]
    /\ u \notin live /\ live' = live \cup {u}

LEMMA ProgramSteps ==
    ASSUME NEW t \in Tasks,
           \/ Start(t) \/ LibcStart(t) \/ LoadAlloc(t) \/ LoadCreate(t) \/ LoadMap(t)
           \/ ResizableBuffers(t) \/ LoadUnmap(t)
    PROVE  \/ Moves(t)
           \/ \E u \in Tasks : Creates(t, u)
           \/ pc' = pc /\ child' = child /\ live' = live
<1>1. ASSUME NEW a, NEW v, AllocPage(t, a, v) PROVE live' = live
    BY <1>1 DEF AllocPage, Returns
<1>2. ASSUME NEW v, NEW u, NEW a, NEW w, NEW x, MapPage(t, v, u, a, w, x) PROVE live' = live
    BY <1>2 DEF MapPage, MapOnto, Returns
<1>3. CASE Start(t)
    <2>1. live' = live /\ child' = child
        BY <1>1, <1>3, Zenon DEF Start
    <2>. QED  BY <1>3, <2>1, Zenon DEF Start, After, Moves, ProgramMoves, Pcs
<1>4. CASE LibcStart(t)
    <2>1. live' = live /\ child' = child
        BY <1>1, <1>4, Zenon DEF LibcStart
    <2>. QED  BY <1>4, <2>1, Zenon DEF LibcStart, After, Moves, ProgramMoves, Pcs
<1>5. CASE LoadAlloc(t)
    <2>1. live' = live /\ child' = child
        BY <1>1, <1>5, Zenon DEF LoadAlloc
    <2>. QED  BY <1>5, <2>1, Zenon DEF LoadAlloc, After, Moves, ProgramMoves, Pcs
<1>6. CASE LoadCreate(t)
    BY <1>6, Zenon DEF LoadCreate, ProcessCreate, Creates
<1>7. CASE LoadMap(t)
    <2>1. live' = live /\ child' = child
        BY <1>2, <1>7, Zenon DEF LoadMap
    <2>. QED  BY <1>7, <2>1, Zenon DEF LoadMap, After, Moves, ProgramMoves, Pcs
<1>8. CASE ResizableBuffers(t)
    BY <1>8, Zenon DEF ResizableBuffers, HeapGrows, userVars
<1>9. CASE LoadUnmap(t)
    BY <1>9 DEF LoadUnmap, UnmapPage, Moves, ProgramMoves, Pcs
<1>. QED  BY <1>3, <1>4, <1>5, <1>6, <1>7, <1>8, <1>9, Zenon

(* A program that moves, or creates a task, has no startup channel open for a
   child of its own, and the task it creates was nobody's. *)
LEMMA ProgramStepsFrame ==
    ASSUME LoadingInv, StartupInv, NEW t \in Tasks,
           pc[t] = "main" => rd[t] = 0, pc[t] = "unmap" => wr[t] = 0,
           Moves(t) \/ \E u \in Tasks : Creates(t, u)
    PROVE  \A x \in Tasks :
            /\ wr[x] # 0 => pc'[x] = pc[x] /\ child'[x] = child[x]
            /\ rd[x] # 0 => pc'[x] \in {"start", "libc", "main", "abort"}
            /\ pc[x] = "created" => pc'[x] = "created"
            /\ HasChild(x)' => \/ HasChild(x) /\ child'[x] = child[x]
                               \/ pc[child'[x]] = "none"
<1>. SUFFICES ASSUME NEW x \in Tasks
              PROVE  /\ wr[x] # 0 => pc'[x] = pc[x] /\ child'[x] = child[x]
                     /\ rd[x] # 0 => pc'[x] \in {"start", "libc", "main", "abort"}
                     /\ pc[x] = "created" => pc'[x] = "created"
                     /\ HasChild(x)' => \/ HasChild(x) /\ child'[x] = child[x]
                                        \/ pc[child'[x]] = "none"
    OBVIOUS
<1>1. /\ pc \in [Tasks -> Pcs] /\ child \in [Tasks -> Tasks]
      /\ \A u \in Tasks : pc[u] = "none" <=> u \notin live
    BY Zenon DEF LoadingInv
<1>2. /\ wr[x] # 0 => pc[x] \in {"run", "unmap"}
      /\ rd[x] # 0 => pc[x] \in {"start", "libc", "main", "abort"}
    BY StartupPlaces, Zenon
<1>3. CASE Moves(t)
    <2>1. PICK s \in Pcs : <<pc[t], s>> \in ProgramMoves /\ pc' = [pc EXCEPT ![t] = s]
        BY <1>3, Zenon DEF Moves
    <2>2. child' = child
        BY <1>3, Zenon DEF Moves
    <2>3. CASE x # t
        BY <1>1, <1>2, <2>1, <2>2, <2>3, Zenon DEF HasChild
    <2>4. CASE x = t
        <3>1. pc'[x] = s
            BY <1>1, <2>1, <2>4, Zenon
        <3>2. \/ pc[x] = "start" /\ s \in {"libc", "abort"}
              \/ pc[x] = "libc" /\ s \in {"main", "abort"}
              \/ pc[x] = "main" /\ s \in {"create", "abort"}
              \/ pc[x] = "map" /\ s \in {"run", "abort"}
              \/ pc[x] = "unmap" /\ s = "main"
            BY <2>1, <2>4 DEF ProgramMoves
        <3>. QED  BY <1>2, <2>2, <2>4, <3>1, <3>2 DEF HasChild
    <2>. QED  BY <2>3, <2>4, Zenon
<1>4. CASE \E u \in Tasks : Creates(t, u)
    <2>1. PICK u \in Tasks : Creates(t, u)
        BY <1>4, Zenon
    <2>2. /\ pc[t] = "create" /\ pc' = [pc EXCEPT ![t] = "map", ![u] = "created"]
          /\ child' = [child EXCEPT ![t] = u] /\ u # t /\ pc[u] = "none"
        BY <1>1, <2>1 DEF Creates
    <2>3. /\ pc'[x] = IF x = u THEN "created" ELSE IF x = t THEN "map" ELSE pc[x]
          /\ child'[x] = IF x = t THEN u ELSE child[x]
        BY <1>1, <2>2
    <2>. QED  BY <1>2, <2>2, <2>3, SMTT(30) DEF HasChild
<1>. QED  BY <1>3, <1>4, Zenon

LEMMA UnchangedKeepsInv ==
    ASSUME StartupInv, pc' = pc, child' = child,
           holder' = holder, queue' = queue, sent' = sent, got' = got,
           wr' = wr, rd' = rd, out' = out, in' = in
    PROVE  StartupInv'
<1>1. ChannelTypes' /\ StartupTypes' /\ HoldersAreKnown'
    <2>1. ChannelTypes' /\ StartupTypes'
        BY Zenon DEF StartupInv, ChannelTypes, StartupTypes
    <2>2. ASSUME NEW u \in Tasks, NEW d \in Names, NEW e \in Ch!Ends, holder'[d][e] = u
          PROVE  Holds(u, d, e)'
        <3>1. Holds(u, d, e)
            BY <2>2, Zenon DEF StartupInv, HoldersAreKnown
        <3>. QED  BY <3>1, Zenon DEF Holds, HasChild
    <2>. QED  BY <2>1, <2>2, Zenon DEF HoldersAreKnown
<1>2. \A u \in Tasks : Writer(u)' /\ Reader(u)'
    <2>. SUFFICES ASSUME NEW u \in Tasks
                  PROVE  Writer(u)' /\ Reader(u)'
        OBVIOUS
    <2>1. /\ Writer(u) /\ Reader(u) /\ wr[u] \in 0 .. Started
          /\ rd[u] # 0 => pc[u] \in {"start", "libc", "main", "abort"}
        BY StartupPlaces, Zenon DEF StartupInv
    <2>2. Writer(u)'
        BY <2>1, WriterStays, Zenon
    <2>3. Reader(u)'
        BY <2>1, ReaderStays, Zenon
    <2>. QED  BY <2>2, <2>3, Zenon
<1>. QED  BY <1>1, <1>2, Zenon DEF StartupInv

LEMMA InProgramKeepsInv ==
    ASSUME StartupInv, LoadingInv, NEW t \in Tasks, InProgram(t)
    PROVE  StartupInv'
<1>1. /\ holder' = holder /\ queue' = queue /\ sent' = sent /\ got' = got
      /\ wr' = wr /\ rd' = rd /\ out' = out /\ in' = in
    BY Zenon DEF InProgram, channelVars, startupVars
<1>2. \/ Start(t) \/ LibcStart(t) \/ LoadAlloc(t) \/ LoadCreate(t) \/ LoadMap(t)
      \/ ResizableBuffers(t) \/ LoadUnmap(t)
    BY Zenon DEF InProgram
<1>3. CASE pc' = pc /\ child' = child
    BY <1>1, <1>3, UnchangedKeepsInv, Zenon
<1>4. CASE ~ResizableBuffers(t) /\ (Moves(t) \/ \E u \in Tasks : Creates(t, u))
    <2>1. /\ pc[t] = "main" => rd[t] = 0
          /\ pc[t] = "unmap" => wr[t] = 0
        <3>1. CASE Start(t)
            BY <3>1 DEF Start
        <3>2. CASE LibcStart(t)
            BY <3>2 DEF LibcStart
        <3>3. CASE rd[t] = 0 /\ LoadAlloc(t)
            BY <3>3 DEF LoadAlloc
        <3>4. CASE LoadCreate(t)
            BY <3>4 DEF LoadCreate
        <3>5. CASE LoadMap(t)
            BY <3>5 DEF LoadMap
        <3>6. ~ResizableBuffers(t)
            BY <1>4, Zenon
        <3>7. CASE wr[t] = 0 /\ LoadUnmap(t)
            BY <3>7 DEF LoadUnmap
        <3>. QED  BY <3>1, <3>2, <3>3, <3>4, <3>5, <3>6, <3>7, Zenon DEF InProgram
    <2>2. \A x \in Tasks :
            /\ wr[x] # 0 => pc'[x] = pc[x] /\ child'[x] = child[x]
            /\ rd[x] # 0 => pc'[x] \in {"start", "libc", "main", "abort"}
            /\ pc[x] = "created" => pc'[x] = "created"
            /\ HasChild(x)' => \/ HasChild(x) /\ child'[x] = child[x]
                               \/ pc[child'[x]] = "none"
        BY <1>4, <2>1, ProgramStepsFrame, Zenon
    <2>3. ChannelTypes' /\ StartupTypes'
        BY <1>1, Zenon DEF StartupInv, ChannelTypes, StartupTypes
    <2>4. ASSUME NEW u \in Tasks
          PROVE  Writer(u)' /\ Reader(u)'
        <3>1. /\ Writer(u) /\ Reader(u) /\ wr[u] \in 0 .. Started
              /\ wr[u] \in 1 .. Started - 1 => wr[u] # 0
            BY StartupPlaces, Zenon DEF StartupInv
        <3>2. Writer(u)'
            BY <1>1, <2>2, <3>1, WriterStays, Zenon
        <3>3. Reader(u)'
            BY <1>1, <2>2, <3>1, ReaderStays, Zenon
        <3>. QED  BY <3>2, <3>3, Zenon
    <2>5. HoldersAreKnown'
        <3>. SUFFICES ASSUME NEW u \in Tasks, NEW d \in Names, NEW e \in Ch!Ends,
                             holder'[d][e] = u
                      PROVE  Holds(u, d, e)'
            BY Zenon DEF HoldersAreKnown
        <3>1. Holds(u, d, e)
            BY <1>1, Zenon DEF StartupInv, HoldersAreKnown
        <3>2. CASE /\ e = "end2" /\ pc[u] = "created"
                   /\ \A x \in Tasks : HasChild(x) /\ child[x] = u =>
                        wr[x] \in 2 .. Started - 1 /\ out[x] = d
            <4>1. pc'[u] = "created" /\ pc[u] # "none"
                BY <2>2, <3>2
            <4>2. \A x \in Tasks : HasChild(x)' /\ child'[x] = u =>
                        wr'[x] \in 2 .. Started - 1 /\ out'[x] = d
                <5>. SUFFICES ASSUME NEW x \in Tasks, HasChild(x)', child'[x] = u
                              PROVE  wr'[x] \in 2 .. Started - 1 /\ out'[x] = d
                    OBVIOUS
                <5>1. HasChild(x) /\ child[x] = u
                    BY <2>2, <4>1, Zenon
                <5>. QED  BY <1>1, <3>2, <5>1, Zenon
            <4>. QED  BY <3>2, <4>1, <4>2, Zenon DEF Holds
        <3>. QED  BY <1>1, <2>2, <3>1, <3>2, Zenon DEF Holds
    <2>6. \A u \in Tasks : Writer(u)' /\ Reader(u)'
        BY <2>4, Zenon
    <2>. QED  BY <2>3, <2>5, <2>6, Zenon DEF StartupInv
<1>5. CASE ResizableBuffers(t)
    BY <1>3, <1>5, Zenon DEF ResizableBuffers, userVars
<1>. QED  BY <1>2, <1>3, <1>4, <1>5, ProgramSteps, Zenon

LEMMA EndsAnywhereKeepsInv ==
    ASSUME StartupInv, LoadingInv, NEW t \in Tasks, EndsAnywhere(t)
    PROVE  StartupInv'
<1>1. /\ Running(t)
      /\ Ch!CloseAll({x \in Names \X Ch!Ends : holder[x[1]][x[2]] = t})
      /\ pc' = [pc EXCEPT ![t] = "none"] /\ child' = [child EXCEPT ![t] = t]
      /\ sent' = [sent EXCEPT ![t] = <<>>] /\ got' = [got EXCEPT ![t] = <<>>]
      /\ wr' = [wr EXCEPT ![t] = 0] /\ rd' = [rd EXCEPT ![t] = 0]
      /\ out' = [out EXCEPT ![t] = NoName] /\ in' = [in EXCEPT ![t] = NoName]
    BY Zenon DEF EndsAnywhere, Ends, Ch!End
<1>2. /\ ChannelTypes /\ StartupTypes /\ HoldersAreKnown
      /\ pc \in [Tasks -> Pcs] /\ child \in [Tasks -> Tasks]
    BY Zenon DEF StartupInv, LoadingInv
<1>3. 0 \in 0 .. Started /\ 0 \in 0 .. NumReads + 1
    BY DEF NumReads, Started
<1>4. pc[t] # "created"
    BY <1>1 DEF Running
<1>5. /\ holder' = [d \in Names |-> [e \in Ch!Ends |->
                        IF holder[d][e] = t THEN "closed" ELSE holder[d][e]]]
      /\ queue' = [d \in Names |-> [e \in Ch!Ends |->
                        IF holder[d][e] = t THEN <<>> ELSE queue[d][e]]]
    <2>1. \A d \in Names, e \in Ch!Ends :
            <<d, e>> \in {x \in Names \X Ch!Ends : holder[x[1]][x[2]] = t} <=> holder[d][e] = t
        OBVIOUS
    <2>. QED  BY <1>1, <2>1 DEF Ch!CloseAll
<1>6. \A d \in Names, e \in Ch!Ends :
        /\ holder'[d][e] = IF holder[d][e] = t THEN "closed" ELSE holder[d][e]
        /\ holder[d][e] # t => queue'[d][e] = queue[d][e]
    BY <1>5, Zenon
<1>7. ChannelTypes'
    BY <1>2, <1>5 DEF ChannelTypes
<1>8. /\ rd'[t] = 0 /\ wr'[t] = 0 /\ got'[t] = <<>> /\ pc'[t] = "none"
      /\ \A u \in Tasks : u # t =>
            /\ pc'[u] = pc[u] /\ child'[u] = child[u]
            /\ wr'[u] = wr[u] /\ rd'[u] = rd[u] /\ out'[u] = out[u] /\ in'[u] = in[u]
            /\ got'[u] = got[u] /\ sent'[u] = sent[u]
    BY <1>1, <1>2, Zenon DEF StartupTypes
<1>9. StartupTypes'
    BY <1>1, <1>2, <1>3, Zenon DEF StartupTypes
<1>10. "end1" \in Ch!Ends /\ "end2" \in Ch!Ends /\ "end1" # "end2"
    BY DEF Ch!Ends
<1>11. ASSUME NEW u \in Tasks, u # t
       PROVE  Writer(u)'
    <2>1. /\ Writer(u) /\ wr[u] \in 0 .. Started
          /\ wr[u] \in 1 .. Started - 1 => wr[u] # 0 /\ HasChild(u)
          /\ wr[u] \in 1 .. Started - 1 => wr[u] = 1 \/ wr[u] \in 2 .. Started - 1
        BY StartupPlaces, SMTT(30) DEF StartupInv
    <2>2. wr[u] # 0 => holder'[out[u]]["end1"] = holder[out[u]]["end1"]
        BY <1>6, <1>10, <1>11, <2>1, Zenon DEF Writer
    <2>3. ASSUME wr[u] \in 1 .. Started - 1
          PROVE  /\ sent'[child[u]] = sent[child[u]]
                 /\ holder'[out[u]]["end2"] = holder[out[u]]["end2"]
                 /\ queue'[out[u]]["end2"] = queue[out[u]]["end2"]
        <3>1. child[u] \in Tasks /\ child[u] # t
            BY <1>4, <2>1, <2>3, ChildIsIdle, Zenon
        <3>2. out[u] \in Names /\ holder[out[u]]["end2"] # t
            BY <1>11, <2>1, <2>3, <3>1, Zenon DEF Writer
        <3>. QED  BY <1>6, <1>8, <1>10, <3>1, <3>2, Zenon
    <2>. QED  BY <1>8, <1>11, <2>1, <2>2, <2>3, WriterStays, Zenon
<1>12. ASSUME NEW u \in Tasks, u # t
       PROVE  Reader(u)'
    <2>1. Reader(u) /\ (rd[u] # 0 => pc[u] \in {"start", "libc", "main", "abort"})
        BY StartupPlaces, Zenon DEF StartupInv
    <2>2. rd[u] # 0 => in[u] \in Names /\ holder[in[u]]["end2"] = u
        BY <2>1, Zenon DEF Reader
    <2>3. rd[u] # 0 => /\ holder'[in[u]]["end2"] = holder[in[u]]["end2"]
                       /\ queue'[in[u]]["end2"] = queue[in[u]]["end2"]
        BY <1>6, <1>10, <1>12, <2>2, Zenon
    <2>. QED  BY <1>8, <1>12, <2>1, <2>3, ReaderStays, Zenon
<1>13. Writer(t)' /\ Reader(t)'
    BY <1>8, IdleWriter, IdleReader, Zenon
<1>14. HoldersAreKnown'
    <2>. SUFFICES ASSUME NEW u \in Tasks, NEW d \in Names, NEW e \in Ch!Ends,
                         holder'[d][e] = u
                  PROVE  Holds(u, d, e)'
        BY Zenon DEF HoldersAreKnown
    <2>1. holder[d][e] = u /\ u # t
        BY <1>6, StartupAssumption, Zenon
    <2>2. Holds(u, d, e)
        BY <1>2, <2>1, Zenon DEF HoldersAreKnown
    <2>3. ~HasChild(t)'
        BY <1>8 DEF HasChild
    <2>4. /\ pc'[u] = pc[u] /\ wr'[u] = wr[u] /\ out'[u] = out[u]
          /\ rd'[u] = rd[u] /\ in'[u] = in[u]
        BY <1>8, <2>1, Zenon
    <2>5. ASSUME NEW x \in Tasks, HasChild(x)', child'[x] = u
          PROVE  HasChild(x) /\ child[x] = u /\ wr'[x] = wr[x] /\ out'[x] = out[x]
        <3>1. x # t
            BY <2>3, <2>5, Zenon
        <3>2. pc'[x] = pc[x] /\ child'[x] = child[x] /\ wr'[x] = wr[x] /\ out'[x] = out[x]
            BY <1>8, <3>1, Zenon
        <3>. QED  BY <2>5, <3>2, Zenon DEF HasChild
    <2>. QED  BY <2>2, <2>4, <2>5, HoldsStays, Zenon
<1>15. \A u \in Tasks : Writer(u)' /\ Reader(u)'
    BY <1>11, <1>12, <1>13, Zenon
<1>. QED  BY <1>7, <1>9, <1>14, <1>15, Zenon DEF StartupInv

-----------------------------------------------------------------------------

(* LoadingInv is kept by the steps of ExecMemory. *)
LEMMA MovesKeepLoadingInv ==
    ASSUME LoadingInv, NEW t \in Tasks, Moves(t)
    PROVE  LoadingInv'
<1>1. PICK s \in Pcs : <<pc[t], s>> \in ProgramMoves /\ pc' = [pc EXCEPT ![t] = s]
    BY Zenon DEF Moves
<1>2. child' = child /\ live' = live
    BY Zenon DEF Moves
<1>3. /\ pc[t] # "none" /\ s # "none" /\ pc[t] # "created"
      /\ s \in {"map", "run"} => pc[t] \in {"map", "run"}
    BY <1>1 DEF ProgramMoves
<1>4. /\ pc \in [Tasks -> Pcs] /\ child \in [Tasks -> Tasks]
      /\ \A u \in Tasks : pc[u] = "none" <=> u \notin live
    BY Zenon DEF LoadingInv
<1>5. pc'[t] = s /\ \A u \in Tasks : u # t => pc'[u] = pc[u]
    BY <1>1, <1>4, Zenon
<1>6. /\ pc' \in [Tasks -> Pcs] /\ child' \in [Tasks -> Tasks]
      /\ \A u \in Tasks : pc'[u] = "none" <=> u \notin live'
    BY <1>1, <1>2, <1>3, <1>4, <1>5, Zenon
<1>7. \A u \in Tasks : /\ HasChild(u)' => HasChild(u)
                       /\ pc[u] = "created" => pc'[u] = "created"
    BY <1>3, <1>5, Zenon DEF HasChild
<1>8. ASSUME NEW u \in Tasks, HasChild(u)'
      PROVE  /\ pc'[child'[u]] = "created"
             /\ \A x \in Tasks : HasChild(x)' /\ child'[x] = child'[u] => x = u
    BY <1>2, <1>4, <1>7, <1>8, Zenon DEF LoadingInv
<1>. QED  BY <1>6, <1>8, Zenon DEF LoadingInv

LEMMA CreatesKeepLoadingInv ==
    ASSUME LoadingInv, NEW t \in Tasks, NEW u \in Tasks, Creates(t, u)
    PROVE  LoadingInv'
<1>1. /\ pc \in [Tasks -> Pcs] /\ child \in [Tasks -> Tasks]
      /\ \A x \in Tasks : pc[x] = "none" <=> x \notin live
      /\ \A x \in Tasks : HasChild(x) =>
            /\ pc[child[x]] = "created"
            /\ \A y \in Tasks : HasChild(y) /\ child[y] = child[x] => y = x
    BY Zenon DEF LoadingInv
<1>2. /\ pc[t] = "create" /\ pc' = [pc EXCEPT ![t] = "map", ![u] = "created"]
      /\ child' = [child EXCEPT ![t] = u] /\ pc[u] = "none"
      /\ live' = live \cup {u}
    BY <1>1, Zenon DEF Creates
<1>3. u # t
    BY <1>2
<1>4. /\ pc'[t] = "map" /\ pc'[u] = "created" /\ child'[t] = u
      /\ \A x \in Tasks : x # t /\ x # u => pc'[x] = pc[x]
      /\ \A x \in Tasks : x # t => child'[x] = child[x]
    BY <1>1, <1>2, <1>3
<1>5. /\ pc' \in [Tasks -> Pcs] /\ child' \in [Tasks -> Tasks]
      /\ \A x \in Tasks : pc'[x] = "none" <=> x \notin live'
    BY <1>1, <1>2, <1>3, <1>4 DEF Pcs
<1>6. \A x \in Tasks : /\ x # t /\ HasChild(x)' => HasChild(x)
                       /\ pc[x] = "created" => pc'[x] = "created"
    BY <1>2, <1>4, Zenon DEF HasChild
<1>7. ASSUME NEW x \in Tasks, HasChild(x)'
      PROVE  /\ pc'[child'[x]] = "created"
             /\ x # t => child'[x] # u
        BY <1>1, <1>2, <1>4, <1>6, <1>7, SMTT(30) DEF HasChild
<1>8. ASSUME NEW x \in Tasks, HasChild(x)', NEW y \in Tasks, HasChild(y)',
             child'[y] = child'[x]
      PROVE  y = x
    <2>1. CASE x = t \/ y = t
        BY <1>4, <1>7, <1>8, <2>1, Zenon
    <2>2. CASE x # t /\ y # t
        <3>1. HasChild(x) /\ HasChild(y) /\ child[y] = child[x]
            BY <1>4, <1>6, <1>8, <2>2, Zenon
        <3>. QED  BY <1>1, <3>1, Zenon
    <2>. QED  BY <2>1, <2>2, Zenon
<1>. QED  BY <1>5, <1>7, <1>8, Zenon DEF LoadingInv

LEMMA LoadRunKeepsLoadingInv ==
    ASSUME LoadingInv, NEW t \in Tasks, LoadRun(t)
    PROVE  LoadingInv'
<1>1. /\ pc \in [Tasks -> Pcs] /\ child \in [Tasks -> Tasks]
      /\ \A x \in Tasks : pc[x] = "none" <=> x \notin live
      /\ \A x \in Tasks : HasChild(x) =>
            /\ pc[child[x]] = "created"
            /\ \A y \in Tasks : HasChild(y) /\ child[y] = child[x] => y = x
    BY Zenon DEF LoadingInv
<1>2. /\ pc[t] = "run" /\ pc' = [pc EXCEPT ![t] = "unmap", ![child[t]] = "start"]
      /\ child' = child /\ live' = live
    BY Zenon DEF LoadRun, vars
<1>3. PICK c \in Tasks : c = child[t]
    BY <1>1, Zenon
<1>4. HasChild(t) /\ pc[c] = "created" /\ c # t
    BY <1>1, <1>2, <1>3 DEF HasChild
<1>5. /\ pc'[t] = "unmap" /\ pc'[c] = "start"
      /\ \A x \in Tasks : x # t /\ x # c => pc'[x] = pc[x]
    BY <1>1, <1>2, <1>3, <1>4
<1>6. /\ pc' \in [Tasks -> Pcs] /\ child' \in [Tasks -> Tasks]
      /\ \A x \in Tasks : pc'[x] = "none" <=> x \notin live'
    BY <1>1, <1>2, <1>3, <1>4, <1>5 DEF Pcs
<1>7. \A x \in Tasks : /\ HasChild(x)' => HasChild(x) /\ x # t
                       /\ x # c /\ pc[x] = "created" => pc'[x] = "created"
    BY <1>2, <1>4, <1>5, Zenon DEF HasChild
<1>8. ASSUME NEW x \in Tasks, HasChild(x)'
      PROVE  /\ pc'[child'[x]] = "created"
             /\ \A y \in Tasks : HasChild(y)' /\ child'[y] = child'[x] => y = x
    <2>1. child[x] \in Tasks /\ child[x] # c
        BY <1>1, <1>3, <1>4, <1>7, <1>8, Zenon
    <2>. QED  BY <1>1, <1>2, <1>7, <1>8, <2>1, Zenon
<1>. QED  BY <1>6, <1>8, Zenon DEF LoadingInv

LEMMA EndsKeepLoadingInv ==
    ASSUME LoadingInv, NEW t \in Tasks, Ends(t)
    PROVE  LoadingInv'
<1>1. /\ pc \in [Tasks -> Pcs] /\ child \in [Tasks -> Tasks]
      /\ \A x \in Tasks : pc[x] = "none" <=> x \notin live
      /\ \A x \in Tasks : HasChild(x) =>
            /\ pc[child[x]] = "created"
            /\ \A y \in Tasks : HasChild(y) /\ child[y] = child[x] => y = x
    BY Zenon DEF LoadingInv
<1>2. /\ Running(t) /\ pc' = [pc EXCEPT ![t] = "none"]
      /\ child' = [child EXCEPT ![t] = t] /\ live' = live \ {t}
    BY Zenon DEF Ends, TaskEnds
<1>3. /\ pc'[t] = "none"
      /\ \A x \in Tasks : x # t => pc'[x] = pc[x] /\ child'[x] = child[x]
    <2>1. DOMAIN pc = Tasks /\ DOMAIN child = Tasks
        BY <1>1, Zenon
    <2>. QED  BY <1>2, <2>1
<1>4. pc[t] # "created" /\ "none" \in Pcs
    BY <1>2 DEF Running, Pcs
<1>5. /\ pc' \in [Tasks -> Pcs] /\ child' \in [Tasks -> Tasks]
      /\ \A x \in Tasks : pc'[x] = "none" <=> x \notin live'
    BY <1>1, <1>2, <1>3, <1>4, Zenon
<1>6. \A x \in Tasks : /\ HasChild(x)' => HasChild(x) /\ x # t
                       /\ pc[x] = "created" => pc'[x] = "created"
    BY <1>3, <1>4 DEF HasChild
<1>7. ASSUME NEW x \in Tasks, HasChild(x)'
      PROVE  /\ pc'[child'[x]] = "created"
             /\ \A y \in Tasks : HasChild(y)' /\ child'[y] = child'[x] => y = x
    BY <1>1, <1>3, <1>6, <1>7, Zenon
<1>. QED  BY <1>5, <1>7, Zenon DEF LoadingInv

LEMMA LoadingStep == LoadingInv /\ [ExecNext]_allVars => LoadingInv'
<1>. SUFFICES ASSUME LoadingInv, [ExecNext]_allVars
              PROVE  LoadingInv'
    OBVIOUS
<1>1. CASE pc' = pc /\ child' = child /\ live' = live
    BY <1>1, Zenon DEF LoadingInv, HasChild
<1>2. CASE UNCHANGED allVars
    BY <1>1, <1>2, Zenon DEF allVars, userVars, vars
<1>3. ASSUME NEW t \in Tasks,
             \/ Start(t) \/ LibcStart(t) \/ LoadAlloc(t) \/ LoadCreate(t) \/ LoadMap(t)
             \/ ResizableBuffers(t) \/ LoadUnmap(t)
      PROVE  LoadingInv'
    BY <1>1, <1>3, ProgramSteps, MovesKeepLoadingInv, CreatesKeepLoadingInv, Zenon
<1>4. ASSUME NEW t \in Tasks, LoadRun(t) \/ Ends(t)
      PROVE  LoadingInv'
    BY <1>4, LoadRunKeepsLoadingInv, EndsKeepLoadingInv, Zenon
<1>. QED  BY <1>2, <1>3, <1>4, Zenon DEF ExecNext

LEMMA StartupStarts == StartupInit => LoadingInv /\ StartupInv
<1>. SUFFICES ASSUME StartupInit
              PROVE  LoadingInv /\ StartupInv
    OBVIOUS
<1>1. /\ pc = [t \in Tasks |-> IF t \in live THEN "start" ELSE "none"]
      /\ child = [t \in Tasks |-> t]
    BY Zenon DEF StartupInit, ExecInit
<1>2. /\ holder = [c \in Names |-> [e \in Ch!Ends |-> "closed"]]
      /\ queue = [c \in Names |-> [e \in Ch!Ends |-> <<>>]]
    BY Zenon DEF StartupInit, Ch!SpecInit
<1>3. /\ sent = [t \in Tasks |-> <<>>] /\ got = [t \in Tasks |-> <<>>]
      /\ wr = [t \in Tasks |-> 0] /\ rd = [t \in Tasks |-> 0]
      /\ out = [t \in Tasks |-> NoName] /\ in = [t \in Tasks |-> NoName]
    BY Zenon DEF StartupInit
<1>4. LoadingInv
    BY <1>1 DEF LoadingInv, HasChild, Pcs
<1>5. ChannelTypes
    BY <1>2 DEF ChannelTypes
<1>6. StartupTypes
    BY <1>3 DEF StartupTypes, Started, NumReads
<1>7. \A t \in Tasks : Writer(t)
    BY <1>3, SMTT(30) DEF Writer, Started, NumReads
<1>8. \A t \in Tasks : Reader(t)
    BY <1>3, Zenon DEF Reader
<1>9. HoldersAreKnown
    BY <1>2, StartupAssumption, Zenon DEF HoldersAreKnown
<1>. QED  BY <1>4, <1>5, <1>6, <1>7, <1>8, <1>9, Zenon DEF StartupInv

LEMMA StartupStep ==
    LoadingInv /\ StartupInv /\ [StartupNext]_programVars => StartupInv'
<1>. SUFFICES ASSUME LoadingInv, StartupInv, [StartupNext]_programVars
              PROVE  StartupInv'
    OBVIOUS
<1>1. CASE UNCHANGED programVars
    <2>1. /\ pc' = pc /\ child' = child
          /\ holder' = holder /\ queue' = queue /\ sent' = sent /\ got' = got
          /\ wr' = wr /\ rd' = rd /\ out' = out /\ in' = in
        BY <1>1, Zenon DEF programVars, allVars, userVars, channelVars, startupVars
    <2>. QED  BY <2>1, UnchangedKeepsInv, Zenon
<1>2. CASE StartupNext
    BY <1>2, ChannelCreateKeepsInv, TransferHandleKeepsInv, ChannelWriteKeepsInv,
       StartProcessKeepsInv, CloseOutKeepsInv, ChannelReadBlockingKeepsInv,
       CloseInKeepsInv, InProgramKeepsInv, EndsAnywhereKeepsInv, Zenon
    DEF StartupNext, Loads, Reads
<1>. QED  BY <1>1, <1>2, Zenon

(* What StartupInv and LoadingInv say holds in every state of the startup
   protocol, with any tasks, machine and messages, over one channel. *)
THEOREM StartupInvariance == StartupSpec => [](LoadingInv /\ StartupInv)
<1>1. [StartupNext]_programVars => [ExecNext]_allVars
    BY StepsAreExecSteps
<1>. QED  BY <1>1, StartupStarts, LoadingStep, StartupStep, PTL DEF StartupSpec

(* With one startup channel open at a time, the loop in ChannelReadBlocking never
   spins: each of the six reads of __libc_start_main finds all the bytes it asks
   for, whether or not the loader still runs, whatever the message. *)
THEOREM ReadsSucceed == StartupSpec => []StartupReadsSucceed
<1>1. ASSUME LoadingInv, StartupInv, NEW t \in Tasks, rd[t] \in 1 .. NumReads
      PROVE  Ch!IsOpen(in[t], "end2") /\ Asks(t) <= Len(queue[in[t]]["end2"])
    BY <1>1, ReadSucceeds, StartupAssumption, Zenon DEF Ch!IsOpen
<1>2. LoadingInv /\ StartupInv => StartupReadsSucceed
    BY <1>1, Zenon DEF StartupReadsSucceed
<1>. QED  BY <1>2, StartupInvariance, PTL

LEMMA ReadBlocks ==
    ASSUME NEW s \in Seq(Seq(Nat)), NEW g \in Seq(Seq(Nat)), NEW n \in Nat, n <= Len(s),
           Len(g) = n, \A i \in 1 .. n : g[i] = s[i]
    PROVE  g = SubSeq(s, 1, n)
<1>1. SubSeq(s, 1, n) \in Seq(Seq(Nat)) /\ Len(SubSeq(s, 1, n)) = n
    OBVIOUS
<1>2. \A i \in 1 .. n : SubSeq(s, 1, n)[i] = s[i]
    OBVIOUS
<1>. QED  BY <1>1, <1>2

(* With one startup channel open at a time, what a program has read is, block by
   block, what its loader was asked to pass it, whoever used the channel before. *)
THEOREM GetWhatWasSent == StartupSpec => []ProgramsGetWhatWasSent
<1>1. ASSUME StartupInv, NEW t \in Tasks, rd[t] > 0
      PROVE  got[t] = SubSeq(Stream(sent[t]), 1, rd[t] - 1)
    <2>1. /\ rd[t] \in 1 .. NumReads + 1 /\ HasRead(got[t], sent[t], rd[t] - 1)
          /\ sent[t] \in Messages
        BY <1>1, SMTT(30) DEF StartupInv, Reader, StartupTypes, NumReads
    <2>. QED  BY <2>1, BlocksAreBytes, ReadBlocks, SMTT(30) DEF HasRead
<1>2. StartupInv => ProgramsGetWhatWasSent
    BY <1>1, Zenon DEF ProgramsGetWhatWasSent
<1>. QED  BY <1>2, StartupInvariance, PTL

(* With one startup channel open at a time, a program in main holds no end of it
   unless it is loading another one, and one that has ended holds none. *)
THEOREM ChannelsAreClosed == StartupSpec => []StartupChannelsAreClosed
<1>1. ASSUME StartupInv, NEW t \in Tasks, NEW c \in Names, NEW e \in Ch!Ends,
             holder[c][e] = t
      PROVE  \/ e = "end1" /\ out[t] = c /\ pc[t] \in {"run", "unmap"}
             \/ e = "end2" /\ out[t] = c /\ wr[t] = 1
             \/ e = "end2" /\ pc[t] \in {"created", "start", "libc", "abort"}
             \/ e = "end2" /\ in[t] = c /\ rd[t] > 0
    <2>1. Holds(t, c, e)
        BY <1>1, Zenon DEF StartupInv, HoldersAreKnown
    <2>2. /\ wr[t] # 0 => pc[t] \in {"run", "unmap"}
          /\ rd[t] # 0 => rd[t] > 0
        BY <1>1, StartupPlaces, SMTT(30) DEF NumReads
    <2>. QED  BY <2>1, <2>2, Zenon DEF Holds
<1>2. StartupInv => StartupChannelsAreClosed
    BY <1>1, Zenon DEF StartupChannelsAreClosed
<1>. QED  BY <1>2, StartupInvariance, PTL
=============================================================================
