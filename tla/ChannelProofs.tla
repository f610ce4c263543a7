---------------------------- MODULE ChannelProofs ----------------------------
(***************************************************************************)
(* Proofs about Channel with one channel open at a time, for any           *)
(* processes, payloads, sizes and capacity: buffers are large enough and   *)
(* neither leaked nor shared, and the channel is what PrivateChannels      *)
(* promises.  (With two, erase() moves one under its handles, and neither  *)
(* holds.)                                                                 *)
(***************************************************************************)
EXTENDS Channel, TLAPS

OneChannel == \E c : Channels = {c}

(* How many elements the empty set has, and a set of one. *)
LEMMA FewElements ==
    Cardinality({}) = 0 /\ \A x : Cardinality({x}) = 1
<1>. SUFFICES ASSUME NEW S, NEW x, S \subseteq {x}
              PROVE  Cardinality(S) = IF S = {} THEN 0 ELSE 1
    <2>1. \A x : {} \subseteq {x} /\ {x} \subseteq {x} /\ {x} # {}
        OBVIOUS
    <2>. QED  BY <2>1, Zenon
<1>. DEFINE count(f) == [T \in SUBSET S |-> IF T = {} THEN 0
                                            ELSE 1 + f[T \ {CHOOSE y : y \in T}]]
            CS == CHOOSE f : f = count(f)
            g == [T \in SUBSET S |-> IF T = {} THEN 0 ELSE 1]
<1>1. ASSUME NEW T \in SUBSET S, T # {}
      PROVE  T \ {CHOOSE y : y \in T} = {}
    <2>1. \E y : y \in T
        BY <1>1
    <2>2. (CHOOSE y : y \in T) \in T
        BY <2>1, Zenon
    <2>. QED  BY <2>2
<1>2. {} \in SUBSET S
    OBVIOUS
<1>3. g = count(g)
    <2>1. g[{}] = 0
        BY <1>2
    <2>2. ASSUME NEW T \in SUBSET S
          PROVE  (IF T = {} THEN 0 ELSE 1) = IF T = {} THEN 0 ELSE 1 + g[T \ {CHOOSE y : y \in T}]
        <3>1. CASE T = {}
            BY <3>1, Zenon
        <3>2. CASE T # {}
            <4>1. g[T \ {CHOOSE y : y \in T}] = 0
                BY <1>1, <2>1, <3>2, Zenon
            <4>. HIDE DEF g
            <4>. QED  BY <3>2, <4>1
        <3>. QED  BY <3>1, <3>2, Zenon
    <2>. QED  BY <2>2, Zenon
<1>4. CS = count(CS)
    BY <1>3, Zenon
<1>5. Cardinality(S) = CS[S]
    BY Zenon DEF Cardinality
<1>. HIDE DEF CS
<1>6. CS[{}] = 0
    BY <1>2, <1>4, Zenon
<1>7. S # {} => CS[S] = 1 + CS[S \ {CHOOSE y : y \in S}]
    BY <1>4, Zenon
<1>8. S # {} => CS[S] = 1 + 0
    BY <1>1, <1>6, <1>7, Zenon
<1>. QED  BY <1>5, <1>6, <1>8

(* With one channel the vector has one place, and there are five buffers. *)
LEMMA OneSlot ==
    ASSUME OneChannel
    PROVE  Slots = {1} /\ Buffers = 1 .. 5
<1>1. PICK c : Channels = {c}
    BY DEF OneChannel
<1>2. Cardinality(Channels) = 1
    BY <1>1, FewElements, Zenon
<1>. QED  BY <1>2 DEF Slots, Buffers

-----------------------------------------------------------------------------

Endpoints == [other : {NoAddr} \cup Addresses, size : Nat, capacity : Nat,
              data : Buffers \cup {NoAddr}, owner : Processes \cup {NoAddr}]
Heaps == UNION {[D -> Seq(Nat)] : D \in SUBSET Buffers}
Kernels == [elements : [Slots -> [Ends -> Endpoints]], size : Nat, heap : Heaps]
At(e) == [slot |-> 1, end |-> e]

(* A heap is a function from the buffers in use to their bytes. *)
LEMMA HeapsAreFunctions ==
    /\ \A D \in SUBSET Buffers : \A h : h \in [D -> Seq(Nat)] => h \in Heaps /\ DOMAIN h = D
    /\ \A h \in Heaps : DOMAIN h \in SUBSET Buffers /\ h \in [DOMAIN h -> Seq(Nat)]
    BY DEF Heaps

(* A channel has two ends. *)
LEMMA EndsDiffer ==
    ASSUME NEW e \in Ends
    PROVE  /\ Other(e) \in Ends /\ Other(e) # e /\ Other(Other(e)) = e
           /\ Ends = {e, Other(e)}
    BY DEF Ends, Other

(* A kernel that differs from k in one endpoint of its one channel, and the heap. *)
Replaced(k, e, ep, h) == [k EXCEPT !.heap = h, !.elements[1][e] = ep]

(* What Replaced changes, and what it leaves. *)
LEMMA EndpointIsReplaced ==
    ASSUME OneChannel, NEW k \in Kernels, NEW e \in Ends, NEW ep \in Endpoints, NEW h \in Heaps
    PROVE  /\ Replaced(k, e, ep, h) \in Kernels
           /\ Replaced(k, e, ep, h).size = k.size
           /\ Replaced(k, e, ep, h).heap = h
           /\ Replaced(k, e, ep, h).elements[1][e] = ep
           /\ Replaced(k, e, ep, h).elements[1][Other(e)] = k.elements[1][Other(e)]
<1>. SUFFICES ASSUME NEW r, r = Replaced(k, e, ep, h)
              PROVE  /\ r \in Kernels /\ r.size = k.size /\ r.heap = h
                     /\ r.elements[1][e] = ep
                     /\ r.elements[1][Other(e)] = k.elements[1][Other(e)]
    BY Zenon
<1>1. Slots = {1}
    BY OneSlot
<1>2. k.elements \in [Slots -> [Ends -> Endpoints]] /\ k.size \in Nat
    BY DEF Kernels
<1>. DEFINE els == [k.elements EXCEPT ![1][e] = ep]
<1>3. r = [elements |-> els, size |-> k.size, heap |-> h]
    BY Zenon DEF Kernels, Replaced
<1>4. els \in [Slots -> [Ends -> Endpoints]]
    BY <1>1, <1>2
<1>5. els[1] = [k.elements[1] EXCEPT ![e] = ep]
    BY <1>1, <1>2
<1>6. /\ els[1][e] = ep
      /\ els[1][Other(e)] = k.elements[1][Other(e)]
    BY <1>1, <1>2, <1>5, EndsDiffer
<1>. HIDE DEF els
<1>7. r \in Kernels
    BY <1>2, <1>3, <1>4 DEF Kernels
<1>8. r.size = k.size /\ r.heap = h /\ r.elements = els
    BY <1>3
<1>. QED  BY <1>6, <1>7, <1>8, Zenon

(* malloc, in a heap that has a buffer left. *)
LEMMA MallocGives ==
    ASSUME NEW h, NEW bytes, \E b \in Buffers : b \notin DOMAIN h
    PROVE  \E b \in Buffers \ DOMAIN h :
            /\ malloc(h, bytes).addr = b
            /\ malloc(h, bytes).heap = [x \in DOMAIN h \cup {b} |-> IF x = b THEN bytes ELSE h[x]]
    BY Zenon DEF malloc

-----------------------------------------------------------------------------

(* An endpoint's buffer has the endpoint's capacity, which its contents fit in. *)
Backed(h, ep) ==
    /\ ep.size <= ep.capacity
    /\ ep.data = NoAddr => ep.capacity = 0
    /\ ep.data # NoAddr => ep.data \in DOMAIN h /\ Len(h[ep.data]) = ep.capacity

(* The channel in the vector: the buffers are its endpoints', each has its own. *)
Live(k) ==
    /\ k.size = 1
    /\ \A e \in Ends : Backed(k.heap, k.elements[1][e])
    /\ DOMAIN k.heap = {k.elements[1][e].data : e \in Ends} \ {NoAddr}
    /\ \A e \in Ends : k.elements[1][e].data # NoAddr =>
            k.elements[1][e].data # k.elements[1][Other(e)].data

(* The bytes q are the ones in the endpoint. *)
Contains(h, ep, q) ==
    /\ q \in Seq(Nat) /\ Len(q) = ep.size
    /\ \A i \in 1 .. ep.size : q[i] = Bytes(h, ep)[i]

(* r is k but for the size, the capacity and the buffer of one endpoint. *)
Adjusted(k, r, e) ==
    /\ r \in Kernels /\ Live(r)
    /\ r.elements[1][e].other = k.elements[1][e].other
    /\ r.elements[1][e].owner = k.elements[1][e].owner
    /\ r.elements[1][Other(e)] = k.elements[1][Other(e)]
    /\ \A q : Contains(k.heap, k.elements[1][Other(e)], q) =>
                Contains(r.heap, k.elements[1][Other(e)], q)

(* Live, stated for one end and its other one. *)
LEMMA LiveIntro ==
    ASSUME OneChannel, NEW k \in Kernels, k.size = 1, NEW e \in Ends, NEW f \in Ends, f = Other(e),
           Backed(k.heap, k.elements[1][e]), Backed(k.heap, k.elements[1][f]),
           DOMAIN k.heap = {k.elements[1][e].data, k.elements[1][f].data} \ {NoAddr},
           k.elements[1][e].data = k.elements[1][f].data => k.elements[1][e].data = NoAddr
    PROVE  Live(k)
    BY DEF Live, Ends, Other

(* What Live says of one end and its other one; a buffer is always left. *)
LEMMA LiveElim ==
    ASSUME OneChannel, NEW k \in Kernels, Live(k), NEW e \in Ends, NEW f \in Ends, f = Other(e)
    PROVE  /\ k.size = 1 /\ k.heap \in Heaps
           /\ k.elements[1][e] \in Endpoints /\ k.elements[1][f] \in Endpoints
           /\ Backed(k.heap, k.elements[1][e]) /\ Backed(k.heap, k.elements[1][f])
           /\ DOMAIN k.heap = {k.elements[1][e].data, k.elements[1][f].data} \ {NoAddr}
           /\ k.elements[1][e].data = k.elements[1][f].data => k.elements[1][e].data = NoAddr
           /\ \E b \in Buffers : b \notin DOMAIN k.heap
<1>1. Slots = {1} /\ Buffers = 1 .. 5
    BY OneSlot
<1>2. k.elements[1][e] \in Endpoints /\ k.elements[1][f] \in Endpoints /\ k.heap \in Heaps
    BY <1>1 DEF Kernels
<1>3. /\ k.size = 1 /\ Backed(k.heap, k.elements[1][e]) /\ Backed(k.heap, k.elements[1][f])
      /\ k.elements[1][e].data = k.elements[1][f].data => k.elements[1][e].data = NoAddr
    BY Zenon DEF Live
<1>4. DOMAIN k.heap = {k.elements[1][e].data, k.elements[1][f].data} \ {NoAddr}
    BY EndsDiffer DEF Live
<1>5. \E b \in Buffers : b # k.elements[1][e].data /\ b # k.elements[1][f].data
    BY <1>1
<1>. QED  BY <1>2, <1>3, <1>4, <1>5, Zenon

(* The bytes at a backed endpoint's data_ are as many as its capacity. *)
LEMMA BackedBytes ==
    ASSUME NEW h \in Heaps, NEW ep \in Endpoints, Backed(h, ep)
    PROVE  /\ Bytes(h, ep) \in Seq(Nat) /\ Len(Bytes(h, ep)) = ep.capacity
           /\ \A i \in 1 .. ep.size : Bytes(h, ep)[i] \in Nat
<1>1. ep.size \in Nat /\ ep.capacity \in Nat
    BY DEF Endpoints
<1>2. CASE ep.data = NoAddr
    <2>1. Bytes(h, ep) = <<>>
        BY <1>2, Zenon DEF Bytes
    <2>2. ep.capacity = 0 /\ ep.size <= 0
        BY <1>2, Zenon DEF Backed
    <2>. QED  BY <1>1, <2>1, <2>2
<1>3. CASE ep.data # NoAddr
    <2>1. Bytes(h, ep) = h[ep.data]
        BY <1>3, Zenon DEF Bytes
    <2>2. ep.data \in DOMAIN h /\ Len(h[ep.data]) = ep.capacity /\ ep.size <= ep.capacity
        BY <1>3, Zenon DEF Backed
    <2>3. h[ep.data] \in Seq(Nat)
        BY <2>2, HeapsAreFunctions, Zenon
    <2>. QED  BY <1>1, <2>1, <2>2, <2>3
<1>. QED  BY <1>2, <1>3, Zenon

(* What Reallocate leaves as it is: all but the endpoint's buffer and capacity. *)
LEMMA ReallocateMoves ==
    ASSUME OneChannel, NEW k \in Kernels, Live(k), NEW e \in Ends,
           NEW amt \in Nat, k.elements[1][e].size <= amt
    PROVE  /\ Adjusted(k, Reallocate(k, At(e), amt), e)
           /\ Reallocate(k, At(e), amt).elements[1][e].size = k.elements[1][e].size
           /\ Reallocate(k, At(e), amt).elements[1][e].capacity = amt
           /\ \A q : Contains(k.heap, k.elements[1][e], q) =>
                Contains(Reallocate(k, At(e), amt).heap,
                         Reallocate(k, At(e), amt).elements[1][e], q)
<1>. SUFFICES ASSUME NEW f \in Ends, f = Other(e), NEW r, r = Reallocate(k, At(e), amt)
              PROVE  /\ Adjusted(k, r, e)
                     /\ r.elements[1][e].size = k.elements[1][e].size
                     /\ r.elements[1][e].capacity = amt
                     /\ \A q : Contains(k.heap, k.elements[1][e], q) =>
                            Contains(r.heap, r.elements[1][e], q)
    BY EndsDiffer, Zenon
<1>. DEFINE ep == k.elements[1][e]
            fp == k.elements[1][f]
            bytes == [i \in 1 .. amt |-> IF i <= ep.size THEN Bytes(k.heap, ep)[i] ELSE Junk]
<1>1. /\ k.size = 1 /\ k.heap \in Heaps /\ ep \in Endpoints /\ fp \in Endpoints
      /\ Backed(k.heap, ep) /\ Backed(k.heap, fp)
      /\ DOMAIN k.heap = {ep.data, fp.data} \ {NoAddr}
      /\ ep.data = fp.data => ep.data = NoAddr
      /\ \E b \in Buffers : b \notin DOMAIN k.heap
    BY LiveElim, SMTT(30)
<1>2. ep.size \in Nat /\ ep.size <= amt
    BY <1>1 DEF Endpoints
<1>3. bytes \in Seq(Nat) /\ Len(bytes) = amt /\ \A i \in 1 .. ep.size : bytes[i] = Bytes(k.heap, ep)[i]
    <2>1. \A i \in 1 .. ep.size : Bytes(k.heap, ep)[i] \in Nat
        BY <1>1, BackedBytes, Zenon
    <2>. HIDE DEF ep
    <2>. QED  BY <1>2, <2>1 DEF Junk
<1>. HIDE DEF bytes
<1>4. PICK b \in Buffers \ DOMAIN k.heap :
        /\ malloc(k.heap, bytes).addr = b
        /\ malloc(k.heap, bytes).heap
                = [x \in DOMAIN k.heap \cup {b} |-> IF x = b THEN bytes ELSE k.heap[x]]
    BY <1>1, MallocGives, ZenonT(90)
<1>5. k.heap \in [DOMAIN k.heap -> Seq(Nat)] /\ DOMAIN k.heap \in SUBSET Buffers
      /\ NoAddr \notin Buffers
    BY <1>1, HeapsAreFunctions, NullIsNoAddress, Zenon
<1>. DEFINE D == (DOMAIN k.heap \cup {b}) \ {ep.data}
            h == free(malloc(k.heap, bytes).heap, ep.data)
<1>6. h = [x \in D |-> IF x = b THEN bytes ELSE k.heap[x]]
    BY <1>4 DEF free
<1>7. h \in Heaps /\ DOMAIN h = D
    <2>1. D \in SUBSET Buffers
        BY <1>5, Zenon
    <2>2. h \in [D -> Seq(Nat)]
        BY <1>3, <1>5, <1>6
    <2>. QED  BY <2>1, <2>2, HeapsAreFunctions, Zenon
<1>8. b # ep.data /\ b # fp.data /\ b # NoAddr /\ b \in D
    BY <1>1, <1>5, Zenon
<1>9. h[b] = bytes /\ (fp.data # NoAddr => fp.data \in D /\ h[fp.data] = k.heap[fp.data])
    BY <1>1, <1>6, <1>8, Zenon
<1>10. D = {b, fp.data} \ {NoAddr}
    BY <1>1, <1>8, Zenon
<1>. HIDE DEF h, D
<1>. DEFINE new == [ep EXCEPT !.data = b, !.capacity = amt]
<1>11. /\ new \in Endpoints
       /\ new.size = ep.size /\ new.other = ep.other /\ new.owner = ep.owner
       /\ new.capacity = amt /\ new.data = b
    BY <1>1, Zenon DEF Endpoints
<1>12. r = Replaced(k, e, new, h)
    BY <1>4, Zenon DEF Reallocate, EndAt, At, h, bytes, Replaced
<1>. HIDE DEF new
<1>13. /\ r \in Kernels /\ r.size = k.size /\ r.heap = h
       /\ r.elements[1][e] = new /\ r.elements[1][f] = k.elements[1][f]
    <2>1. h \in Heaps /\ new \in Endpoints
        BY <1>7, <1>11, Zenon
    <2>2. /\ Replaced(k, e, new, h) \in Kernels
          /\ Replaced(k, e, new, h).size = k.size
          /\ Replaced(k, e, new, h).heap = h
          /\ Replaced(k, e, new, h).elements[1][e] = new
          /\ Replaced(k, e, new, h).elements[1][Other(e)] = k.elements[1][Other(e)]
        BY <2>1, EndpointIsReplaced
    <2>. QED  BY <1>12, <2>2, Zenon
<1>. HIDE DEF ep
<1>14. Backed(h, new)
    BY <1>2, <1>3, <1>7, <1>8, <1>9, <1>11 DEF Backed
<1>15. Backed(h, fp)
    BY <1>1, <1>7, <1>9, Zenon DEF Backed
<1>16. Live(r)
    BY <1>1, <1>7, <1>8, <1>10, <1>11, <1>13, <1>14, <1>15, LiveIntro, SMTT(60)
<1>17. \A i \in 1 .. ep.size : Bytes(h, new)[i] = Bytes(k.heap, ep)[i]
    BY <1>3, <1>8, <1>9, <1>11, Zenon DEF Bytes
<1>18. Bytes(h, fp) = Bytes(k.heap, fp)
    BY <1>9, Zenon DEF Bytes
<1>19. \A q : Contains(k.heap, ep, q) => Contains(h, new, q)
    BY <1>11, <1>17, Zenon DEF Contains
<1>20. \A q : Contains(k.heap, fp, q) => Contains(h, fp, q)
    BY <1>18, Zenon DEF Contains
<1>21. Adjusted(k, r, e)
    BY <1>11, <1>13, <1>16, <1>20, Zenon DEF Adjusted, ep, fp
<1>. QED  BY <1>8, <1>11, <1>13, <1>19, <1>21, Zenon DEF ep

(* memcpy or memmove into the endpoint's buffer, and a new size. *)
Put(k, e, bytes, n) ==
    [k EXCEPT !.heap[k.elements[1][e].data] = bytes, !.elements[1][e].size = n]

(* Put changes one endpoint and the bytes of its buffer. *)
LEMMA PutBytes ==
    ASSUME OneChannel, NEW k \in Kernels, Live(k), NEW e \in Ends,
           k.elements[1][e].data # NoAddr,
           NEW bytes \in Seq(Nat), Len(bytes) = k.elements[1][e].capacity,
           NEW n \in Nat, n <= k.elements[1][e].capacity
    PROVE  /\ Adjusted(k, Put(k, e, bytes, n), e)
           /\ Put(k, e, bytes, n).elements[1][e].size = n
           /\ Put(k, e, bytes, n).elements[1][e].data # NoAddr
           /\ Bytes(Put(k, e, bytes, n).heap, Put(k, e, bytes, n).elements[1][e]) = bytes
<1>. SUFFICES ASSUME NEW d, d = k.elements[1][e].data, NEW r, r = Put(k, e, bytes, n)
              PROVE  /\ Adjusted(k, r, e)
                     /\ r.elements[1][e].size = n
                     /\ r.elements[1][e].data = d /\ r.heap[d] = bytes
    BY Zenon DEF Bytes
<1>. DEFINE ep == k.elements[1][e]
            fp == k.elements[1][Other(e)]
            new == [ep EXCEPT !.size = n]
            h == [k.heap EXCEPT ![d] = bytes]
<1>1. Other(e) \in Ends
    BY EndsDiffer
<1>2. /\ k.size = 1 /\ k.heap \in Heaps /\ ep \in Endpoints /\ fp \in Endpoints
      /\ Backed(k.heap, ep) /\ Backed(k.heap, fp)
      /\ DOMAIN k.heap = {ep.data, fp.data} \ {NoAddr}
      /\ ep.data = fp.data => ep.data = NoAddr
    BY <1>1, LiveElim, SMTT(30)
<1>3. r = Replaced(k, e, new, h)
    BY Zenon DEF Replaced, Put
<1>4. /\ new \in Endpoints
      /\ new.size = n /\ new.other = ep.other /\ new.owner = ep.owner
      /\ new.capacity = ep.capacity /\ new.data = d
    BY <1>2, Zenon DEF Endpoints
<1>5. k.heap \in [DOMAIN k.heap -> Seq(Nat)] /\ DOMAIN k.heap \in SUBSET Buffers
    BY <1>2, HeapsAreFunctions, Zenon
<1>6. d \in DOMAIN k.heap /\ d # fp.data
    BY <1>2, Zenon
<1>7. h \in [DOMAIN k.heap -> Seq(Nat)] /\ h[d] = bytes
      /\ (fp.data # NoAddr => h[fp.data] = k.heap[fp.data])
    BY <1>2, <1>5, <1>6, Zenon
<1>8. h \in Heaps /\ DOMAIN h = DOMAIN k.heap
    BY <1>5, <1>7, HeapsAreFunctions, Zenon
<1>. HIDE DEF h, new
<1>9. /\ r \in Kernels /\ r.size = k.size /\ r.heap = h
      /\ r.elements[1][e] = new /\ r.elements[1][Other(e)] = fp
    <2>1. h \in Heaps /\ new \in Endpoints
        BY <1>4, <1>8, Zenon
    <2>2. /\ Replaced(k, e, new, h) \in Kernels
          /\ Replaced(k, e, new, h).size = k.size
          /\ Replaced(k, e, new, h).heap = h
          /\ Replaced(k, e, new, h).elements[1][e] = new
          /\ Replaced(k, e, new, h).elements[1][Other(e)] = k.elements[1][Other(e)]
        BY <2>1, EndpointIsReplaced
    <2>. QED  BY <1>3, <2>2, Zenon
<1>. HIDE DEF ep, fp
<1>10. Backed(h, new) /\ Backed(h, fp)
    BY <1>2, <1>4, <1>6, <1>7, <1>8, Zenon DEF Backed, ep
<1>11. Live(r)
    <2>1. /\ r.size = 1
          /\ Backed(r.heap, r.elements[1][e]) /\ Backed(r.heap, r.elements[1][Other(e)])
          /\ DOMAIN r.heap = {r.elements[1][e].data, r.elements[1][Other(e)].data} \ {NoAddr}
          /\ r.elements[1][e].data = r.elements[1][Other(e)].data => r.elements[1][e].data = NoAddr
        BY <1>2, <1>4, <1>6, <1>8, <1>9, <1>10, Zenon DEF ep
    <2>2. r \in Kernels
        BY <1>9, Zenon
    <2>. QED  BY <1>1, <2>1, <2>2, LiveIntro, Zenon
<1>12. \A q : Contains(k.heap, fp, q) => Contains(h, fp, q)
    BY <1>7, Zenon DEF Contains, Bytes
<1>. QED  BY <1>4, <1>7, <1>9, <1>11, <1>12, Zenon DEF Adjusted, ep, fp

(* Two changes of one endpoint are one. *)
LEMMA AdjustedIsTransitive ==
    ASSUME NEW k, NEW r, NEW s, NEW e \in Ends, Adjusted(k, r, e), Adjusted(r, s, e)
    PROVE  Adjusted(k, s, e)
    BY Zenon DEF Adjusted

(* No change is one. *)
LEMMA NothingAdjusted ==
    ASSUME NEW k \in Kernels, Live(k), NEW e \in Ends
    PROVE  Adjusted(k, k, e)
    BY Zenon DEF Adjusted

(* The endpoint's buffer is dropped when it is empty. *)
LEMMA FreeEmpty ==
    ASSUME OneChannel, NEW k \in Kernels, Live(k), NEW e \in Ends,
           k.elements[1][e].size = 0, k.elements[1][e].data # NoAddr,
           NEW r, r = [k EXCEPT !.heap = free(k.heap, k.elements[1][e].data),
                                !.elements[1][e] =
                                    [k.elements[1][e] EXCEPT !.data = NoAddr, !.capacity = 0]]
    PROVE  /\ Adjusted(k, r, e)
           /\ r.elements[1][e].size = 0
<1>. DEFINE ep == k.elements[1][e]
            fp == k.elements[1][Other(e)]
            new == [ep EXCEPT !.data = NoAddr, !.capacity = 0]
            h == free(k.heap, ep.data)
<1>1. Other(e) \in Ends
    BY EndsDiffer
<1>2. /\ k.size = 1 /\ k.heap \in Heaps /\ ep \in Endpoints /\ fp \in Endpoints
      /\ Backed(k.heap, ep) /\ Backed(k.heap, fp)
      /\ DOMAIN k.heap = {ep.data, fp.data} \ {NoAddr}
      /\ ep.data = fp.data => ep.data = NoAddr
    BY <1>1, LiveElim, SMTT(30)
<1>3. r = Replaced(k, e, new, h)
    BY Zenon DEF Replaced
<1>4. /\ new \in Endpoints
      /\ new.size = 0 /\ new.other = ep.other /\ new.owner = ep.owner
      /\ new.capacity = 0 /\ new.data = NoAddr
    <2>1. 0 \in Nat
        OBVIOUS
    <2>. QED  BY <1>2, <2>1, Zenon DEF Endpoints
<1>5. k.heap \in [DOMAIN k.heap -> Seq(Nat)] /\ DOMAIN k.heap \in SUBSET Buffers
    BY <1>2, HeapsAreFunctions, Zenon
<1>6. ep.data # fp.data
    BY <1>2, Zenon
<1>7. /\ h \in [DOMAIN k.heap \ {ep.data} -> Seq(Nat)]
      /\ fp.data # NoAddr => h[fp.data] = k.heap[fp.data]
    BY <1>2, <1>5, <1>6, Zenon DEF free
<1>8. h \in Heaps /\ DOMAIN h = DOMAIN k.heap \ {ep.data}
    <2>1. DOMAIN k.heap \ {ep.data} \in SUBSET Buffers
        BY <1>5, Zenon
    <2>. QED  BY <1>7, <2>1, HeapsAreFunctions, Zenon
<1>. HIDE DEF h, new
<1>9. /\ r \in Kernels /\ r.size = k.size /\ r.heap = h
      /\ r.elements[1][e] = new /\ r.elements[1][Other(e)] = fp
    <2>1. h \in Heaps /\ new \in Endpoints
        BY <1>4, <1>8, Zenon
    <2>2. /\ Replaced(k, e, new, h) \in Kernels
          /\ Replaced(k, e, new, h).size = k.size
          /\ Replaced(k, e, new, h).heap = h
          /\ Replaced(k, e, new, h).elements[1][e] = new
          /\ Replaced(k, e, new, h).elements[1][Other(e)] = k.elements[1][Other(e)]
        BY <2>1, EndpointIsReplaced
    <2>. QED  BY <1>3, <2>2, Zenon
<1>. HIDE DEF ep, fp
<1>10. Backed(h, new)
    BY <1>4 DEF Backed
<1>11. Backed(h, fp)
    BY <1>2, <1>6, <1>7, <1>8, Zenon DEF Backed
<1>12. Live(r)
    <2>1. /\ r.size = 1
          /\ Backed(r.heap, r.elements[1][e]) /\ Backed(r.heap, r.elements[1][Other(e)])
          /\ DOMAIN r.heap = {r.elements[1][e].data, r.elements[1][Other(e)].data} \ {NoAddr}
          /\ r.elements[1][e].data = r.elements[1][Other(e)].data => r.elements[1][e].data = NoAddr
        BY <1>2, <1>4, <1>6, <1>8, <1>9, <1>10, <1>11, Zenon
    <2>2. r \in Kernels
        BY <1>9, Zenon
    <2>. QED  BY <1>1, <2>1, <2>2, LiveIntro, Zenon
<1>13. \A q : Contains(k.heap, fp, q) => Contains(h, fp, q)
    BY <1>7, Zenon DEF Contains, Bytes
<1>. QED  BY <1>4, <1>9, <1>12, <1>13, Zenon DEF Adjusted, ep, fp

(* Endpoint::ShrinkCapacity to the size keeps what is in the endpoint. *)
LEMMA ShrinkKeepsContents ==
    ASSUME OneChannel, NEW k \in Kernels, Live(k), NEW e \in Ends,
           NEW n \in Nat, n = k.elements[1][e].size
    PROVE  /\ Adjusted(k, ShrinkCapacity(k, At(e), n), e)
           /\ ShrinkCapacity(k, At(e), n).elements[1][e].size = n
           /\ \A q : Contains(k.heap, k.elements[1][e], q) =>
                        Contains(ShrinkCapacity(k, At(e), n).heap,
                                 ShrinkCapacity(k, At(e), n).elements[1][e], q)
<1>. SUFFICES ASSUME NEW r, r = ShrinkCapacity(k, At(e), n)
              PROVE  /\ Adjusted(k, r, e)
                     /\ r.elements[1][e].size = n
                     /\ \A q : Contains(k.heap, k.elements[1][e], q) =>
                                Contains(r.heap, r.elements[1][e], q)
    BY Zenon
<1>. DEFINE ep == k.elements[1][e]
<1>1. Other(e) \in Ends
    BY EndsDiffer
<1>2. ep \in Endpoints /\ Backed(k.heap, ep)
    BY <1>1, LiveElim
<1>3. n \in Nat /\ ep.capacity \in Nat /\ ep.size = n
    BY <1>2 DEF Endpoints
<1>4. r = IF ~(n >= ep.size /\ n < ep.capacity) THEN k
          ELSE IF n = 0
          THEN [k EXCEPT !.heap = free(k.heap, ep.data),
                         !.elements[1][e] = [ep EXCEPT !.data = NoAddr, !.capacity = 0]]
          ELSE Reallocate(k, At(e), n)
    BY Zenon DEF ShrinkCapacity, EndAt, At
<1>5. CASE ~(n >= ep.size /\ n < ep.capacity)
    BY <1>3, <1>4, <1>5, NothingAdjusted, Zenon
<1>6. CASE n >= ep.size /\ n < ep.capacity /\ n = 0
    <2>1. ep.data # NoAddr
        BY <1>2, <1>3, <1>6, SMTT(30) DEF Backed
    <2>2. r = [k EXCEPT !.heap = free(k.heap, ep.data),
                        !.elements[1][e] = [ep EXCEPT !.data = NoAddr, !.capacity = 0]]
        BY <1>4, <1>6, Zenon
    <2>3. Adjusted(k, r, e) /\ r.elements[1][e].size = 0
        BY <1>3, <1>6, <2>1, <2>2, FreeEmpty, Zenon
    <2>4. \A q : Contains(k.heap, ep, q) => Contains(r.heap, r.elements[1][e], q)
        <3>1. \A i \in 1 .. 0 : FALSE
            OBVIOUS
        <3>2. ep.size = 0 /\ r.elements[1][e].size = 0
            BY <1>3, <1>6, <2>3, Zenon
        <3>. QED  BY <3>1, <3>2, Zenon DEF Contains
    <2>. QED  BY <1>6, <2>3, <2>4, Zenon
<1>7. CASE n >= ep.size /\ n < ep.capacity /\ n # 0
    <2>1. r = Reallocate(k, At(e), n)
        BY <1>4, <1>7, Zenon
    <2>2. ep.size <= n
        BY <1>3
    <2>3. /\ Adjusted(k, Reallocate(k, At(e), n), e)
          /\ Reallocate(k, At(e), n).elements[1][e].size = ep.size
          /\ \A q : Contains(k.heap, ep, q) =>
                Contains(Reallocate(k, At(e), n).heap, Reallocate(k, At(e), n).elements[1][e], q)
        BY <1>3, <2>2, ReallocateMoves, Zenon
    <2>. QED  BY <1>3, <2>1, <2>3, Zenon
<1>. QED  BY <1>5, <1>6, <1>7, Zenon

-----------------------------------------------------------------------------

(* memcpy to the end of the contents, and memmove of what is left. *)
LEMMA ConcatBytes ==
    ASSUME NEW q \in Seq(Nat), NEW bytes \in Seq(Nat)
    PROVE  /\ q \o bytes \in Seq(Nat) /\ Len(q \o bytes) = Len(q) + Len(bytes)
           /\ \A i \in 1 .. Len(q) + Len(bytes) :
                (q \o bytes)[i] = IF i <= Len(q) THEN q[i] ELSE bytes[i - Len(q)]
           /\ q \o <<>> = q
    OBVIOUS

(* A part of a sequence of bytes. *)
LEMMA SubSeqBytes ==
    ASSUME NEW q, NEW lo \in Int, NEW hi \in Int, \A i \in lo .. hi : q[i] \in Nat
    PROVE  /\ SubSeq(q, lo, hi) \in Seq(Nat)
           /\ Len(SubSeq(q, lo, hi)) = IF lo <= hi THEN hi - lo + 1 ELSE 0
           /\ \A i \in 1 .. hi - lo + 1 : SubSeq(q, lo, hi)[i] = q[lo + i - 1]
    OBVIOUS

(* The indices memmove reads and writes are inside the buffer. *)
LEMMA Shifts ==
    ASSUME NEW n \in Nat, NEW l \in Nat, n <= l, NEW size \in 1 .. n
    PROVE  /\ \A i \in 1 .. l : i <= n - size => i + size \in 1 .. l
           /\ \A i \in 1 .. n - size : /\ i \in 1 .. l /\ i <= n - size /\ i + size \in 1 .. n
                                       /\ i \in 1 .. n - (size + 1) + 1
                                       /\ size + 1 + i - 1 = i + size
           /\ size + 1 .. n \subseteq 1 .. n /\ size + 1 \in Int /\ n \in Int
           /\ (IF size + 1 <= n THEN n - (size + 1) + 1 ELSE 0) = n - size
    OBVIOUS

(* What is left of a sequence once its first bytes are gone. *)
LEMMA SubSeqLeft ==
    ASSUME NEW q \in Seq(Nat), NEW size \in 1 .. Len(q)
    PROVE  /\ SubSeq(q, size + 1, Len(q)) \in Seq(Nat)
           /\ Len(SubSeq(q, size + 1, Len(q))) = Len(q) - size
           /\ \A i \in 1 .. Len(q) - size : SubSeq(q, size + 1, Len(q))[i] = q[i + size]
<1>. DEFINE n == Len(q)
<1>1. n \in Nat /\ size \in 1 .. n /\ \A i \in 1 .. n : q[i] \in Nat
    OBVIOUS
<1>. HIDE DEF n
<1>2. /\ \A i \in 1 .. n - size : i \in 1 .. n - (size + 1) + 1 /\ size + 1 + i - 1 = i + size
      /\ size + 1 .. n \subseteq 1 .. n /\ size + 1 \in Int /\ n \in Int
      /\ (IF size + 1 <= n THEN n - (size + 1) + 1 ELSE 0) = n - size
    BY <1>1
<1>3. \A i \in size + 1 .. n : q[i] \in Nat
    BY <1>1, <1>2, Zenon
<1>4. /\ SubSeq(q, size + 1, n) \in Seq(Nat)
      /\ Len(SubSeq(q, size + 1, n)) = IF size + 1 <= n THEN n - (size + 1) + 1 ELSE 0
      /\ \A i \in 1 .. n - (size + 1) + 1 : SubSeq(q, size + 1, n)[i] = q[size + 1 + i - 1]
    BY <1>2, <1>3, SubSeqBytes, Zenon
<1>. QED  BY <1>2, <1>4, Zenon DEF n

(* Writing in place does not change the length. *)
LEMMA SameLength ==
    ASSUME NEW old \in Seq(Nat), NEW f, f \in [DOMAIN old -> Nat]
    PROVE  f \in Seq(Nat) /\ Len(f) = Len(old)
    OBVIOUS

Appended(old, n, bytes) ==
    [i \in DOMAIN old |-> IF i \in n + 1 .. n + Len(bytes) THEN bytes[i - n] ELSE old[i]]
Left(old, n, size) ==
    [i \in DOMAIN old |-> IF i <= n - size THEN old[i + size] ELSE old[i]]

(* Bytes copied behind the contents q leave q followed by them. *)
LEMMA AppendedBytes ==
    ASSUME NEW old \in Seq(Nat), NEW q \in Seq(Nat), NEW bytes \in Seq(Nat),
           Len(q) + Len(bytes) <= Len(old), \A i \in 1 .. Len(q) : q[i] = old[i]
    PROVE  /\ Appended(old, Len(q), bytes) \in Seq(Nat)
           /\ Len(Appended(old, Len(q), bytes)) = Len(old)
           /\ \A i \in 1 .. Len(q) + Len(bytes) : (q \o bytes)[i] = Appended(old, Len(q), bytes)[i]
<1>. SUFFICES ASSUME NEW f, f = Appended(old, Len(q), bytes)
              PROVE  /\ f \in Seq(Nat) /\ Len(f) = Len(old)
                     /\ \A i \in 1 .. Len(q) + Len(bytes) : (q \o bytes)[i] = f[i]
    BY Zenon
<1>. DEFINE n == Len(q)
            l == Len(bytes)
<1>1. /\ n \in Nat /\ l \in Nat /\ DOMAIN old = 1 .. Len(old) /\ n + l <= Len(old)
      /\ Len(old) \in Nat
    OBVIOUS
<1>2. \A i \in 1 .. l : bytes[i] \in Nat
    OBVIOUS
<1>3. \A i \in DOMAIN old : old[i] \in Nat
    OBVIOUS
<1>4. \A i \in 1 .. n + l : (q \o bytes)[i] = IF i <= n THEN q[i] ELSE bytes[i - n]
    BY ConcatBytes
<1>. HIDE DEF n, l
<1>5. ASSUME NEW i \in DOMAIN old
      PROVE  (IF i \in n + 1 .. n + l THEN bytes[i - n] ELSE old[i]) \in Nat
    <2>1. i \in n + 1 .. n + l => i - n \in 1 .. l
        BY <1>1, SMTT(60)
    <2>. QED  BY <1>2, <1>3, <2>1, Zenon
<1>6. f \in [DOMAIN old -> Nat]
    BY <1>5, Zenon DEF n, l, Appended
<1>7. f \in Seq(Nat) /\ Len(f) = Len(old)
    BY <1>6, SameLength, Zenon
<1>8. ASSUME NEW i \in 1 .. n + l
      PROVE  (q \o bytes)[i] = f[i]
    <2>1. /\ i \in DOMAIN old /\ (i <= n <=> i \notin n + 1 .. n + l)
          /\ i <= n => i \in 1 .. n
        BY <1>1
    <2>2. f[i] = IF i \in n + 1 .. n + l THEN bytes[i - n] ELSE old[i]
        BY <2>1, Zenon DEF n, l, Appended
    <2>3. i <= n => q[i] = old[i]
        BY <2>1, Zenon DEF n
    <2>. QED  BY <1>4, <2>1, <2>2, <2>3, Zenon
<1>. QED  BY <1>7, <1>8, Zenon DEF n, l

(* Moving the contents q to the front leaves q without its first bytes. *)
LEMMA LeftBytes ==
    ASSUME NEW old \in Seq(Nat), NEW q \in Seq(Nat), NEW size \in 1 .. Len(q),
           Len(q) <= Len(old), \A i \in 1 .. Len(q) : q[i] = old[i]
    PROVE  /\ Left(old, Len(q), size) \in Seq(Nat)
           /\ Len(Left(old, Len(q), size)) = Len(old)
           /\ \A i \in 1 .. Len(q) - size :
                SubSeq(q, size + 1, Len(q))[i] = Left(old, Len(q), size)[i]
<1>. SUFFICES ASSUME NEW f, f = Left(old, Len(q), size)
              PROVE  /\ f \in Seq(Nat) /\ Len(f) = Len(old)
                     /\ \A i \in 1 .. Len(q) - size : SubSeq(q, size + 1, Len(q))[i] = f[i]
    BY Zenon
<1>. DEFINE n == Len(q)
<1>1. /\ n \in Nat /\ DOMAIN old = 1 .. Len(old) /\ n <= Len(old) /\ Len(old) \in Nat
      /\ size \in 1 .. n
    OBVIOUS
<1>2. \A i \in DOMAIN old : old[i] \in Nat
    OBVIOUS
<1>3. \A i \in 1 .. n - size : SubSeq(q, size + 1, n)[i] = q[i + size]
    BY SubSeqLeft, Zenon
<1>. HIDE DEF n
<1>4. /\ \A i \in 1 .. Len(old) : i <= n - size => i + size \in 1 .. Len(old)
      /\ \A i \in 1 .. n - size : i \in 1 .. Len(old) /\ i <= n - size /\ i + size \in 1 .. n
    BY <1>1, Shifts, Zenon
<1>5. ASSUME NEW i \in DOMAIN old
      PROVE  (IF i <= n - size THEN old[i + size] ELSE old[i]) \in Nat
    <2>1. i <= n - size => i + size \in DOMAIN old
        BY <1>1, <1>4, Zenon
    <2>. QED  BY <1>2, <2>1, Zenon
<1>6. f \in [DOMAIN old -> Nat]
    BY <1>5, Zenon DEF n, Left
<1>7. f \in Seq(Nat) /\ Len(f) = Len(old)
    BY <1>6, SameLength, Zenon
<1>8. ASSUME NEW i \in 1 .. n - size
      PROVE  SubSeq(q, size + 1, n)[i] = f[i]
    <2>1. i \in DOMAIN old /\ i <= n - size /\ i + size \in 1 .. n
        BY <1>1, <1>4, Zenon
    <2>2. f[i] = IF i <= n - size THEN old[i + size] ELSE old[i]
        BY <2>1, Zenon DEF n, Left
    <2>3. q[i + size] = old[i + size]
        BY <2>1, Zenon DEF n
    <2>. QED  BY <1>3, <2>1, <2>2, <2>3, Zenon
<1>. QED  BY <1>7, <1>8, Zenon DEF n

(* Endpoint::ReserveIfNeeded makes room for len more bytes and keeps the contents. *)
LEMMA ReserveMakesRoom ==
    ASSUME OneChannel, NEW k \in Kernels, Live(k), NEW e \in Ends, NEW len \in Nat
    PROVE  LET m == ReserveIfNeeded(k, At(e), k.elements[1][e].size + len)
           IN  /\ Adjusted(k, m, e) /\ m.elements[1][e].size = k.elements[1][e].size
               /\ k.elements[1][e].size + len <= m.elements[1][e].capacity
               /\ \A q : Contains(k.heap, k.elements[1][e], q) =>
                            Contains(m.heap, m.elements[1][e], q)
<1>. SUFFICES ASSUME NEW m, m = ReserveIfNeeded(k, At(e), k.elements[1][e].size + len)
              PROVE  /\ Adjusted(k, m, e) /\ m.elements[1][e].size = k.elements[1][e].size
                     /\ k.elements[1][e].size + len <= m.elements[1][e].capacity
                     /\ \A q : Contains(k.heap, k.elements[1][e], q) =>
                                Contains(m.heap, m.elements[1][e], q)
    BY Zenon
<1>. DEFINE ep == k.elements[1][e]
            amt == ep.size + len
<1>1. Other(e) \in Ends
    BY EndsDiffer
<1>2. ep \in Endpoints /\ Backed(k.heap, ep)
    BY <1>1, LiveElim
<1>3. ep.size \in Nat /\ ep.capacity \in Nat
    BY <1>2, Zenon DEF Endpoints
<1>4. amt \in Nat /\ ep.size <= amt /\ (~(amt > ep.capacity) => amt <= ep.capacity) /\ amt <= amt
    BY <1>3, SMTT(30)
<1>5. m = IF amt > ep.capacity THEN Reallocate(k, At(e), amt) ELSE k
    BY Zenon DEF ReserveIfNeeded, EndAt, At
<1>. HIDE DEF amt
<1>6. CASE amt > ep.capacity
    <2>1. m = Reallocate(k, At(e), amt)
        BY <1>5, <1>6, Zenon
    <2>2. /\ Adjusted(k, m, e) /\ m.elements[1][e].size = ep.size /\ m.elements[1][e].capacity = amt
          /\ \A q : Contains(k.heap, ep, q) => Contains(m.heap, m.elements[1][e], q)
        <3>1. /\ Adjusted(k, Reallocate(k, At(e), amt), e)
              /\ Reallocate(k, At(e), amt).elements[1][e].size = ep.size
              /\ Reallocate(k, At(e), amt).elements[1][e].capacity = amt
              /\ \A q : Contains(k.heap, ep, q) =>
                    Contains(Reallocate(k, At(e), amt).heap,
                             Reallocate(k, At(e), amt).elements[1][e], q)
            BY <1>4, ReallocateMoves
        <3>. QED  BY <2>1, <3>1, Zenon
    <2>. QED  BY <1>4, <2>2, Zenon DEF amt
<1>7. CASE ~(amt > ep.capacity)
    <2>1. m = k
        BY <1>5, <1>7, Zenon
    <2>. QED  BY <1>4, <1>7, <2>1, NothingAdjusted, Zenon DEF amt
<1>. QED  BY <1>6, <1>7, Zenon

(* The endpoint at an address of the only element. *)
LEMMA AtSelects ==
    ASSUME NEW k, NEW e
    PROVE  At(e).slot = 1 /\ At(e).end = e /\ EndAt(k, At(e)) = k.elements[1][e]
    BY DEF At, EndAt

(* Addresses of endpoints are not null. *)
LEMMA AtIsAddress ==
    ASSUME OneChannel, NEW e \in Ends
    PROVE  At(e) \in Addresses /\ At(e) # NoAddr
    BY OneSlot, NullIsNoAddress DEF At, Addresses

(* WriteSelf and ReadSelf in terms of Put. *)
LEMMA WriteSelfPuts ==
    ASSUME NEW k, NEW e, NEW bytes
    PROVE  LET m == ReserveIfNeeded(k, At(e), k.elements[1][e].size + Len(bytes))
               n == m.elements[1][e].size
           IN  WriteSelf(k, At(e), bytes) =
                IF bytes = <<>> THEN m
                ELSE Put(m, e, Appended(Bytes(m.heap, m.elements[1][e]), n, bytes), n + Len(bytes))
<1>1. PICK a : a = At(e)
    BY Zenon
<1>2. a.slot = 1 /\ a.end = e
    BY <1>1, AtSelects, Zenon
<1>. QED  BY <1>1, <1>2, Zenon DEF WriteSelf, EndAt, Put, Appended

(* ReadSelf moves the rest to the front and shrinks the buffer. *)
LEMMA ReadSelfPuts ==
    ASSUME NEW k, NEW e, NEW size
    PROVE  LET n == k.elements[1][e].size
           IN  ReadSelf(k, At(e), size) =
                ShrinkCapacity(Put(k, e, Left(k.heap[k.elements[1][e].data], n, size), n - size),
                               At(e), n - size)
<1>1. PICK a : a = At(e)
    BY Zenon
<1>2. a.slot = 1 /\ a.end = e
    BY <1>1, AtSelects, Zenon
<1>. QED  BY <1>1, <1>2, Zenon DEF ReadSelf, EndAt, Put, Left

(* What the endpoint contains after Put. *)
LEMMA PutContains ==
    ASSUME OneChannel, NEW k \in Kernels, Live(k), NEW e \in Ends,
           k.elements[1][e].data # NoAddr,
           NEW f \in Seq(Nat), Len(f) = k.elements[1][e].capacity,
           NEW n \in Nat, n <= k.elements[1][e].capacity,
           NEW q \in Seq(Nat), Len(q) = n, \A i \in 1 .. n : q[i] = f[i]
    PROVE  /\ Adjusted(k, Put(k, e, f, n), e)
           /\ Put(k, e, f, n).elements[1][e].size = n
           /\ Contains(Put(k, e, f, n).heap, Put(k, e, f, n).elements[1][e], q)
<1>1. /\ Adjusted(k, Put(k, e, f, n), e)
      /\ Put(k, e, f, n).elements[1][e].size = n
      /\ Bytes(Put(k, e, f, n).heap, Put(k, e, f, n).elements[1][e]) = f
    BY PutBytes, SMTT(30)
<1>. QED  BY <1>1, Zenon DEF Contains

(* Endpoint::WriteSelf appends. *)
LEMMA WriteAppends ==
    ASSUME OneChannel, NEW k \in Kernels, Live(k), NEW e \in Ends, NEW bytes \in Seq(Nat),
           NEW q, Contains(k.heap, k.elements[1][e], q)
    PROVE  /\ Adjusted(k, WriteSelf(k, At(e), bytes), e)
           /\ Contains(WriteSelf(k, At(e), bytes).heap,
                       WriteSelf(k, At(e), bytes).elements[1][e], q \o bytes)
<1>. DEFINE n == k.elements[1][e].size
<1>1. PICK m : m = ReserveIfNeeded(k, At(e), n + Len(bytes))
    BY Zenon
<1>2. PICK r : r = WriteSelf(k, At(e), bytes)
    BY Zenon
<1>3. PICK qq : qq = q \o bytes
    BY Zenon
<1>. DEFINE mp == m.elements[1][e]
<1>4. /\ Adjusted(k, m, e) /\ mp.size = n /\ n + Len(bytes) <= mp.capacity
      /\ Contains(m.heap, mp, q)
    <2>1. Len(bytes) \in Nat
        OBVIOUS
    <2>. QED  BY <1>1, <2>1, ReserveMakesRoom, Zenon
<1>5. r = IF bytes = <<>> THEN m
          ELSE Put(m, e, Appended(Bytes(m.heap, mp), mp.size, bytes), mp.size + Len(bytes))
    BY <1>1, <1>2, WriteSelfPuts, Zenon
<1>6. m \in Kernels /\ Live(m)
    BY <1>4, Zenon DEF Adjusted
<1>7. mp \in Endpoints /\ Backed(m.heap, mp) /\ m.heap \in Heaps
    BY <1>6, EndsDiffer, LiveElim, Zenon
<1>8. q \in Seq(Nat) /\ Len(q) = mp.size /\ \A i \in 1 .. mp.size : q[i] = Bytes(m.heap, mp)[i]
    BY <1>4, Zenon DEF Contains
<1>9. qq \in Seq(Nat) /\ Len(qq) = Len(q) + Len(bytes) /\ (bytes = <<>> => qq = q)
    BY <1>3, <1>8, ConcatBytes, Zenon
<1>10. CASE bytes = <<>>
    BY <1>2, <1>3, <1>4, <1>5, <1>9, <1>10, Zenon
<1>11. CASE bytes # <<>>
    <2>1. PICK old : old = Bytes(m.heap, mp)
        BY Zenon
    <2>2. PICK f : f = Appended(old, Len(q), bytes)
        BY Zenon
    <2>3. PICK l : l = Len(q) + Len(bytes)
        BY Zenon
    <2>4. old \in Seq(Nat) /\ Len(old) = mp.capacity
        BY <1>7, <2>1, BackedBytes, Zenon
    <2>5. l <= Len(old)
        BY <1>4, <1>8, <2>3, <2>4, Zenon
    <2>6. r = Put(m, e, f, l)
        BY <1>5, <1>8, <1>11, <2>1, <2>2, <2>3, Zenon
    <2>7. f \in Seq(Nat) /\ Len(f) = Len(old) /\ \A i \in 1 .. l : qq[i] = f[i]
        <3>1. \A i \in 1 .. Len(q) : q[i] = old[i]
            BY <1>8, <2>1, Zenon
        <3>. QED  BY <1>3, <1>8, <2>2, <2>3, <2>4, <2>5, <3>1, AppendedBytes, ZenonT(90)
    <2>8. l \in Nat /\ mp.capacity # 0
        <3>1. Len(q) \in Nat /\ Len(bytes) \in Nat /\ Len(bytes) > 0 /\ Len(old) \in Nat
            BY <1>8, <1>11, <2>4, SMTT(60)
        <3>. QED  BY <2>3, <2>4, <2>5, <3>1
    <2>9. mp.data # NoAddr
        BY <1>7, <2>8, Zenon DEF Backed
    <2>10. Len(f) = mp.capacity /\ l <= mp.capacity /\ Len(qq) = l
        BY <1>9, <2>3, <2>4, <2>5, <2>7, Zenon
    <2>11. /\ Adjusted(m, Put(m, e, f, l), e)
           /\ Contains(Put(m, e, f, l).heap, Put(m, e, f, l).elements[1][e], qq)
        BY <1>6, <1>9, <2>7, <2>8, <2>9, <2>10, PutContains
    <2>. QED  BY <1>2, <1>3, <1>4, <2>6, <2>11, AdjustedIsTransitive, Zenon
<1>. QED  BY <1>10, <1>11, Zenon

(* Endpoint::ReadSelf takes the first bytes away. *)
LEMMA ReadRemoves ==
    ASSUME OneChannel, NEW k \in Kernels, Live(k), NEW e \in Ends,
           NEW size \in 1 .. k.elements[1][e].size,
           NEW q, Contains(k.heap, k.elements[1][e], q)
    PROVE  /\ Adjusted(k, ReadSelf(k, At(e), size), e)
           /\ Contains(ReadSelf(k, At(e), size).heap,
                       ReadSelf(k, At(e), size).elements[1][e], SubSeq(q, size + 1, Len(q)))
<1>. DEFINE ep == k.elements[1][e]
<1>1. PICK old : old = k.heap[ep.data]
    BY Zenon
<1>2. PICK f : f = Left(old, Len(q), size)
    BY Zenon
<1>3. PICK l : l = Len(q) - size
    BY Zenon
<1>4. PICK qq : qq = SubSeq(q, size + 1, Len(q))
    BY Zenon
<1>5. PICK m : m = Put(k, e, f, l)
    BY Zenon
<1>6. ep \in Endpoints /\ Backed(k.heap, ep) /\ k.heap \in Heaps
    BY EndsDiffer, LiveElim, Zenon
<1>7. ep.data # NoAddr
    <2>1. ep.size \in Nat /\ ep.capacity \in Nat /\ ep.size <= ep.capacity
        BY <1>6, Zenon DEF Endpoints, Backed
    <2>2. ep.capacity # 0
        BY <2>1
    <2>. QED  BY <1>6, <2>2, Zenon DEF Backed
<1>8. Bytes(k.heap, ep) = old
    BY <1>1, <1>7, Zenon DEF Bytes
<1>9. /\ q \in Seq(Nat) /\ Len(q) = ep.size /\ size \in 1 .. Len(q)
      /\ \A i \in 1 .. Len(q) : q[i] = old[i]
    BY <1>8, Zenon DEF Contains
<1>10. old \in Seq(Nat) /\ Len(old) = ep.capacity /\ Len(q) <= Len(old)
    BY <1>6, <1>8, <1>9, BackedBytes, Zenon DEF Backed
<1>11. ReadSelf(k, At(e), size) = ShrinkCapacity(m, At(e), l)
    <2>1. ReadSelf(k, At(e), size) =
            ShrinkCapacity(Put(k, e, Left(k.heap[ep.data], ep.size, size), ep.size - size),
                           At(e), ep.size - size)
        BY ReadSelfPuts, Zenon
    <2>2. ep.size = Len(q) /\ k.heap[ep.data] = old
        BY <1>1, <1>9, Zenon
    <2>3. m = Put(k, e, Left(old, Len(q), size), Len(q) - size) /\ l = Len(q) - size
        BY <1>2, <1>3, <1>5, Zenon
    <2>. QED  BY <2>1, <2>2, <2>3, Zenon
<1>12. f \in Seq(Nat) /\ Len(f) = Len(old) /\ \A i \in 1 .. l : qq[i] = f[i]
    BY <1>2, <1>3, <1>4, <1>9, <1>10, LeftBytes, Zenon
<1>13. qq \in Seq(Nat) /\ Len(qq) = l
    BY <1>3, <1>4, <1>9, SubSeqLeft, Zenon
<1>14. l \in Nat /\ l <= Len(old)
    <2>1. Len(q) \in Nat /\ Len(old) \in Nat /\ size \in Nat /\ size <= Len(q)
        BY <1>9, <1>10, SMTT(30)
    <2>2. Len(q) <= Len(old)
        BY <1>10, Zenon
    <2>. QED  BY <1>3, <2>1, <2>2
<1>15. Len(f) = ep.capacity /\ l <= ep.capacity
    BY <1>10, <1>12, <1>14, Zenon
<1>16. /\ Adjusted(k, Put(k, e, f, l), e)
       /\ Put(k, e, f, l).elements[1][e].size = l
       /\ Contains(Put(k, e, f, l).heap, Put(k, e, f, l).elements[1][e], qq)
    BY <1>7, <1>12, <1>13, <1>14, <1>15, PutContains, SMTT(60)
<1>17. /\ Adjusted(k, m, e) /\ l = m.elements[1][e].size
       /\ Contains(m.heap, m.elements[1][e], qq)
    BY <1>5, <1>16, Zenon
<1>18. m \in Kernels /\ Live(m)
    BY <1>17, Zenon DEF Adjusted
<1>19. PICK r : r = ShrinkCapacity(m, At(e), l)
    BY Zenon
<1>20. /\ Adjusted(m, r, e)
       /\ \A x : Contains(m.heap, m.elements[1][e], x) => Contains(r.heap, r.elements[1][e], x)
    BY <1>14, <1>17, <1>18, <1>19, ShrinkKeepsContents, Zenon
<1>. QED  BY <1>4, <1>11, <1>17, <1>19, <1>20, AdjustedIsTransitive, Zenon

-----------------------------------------------------------------------------

(* What an endpoint contains is the first size_ bytes of its buffer. *)
LEMMA Prefix ==
    ASSUME NEW b \in Seq(Nat), NEW n \in Nat, n <= Len(b)
    PROVE  /\ SubSeq(b, 1, n) \in Seq(Nat) /\ Len(SubSeq(b, 1, n)) = n
           /\ \A i \in 1 .. n : SubSeq(b, 1, n)[i] = b[i]
    OBVIOUS

(* Sequences with the same elements are equal. *)
LEMMA SameSequence ==
    ASSUME NEW s \in Seq(Nat), NEW t \in Seq(Nat), Len(s) = Len(t),
           \A i \in 1 .. Len(s) : s[i] = t[i]
    PROVE  s = t
    OBVIOUS

(* What an endpoint contains is determined by its buffer and size. *)
LEMMA SomethingIsContained ==
    ASSUME OneChannel, NEW k \in Kernels, Live(k), NEW e \in Ends
    PROVE  /\ \A q : Contains(k.heap, k.elements[1][e], q) <=>
                q = SubSeq(Bytes(k.heap, k.elements[1][e]), 1, k.elements[1][e].size)
           /\ \E q : Contains(k.heap, k.elements[1][e], q)
<1>. DEFINE ep == k.elements[1][e]
<1>1. PICK b : b = Bytes(k.heap, ep)
    BY Zenon
<1>2. ep \in Endpoints /\ Backed(k.heap, ep) /\ k.heap \in Heaps
    BY EndsDiffer, LiveElim, Zenon
<1>3. b \in Seq(Nat) /\ Len(b) = ep.capacity /\ ep.size <= Len(b) /\ ep.size \in Nat
    BY <1>1, <1>2, BackedBytes, Zenon DEF Backed, Endpoints
<1>4. PICK s : s = SubSeq(b, 1, ep.size)
    BY Zenon
<1>5. s \in Seq(Nat) /\ Len(s) = ep.size /\ \A i \in 1 .. ep.size : s[i] = b[i]
    BY <1>3, <1>4, Prefix, Zenon
<1>6. Contains(k.heap, ep, s)
    BY <1>1, <1>5, Zenon DEF Contains
<1>7. ASSUME NEW q, Contains(k.heap, ep, q) PROVE q = s
    <2>1. q \in Seq(Nat) /\ Len(q) = ep.size /\ \A i \in 1 .. ep.size : q[i] = b[i]
        BY <1>1, <1>7, Zenon DEF Contains
    <2>2. Len(s) = Len(q) /\ \A i \in 1 .. Len(s) : s[i] = q[i]
        BY <1>5, <2>1, Zenon
    <2>. QED  BY <1>5, <2>1, <2>2, SameSequence, Zenon
<1>. QED  BY <1>1, <1>4, <1>6, <1>7, Zenon

-----------------------------------------------------------------------------

Holders == [Ends -> Processes \cup {"closed"}]

(* The kernel when h says who has which end.  An open end points to the other
   one and its owner is the process that has it; when both are closed, nothing
   of the channel is left but the bytes of the element that was erased. *)
Good(k, h) ==
    /\ k \in Kernels
    /\ \A e \in Ends : k.elements[1][e].other = IF h[e] = "closed" THEN NoAddr ELSE At(Other(e))
    /\ \A e \in Ends : h[e] # "closed" => k.elements[1][e].owner = h[e]
    /\ IF \A e \in Ends : h[e] = "closed" THEN k.size = 0 /\ DOMAIN k.heap = {} ELSE Live(k)

(* The handles are the open ends, and the kernel is as they say. *)
Consistent(k, hd, hh) ==
    /\ hh \in [Channels -> Holders]
    /\ hd \in [Channels -> [Ends -> Addresses \cup {NoAddr}]]
    /\ \A c \in Channels : /\ \A e \in Ends : hd[c][e] = IF hh[c][e] = "closed"
                                                         THEN NoAddr ELSE At(e)
                           /\ Good(k, hh[c])

(* The inductive invariant. *)
ChannelInv == Consistent(kernel, handle, has)

-----------------------------------------------------------------------------

(* What is in end e of k is in end e of r. *)
Keeps(k, r, e) ==
    \A q : Contains(k.heap, k.elements[1][e], q) => Contains(r.heap, r.elements[1][e], q)

(* While an end is open, the channel is in the vector. *)
LEMMA GoodIsLive ==
    ASSUME NEW k, NEW h, Good(k, h), NEW e \in Ends, h[e] # "closed"
    PROVE  /\ k \in Kernels /\ Live(k) /\ k.size = 1
           /\ k.elements[1][e].other = At(Other(e))
           /\ k.elements[1][e].owner = h[e]
<1>1. ~ \A f \in Ends : h[f] = "closed"
    BY Zenon
<1>. QED  BY <1>1, Zenon DEF Good, Live

(* A change of one endpoint's size, capacity and buffer leaves the kernel good. *)
LEMMA AdjustedIsGood ==
    ASSUME NEW k, NEW h, Good(k, h), NEW e \in Ends, h[e] # "closed", NEW f \in Ends,
           NEW r, Adjusted(k, r, f)
    PROVE  Good(r, h) /\ Keeps(k, r, Other(f))
<1>1. ~ \A x \in Ends : h[x] = "closed"
    BY Zenon
<1>2. r \in Kernels /\ Live(r)
    BY Zenon DEF Adjusted
<1>3. ASSUME NEW x \in Ends
      PROVE  /\ r.elements[1][x].other = k.elements[1][x].other
             /\ r.elements[1][x].owner = k.elements[1][x].owner
    <2>1. x = f \/ x = Other(f)
        BY EndsDiffer, Zenon
    <2>. QED  BY <2>1, Zenon DEF Adjusted
<1>4. Good(r, h)
    BY <1>1, <1>2, <1>3, Zenon DEF Good
<1>5. Keeps(k, r, Other(f))
    BY Zenon DEF Keeps, Adjusted
<1>. QED  BY <1>4, <1>5, Zenon

(* SYS_ChannelWrite to an open channel. *)
LEMMA WriteIsGood ==
    ASSUME OneChannel, NEW k, NEW h, Good(k, h), NEW e \in Ends, h[e] # "closed",
           NEW bytes \in Seq(Nat)
    PROVE  /\ Good(WriteSelf(k, At(Other(e)), bytes), h)
           /\ Keeps(k, WriteSelf(k, At(Other(e)), bytes), e)
           /\ \A q : Contains(k.heap, k.elements[1][Other(e)], q) =>
                Contains(WriteSelf(k, At(Other(e)), bytes).heap,
                         WriteSelf(k, At(Other(e)), bytes).elements[1][Other(e)], q \o bytes)
<1>1. PICK f : f = Other(e)
    BY Zenon
<1>2. f \in Ends /\ Other(f) = e
    BY <1>1, EndsDiffer, Zenon
<1>3. k \in Kernels /\ Live(k)
    BY GoodIsLive, Zenon
<1>4. PICK r : r = WriteSelf(k, At(f), bytes)
    BY Zenon
<1>5. ASSUME NEW q, Contains(k.heap, k.elements[1][f], q)
      PROVE  Adjusted(k, r, f) /\ Contains(r.heap, r.elements[1][f], q \o bytes)
    BY <1>2, <1>3, <1>4, <1>5, WriteAppends, Zenon
<1>6. \E q : Contains(k.heap, k.elements[1][f], q)
    BY <1>2, <1>3, SomethingIsContained, Zenon
<1>7. Adjusted(k, r, f)
    BY <1>5, <1>6, Zenon
<1>8. Good(r, h) /\ Keeps(k, r, e)
    BY <1>2, <1>7, AdjustedIsGood, Zenon
<1>. QED  BY <1>1, <1>4, <1>5, <1>8, Zenon

(* SYS_ChannelRead of some of what the end has. *)
LEMMA ReadIsGood ==
    ASSUME OneChannel, NEW k, NEW h, Good(k, h), NEW e \in Ends, h[e] # "closed",
           NEW size \in 1 .. k.elements[1][e].size
    PROVE  /\ Good(ReadSelf(k, At(e), size), h)
           /\ Keeps(k, ReadSelf(k, At(e), size), Other(e))
           /\ \A q : Contains(k.heap, k.elements[1][e], q) =>
                Contains(ReadSelf(k, At(e), size).heap,
                         ReadSelf(k, At(e), size).elements[1][e], SubSeq(q, size + 1, Len(q)))
<1>1. k \in Kernels /\ Live(k)
    BY GoodIsLive, Zenon
<1>2. PICK r : r = ReadSelf(k, At(e), size)
    BY Zenon
<1>3. ASSUME NEW q, Contains(k.heap, k.elements[1][e], q)
      PROVE  /\ Adjusted(k, r, e)
             /\ Contains(r.heap, r.elements[1][e], SubSeq(q, size + 1, Len(q)))
    BY <1>1, <1>2, <1>3, ReadRemoves, Zenon
<1>4. \E q : Contains(k.heap, k.elements[1][e], q)
    BY <1>1, SomethingIsContained, Zenon
<1>5. Adjusted(k, r, e)
    BY <1>3, <1>4, Zenon
<1>6. Good(r, h) /\ Keeps(k, r, Other(e))
    BY <1>5, AdjustedIsGood, Zenon
<1>. QED  BY <1>2, <1>3, <1>6, Zenon

-----------------------------------------------------------------------------

(* An endpoint that gets another owner or other_, and keeps its buffer. *)
SameBuffer(ep, new) ==
    new.size = ep.size /\ new.capacity = ep.capacity /\ new.data = ep.data

(* A change of owner or other_ keeps the buffers and what is in them. *)
LEMMA Relinked ==
    ASSUME OneChannel, NEW k \in Kernels, NEW e \in Ends, NEW new \in Endpoints,
           SameBuffer(k.elements[1][e], new)
    PROVE  /\ Replaced(k, e, new, k.heap) \in Kernels
           /\ Replaced(k, e, new, k.heap).elements[1][e] = new
           /\ Replaced(k, e, new, k.heap).elements[1][Other(e)] = k.elements[1][Other(e)]
           /\ Replaced(k, e, new, k.heap).size = k.size
           /\ Live(k) => Live(Replaced(k, e, new, k.heap))
           /\ \A f \in Ends : Keeps(k, Replaced(k, e, new, k.heap), f)
<1>. DEFINE ep == k.elements[1][e]
<1>1. PICK r : r = Replaced(k, e, new, k.heap)
    BY Zenon
<1>2. k.heap \in Heaps
    BY DEF Kernels
<1>3. /\ r \in Kernels /\ r.size = k.size /\ r.heap = k.heap /\ r.elements[1][e] = new
      /\ r.elements[1][Other(e)] = k.elements[1][Other(e)]
    <2>1. /\ Replaced(k, e, new, k.heap) \in Kernels
          /\ Replaced(k, e, new, k.heap).size = k.size
          /\ Replaced(k, e, new, k.heap).heap = k.heap
          /\ Replaced(k, e, new, k.heap).elements[1][e] = new
          /\ Replaced(k, e, new, k.heap).elements[1][Other(e)] = k.elements[1][Other(e)]
        BY <1>2, EndpointIsReplaced
    <2>. QED  BY <1>1, <2>1, Zenon
<1>4. PICK f : f = Other(e)
    BY Zenon
<1>5. f \in Ends /\ Ends = {e, f}
    BY <1>4, EndsDiffer, Zenon
<1>6. ASSUME Live(k) PROVE Live(r)
    <2>1. /\ k.size = 1 /\ Backed(k.heap, ep) /\ Backed(k.heap, k.elements[1][f])
          /\ DOMAIN k.heap = {ep.data, k.elements[1][f].data} \ {NoAddr}
          /\ ep.data = k.elements[1][f].data => ep.data = NoAddr
        BY <1>4, <1>5, <1>6, LiveElim, Zenon
    <2>2. Backed(r.heap, r.elements[1][e])
        BY <1>3, <2>1, Zenon DEF Backed, SameBuffer
    <2>3. /\ r.size = 1 /\ Backed(r.heap, r.elements[1][f])
          /\ DOMAIN r.heap = {r.elements[1][e].data, r.elements[1][f].data} \ {NoAddr}
          /\ r.elements[1][e].data = r.elements[1][f].data => r.elements[1][e].data = NoAddr
        BY <1>3, <1>4, <2>1, Zenon DEF SameBuffer
    <2>. QED  BY <1>3, <1>4, <1>5, <2>2, <2>3, LiveIntro, Zenon
<1>7. Keeps(k, r, e)
    BY <1>3, Zenon DEF Keeps, Contains, Bytes, SameBuffer
<1>8. Keeps(k, r, f)
    BY <1>3, <1>4, Zenon DEF Keeps
<1>9. \A x \in Ends : Keeps(k, r, x)
    BY <1>5, <1>7, <1>8, Zenon
<1>. QED  BY <1>1, <1>3, <1>6, <1>9, Zenon

(* Who has the ends once p has e. *)
Holding(h, e, p) == [h EXCEPT ![e] = p]

(* Holding changes who has e, and nothing else. *)
LEMMA Gives ==
    ASSUME NEW h \in Holders, NEW e \in Ends, NEW p \in Processes \cup {"closed"}
    PROVE  /\ Holding(h, e, p) \in Holders /\ Holding(h, e, p)[e] = p
           /\ Holding(h, e, p)[Other(e)] = h[Other(e)]
    BY DEF Holding, Holders, Ends, Other

(* SYS_TransferHandle of an open end. *)
SetOwner(k, e, p) == [k EXCEPT !.elements[1][e].owner = p]

(* SetOwner changes the owner of one endpoint. *)
LEMMA OwnerIsReplaced ==
    ASSUME OneChannel, NEW k \in Kernels, NEW e \in Ends, NEW p \in Processes
    PROVE  \E new \in Endpoints :
            /\ SetOwner(k, e, p) = Replaced(k, e, new, k.heap)
            /\ SameBuffer(k.elements[1][e], new)
            /\ new.owner = p /\ new.other = k.elements[1][e].other
<1>. DEFINE ep == k.elements[1][e]
            new == [ep EXCEPT !.owner = p]
<1>1. Slots = {1}
    BY OneSlot
<1>2. ep \in Endpoints
    BY <1>1 DEF Kernels
<1>3. /\ new \in Endpoints /\ new.owner = p /\ new.other = ep.other
      /\ new.size = ep.size /\ new.capacity = ep.capacity /\ new.data = ep.data
    BY <1>2 DEF Endpoints
<1>4. SetOwner(k, e, p) = Replaced(k, e, new, k.heap)
    BY Zenon DEF SetOwner, Replaced, Kernels
<1>. HIDE DEF new
<1>. QED  BY <1>3, <1>4, Zenon DEF SameBuffer

Unlinked(k, e) == [k EXCEPT !.elements[1][e].other = NoAddr]

(* Unlinked makes other_ of one endpoint null. *)
LEMMA OtherIsReplaced ==
    ASSUME OneChannel, NEW k \in Kernels, NEW e \in Ends
    PROVE  \E new \in Endpoints :
            /\ Unlinked(k, e) = Replaced(k, e, new, k.heap)
            /\ SameBuffer(k.elements[1][e], new)
            /\ new.owner = k.elements[1][e].owner /\ new.other = NoAddr
<1>. DEFINE ep == k.elements[1][e]
            new == [ep EXCEPT !.other = NoAddr]
<1>1. Slots = {1}
    BY OneSlot
<1>2. ep \in Endpoints
    BY <1>1 DEF Kernels
<1>3. /\ new \in Endpoints /\ new.owner = ep.owner /\ new.other = NoAddr
      /\ new.size = ep.size /\ new.capacity = ep.capacity /\ new.data = ep.data
    BY <1>2 DEF Endpoints
<1>4. Unlinked(k, e) = Replaced(k, e, new, k.heap)
    BY Zenon DEF Unlinked, Replaced, Kernels
<1>. HIDE DEF new
<1>. QED  BY <1>3, <1>4, Zenon DEF SameBuffer

(* A transferred end belongs to its new process; nothing is lost. *)
LEMMA TransferIsGood ==
    ASSUME OneChannel, NEW k, NEW h \in Holders, Good(k, h), NEW e \in Ends, h[e] # "closed",
           NEW p \in Processes
    PROVE  /\ Good(SetOwner(k, e, p), Holding(h, e, p))
           /\ \A f \in Ends : Keeps(k, SetOwner(k, e, p), f)
<1>1. k \in Kernels /\ Live(k) /\ k.elements[1][e].other = At(Other(e))
    BY GoodIsLive, Zenon
<1>2. PICK r : r = SetOwner(k, e, p)
    BY Zenon
<1>3. PICK g : g = Holding(h, e, p)
    BY Zenon
<1>4. PICK new \in Endpoints :
            /\ r = Replaced(k, e, new, k.heap)
            /\ SameBuffer(k.elements[1][e], new)
            /\ new.owner = p /\ new.other = k.elements[1][e].other
    <2>1. \E new \in Endpoints :
            /\ SetOwner(k, e, p) = Replaced(k, e, new, k.heap)
            /\ SameBuffer(k.elements[1][e], new)
            /\ new.owner = p /\ new.other = k.elements[1][e].other
        BY <1>1, OwnerIsReplaced
    <2>. QED  BY <1>2, <2>1, Zenon
<1>5. /\ r \in Kernels /\ Live(r) /\ r.elements[1][e] = new
      /\ r.elements[1][Other(e)] = k.elements[1][Other(e)]
      /\ \A f \in Ends : Keeps(k, r, f)
    BY <1>1, <1>4, Relinked, Zenon
<1>6. g[e] = p /\ g[Other(e)] = h[Other(e)] /\ p # "closed"
    <2>1. p # "closed"
        BY ChannelAssumption
    <2>2. Holding(h, e, p)[e] = p /\ Holding(h, e, p)[Other(e)] = h[Other(e)]
        <3>1. p \in Processes \cup {"closed"}
            BY Zenon
        <3>. QED  BY <3>1, Gives
    <2>. QED  BY <1>3, <2>1, <2>2, Zenon
<1>7. ASSUME NEW x \in Ends
      PROVE  /\ r.elements[1][x].other = IF g[x] = "closed" THEN NoAddr ELSE At(Other(x))
             /\ g[x] # "closed" => r.elements[1][x].owner = g[x]
    <2>1. CASE x = e
        BY <1>1, <1>4, <1>5, <1>6, <2>1, Zenon
    <2>2. CASE x = Other(e)
        BY <1>5, <1>6, <2>2, Zenon DEF Good
    <2>. QED  BY <2>1, <2>2, EndsDiffer, Zenon
<1>8. Good(r, g)
    <2>1. ~ \A x \in Ends : g[x] = "closed"
        BY <1>6, Zenon
    <2>. QED  BY <1>5, <1>7, <2>1, Zenon DEF Good
<1>. QED  BY <1>2, <1>3, <1>5, <1>8, Zenon

(* vector::erase of the only element. *)
LEMMA Erased ==
    ASSUME OneChannel, NEW k \in Kernels, Live(k)
    PROVE  /\ Erase(k, 1) \in Kernels /\ Erase(k, 1).elements = k.elements
           /\ Erase(k, 1).size = 0 /\ DOMAIN Erase(k, 1).heap = {}
<1>. DEFINE d1 == k.elements[1]["end1"].data
            d2 == k.elements[1]["end2"].data
<1>1. PICK h : h = free(free(k.heap, d1), d2)
    BY Zenon
<1>2. Slots = {1}
    BY OneSlot
<1>3. "end1" \in Ends /\ "end2" \in Ends /\ "end2" = Other("end1")
    BY DEF Ends, Other
<1>4. k.size = 1 /\ DOMAIN k.heap = {d1, d2} \ {NoAddr}
    BY <1>3, LiveElim, SMTT(30)
<1>5. DOMAIN h = {} /\ h \in Heaps
    <2>1. DOMAIN h = (DOMAIN k.heap \ {d1}) \ {d2}
        BY <1>1, Zenon DEF free
    <2>2. DOMAIN h = {}
        BY <1>4, <2>1, Zenon
    <2>3. h = [x \in {} |-> <<>>]
        BY <1>1, <2>2 DEF free
    <2>. QED  BY <2>2, <2>3 DEF Heaps
<1>6. k.elements \in [Slots -> [Ends -> Endpoints]]
    BY DEF Kernels
<1>7. [j \in Slots |-> IF j \in 1 .. k.size - 1 THEN k.elements[j + 1] ELSE k.elements[j]]
        = k.elements
    BY <1>2, <1>4, <1>6
<1>8. k.size - 1 = 0
    BY <1>4
<1>9. Erase(k, 1) = [elements |-> k.elements, size |-> 0, heap |-> h]
    BY <1>1, <1>7, <1>8, Zenon DEF Erase
<1>10. [elements |-> k.elements, size |-> 0, heap |-> h] \in Kernels
    BY <1>5, <1>6 DEF Kernels
<1>. QED  BY <1>5, <1>9, <1>10

(* Endpoint::Close of the only channel's open end. *)
LEMMA CloseUnlinks ==
    ASSUME NEW k, NEW e, k.size = 1, k.elements[1][e].other # NoAddr
    PROVE  Close(k, At(e)) = IF k.elements[1][Other(e)].other = NoAddr
                             THEN Erase(Unlinked(k, e), 1) ELSE Unlinked(k, e)
<1>1. PICK a : a = At(e)
    BY Zenon
<1>2. a.slot = 1 /\ a.end = e
    BY <1>1, AtSelects, Zenon
<1>3. 1 <= k.size
    OBVIOUS
<1>. QED  BY <1>1, <1>2, <1>3, Zenon DEF Close, EndAt, Unlinked

(* Closing one end leaves the other one and its contents; closing the second
   erases the channel. *)
LEMMA CloseIsGood ==
    ASSUME OneChannel, NEW k, NEW h \in Holders, Good(k, h), NEW e \in Ends, h[e] # "closed"
    PROVE  /\ Good(Close(k, At(e)), Holding(h, e, "closed"))
           /\ h[Other(e)] # "closed" => Keeps(k, Close(k, At(e)), Other(e))
<1>1. PICK f : f = Other(e)
    BY Zenon
<1>2. f \in Ends /\ Other(f) = e /\ f # e /\ Ends = {e, f}
    BY <1>1, EndsDiffer, Zenon
<1>3. k \in Kernels /\ Live(k) /\ k.size = 1 /\ k.elements[1][e].other = At(Other(e))
    BY GoodIsLive, ZenonT(90)
<1>4. At(f) # NoAddr /\ At(e) # NoAddr
    BY <1>2, AtIsAddress, Zenon
<1>5. PICK g : g = Holding(h, e, "closed")
    BY Zenon
<1>6. g[e] = "closed" /\ g[f] = h[f]
    <2>1. "closed" \in Processes \cup {"closed"}
        BY Zenon
    <2>2. Holding(h, e, "closed")[e] = "closed" /\ Holding(h, e, "closed")[Other(e)] = h[Other(e)]
        BY <2>1, Gives
    <2>. QED  BY <1>1, <1>5, <2>2, Zenon
<1>7. PICK m : m = Unlinked(k, e)
    BY Zenon
<1>8. PICK new \in Endpoints :
            /\ m = Replaced(k, e, new, k.heap)
            /\ SameBuffer(k.elements[1][e], new)
            /\ new.owner = k.elements[1][e].owner /\ new.other = NoAddr
    <2>1. \E new \in Endpoints :
            /\ Unlinked(k, e) = Replaced(k, e, new, k.heap)
            /\ SameBuffer(k.elements[1][e], new)
            /\ new.owner = k.elements[1][e].owner /\ new.other = NoAddr
        BY <1>3, OtherIsReplaced
    <2>. QED  BY <1>7, <2>1, Zenon
<1>9. /\ m \in Kernels /\ Live(m) /\ m.elements[1][e] = new
      /\ m.elements[1][f] = k.elements[1][f] /\ \A x \in Ends : Keeps(k, m, x)
    BY <1>1, <1>3, <1>8, Relinked, Zenon
<1>10. /\ m.elements[1][e].other = NoAddr
       /\ m.elements[1][f].other = IF g[f] = "closed" THEN NoAddr ELSE At(Other(f))
       /\ g[f] # "closed" => m.elements[1][f].owner = g[f]
    BY <1>2, <1>6, <1>8, <1>9, Zenon DEF Good
<1>11. PICK r : r = Close(k, At(e))
    BY Zenon
<1>12. r = IF k.elements[1][f].other = NoAddr THEN Erase(m, 1) ELSE m
    BY <1>1, <1>3, <1>4, <1>7, <1>11, CloseUnlinks, Zenon
<1>13. CASE h[f] = "closed"
    <2>1. k.elements[1][f].other = NoAddr
        BY <1>2, <1>13, Zenon DEF Good
    <2>2. r = Erase(m, 1)
        BY <1>12, <2>1, Zenon
    <2>3. r \in Kernels /\ r.elements = m.elements /\ r.size = 0 /\ DOMAIN r.heap = {}
        BY <1>9, <2>2, Erased, Zenon
    <2>4. \A x \in Ends : g[x] = "closed"
        BY <1>2, <1>6, <1>13, Zenon
    <2>5. \A x \in Ends : r.elements[1][x].other = IF g[x] = "closed" THEN NoAddr ELSE At(Other(x))
        BY <1>2, <1>10, <2>3, <2>4, Zenon
    <2>6. Good(r, g)
        BY <2>3, <2>4, <2>5, Zenon DEF Good
    <2>. QED  BY <1>1, <1>5, <1>11, <1>13, <2>6, Zenon
<1>14. CASE h[f] # "closed"
    <2>1. k.elements[1][f].other # NoAddr
        BY <1>2, <1>4, <1>14, Zenon DEF Good
    <2>2. r = m
        BY <1>12, <2>1, Zenon
    <2>3. ~ \A x \in Ends : g[x] = "closed"
        BY <1>2, <1>6, <1>14, Zenon
    <2>4. \A x \in Ends : m.elements[1][x].other = IF g[x] = "closed" THEN NoAddr ELSE At(Other(x))
        BY <1>2, <1>6, <1>10, Zenon
    <2>5. \A x \in Ends : g[x] # "closed" => m.elements[1][x].owner = g[x]
        BY <1>2, <1>6, <1>10, Zenon
    <2>6. Good(m, g)
        BY <1>9, <2>3, <2>4, <2>5, Zenon DEF Good
    <2>. QED  BY <1>1, <1>2, <1>5, <1>9, <1>11, <2>2, <2>6, Zenon
<1>. QED  BY <1>13, <1>14, Zenon

-----------------------------------------------------------------------------

(* The loop of CloseEndpointsOwnedByTask visits the only element once. *)
LEMMA LoopIsOneVisit ==
    ASSUME NEW k, k.size \in {0, 1}, NEW p
    PROVE  CloseEndpointsOwnedByTask(k, p) =
            IF k.size = 0 THEN k
            ELSE CloseOwned(CloseOwned(k, 1, "end1", p), 1, "end2", p)
<1>1. PICK start : start = [k |-> k, at |-> 1]
    BY Zenon
<1>. DEFINE IsScan(f) == f = [n \in 0 .. k.size |-> IF n = 0 THEN start ELSE Visit(f[n - 1], p)]
            scan == CHOOSE f : IsScan(f)
<1>2. \E f : IsScan(f)
    <2>1. PICK last : last = Visit(start, p)
        BY Zenon
    <2>2. PICK f : f = [n \in 0 .. k.size |-> IF n = 0 THEN start ELSE last]
        BY Zenon
    <2>3. \A n \in 0 .. k.size : n # 0 => f[n - 1] = start
        BY <2>2
    <2>4. f = [n \in 0 .. k.size |-> IF n = 0 THEN start ELSE Visit(f[n - 1], p)]
        BY <2>1, <2>2, <2>3, Zenon
    <2>. QED  BY <2>4, Zenon
<1>3. IsScan(scan)
    BY <1>2, Zenon
<1>4. CloseEndpointsOwnedByTask(k, p) = scan[k.size].k
    BY <1>1, Zenon DEF CloseEndpointsOwnedByTask
<1>. HIDE DEF scan
<1>5. scan[0] = start /\ (k.size = 1 => scan[1] = Visit(start, p))
    <2>1. \A n \in 0 .. k.size : scan[n] = IF n = 0 THEN start ELSE Visit(scan[n - 1], p)
        BY <1>3, Zenon
    <2>. HIDE DEF IsScan
    <2>2. 0 \in 0 .. k.size /\ (k.size = 1 => 1 \in 0 .. k.size /\ 1 - 1 = 0 /\ 1 # 0)
        OBVIOUS
    <2>. QED  BY <2>1, <2>2, Zenon
<1>6. start.k = k /\ start.at = 1
    BY <1>1
<1>7. CASE k.size = 0
    BY <1>4, <1>5, <1>6, <1>7, Zenon
<1>8. CASE k.size = 1
    <2>1. ~ start.at > start.k.size
        BY <1>6, <1>8
    <2>2. PICK closed : closed = CloseOwned(CloseOwned(k, 1, "end1", p), 1, "end2", p)
        BY Zenon
    <2>3. Visit(start, p) = [k |-> closed, at |-> IF closed.size < start.k.size
                                                  THEN start.at ELSE start.at + 1]
        BY <1>6, <2>1, <2>2, Zenon DEF Visit
    <2>4. Visit(start, p).k = closed
        BY <2>3
    <2>5. k.size # 0
        BY <1>8
    <2>. QED  BY <1>4, <1>5, <1>8, <2>2, <2>4, <2>5, Zenon
<1>. QED  BY <1>7, <1>8, Zenon

(* Holding what one has changes nothing. *)
LEMMA HoldsOn ==
    ASSUME NEW h \in Holders, NEW e \in Ends
    PROVE  Holding(h, e, h[e]) = h
    BY DEF Holding, Holders

(* What an end is for once p has ended. *)
AfterEnd(h, e, p) == IF h[e] = p THEN "closed" ELSE h[e]

(* CloseOwned closes end e if p has it.  An end that was closed still has its
   last owner, and is not closed again. *)
LEMMA CloseOwnedIsGood ==
    ASSUME OneChannel, NEW k, NEW h \in Holders, Good(k, h), NEW e \in Ends, NEW p \in Processes
    PROVE  /\ Good(CloseOwned(k, 1, e, p), Holding(h, e, AfterEnd(h, e, p)))
           /\ \A f \in Ends : Holding(h, e, AfterEnd(h, e, p))[f] # "closed" =>
                                Keeps(k, CloseOwned(k, 1, e, p), f)
<1>1. p # "closed"
    BY ChannelAssumption
<1>2. PICK r : r = CloseOwned(k, 1, e, p)
    BY Zenon
<1>3. r = IF k.elements[1][e].owner = p THEN Close(k, At(e)) ELSE k
    BY <1>2, Zenon DEF CloseOwned, At
<1>4. CASE h[e] = p
    <2>1. k.elements[1][e].owner = p
        BY <1>1, <1>4, GoodIsLive, Zenon
    <2>2. r = Close(k, At(e)) /\ AfterEnd(h, e, p) = "closed"
        BY <1>3, <1>4, <2>1, Zenon DEF AfterEnd
    <2>3. /\ Good(r, Holding(h, e, "closed"))
          /\ h[Other(e)] # "closed" => Keeps(k, r, Other(e))
        BY <1>1, <1>4, <2>2, CloseIsGood, Zenon
    <2>4. PICK g : g = Holding(h, e, "closed")
        BY Zenon
    <2>5. g[e] = "closed" /\ g[Other(e)] = h[Other(e)]
        <3>1. "closed" \in Processes \cup {"closed"}
            BY Zenon
        <3>2. Holding(h, e, "closed")[e] = "closed" /\ Holding(h, e, "closed")[Other(e)] = h[Other(e)]
            BY <3>1, Gives
        <3>. QED  BY <2>4, <3>2, Zenon
    <2>6. \A f \in Ends : f = e \/ f = Other(e)
        BY EndsDiffer, Zenon
    <2>7. \A f \in Ends : g[f] # "closed" => Keeps(k, r, f)
        BY <2>3, <2>5, <2>6, Zenon
    <2>. QED  BY <1>2, <2>2, <2>3, <2>4, <2>7, Zenon
<1>5. CASE h[e] # p
    <2>1. r = k
        <3>1. CASE h[e] = "closed"
            <4>1. k.elements[1][e].other = NoAddr
                BY <3>1, Zenon DEF Good
            <4>2. Close(k, At(e)) = k
                BY <4>1, AtSelects, ZenonT(90) DEF Close
            <4>. QED  BY <1>3, <4>2, Zenon
        <3>2. CASE h[e] # "closed"
            BY <1>3, <1>5, <3>2, GoodIsLive, Zenon
        <3>. QED  BY <3>1, <3>2, Zenon
    <2>2. Holding(h, e, AfterEnd(h, e, p)) = h
        BY <1>5, HoldsOn, Zenon DEF AfterEnd
    <2>. QED  BY <1>2, <2>1, <2>2, Zenon DEF Keeps
<1>. QED  BY <1>4, <1>5, Zenon

(* Contents kept twice are kept. *)
LEMMA KeepsIsTransitive ==
    ASSUME NEW k, NEW m, NEW r, NEW e, Keeps(k, m, e), Keeps(m, r, e)
    PROVE  Keeps(k, r, e)
    BY Zenon DEF Keeps

(* Who has the ends once p has ended. *)
Ended(h, p) == [e \in Ends |-> AfterEnd(h, e, p)]

(* The end of p, as the loop does it: first one end, then the other. *)
LEMMA EndedInTwoSteps ==
    ASSUME NEW h \in Holders, NEW p \in Processes,
           NEW g, g = Holding(h, "end1", AfterEnd(h, "end1", p)),
           NEW u, u = Holding(g, "end2", AfterEnd(g, "end2", p))
    PROVE  /\ g \in Holders /\ u = Ended(h, p)
           /\ \A f \in Ends : u[f] # "closed" => g[f] # "closed"
<1>1. "end1" \in Ends /\ "end2" \in Ends /\ Other("end1") = "end2" /\ Other("end2") = "end1"
    BY DEF Ends, Other
<1>2. \A f \in Ends : h[f] \in Processes \cup {"closed"}
    BY DEF Holders
<1>3. AfterEnd(h, "end1", p) \in Processes \cup {"closed"}
    BY <1>1, <1>2, Zenon DEF AfterEnd
<1>4. g \in Holders /\ g["end1"] = AfterEnd(h, "end1", p) /\ g["end2"] = h["end2"]
    <2>1. /\ Holding(h, "end1", AfterEnd(h, "end1", p)) \in Holders
          /\ Holding(h, "end1", AfterEnd(h, "end1", p))["end1"] = AfterEnd(h, "end1", p)
          /\ Holding(h, "end1", AfterEnd(h, "end1", p))[Other("end1")] = h[Other("end1")]
        BY <1>1, <1>3, Gives
    <2>. QED  BY <1>1, <2>1, Zenon
<1>5. AfterEnd(g, "end2", p) = AfterEnd(h, "end2", p)
    BY <1>4, Zenon DEF AfterEnd
<1>6. AfterEnd(g, "end2", p) \in Processes \cup {"closed"}
    BY <1>1, <1>2, <1>5, Zenon DEF AfterEnd
<1>7. u \in Holders /\ u["end1"] = g["end1"] /\ u["end2"] = AfterEnd(h, "end2", p)
    <2>1. /\ Holding(g, "end2", AfterEnd(g, "end2", p)) \in Holders
          /\ Holding(g, "end2", AfterEnd(g, "end2", p))["end2"] = AfterEnd(g, "end2", p)
          /\ Holding(g, "end2", AfterEnd(g, "end2", p))[Other("end2")] = g[Other("end2")]
        BY <1>1, <1>4, <1>6, Gives
    <2>. QED  BY <1>1, <1>5, <2>1, Zenon
<1>8. \A f \in Ends : u[f] = AfterEnd(h, f, p)
    BY <1>4, <1>7, Zenon DEF Ends
<1>9. u = Ended(h, p)
    <2>1. u = [f \in Ends |-> u[f]]
        BY <1>7 DEF Holders
    <2>. QED  BY <1>8, <2>1, Zenon DEF Ended
<1>10. \A f \in Ends : u[f] # "closed" => g[f] # "closed"
    BY <1>4, <1>7, Zenon DEF Ends, AfterEnd
<1>. QED  BY <1>4, <1>9, <1>10, Zenon

(* ~Task. *)
LEMMA EndIsGood ==
    ASSUME OneChannel, NEW k, NEW h \in Holders, Good(k, h), NEW p \in Processes
    PROVE  /\ Good(CloseEndpointsOwnedByTask(k, p), Ended(h, p))
           /\ \A f \in Ends : Ended(h, p)[f] # "closed" =>
                                Keeps(k, CloseEndpointsOwnedByTask(k, p), f)
<1>1. PICK r : r = CloseEndpointsOwnedByTask(k, p)
    BY Zenon
<1>2. CASE \A e \in Ends : h[e] = "closed"
    <2>1. k.size = 0
        BY <1>2, Zenon DEF Good
    <2>2. r = k
        BY <1>1, <2>1, LoopIsOneVisit
    <2>3. p # "closed"
        BY ChannelAssumption
    <2>4. \A e \in Ends : AfterEnd(h, e, p) = h[e]
        BY <1>2, <2>3, Zenon DEF AfterEnd
    <2>5. h = [e \in Ends |-> h[e]]
        BY DEF Holders
    <2>6. Ended(h, p) = h
        BY <2>4, <2>5, Zenon DEF Ended
    <2>. QED  BY <1>1, <2>2, <2>6, Zenon DEF Keeps
<1>3. CASE ~ \A e \in Ends : h[e] = "closed"
    <2>1. k.size = 1
        BY <1>3, Zenon DEF Good, Live
    <2>2. PICK m : m = CloseOwned(k, 1, "end1", p)
        BY Zenon
    <2>3. r = CloseOwned(m, 1, "end2", p)
        BY <1>1, <2>1, <2>2, LoopIsOneVisit
    <2>4. PICK g : g = Holding(h, "end1", AfterEnd(h, "end1", p))
        BY Zenon
    <2>5. PICK u : u = Holding(g, "end2", AfterEnd(g, "end2", p))
        BY Zenon
    <2>6. g \in Holders /\ u = Ended(h, p) /\ \A f \in Ends : u[f] # "closed" => g[f] # "closed"
        BY <2>4, <2>5, EndedInTwoSteps, Zenon
    <2>7. "end1" \in Ends /\ "end2" \in Ends
        BY DEF Ends
    <2>8. Good(m, g) /\ \A f \in Ends : g[f] # "closed" => Keeps(k, m, f)
        BY <2>2, <2>4, <2>7, CloseOwnedIsGood, Zenon
    <2>9. Good(r, u) /\ \A f \in Ends : u[f] # "closed" => Keeps(m, r, f)
        BY <2>3, <2>5, <2>6, <2>7, <2>8, CloseOwnedIsGood, Zenon
    <2>10. \A f \in Ends : u[f] # "closed" => Keeps(k, r, f)
        BY <2>6, <2>8, <2>9, KeepsIsTransitive, Zenon
    <2>. QED  BY <1>1, <2>6, <2>9, <2>10, Zenon
<1>. QED  BY <1>2, <1>3, Zenon

-----------------------------------------------------------------------------

(* SYS_ChannelCreate with no channel in the vector. *)
EmptyBuffer == [j \in 1 .. kDefaultCapacity |-> Junk]
Created(k, p) ==
    LET m1 == malloc(k.heap, EmptyBuffer)
        m2 == malloc(m1.heap, EmptyBuffer)
    IN  [elements |-> [k.elements EXCEPT ![1] =
                          [e \in Ends |-> NewEnd(IF e = "end1" THEN m1.addr ELSE m2.addr,
                                                 p, At(Other(e)))]],
         size |-> 1, heap |-> m2.heap]

(* The buffer of a new Endpoint. *)
LEMMA EmptyBufferHasCapacity ==
    EmptyBuffer \in Seq(Nat) /\ Len(EmptyBuffer) = kDefaultCapacity
    BY ChannelAssumption DEF EmptyBuffer, Junk

HasRoom(h) == \E b \in Buffers : b \notin DOMAIN h
IsExtended(new, h, bytes) ==
    /\ new.addr \in Buffers /\ new.addr \notin DOMAIN h
    /\ new.heap = [x \in DOMAIN h \cup {new.addr} |-> IF x = new.addr THEN bytes ELSE h[x]]

(* malloc adds one buffer to the heap. *)
LEMMA MallocExtends ==
    ASSUME NEW h, NEW bytes, HasRoom(h)
    PROVE  IsExtended(malloc(h, bytes), h, bytes)
<1>1. PICK b : b = CHOOSE x \in Buffers : x \notin DOMAIN h
    BY Zenon
<1>2. b \in Buffers /\ b \notin DOMAIN h
    BY <1>1, Zenon DEF HasRoom
<1>3. PICK g : g = [x \in DOMAIN h \cup {b} |-> IF x = b THEN bytes ELSE h[x]]
    BY Zenon
<1>4. malloc(h, bytes) = [addr |-> b, heap |-> g]
    BY <1>1, <1>3, Zenon DEF malloc
<1>5. malloc(h, bytes).addr = b /\ malloc(h, bytes).heap = g
    BY <1>4
<1>. QED  BY <1>2, <1>3, <1>5, Zenon DEF IsExtended

(* The constructors of two Endpoints get a buffer each. *)
LEMMA TwoMallocs ==
    ASSUME OneChannel, NEW h, DOMAIN h = {}
    PROVE  LET m1 == malloc(h, EmptyBuffer)
               m2 == malloc(m1.heap, EmptyBuffer)
           IN  /\ m1.addr \in Buffers /\ m2.addr \in Buffers /\ m1.addr # m2.addr
               /\ m2.heap \in Heaps /\ DOMAIN m2.heap = {m1.addr, m2.addr}
               /\ m2.heap[m1.addr] = EmptyBuffer /\ m2.heap[m2.addr] = EmptyBuffer
<1>1. PICK e : e = EmptyBuffer
    BY Zenon
<1>2. PICK m1 : m1 = malloc(h, e)
    BY Zenon
<1>3. PICK m2 : m2 = malloc(m1.heap, e)
    BY Zenon
<1>4. Buffers = 1 .. 5
    BY OneSlot
<1>5. HasRoom(h)
    BY <1>4 DEF HasRoom
<1>6. IsExtended(m1, h, e)
    BY <1>2, <1>5, MallocExtends, Zenon
<1>. DEFINE b1 == m1.addr
            b2 == m2.addr
<1>7. b1 \in Buffers /\ DOMAIN m1.heap = {b1} /\ m1.heap[b1] = e
    BY <1>6 DEF IsExtended
<1>8. HasRoom(m1.heap)
    BY <1>4, <1>7 DEF HasRoom
<1>9. IsExtended(m2, m1.heap, e)
    BY <1>3, <1>8, MallocExtends, Zenon
<1>10. PICK g : g = m1.heap
    BY Zenon
<1>11. DOMAIN g = {b1} /\ g[b1] = e
    BY <1>7, <1>10, Zenon
<1>12. /\ b1 # b2 /\ b2 \in Buffers
       /\ m2.heap = [x \in DOMAIN g \cup {b2} |-> IF x = b2 THEN e ELSE g[x]]
    BY <1>9, <1>10, <1>11, Zenon DEF IsExtended
<1>13. DOMAIN m2.heap = {b1, b2} /\ m2.heap[b1] = e /\ m2.heap[b2] = e
    BY <1>11, <1>12
<1>14. m2.heap = [x \in {b1, b2} |-> e]
    BY <1>11, <1>12
<1>15. e \in Seq(Nat)
    BY <1>1, EmptyBufferHasCapacity, Zenon
<1>16. m2.heap \in Heaps
    <2>1. m2.heap \in [{b1, b2} -> Seq(Nat)]
        BY <1>14, <1>15, Zenon
    <2>2. {b1, b2} \in SUBSET Buffers
        BY <1>7, <1>12, Zenon
    <2>. QED  BY <2>1, <2>2, HeapsAreFunctions, Zenon
<1>. QED  BY <1>1, <1>2, <1>3, <1>7, <1>12, <1>13, <1>16, Zenon

(* A new channel is in order, and empty. *)
LEMMA CreateIsGood ==
    ASSUME OneChannel, NEW k, NEW h \in Holders, Good(k, h), \A e \in Ends : h[e] = "closed",
           NEW p \in Processes
    PROVE  /\ Good(Created(k, p), [e \in Ends |-> p])
           /\ \A e \in Ends : Contains(Created(k, p).heap, Created(k, p).elements[1][e], <<>>)
<1>1. k \in Kernels /\ DOMAIN k.heap = {}
    BY Zenon DEF Good
<1>2. PICK m1 : m1 = malloc(k.heap, EmptyBuffer)
    BY Zenon
<1>3. PICK m2 : m2 = malloc(m1.heap, EmptyBuffer)
    BY Zenon
<1>4. PICK b1, b2, hp : b1 = m1.addr /\ b2 = m2.addr /\ hp = m2.heap
    BY Zenon
<1>5. /\ b1 \in Buffers /\ b2 \in Buffers /\ b1 # b2
      /\ hp \in Heaps /\ DOMAIN hp = {b1, b2}
      /\ hp[b1] = EmptyBuffer /\ hp[b2] = EmptyBuffer
    BY <1>1, <1>2, <1>3, <1>4, TwoMallocs, Zenon
<1>6. PICK els : els = [e \in Ends |-> NewEnd(IF e = "end1" THEN b1 ELSE b2, p, At(Other(e)))]
    BY Zenon
<1>7. PICK all : all = [k.elements EXCEPT ![1] = els]
    BY Zenon
<1>8. PICK r : r = Created(k, p)
    BY Zenon
<1>9. r = [elements |-> all, size |-> 1, heap |-> hp]
    BY <1>2, <1>3, <1>4, <1>6, <1>7, <1>8, Zenon DEF Created
<1>10. b1 # NoAddr /\ b2 # NoAddr
    BY <1>5, NullIsNoAddress
<1>11. ASSUME NEW e \in Ends, NEW b \in {b1, b2}, NEW ep, ep = NewEnd(b, p, At(Other(e)))
       PROVE  /\ ep \in Endpoints /\ ep.other = At(Other(e)) /\ ep.size = 0 /\ ep.owner = p
              /\ ep.capacity = kDefaultCapacity /\ ep.data = b
    <2>1. At(Other(e)) \in Addresses
        BY EndsDiffer, AtIsAddress, Zenon
    <2>2. b \in Buffers
        BY <1>5, Zenon
    <2>3. PICK a : a = At(Other(e))
        BY Zenon
    <2>. QED  BY <1>11, <2>1, <2>2, <2>3, ChannelAssumption DEF NewEnd, Endpoints
<1>12. ASSUME NEW e \in Ends
       PROVE  /\ els[e] \in Endpoints /\ els[e].other = At(Other(e)) /\ els[e].size = 0
              /\ els[e].owner = p /\ els[e].capacity = kDefaultCapacity
              /\ els[e].data = IF e = "end1" THEN b1 ELSE b2
    <2>1. PICK b : b = IF e = "end1" THEN b1 ELSE b2
        BY Zenon
    <2>2. b \in {b1, b2} /\ els[e] = NewEnd(b, p, At(Other(e)))
        BY <1>6, <2>1, Zenon
    <2>. QED  BY <1>11, <2>1, <2>2, Zenon
<1>13. els \in [Ends -> Endpoints]
    <2>1. els = [e \in Ends |-> els[e]]
        BY <1>6
    <2>. QED  BY <1>12, <2>1, Zenon
<1>14. all \in [Slots -> [Ends -> Endpoints]] /\ all[1] = els
    <2>1. k.elements \in [Slots -> [Ends -> Endpoints]]
        BY <1>1 DEF Kernels
    <2>2. 1 \in Slots
        BY OneSlot
    <2>. QED  BY <1>7, <1>13, <2>1, <2>2, Zenon
<1>15. r \in Kernels /\ r.size = 1 /\ r.heap = hp /\ r.elements[1] = els
    <2>1. r \in Kernels
        BY <1>5, <1>9, <1>14 DEF Kernels
    <2>2. r.size = 1 /\ r.heap = hp /\ r.elements = all
        BY <1>9
    <2>. QED  BY <1>14, <2>1, <2>2, Zenon
<1>16. ASSUME NEW e \in Ends
       PROVE  Backed(hp, els[e])
    <2>1. els[e].data \in {b1, b2}
        BY <1>12, Zenon
    <2>2. Len(hp[els[e].data]) = kDefaultCapacity /\ els[e].data \in DOMAIN hp /\ els[e].data # NoAddr
        BY <1>5, <1>10, <2>1, EmptyBufferHasCapacity, Zenon
    <2>3. 0 <= kDefaultCapacity
        BY ChannelAssumption
    <2>. QED  BY <1>12, <2>2, <2>3, Zenon DEF Backed
<1>17. Live(r)
    <2>1. "end1" \in Ends /\ "end2" \in Ends /\ "end2" = Other("end1") /\ "end2" # "end1"
        BY DEF Ends, Other
    <2>2. els["end1"].data = b1 /\ els["end2"].data = b2
        BY <1>12, <2>1, Zenon
    <2>3. DOMAIN hp = {b1, b2} \ {NoAddr}
        BY <1>5, <1>10, Zenon
    <2>4. DOMAIN r.heap = {r.elements[1]["end1"].data, r.elements[1]["end2"].data} \ {NoAddr}
        BY <1>15, <2>2, <2>3, Zenon
    <2>5. Backed(r.heap, r.elements[1]["end1"]) /\ Backed(r.heap, r.elements[1]["end2"])
        BY <1>15, <1>16, <2>1, Zenon
    <2>6. r.elements[1]["end1"].data # r.elements[1]["end2"].data
        BY <1>5, <1>15, <2>2, Zenon
    <2>. QED  BY <1>15, <2>1, <2>4, <2>5, <2>6, LiveIntro
<1>18. Good(r, [e \in Ends |-> p])
    <2>1. PICK g : g = [e \in Ends |-> p]
        BY Zenon
    <2>2. p # "closed"
        BY ChannelAssumption
    <2>3. \A e \in Ends : g[e] = p
        BY <2>1, Zenon
    <2>4. "end1" \in Ends
        BY DEF Ends
    <2>5. ~ \A e \in Ends : g[e] = "closed"
        BY <2>2, <2>3, <2>4, Zenon
    <2>6. \A e \in Ends : /\ r.elements[1][e].other = IF g[e] = "closed" THEN NoAddr ELSE At(Other(e))
                          /\ r.elements[1][e].owner = g[e]
        BY <1>12, <1>15, <2>2, <2>3, Zenon
    <2>7. Good(r, g)
        BY <1>15, <1>17, <2>5, <2>6, Zenon DEF Good
    <2>. QED  BY <2>1, <2>7, Zenon
<1>19. ASSUME NEW e \in Ends
       PROVE  Contains(r.heap, r.elements[1][e], <<>>)
    <2>1. r.elements[1][e].size = 0
        BY <1>12, <1>15, Zenon
    <2>2. <<>> \in Seq(Nat) /\ Len(<<>>) = 0 /\ \A i \in 1 .. 0 : FALSE
        OBVIOUS
    <2>. QED  BY <2>1, <2>2, Zenon DEF Contains
<1>. QED  BY <1>8, <1>18, <1>19, Zenon

-----------------------------------------------------------------------------

(* Queues that agree at both ends are equal. *)
LEMMA SameQueues ==
    ASSUME NEW c, Channels = {c},
           NEW q \in [Channels -> [Ends -> Seq(Nat)]], NEW r \in [Channels -> [Ends -> Seq(Nat)]],
           \A e \in Ends : r[c][e] = q[c][e]
    PROVE  r = q
<1>1. r[c] = q[c]
    <2>1. q[c] = [e \in Ends |-> q[c][e]] /\ r[c] = [e \in Ends |-> r[c][e]]
        OBVIOUS
    <2>. QED  BY <2>1, Zenon
<1>2. q = [x \in Channels |-> q[x]] /\ r = [x \in Channels |-> r[x]]
    OBVIOUS
<1>. QED  BY <1>1, <1>2, Zenon

Set(q, c, e, v) == [q EXCEPT ![c][e] = v]

(* Queues that differ at one end. *)
LEMMA QueueIsSet ==
    ASSUME NEW c, Channels = {c}, NEW e \in Ends, NEW v \in Seq(Nat),
           NEW q \in [Channels -> [Ends -> Seq(Nat)]], NEW r \in [Channels -> [Ends -> Seq(Nat)]],
           r[c][e] = v, r[c][Other(e)] = q[c][Other(e)]
    PROVE  r = Set(q, c, e, v)
<1>1. PICK s : s = Set(q, c, e, v)
    BY Zenon
<1>2. /\ s \in [Channels -> [Ends -> Seq(Nat)]] /\ s[c][e] = v
      /\ s[c][Other(e)] = q[c][Other(e)]
    BY <1>1, EndsDiffer DEF Set
<1>3. \A f \in Ends : r[c][f] = s[c][f]
    BY <1>2, EndsDiffer, Zenon
<1>4. r = s
    BY <1>2, <1>3, SameQueues, SMTT(30)
<1>. QED  BY <1>1, <1>4, Zenon

(* The queues of PrivateChannels that Private maps the kernel to. *)
QueueOf(k, a) ==
    IF a = NoAddr THEN <<>> ELSE SubSeq(Bytes(k.heap, EndAt(k, a)), 1, EndAt(k, a).size)
Queues(k, hd) ==
    [c \in Channels |-> [e \in Ends |->
        IF hd[c][e] = NoAddr THEN <<>>
        ELSE SubSeq(Bytes(k.heap, EndAt(k, hd[c][e])), 1, EndAt(k, hd[c][e]).size)]]

(* The queues are typed, empty at closed ends, and what is in the open ones. *)
Hold(q, c, k, hh) ==
    /\ q \in [Channels -> [Ends -> Seq(Nat)]]
    /\ \A e \in Ends :
        /\ hh[c][e] = "closed" => q[c][e] = <<>>
        /\ hh[c][e] # "closed" =>
            \A x : Contains(k.heap, k.elements[1][e], x) <=> x = q[c][e]

(* The queues are what is in the endpoints. *)
LEMMA QueuesHoldContents ==
    ASSUME OneChannel, NEW c, Channels = {c}, NEW k, NEW hd, NEW hh, Consistent(k, hd, hh)
    PROVE  Hold(Queues(k, hd), c, k, hh)
<1>1. c \in Channels
    BY Zenon
<1>2. Good(k, hh[c]) /\ \A e \in Ends : hd[c][e] = IF hh[c][e] = "closed" THEN NoAddr ELSE At(e)
    BY <1>1, Zenon DEF Consistent
<1>3. \A e \in Ends : Queues(k, hd)[c][e] = QueueOf(k, hd[c][e])
    BY <1>1, Zenon DEF Queues, QueueOf
<1>4. ASSUME NEW e \in Ends, hh[c][e] = "closed"
      PROVE  QueueOf(k, hd[c][e]) = <<>>
    BY <1>2, <1>4, Zenon DEF QueueOf
<1>5. ASSUME NEW e \in Ends, hh[c][e] # "closed"
      PROVE  \A q : Contains(k.heap, k.elements[1][e], q) <=> q = QueueOf(k, hd[c][e])
    <2>1. hd[c][e] = At(e) /\ At(e) # NoAddr
        BY <1>2, <1>5, AtIsAddress, Zenon
    <2>2. PICK s : s = SubSeq(Bytes(k.heap, k.elements[1][e]), 1, k.elements[1][e].size)
        BY Zenon
    <2>3. QueueOf(k, hd[c][e]) = s
        <3>1. EndAt(k, hd[c][e]) = k.elements[1][e] /\ hd[c][e] # NoAddr
            <4>1. EndAt(k, At(e)) = k.elements[1][e]
                BY AtSelects, Zenon
            <4>. QED  BY <2>1, <4>1, Zenon
        <3>. QED  BY <2>2, <3>1, Zenon DEF QueueOf
    <2>4. k \in Kernels /\ Live(k)
        BY <1>2, <1>5, GoodIsLive, Zenon
    <2>5. \A q : Contains(k.heap, k.elements[1][e], q) <=> q = s
        BY <2>2, <2>4, SomethingIsContained, Zenon
    <2>. QED  BY <2>3, <2>5, Zenon
<1>6. ASSUME NEW e \in Ends
      PROVE  QueueOf(k, hd[c][e]) \in Seq(Nat)
    <2>1. <<>> \in Seq(Nat)
        OBVIOUS
    <2>. QED  BY <1>4, <1>5, <2>1, Zenon DEF Contains
<1>7. Queues(k, hd) \in [Channels -> [Ends -> Seq(Nat)]]
    <2>1. Queues(k, hd) = [x \in Channels |-> [e \in Ends |-> QueueOf(k, hd[x][e])]]
        BY Zenon DEF Queues, QueueOf
    <2>2. \A x \in Channels : \A e \in Ends : QueueOf(k, hd[x][e]) \in Seq(Nat)
        BY <1>6, Zenon
    <2>. QED  BY <2>1, <2>2, SMTT(30)
<1>. QED  BY <1>3, <1>4, <1>5, <1>7, Zenon DEF Hold

(* An end that is open before and after, and keeps what is in it. *)
LEMMA QueueIsKept ==
    ASSUME NEW c, NEW q, NEW k, NEW hh, Hold(q, c, k, hh),
           NEW r, NEW rk, NEW rh, Hold(r, c, rk, rh),
           NEW e \in Ends, hh[c][e] # "closed", rh[c][e] # "closed", Keeps(k, rk, e)
    PROVE  r[c][e] = q[c][e]
<1>1. Contains(k.heap, k.elements[1][e], q[c][e])
    BY Zenon DEF Hold
<1>2. Contains(rk.heap, rk.elements[1][e], q[c][e])
    BY <1>1, Zenon DEF Keeps
<1>. QED  BY <1>2, Zenon DEF Hold

-----------------------------------------------------------------------------

(* Consistent, for the only channel. *)
LEMMA ConsistentIntro ==
    ASSUME NEW c, Channels = {c}, NEW k, NEW hh \in [Channels -> Holders],
           NEW hd \in [Channels -> [Ends -> Addresses \cup {NoAddr}]], NEW g, hh[c] = g,
           Good(k, g), \A e \in Ends : hd[c][e] = IF g[e] = "closed" THEN NoAddr ELSE At(e)
    PROVE  Consistent(k, hd, hh)
    BY Zenon DEF Consistent

(* Before the first channel is created. *)
LEMMA InitIsConsistent ==
    ASSUME OneChannel, Init
    PROVE  ChannelInv
<1>1. PICK c : Channels = {c}
    BY DEF OneChannel
<1>2. PICK ep : ep = NewEnd(NoAddr, NoAddr, NoAddr)
    BY Zenon
<1>3. ep \in Endpoints /\ ep.other = NoAddr
    BY <1>2, ChannelAssumption DEF NewEnd, Endpoints
<1>4. PICK els, hp : els = [i \in Slots |-> [e \in Ends |-> ep]] /\ hp = [b \in {} |-> <<>>]
    BY Zenon
<1>5. kernel = [elements |-> els, size |-> 0, heap |-> hp]
    BY <1>2, <1>4, Zenon DEF Init
<1>6. hp \in Heaps /\ DOMAIN hp = {}
    <2>1. hp \in [{} -> Seq(Nat)]
        BY <1>4, Zenon
    <2>2. {} \in SUBSET Buffers
        BY Zenon
    <2>. QED  BY <2>1, <2>2, HeapsAreFunctions, Zenon
<1>7. els \in [Slots -> [Ends -> Endpoints]] /\ \A e \in Ends : els[1][e] = ep
    BY <1>3, <1>4, OneSlot
<1>8. kernel \in Kernels /\ kernel.elements = els /\ kernel.size = 0 /\ kernel.heap = hp
    BY <1>5, <1>6, <1>7 DEF Kernels
<1>9. PICK g : g = [e \in Ends |-> "closed"]
    BY Zenon
<1>10. g \in Holders /\ \A e \in Ends : g[e] = "closed"
    BY <1>9 DEF Holders
<1>11. Good(kernel, g)
    BY <1>3, <1>6, <1>7, <1>8, <1>10, Zenon DEF Good
<1>12. has \in [Channels -> Holders] /\ has[c] = g
    BY <1>1, <1>9, <1>10, Zenon DEF Init
<1>13. /\ handle \in [Channels -> [Ends -> Addresses \cup {NoAddr}]]
       /\ \A e \in Ends : handle[c][e] = NoAddr
    BY <1>1 DEF Init
<1>14. \A e \in Ends : handle[c][e] = IF g[e] = "closed" THEN NoAddr ELSE At(e)
    BY <1>10, <1>13, Zenon
<1>. QED  BY <1>1, <1>11, <1>12, <1>13, <1>14, ConsistentIntro, Zenon DEF ChannelInv

(* Nothing but the kernel changes, and it stays good. *)
LEMMA OnlyKernel ==
    ASSUME OneChannel, NEW c, Channels = {c}, ChannelInv, Good(kernel', has[c]),
           UNCHANGED <<handle, has>>
    PROVE  ChannelInv'
<1>1. Consistent(kernel, handle, has)
    BY Zenon DEF ChannelInv
<1>2. Consistent(kernel', handle, has)
    BY <1>1, Zenon DEF Consistent
<1>. QED  BY <1>2, Zenon DEF ChannelInv

(* The handle of an open end is its address. *)
LEMMA OpenEnd ==
    ASSUME NEW c, Channels = {c}, ChannelInv, NEW e \in Ends, handle[c][e] # NoAddr
    PROVE  /\ c \in Channels /\ has[c] \in Holders /\ Good(kernel, has[c])
           /\ handle[c][e] = At(e) /\ has[c][e] # "closed"
<1>1. c \in Channels
    BY Zenon
<1>2. /\ has \in [Channels -> Holders] /\ Good(kernel, has[c])
      /\ handle[c][e] = IF has[c][e] = "closed" THEN NoAddr ELSE At(e)
    BY <1>1, Zenon DEF ChannelInv, Consistent
<1>3. has[c] \in Holders
    BY <1>1, <1>2, Zenon
<1>. QED  BY <1>1, <1>2, <1>3, Zenon

(* SYS_ChannelWrite appends to the queue of the other end, if that is open. *)
LEMMA WriteStep ==
    ASSUME OneChannel, NEW c, Channels = {c}, ChannelInv,
           NEW e \in Ends, NEW bytes \in Payloads, ChannelWrite(c, e, bytes)
    PROVE  /\ ChannelInv'
           /\ Private!Write(c, e, bytes)
<1>1. PICK f : f = Other(e)
    BY Zenon
<1>2. f \in Ends /\ Other(f) = e /\ \A x \in Ends : x = e \/ x = f
    BY <1>1, EndsDiffer, Zenon
<1>3. Consistent(kernel, handle, has)
    BY Zenon DEF ChannelInv
<1>4. handle[c][e] # NoAddr
    BY Zenon DEF ChannelWrite
<1>5. Good(kernel, has[c]) /\ handle[c][e] = At(e) /\ has[c][e] # "closed" /\ c \in Channels
    BY <1>4, OpenEnd, Zenon
<1>6. EndAt(kernel, handle[c][e]).other = At(f) /\ At(f) # NoAddr
    <2>1. kernel.elements[1][e].other = At(f)
        BY <1>1, <1>5, GoodIsLive, Zenon
    <2>2. EndAt(kernel, At(e)) = kernel.elements[1][e]
        BY AtSelects, Zenon
    <2>3. At(f) # NoAddr
        BY <1>2, AtIsAddress, Zenon
    <2>. QED  BY <1>5, <2>1, <2>2, <2>3, Zenon
<1>7. kernel' = WriteSelf(kernel, At(f), bytes) /\ UNCHANGED <<handle, has>> /\ answer' = Done
    BY <1>6, Zenon DEF ChannelWrite
<1>8. bytes \in Seq(Nat)
    BY ChannelAssumption, Zenon
<1>9. /\ Good(kernel', has[c]) /\ Keeps(kernel, kernel', e)
      /\ \A q : Contains(kernel.heap, kernel.elements[1][f], q) =>
            Contains(kernel'.heap, kernel'.elements[1][f], q \o bytes)
    BY <1>1, <1>5, <1>7, <1>8, WriteIsGood, Zenon
<1>10. ChannelInv'
    BY <1>7, <1>9, OnlyKernel, Zenon
<1>11. Consistent(kernel', handle', has')
    BY <1>10, Zenon DEF ChannelInv
<1>12. PICK q, r : q = Queues(kernel, handle) /\ r = Queues(kernel', handle')
    BY Zenon
<1>13. Hold(q, c, kernel, has) /\ Hold(r, c, kernel', has')
    BY <1>3, <1>11, <1>12, QueuesHoldContents, Zenon
<1>14. r[c][e] = q[c][e]
    BY <1>5, <1>7, <1>9, <1>13, QueueIsKept, SMTT(30)
<1>15. r = IF has[c][f] # "closed" THEN Set(q, c, f, q[c][f] \o bytes) ELSE q
    <2>1. CASE has[c][f] = "closed"
        <3>1. r[c][f] = q[c][f]
            BY <1>2, <1>7, <1>13, <2>1, Zenon DEF Hold
        <3>2. \A x \in Ends : r[c][x] = q[c][x]
            BY <1>2, <1>14, <3>1, Zenon
        <3>3. r = q
            BY <1>13, <3>2, SameQueues, SMTT(30) DEF Hold
        <3>. QED  BY <2>1, <3>3, Zenon
    <2>2. CASE has[c][f] # "closed"
        <3>1. PICK v : v = q[c][f] \o bytes
            BY Zenon
        <3>2. Contains(kernel.heap, kernel.elements[1][f], q[c][f])
            BY <1>2, <1>13, <2>2, Zenon DEF Hold
        <3>3. Contains(kernel'.heap, kernel'.elements[1][f], v)
            BY <1>9, <3>1, <3>2, Zenon
        <3>4. r[c][f] = v /\ v \in Seq(Nat)
            BY <1>2, <1>7, <1>13, <2>2, <3>3, ZenonT(90) DEF Hold, Contains
        <3>5. /\ q \in [Channels -> [Ends -> Seq(Nat)]] /\ r \in [Channels -> [Ends -> Seq(Nat)]]
              /\ r[c][Other(f)] = q[c][Other(f)]
            BY <1>2, <1>13, <1>14, Zenon DEF Hold
        <3>6. r = Set(q, c, f, v)
            BY <1>2, <3>4, <3>5, QueueIsSet, Zenon
        <3>. QED  BY <2>2, <3>1, <3>6, Zenon
    <2>. QED  BY <2>1, <2>2, Zenon
<1>16. Private!Write(c, e, bytes)
    BY <1>1, <1>5, <1>7, <1>12, <1>15, Zenon
    DEF Private!Write, Private!IsOpen, Private!Other, Other, Private!Done, Done, Set, Queues
<1>. QED  BY <1>10, <1>16, Zenon

(* What a read returns is the front of what is in the endpoint. *)
LEMMA PrefixOfPrefix ==
    ASSUME NEW b \in Seq(Nat), NEW n \in Nat, n <= Len(b), NEW size \in Nat, size <= n
    PROVE  SubSeq(SubSeq(b, 1, n), 1, size) = SubSeq(b, 1, size)
<1>1. PICK s : s = SubSeq(b, 1, n)
    BY Zenon
<1>2. s \in Seq(Nat) /\ Len(s) = n /\ \A i \in 1 .. n : s[i] = b[i]
    BY <1>1, Prefix, Zenon
<1>3. size <= Len(s)
    BY <1>2, Zenon
<1>4. PICK t : t = SubSeq(s, 1, size)
    BY Zenon
<1>5. t \in Seq(Nat) /\ Len(t) = size /\ \A i \in 1 .. size : t[i] = s[i]
    BY <1>2, <1>3, <1>4, Prefix, Zenon
<1>6. size <= Len(b)
    <2>1. Len(b) \in Nat
        OBVIOUS
    <2>. QED  BY <2>1
<1>7. PICK u : u = SubSeq(b, 1, size)
    BY Zenon
<1>8. u \in Seq(Nat) /\ Len(u) = size /\ \A i \in 1 .. size : u[i] = b[i]
    BY <1>6, <1>7, Prefix, Zenon
<1>9. 1 .. size \subseteq 1 .. n
    OBVIOUS
<1>10. Len(t) = Len(u) /\ \A i \in 1 .. Len(t) : t[i] = u[i]
    BY <1>2, <1>5, <1>8, <1>9, Zenon
<1>11. t = u
    BY <1>5, <1>8, <1>10, SameSequence, Zenon
<1>. QED  BY <1>1, <1>4, <1>7, <1>11, Zenon

(* A read of no bytes leaves all of them. *)
LEMMA NothingRead ==
    ASSUME NEW q \in Seq(Nat)
    PROVE  SubSeq(q, 0 + 1, Len(q)) = q
<1>1. PICK n : n = Len(q)
    BY Zenon
<1>2. n \in Nat /\ n <= Len(q) /\ 0 + 1 = 1
    BY <1>1
<1>3. PICK s : s = SubSeq(q, 1, n)
    BY Zenon
<1>4. s \in Seq(Nat) /\ Len(s) = n /\ \A i \in 1 .. n : s[i] = q[i]
    BY <1>2, <1>3, Prefix, Zenon
<1>5. s = q
    BY <1>1, <1>4, SameSequence, Zenon
<1>. QED  BY <1>1, <1>2, <1>3, <1>5, Zenon

(* Setting a queue to what it is changes nothing. *)
LEMMA SetToItself ==
    ASSUME NEW c \in Channels, NEW e \in Ends, NEW q \in [Channels -> [Ends -> Seq(Nat)]]
    PROVE  Set(q, c, e, q[c][e]) = q
    BY DEF Set

(* SYS_ChannelRead takes from the front of the queue, or says how much there is. *)
LEMMA ReadStep ==
    ASSUME OneChannel, NEW c, Channels = {c}, ChannelInv,
           NEW e \in Ends, NEW size \in Sizes, ChannelRead(c, e, size)
    PROVE  ChannelInv' /\ Private!Read(c, e, size)
<1>1. Consistent(kernel, handle, has)
    BY Zenon DEF ChannelInv
<1>2. handle[c][e] # NoAddr /\ UNCHANGED <<handle, has>>
    BY Zenon DEF ChannelRead
<1>3. /\ Good(kernel, has[c]) /\ handle[c][e] = At(e) /\ has[c][e] # "closed" /\ c \in Channels
    BY <1>2, OpenEnd, Zenon
<1>4. PICK ep : ep = kernel.elements[1][e]
    BY Zenon
<1>5. EndAt(kernel, handle[c][e]) = ep
    <2>1. EndAt(kernel, At(e)) = kernel.elements[1][e]
        BY AtSelects, Zenon
    <2>. QED  BY <1>3, <1>4, <2>1, Zenon
<1>6. PICK q, r : q = Queues(kernel, handle) /\ r = Queues(kernel', handle')
    BY Zenon
<1>7. Hold(q, c, kernel, has)
    BY <1>1, <1>6, QueuesHoldContents, Zenon
<1>8. q \in [Channels -> [Ends -> Seq(Nat)]] /\ Contains(kernel.heap, ep, q[c][e])
    BY <1>3, <1>4, <1>7, Zenon DEF Hold
<1>9. q[c][e] \in Seq(Nat) /\ Len(q[c][e]) = ep.size
    BY <1>8, Zenon DEF Contains
<1>10. size \in Nat /\ ep.size \in Nat
    BY <1>9, ChannelAssumption
<1>11. CASE size > ep.size
    <2>1. /\ UNCHANGED kernel
          /\ answer' = [status |-> "K_BUFFER_TOO_SMALL", requested |-> size, available |-> ep.size]
        <3>1. ~ size <= ep.size
            BY <1>10, <1>11
        <3>. QED  BY <1>5, <3>1, Zenon DEF ChannelRead
    <2>2. ChannelInv'
        BY <1>2, <1>3, <2>1, OnlyKernel, Zenon
    <2>3. r = q
        BY <1>2, <1>6, <2>1, Zenon
    <2>4. size > Len(q[c][e])
        BY <1>9, <1>11, Zenon
    <2>5. Private!Read(c, e, size)
        BY <1>2, <1>3, <1>6, <1>9, <2>1, <2>3, <2>4, Zenon
        DEF Private!Read, Private!IsOpen, Queues
    <2>. QED  BY <2>2, <2>5, Zenon
<1>12. CASE size <= ep.size
    <2>1. /\ answer' = [status |-> "K_OK", bytes |-> SubSeq(Bytes(kernel.heap, ep), 1, size)]
          /\ kernel' = IF size = 0 THEN kernel ELSE ReadSelf(kernel, At(e), size)
        <3>1. ~ size > ep.size
            BY <1>10, <1>12
        <3>. QED  BY <1>3, <1>5, <3>1, Zenon DEF ChannelRead
    <2>2. kernel \in Kernels /\ Live(kernel)
        BY <1>3, GoodIsLive, Zenon
    <2>3. SubSeq(Bytes(kernel.heap, ep), 1, size) = SubSeq(q[c][e], 1, size)
        <3>1. PICK b : b = Bytes(kernel.heap, ep)
            BY Zenon
        <3>2. ep \in Endpoints /\ Backed(kernel.heap, ep) /\ kernel.heap \in Heaps
            BY <1>4, <2>2, EndsDiffer, LiveElim, Zenon
        <3>3. b \in Seq(Nat) /\ ep.size <= Len(b)
            BY <3>1, <3>2, BackedBytes, Zenon DEF Backed
        <3>4. q[c][e] = SubSeq(b, 1, ep.size)
            BY <1>4, <1>8, <2>2, <3>1, SomethingIsContained, Zenon
        <3>5. SubSeq(SubSeq(b, 1, ep.size), 1, size) = SubSeq(b, 1, size)
            BY <1>10, <1>12, <3>3, PrefixOfPrefix, Zenon
        <3>. QED  BY <3>1, <3>4, <3>5, Zenon
    <2>4. PICK v : v = SubSeq(q[c][e], size + 1, Len(q[c][e]))
        BY Zenon
    <2>5. ChannelInv' /\ r = Set(q, c, e, v)
        <3>1. CASE size = 0
            <4>1. kernel' = kernel
                BY <2>1, <3>1, Zenon
            <4>2. ChannelInv'
                BY <1>2, <1>3, <4>1, OnlyKernel, Zenon
            <4>3. r = q
                BY <1>2, <1>6, <4>1, Zenon
            <4>4. v = q[c][e]
                BY <1>9, <2>4, <3>1, NothingRead, Zenon
            <4>. QED  BY <1>3, <1>8, <4>2, <4>3, <4>4, SetToItself, Zenon
        <3>2. CASE size # 0
            <4>1. size \in 1 .. kernel.elements[1][e].size
                BY <1>4, <1>10, <1>12, <3>2
            <4>2. kernel' = ReadSelf(kernel, At(e), size)
                BY <2>1, <3>2, Zenon
            <4>3. /\ Good(kernel', has[c]) /\ Keeps(kernel, kernel', Other(e))
                  /\ \A x : Contains(kernel.heap, kernel.elements[1][e], x) =>
                        Contains(kernel'.heap, kernel'.elements[1][e], SubSeq(x, size + 1, Len(x)))
                BY <1>3, <4>1, <4>2, ReadIsGood, Zenon
            <4>4. ChannelInv'
                BY <1>2, <4>3, OnlyKernel, Zenon
            <4>5. Hold(r, c, kernel', has')
                <5>1. Consistent(kernel', handle', has')
                    BY <4>4, Zenon DEF ChannelInv
                <5>. QED  BY <1>6, <5>1, QueuesHoldContents, Zenon
            <4>6. Contains(kernel'.heap, kernel'.elements[1][e], v)
                BY <1>4, <1>8, <2>4, <4>3, Zenon
            <4>7. r[c][e] = v /\ v \in Seq(Nat)
                BY <1>2, <1>3, <4>5, <4>6, Zenon DEF Hold, Contains
            <4>8. r[c][Other(e)] = q[c][Other(e)]
                <5>1. PICK f : f = Other(e)
                    BY Zenon
                <5>2. f \in Ends
                    BY <5>1, EndsDiffer, Zenon
                <5>3. CASE has[c][f] = "closed"
                    BY <1>2, <1>7, <4>5, <5>1, <5>2, <5>3, Zenon DEF Hold
                <5>4. CASE has[c][f] # "closed"
                    <6>1. Keeps(kernel, kernel', f)
                        BY <4>3, <5>1, Zenon
                    <6>2. r[c][f] = q[c][f]
                        BY <1>2, <1>7, <4>5, <5>2, <5>4, <6>1, QueueIsKept, SMTT(60)
                    <6>. QED  BY <5>1, <6>2, Zenon
                <5>. QED  BY <5>3, <5>4, Zenon
            <4>9. r \in [Channels -> [Ends -> Seq(Nat)]]
                BY <4>5, Zenon DEF Hold
            <4>10. r = Set(q, c, e, v)
                BY <1>8, <4>7, <4>8, <4>9, QueueIsSet, Zenon
            <4>. QED  BY <4>4, <4>10, Zenon
        <3>. QED  BY <3>1, <3>2, Zenon
    <2>6. size <= Len(q[c][e])
        BY <1>9, <1>12, Zenon
    <2>7. Private!Read(c, e, size)
        BY <1>2, <1>3, <1>6, <2>1, <2>3, <2>4, <2>5, <2>6, Zenon
        DEF Private!Read, Private!IsOpen, Queues, Set
    <2>. QED  BY <2>5, <2>7, Zenon
<1>. QED  BY <1>10, <1>11, <1>12

-----------------------------------------------------------------------------

(* has after a transfer or a close. *)
LEMMA HasIsSet ==
    ASSUME NEW hh \in [Channels -> Holders], NEW c \in Channels, NEW e \in Ends,
           NEW v \in Processes \cup {"closed"}
    PROVE  Set(hh, c, e, v) \in [Channels -> Holders] /\ Set(hh, c, e, v)[c] = Holding(hh[c], e, v)
    BY DEF Set, Holding, Holders

(* SYS_TransferHandle changes who has the end. *)
LEMMA TransferStep ==
    ASSUME OneChannel, NEW c, Channels = {c}, ChannelInv,
           NEW e \in Ends, NEW p \in Processes, TransferHandle(c, e, p)
    PROVE  ChannelInv' /\ Private!Give(c, e, p)
<1>1. Consistent(kernel, handle, has)
    BY Zenon DEF ChannelInv
<1>2. handle[c][e] # NoAddr
    BY Zenon DEF TransferHandle
<1>3. /\ Good(kernel, has[c]) /\ handle[c][e] = At(e) /\ has[c][e] # "closed" /\ c \in Channels
      /\ has[c] \in Holders
    BY <1>2, OpenEnd, Zenon
<1>4. kernel.size = 1
    BY <1>3, GoodIsLive, Zenon
<1>5. handle[c][e].slot = 1 /\ handle[c][e].end = e /\ 1 <= kernel.size
    <2>1. At(e).slot = 1 /\ At(e).end = e
        BY AtSelects, Zenon
    <2>2. 1 <= kernel.size
        BY <1>4
    <2>. QED  BY <1>3, <2>1, <2>2, Zenon
<1>6. /\ kernel' = SetOwner(kernel, e, p) /\ has' = Set(has, c, e, p)
      /\ handle' = handle /\ answer' = Done
    BY <1>5, Zenon DEF TransferHandle, SetOwner, Set
<1>7. PICK g : g = Holding(has[c], e, p)
    BY Zenon
<1>8. Good(kernel', g) /\ \A f \in Ends : Keeps(kernel, kernel', f)
    BY <1>3, <1>6, <1>7, TransferIsGood, Zenon
<1>9. p \in Processes \cup {"closed"} /\ p # "closed"
    BY ChannelAssumption
<1>10. has \in [Channels -> Holders] /\ handle \in [Channels -> [Ends -> Addresses \cup {NoAddr}]]
    BY <1>1, Zenon DEF Consistent
<1>11. has' \in [Channels -> Holders] /\ has'[c] = g
    <2>1. Set(has, c, e, p) \in [Channels -> Holders] /\ Set(has, c, e, p)[c] = Holding(has[c], e, p)
        BY <1>3, <1>9, <1>10, HasIsSet
    <2>. QED  BY <1>6, <1>7, <2>1, Zenon
<1>12. g[e] = p /\ g[Other(e)] = has[c][Other(e)]
    <2>1. Holding(has[c], e, p)[e] = p /\ Holding(has[c], e, p)[Other(e)] = has[c][Other(e)]
        BY <1>3, <1>9, Gives
    <2>. QED  BY <1>7, <2>1, Zenon
<1>13. \A f \in Ends : g[f] = "closed" <=> has[c][f] = "closed"
    BY <1>3, <1>9, <1>12, EndsDiffer, Zenon
<1>14. \A f \in Ends : handle'[c][f] = IF g[f] = "closed" THEN NoAddr ELSE At(f)
    BY <1>1, <1>3, <1>6, <1>13, Zenon DEF Consistent
<1>15. Consistent(kernel', handle', has')
    <2>1. handle' \in [Channels -> [Ends -> Addresses \cup {NoAddr}]]
        BY <1>6, <1>10, Zenon
    <2>. QED  BY <1>8, <1>11, <1>14, <2>1, ConsistentIntro, Zenon
<1>16. PICK q, r : q = Queues(kernel, handle) /\ r = Queues(kernel', handle')
    BY Zenon
<1>17. Hold(q, c, kernel, has) /\ Hold(r, c, kernel', has')
    BY <1>1, <1>15, <1>16, QueuesHoldContents, Zenon
<1>18. ASSUME NEW f \in Ends PROVE r[c][f] = q[c][f]
    <2>1. has'[c][f] = "closed" <=> has[c][f] = "closed"
        BY <1>11, <1>13, Zenon
    <2>2. CASE has[c][f] = "closed"
        BY <1>17, <2>1, <2>2, Zenon DEF Hold
    <2>3. CASE has[c][f] # "closed"
        BY <1>8, <1>17, <2>1, <2>3, QueueIsKept, SMTT(30)
    <2>. QED  BY <2>2, <2>3, Zenon
<1>19. r = q
    <2>1. q \in [Channels -> [Ends -> Seq(Nat)]] /\ r \in [Channels -> [Ends -> Seq(Nat)]]
        BY <1>17, Zenon DEF Hold
    <2>. QED  BY <1>18, <2>1, SameQueues
<1>20. Private!Give(c, e, p)
    BY <1>3, <1>6, <1>16, <1>19, Zenon DEF Private!Give, Private!IsOpen, Private!Done, Done, Set, Queues
<1>. QED  BY <1>15, <1>20, Zenon DEF ChannelInv

(* SYS_ChannelCreate makes two empty queues. *)
LEMMA CreateStep ==
    ASSUME OneChannel, NEW c, Channels = {c}, ChannelInv,
           NEW p \in Processes, ChannelCreate(p, c)
    PROVE  ChannelInv' /\ Private!Create(p, c)
<1>1. Consistent(kernel, handle, has) /\ c \in Channels
    BY Zenon DEF ChannelInv
<1>2. \A e \in Ends : handle[c][e] = NoAddr
    BY Zenon DEF ChannelCreate
<1>3. has \in [Channels -> Holders] /\ handle \in [Channels -> [Ends -> Addresses \cup {NoAddr}]]
    BY <1>1, Zenon DEF Consistent
<1>4. has[c] \in Holders /\ Good(kernel, has[c])
    BY <1>1, <1>3, Zenon DEF Consistent
<1>5. \A e \in Ends : At(e) # NoAddr /\ At(e) \in Addresses
    BY AtIsAddress, Zenon
<1>6. \A e \in Ends : has[c][e] = "closed"
    BY <1>1, <1>2, <1>5, Zenon DEF Consistent
<1>7. kernel.size = 0
    BY <1>4, <1>6, Zenon DEF Good
<1>8. kernel.size + 1 = 1
    BY <1>7
<1>9. PICK g : g = [e \in Ends |-> p]
    BY Zenon
<1>10. PICK a : a = [e \in Ends |-> At(e)]
    BY Zenon
<1>11. /\ kernel' = Created(kernel, p) /\ has' = [has EXCEPT ![c] = g]
       /\ handle' = [handle EXCEPT ![c] = a] /\ answer' = Done
    BY <1>8, <1>9, <1>10, Zenon DEF ChannelCreate, Created, EmptyBuffer, At
<1>12. /\ Good(kernel', g)
       /\ \A e \in Ends : Contains(kernel'.heap, kernel'.elements[1][e], <<>>)
    BY <1>4, <1>6, <1>9, <1>11, CreateIsGood, Zenon
<1>13. p # "closed"
    BY ChannelAssumption
<1>14. g \in Holders /\ \A e \in Ends : g[e] = p
    BY <1>9 DEF Holders
<1>15. a \in [Ends -> Addresses \cup {NoAddr}] /\ \A e \in Ends : a[e] = At(e)
    BY <1>5, <1>10
<1>16. has' \in [Channels -> Holders] /\ has'[c] = g
    BY <1>1, <1>3, <1>11, <1>14, Zenon
<1>17. handle' \in [Channels -> [Ends -> Addresses \cup {NoAddr}]] /\ handle'[c] = a
    BY <1>1, <1>3, <1>11, <1>15, Zenon
<1>18. \A e \in Ends : handle'[c][e] = IF g[e] = "closed" THEN NoAddr ELSE At(e)
    BY <1>13, <1>14, <1>15, <1>17, Zenon
<1>19. Consistent(kernel', handle', has')
    BY <1>12, <1>16, <1>17, <1>18, ConsistentIntro, Zenon
<1>20. PICK q, r : q = Queues(kernel, handle) /\ r = Queues(kernel', handle')
    BY Zenon
<1>21. Hold(q, c, kernel, has) /\ Hold(r, c, kernel', has')
    BY <1>1, <1>19, <1>20, QueuesHoldContents, Zenon
<1>22. \A e \in Ends : r[c][e] = <<>>
    BY <1>12, <1>13, <1>14, <1>16, <1>21, Zenon DEF Hold
<1>23. q \in [Channels -> [Ends -> Seq(Nat)]] /\ r \in [Channels -> [Ends -> Seq(Nat)]]
    BY <1>21, Zenon DEF Hold
<1>24. r = [q EXCEPT ![c] = [e \in Ends |-> <<>>]]
    <2>1. PICK n : n = [e \in Ends |-> <<>>]
        BY Zenon
    <2>2. r[c] = n
        <3>1. r[c] = [e \in Ends |-> r[c][e]]
            BY <1>1, <1>23
        <3>. QED  BY <1>22, <2>1, <3>1, Zenon
    <2>3. r = [q EXCEPT ![c] = n]
        BY <1>1, <1>23, <2>2
    <2>. QED  BY <2>1, <2>3, Zenon
<1>25. Private!Create(p, c)
    BY <1>6, <1>9, <1>11, <1>20, <1>24, Zenon
    DEF Private!Create, Private!IsOpen, Private!Ends, Ends, Private!Done, Done, Queues
<1>. QED  BY <1>19, <1>25, Zenon DEF ChannelInv

-----------------------------------------------------------------------------

(* What CloseAll of PrivateChannels does to holder and to queue. *)
ClosedIn(q, S, v) ==
    [x \in Channels |-> [f \in Ends |-> IF <<x, f>> \in S THEN v ELSE q[x][f]]]

IsClosedIn(r, q, c, S, v) ==
    \A f \in Ends : r[c][f] = IF <<c, f>> \in S THEN v ELSE q[c][f]

(* ClosedIn, recognised by what it is at both ends. *)
LEMMA ClosedFunction ==
    ASSUME NEW c, Channels = {c}, NEW S, NEW v, NEW q, NEW T, NEW r \in [Channels -> [Ends -> T]],
           IsClosedIn(r, q, c, S, v)
    PROVE  r = ClosedIn(q, S, v)
<1>1. r = [x \in Channels |-> [f \in Ends |-> r[x][f]]]
    OBVIOUS
<1>2. \A x \in Channels : \A f \in Ends : r[x][f] = IF <<x, f>> \in S THEN v ELSE q[x][f]
    BY Zenon DEF IsClosedIn
<1>. QED  BY <1>1, <1>2, ZenonT(90) DEF ClosedIn

(* The queues after ends are closed. *)
LEMMA ClosedQueues ==
    ASSUME NEW c, Channels = {c}, NEW S,
           NEW q, NEW k, NEW hh, Hold(q, c, k, hh),
           NEW r, NEW rk, NEW rh, Hold(r, c, rk, rh),
           \A f \in Ends : rh[c][f] = IF <<c, f>> \in S THEN "closed" ELSE hh[c][f],
           \A f \in Ends : rh[c][f] # "closed" => Keeps(k, rk, f)
    PROVE  r = ClosedIn(q, S, <<>>)
<1>1. ASSUME NEW f \in Ends
      PROVE  r[c][f] = IF <<c, f>> \in S THEN <<>> ELSE q[c][f]
    <2>1. CASE <<c, f>> \in S
        BY <2>1, Zenon DEF Hold
    <2>2. CASE <<c, f>> \notin S /\ hh[c][f] = "closed"
        BY <2>2, Zenon DEF Hold
    <2>3. CASE <<c, f>> \notin S /\ hh[c][f] # "closed"
        <3>1. rh[c][f] # "closed" /\ Keeps(k, rk, f)
            BY <2>3, Zenon
        <3>2. r[c][f] = q[c][f]
            BY <2>3, <3>1, QueueIsKept, SMTT(30)
        <3>. QED  BY <2>3, <3>2, Zenon
    <2>. QED  BY <2>1, <2>2, <2>3, Zenon
<1>2. r \in [Channels -> [Ends -> Seq(Nat)]]
    BY Zenon DEF Hold
<1>3. IsClosedIn(r, q, c, S, <<>>)
    BY <1>1, Zenon DEF IsClosedIn
<1>. QED  BY <1>2, <1>3, ClosedFunction, Zenon

(* SYS_HandleClose closes one end. *)
LEMMA CloseStep ==
    ASSUME OneChannel, NEW c, Channels = {c}, ChannelInv, NEW e \in Ends, HandleClose(c, e)
    PROVE  ChannelInv' /\ Private!IsOpen(c, e) /\ Private!CloseAll({<<c, e>>})
<1>1. Consistent(kernel, handle, has)
    BY Zenon DEF ChannelInv
<1>2. handle[c][e] # NoAddr
    BY Zenon DEF HandleClose
<1>3. /\ Good(kernel, has[c]) /\ handle[c][e] = At(e) /\ has[c][e] # "closed" /\ c \in Channels
      /\ has[c] \in Holders
    BY <1>2, OpenEnd, Zenon
<1>4. /\ kernel' = Close(kernel, At(e)) /\ has' = Set(has, c, e, "closed")
      /\ handle' = Set(handle, c, e, NoAddr) /\ answer' = Done
    BY <1>3, Zenon DEF HandleClose, Set
<1>5. PICK g : g = Holding(has[c], e, "closed")
    BY Zenon
<1>6. Good(kernel', g) /\ (has[c][Other(e)] # "closed" => Keeps(kernel, kernel', Other(e)))
    BY <1>3, <1>4, <1>5, CloseIsGood, Zenon
<1>7. has \in [Channels -> Holders] /\ handle \in [Channels -> [Ends -> Addresses \cup {NoAddr}]]
    BY <1>1, Zenon DEF Consistent
<1>8. "closed" \in Processes \cup {"closed"}
    BY Zenon
<1>9. has' \in [Channels -> Holders] /\ has'[c] = g
    <2>1. /\ Set(has, c, e, "closed") \in [Channels -> Holders]
          /\ Set(has, c, e, "closed")[c] = Holding(has[c], e, "closed")
        BY <1>3, <1>7, <1>8, HasIsSet
    <2>. QED  BY <1>4, <1>5, <2>1, Zenon
<1>10. g[e] = "closed" /\ g[Other(e)] = has[c][Other(e)]
    <2>1. /\ Holding(has[c], e, "closed")[e] = "closed"
          /\ Holding(has[c], e, "closed")[Other(e)] = has[c][Other(e)]
        BY <1>3, <1>8, Gives
    <2>. QED  BY <1>5, <2>1, Zenon
<1>11. /\ handle' \in [Channels -> [Ends -> Addresses \cup {NoAddr}]]
       /\ handle'[c][e] = NoAddr /\ handle'[c][Other(e)] = handle[c][Other(e)]
    BY <1>3, <1>4, <1>7, EndsDiffer DEF Set
<1>12. \A f \in Ends : f = e \/ f = Other(e)
    BY EndsDiffer, Zenon
<1>13. \A f \in Ends : handle'[c][f] = IF g[f] = "closed" THEN NoAddr ELSE At(f)
    BY <1>1, <1>3, <1>10, <1>11, <1>12, Zenon DEF Consistent
<1>14. Consistent(kernel', handle', has')
    BY <1>6, <1>9, <1>11, <1>13, ConsistentIntro, Zenon
<1>15. PICK S : S = {<<c, e>>}
    BY Zenon
<1>16. \A f \in Ends : <<c, f>> \in S <=> f = e
    BY <1>15
<1>17. \A f \in Ends : has'[c][f] = IF <<c, f>> \in S THEN "closed" ELSE has[c][f]
    BY <1>9, <1>10, <1>12, <1>16, Zenon
<1>18. \A f \in Ends : has'[c][f] # "closed" => Keeps(kernel, kernel', f)
    BY <1>6, <1>9, <1>10, <1>12, Zenon
<1>19. has' = ClosedIn(has, S, "closed")
    <2>1. has' \in [Channels -> [Ends -> Processes \cup {"closed"}]]
        BY <1>9, Zenon DEF Holders
    <2>2. IsClosedIn(has', has, c, S, "closed")
        BY <1>17, Zenon DEF IsClosedIn
    <2>. QED  BY <2>1, <2>2, ClosedFunction, Zenon
<1>20. PICK q, r : q = Queues(kernel, handle) /\ r = Queues(kernel', handle')
    BY Zenon
<1>21. Hold(q, c, kernel, has) /\ Hold(r, c, kernel', has')
    BY <1>1, <1>14, <1>20, QueuesHoldContents, Zenon
<1>22. r = ClosedIn(q, S, <<>>)
    BY <1>17, <1>18, <1>21, ClosedQueues, SMTT(60)
<1>23. Private!CloseAll(S)
    BY <1>4, <1>19, <1>20, <1>22, ZenonT(90)
    DEF Private!CloseAll, Private!Ends, Ends, Private!Done, Done, Queues, ClosedIn
<1>. QED  BY <1>3, <1>14, <1>15, <1>23, Zenon DEF ChannelInv, Private!IsOpen

(* ~Task closes the ends of the process. *)
LEMMA EndStep ==
    ASSUME OneChannel, NEW c, Channels = {c}, ChannelInv, NEW p \in Processes, TaskEnds(p)
    PROVE  ChannelInv' /\ Private!End(p)
<1>1. Consistent(kernel, handle, has) /\ c \in Channels
    BY Zenon DEF ChannelInv
<1>2. has \in [Channels -> Holders] /\ handle \in [Channels -> [Ends -> Addresses \cup {NoAddr}]]
    BY <1>1, Zenon DEF Consistent
<1>3. has[c] \in Holders /\ Good(kernel, has[c])
    BY <1>1, <1>2, Zenon DEF Consistent
<1>4. kernel' = CloseEndpointsOwnedByTask(kernel, p) /\ answer' = Done
    BY Zenon DEF TaskEnds
<1>5. PICK g : g = Ended(has[c], p)
    BY Zenon
<1>6. Good(kernel', g) /\ \A f \in Ends : g[f] # "closed" => Keeps(kernel, kernel', f)
    BY <1>3, <1>4, <1>5, EndIsGood, Zenon
<1>7. \A f \in Ends : g[f] = IF has[c][f] = p THEN "closed" ELSE has[c][f]
    BY <1>5, Zenon DEF Ended, AfterEnd
<1>8. \A x \in Channels, f \in Ends : has[x][f] \in Processes \cup {"closed"}
    BY <1>2 DEF Holders
<1>9. has' \in [Channels -> Holders] /\ has'[c] = g
    <2>1. has' = [x \in Channels |-> Ended(has[x], p)]
        BY Zenon DEF TaskEnds, Ended, AfterEnd
    <2>2. \A x \in Channels : Ended(has[x], p) \in Holders
        <3>1. \A x \in Channels, f \in Ends : AfterEnd(has[x], f, p) \in Processes \cup {"closed"}
            BY <1>8, Zenon DEF AfterEnd
        <3>. QED  BY <3>1, Zenon DEF Ended, Holders
    <2>. QED  BY <1>1, <1>5, <2>1, <2>2, Zenon
<1>10. /\ handle' = [x \in Channels |-> [f \in Ends |->
                        IF has[x][f] = p THEN NoAddr ELSE handle[x][f]]]
       /\ \A x \in Channels, f \in Ends : handle[x][f] \in Addresses \cup {NoAddr}
    <2>1. handle' = [x \in Channels |-> [f \in Ends |->
                        IF has[x][f] = p THEN NoAddr ELSE handle[x][f]]]
        BY Zenon DEF TaskEnds
    <2>2. \A x \in Channels, f \in Ends : handle[x][f] \in Addresses \cup {NoAddr}
        BY <1>2, Zenon
    <2>. QED  BY <2>1, <2>2, Zenon
<1>11. /\ handle' \in [Channels -> [Ends -> Addresses \cup {NoAddr}]]
       /\ \A f \in Ends : handle'[c][f] = IF has[c][f] = p THEN NoAddr ELSE handle[c][f]
    BY <1>1, <1>10
<1>12. \A f \in Ends : handle'[c][f] = IF g[f] = "closed" THEN NoAddr ELSE At(f)
    BY <1>1, <1>7, <1>11, Zenon DEF Consistent
<1>13. Consistent(kernel', handle', has')
    <2>1. Good(kernel', g) /\ handle' \in [Channels -> [Ends -> Addresses \cup {NoAddr}]]
        BY <1>6, <1>11, Zenon
    <2>. QED  BY <1>9, <1>12, <2>1, ConsistentIntro, Zenon
<1>14. PICK S : S = {x \in Channels \X Ends : has[x[1]][x[2]] = p}
    BY Zenon
<1>15. \A f \in Ends : <<c, f>> \in S <=> has[c][f] = p
    BY <1>1, <1>14
<1>16. \A f \in Ends : has'[c][f] = IF <<c, f>> \in S THEN "closed" ELSE has[c][f]
    BY <1>7, <1>9, <1>15, Zenon
<1>17. has' = ClosedIn(has, S, "closed")
    <2>1. has' \in [Channels -> [Ends -> Processes \cup {"closed"}]]
        BY <1>9, Zenon DEF Holders
    <2>2. IsClosedIn(has', has, c, S, "closed")
        BY <1>16, Zenon DEF IsClosedIn
    <2>. QED  BY <2>1, <2>2, ClosedFunction, Zenon
<1>18. PICK q, r : q = Queues(kernel, handle) /\ r = Queues(kernel', handle')
    BY Zenon
<1>19. Hold(q, c, kernel, has) /\ Hold(r, c, kernel', has')
    BY <1>1, <1>13, <1>18, QueuesHoldContents, Zenon
<1>20. \A f \in Ends : has'[c][f] # "closed" => Keeps(kernel, kernel', f)
    BY <1>6, <1>9, Zenon
<1>21. r = ClosedIn(q, S, <<>>)
    BY <1>16, <1>19, <1>20, ClosedQueues, SMTT(60)
<1>22. Private!End(p)
    BY <1>4, <1>14, <1>17, <1>18, <1>21, ZenonT(90)
    DEF Private!End, Private!CloseAll, Private!Ends, Ends, Private!Done, Done, Queues, ClosedIn
<1>. QED  BY <1>13, <1>22, Zenon DEF ChannelInv

(* Every step keeps the invariant and is a step of PrivateChannels. *)
LEMMA NextStep ==
    ASSUME OneChannel, ChannelInv, Next
    PROVE  ChannelInv' /\ Private!SpecNext
<1>1. PICK c : Channels = {c}
    BY Zenon DEF OneChannel
<1>2. c \in Channels /\ \A x \in Channels : x = c
    BY <1>1, Zenon
<1>3. CASE \E p \in Processes, x \in Channels : ChannelCreate(p, x)
    <2>1. PICK p \in Processes : ChannelCreate(p, c)
        BY <1>2, <1>3, Zenon
    <2>2. ChannelInv' /\ Private!Create(p, c)
        BY <1>1, <2>1, CreateStep, Zenon
    <2>. QED  BY <1>2, <2>2, Zenon DEF Private!SpecNext
<1>4. CASE \E x \in Channels, e \in Ends, p \in Processes : TransferHandle(x, e, p)
    <2>1. PICK e \in Ends, p \in Processes : TransferHandle(c, e, p)
        BY <1>2, <1>4, Zenon
    <2>2. ChannelInv' /\ Private!Give(c, e, p)
        BY <1>1, <2>1, TransferStep, Zenon
    <2>. QED  BY <1>2, <2>2, Zenon DEF Private!SpecNext, Private!Ends, Ends
<1>5. CASE \E x \in Channels, e \in Ends, bytes \in Payloads : ChannelWrite(x, e, bytes)
    <2>1. PICK e \in Ends, bytes \in Payloads : ChannelWrite(c, e, bytes)
        BY <1>2, <1>5, Zenon
    <2>2. ChannelInv' /\ Private!Write(c, e, bytes)
        BY <1>1, <2>1, WriteStep, Zenon
    <2>. QED  BY <1>2, <2>2, Zenon DEF Private!SpecNext, Private!Ends, Ends
<1>6. CASE \E x \in Channels, e \in Ends, size \in Sizes : ChannelRead(x, e, size)
    <2>1. PICK e \in Ends, size \in Sizes : ChannelRead(c, e, size)
        BY <1>2, <1>6, Zenon
    <2>2. ChannelInv' /\ Private!Read(c, e, size)
        BY <1>1, <2>1, ReadStep, Zenon
    <2>. QED  BY <1>2, <2>2, Zenon DEF Private!SpecNext, Private!Ends, Ends
<1>7. CASE \E x \in Channels, e \in Ends : HandleClose(x, e)
    <2>1. PICK e \in Ends : HandleClose(c, e)
        BY <1>2, <1>7, Zenon
    <2>2. ChannelInv' /\ Private!IsOpen(c, e) /\ Private!CloseAll({<<c, e>>})
        BY <1>1, <2>1, CloseStep, Zenon
    <2>. QED  BY <1>2, <2>2, Zenon DEF Private!SpecNext, Private!Ends, Ends
<1>8. CASE \E p \in Processes : TaskEnds(p)
    <2>1. PICK p \in Processes : TaskEnds(p)
        BY <1>8, Zenon
    <2>2. ChannelInv' /\ Private!End(p)
        BY <1>1, <2>1, EndStep, Zenon
    <2>. QED  BY <2>2, Zenon DEF Private!SpecNext
<1>. QED  BY <1>3, <1>4, <1>5, <1>6, <1>7, <1>8, Zenon DEF Next

(* Every state with one channel has the kernel in order with the handles that
   are open: what is in the vector and what is in the heap is what the open
   ends need, each open end points to the other one and belongs to the process
   that has it, and after a close nothing else can be reached. *)
THEOREM ChannelInvariance ==
    ASSUME OneChannel PROVE Spec => []ChannelInv
<1>1. Init => ChannelInv
    BY InitIsConsistent, Zenon
<1>2. ChannelInv /\ [Next]_vars => ChannelInv'
    <2>1. ASSUME ChannelInv, Next PROVE ChannelInv'
        BY <2>1, NextStep, Zenon
    <2>2. ASSUME ChannelInv, UNCHANGED vars PROVE ChannelInv'
        BY <2>2, Zenon DEF ChannelInv, vars
    <2>. QED  BY <2>1, <2>2, Zenon
<1>. QED  BY <1>1, <1>2, PTL DEF Spec

(* The vector in a consistent state: empty, or the one channel. *)
LEMMA VectorContents ==
    ASSUME OneChannel, NEW c, Channels = {c}, ChannelInv
    PROVE  \/ /\ kernel.size = 0 /\ DOMAIN kernel.heap = {} /\ InVector = {}
              /\ \A e \in Ends : handle[c][e] = NoAddr
           \/ /\ kernel.size = 1 /\ kernel \in Kernels /\ Live(kernel)
              /\ InVector = {At(e) : e \in Ends}
              /\ \E e \in Ends : handle[c][e] # NoAddr
<1>1. c \in Channels
    BY Zenon
<1>2. /\ Good(kernel, has[c])
      /\ \A e \in Ends : handle[c][e] = IF has[c][e] = "closed" THEN NoAddr ELSE At(e)
    BY <1>1, Zenon DEF ChannelInv, Consistent
<1>3. CASE \A e \in Ends : has[c][e] = "closed"
    <2>1. kernel.size = 0 /\ DOMAIN kernel.heap = {} /\ \A e \in Ends : handle[c][e] = NoAddr
        BY <1>2, <1>3, Zenon DEF Good
    <2>2. InVector = {}
        BY <2>1, SMTT(30) DEF InVector
    <2>. QED  BY <2>1, <2>2, Zenon
<1>4. CASE ~ \A e \in Ends : has[c][e] = "closed"
    <2>1. kernel \in Kernels /\ Live(kernel)
        BY <1>2, <1>4, Zenon DEF Good
    <2>2. kernel.size = 1
        BY <2>1, Zenon DEF Live
    <2>3. \A e \in Ends : At(e) # NoAddr
        BY AtIsAddress, Zenon
    <2>4. \E e \in Ends : handle[c][e] # NoAddr
        BY <1>2, <1>4, <2>3, Zenon
    <2>5. InVector = {At(e) : e \in Ends}
        <3>1. 1 .. kernel.size = {1}
            BY <2>2
        <3>. QED  BY <3>1 DEF InVector, At
    <2>. QED  BY <2>1, <2>2, <2>4, <2>5, Zenon
<1>. QED  BY <1>3, <1>4, Zenon

(* With one channel: what an endpoint holds fits in the buffer it has, through
   every growth, shrink, read to empty, close and end of a process. *)
THEOREM BuffersAreLargeEnough ==
    ASSUME OneChannel PROVE Spec => []BufferHoldsContents
<1>1. ASSUME ChannelInv PROVE BufferHoldsContents
    <2>1. PICK c : Channels = {c}
        BY Zenon DEF OneChannel
    <2>2. CASE InVector = {}
        BY <2>2, Zenon DEF BufferHoldsContents
    <2>3. CASE kernel \in Kernels /\ Live(kernel) /\ InVector = {At(e) : e \in Ends}
        <3>1. ASSUME NEW a \in InVector
              PROVE  /\ EndAt(kernel, a).size <= EndAt(kernel, a).capacity
                     /\ EndAt(kernel, a).capacity = Len(Bytes(kernel.heap, EndAt(kernel, a)))
            <4>1. PICK e \in Ends : a = At(e)
                BY <2>3, Zenon
            <4>2. PICK ep : ep = kernel.elements[1][e]
                BY Zenon
            <4>3. EndAt(kernel, At(e)) = kernel.elements[1][e]
                BY AtSelects, Zenon
            <4>4. ep \in Endpoints /\ Backed(kernel.heap, ep) /\ kernel.heap \in Heaps
                BY <2>3, <4>2, EndsDiffer, LiveElim, Zenon
            <4>5. ep.size <= ep.capacity /\ ep.capacity = Len(Bytes(kernel.heap, ep))
                BY <4>4, BackedBytes, Zenon DEF Backed
            <4>. QED  BY <4>1, <4>2, <4>3, <4>5, Zenon
        <3>. QED  BY <3>1, Zenon DEF BufferHoldsContents
    <2>. QED  BY <1>1, <2>1, <2>2, <2>3, VectorContents, Zenon
<1>. QED  BY <1>1, ChannelInvariance, PTL

(* With one channel: the buffers in the heap are those of the endpoints in the
   vector, one each, so none is leaked, shared or freed while it is used. *)
THEOREM NoBufferIsLost ==
    ASSUME OneChannel PROVE Spec => []BuffersAreOwned
<1>1. ASSUME ChannelInv PROVE BuffersAreOwned
    <2>1. PICK c : Channels = {c}
        BY Zenon DEF OneChannel
    <2>2. CASE InVector = {} /\ DOMAIN kernel.heap = {}
        BY <2>2, Zenon DEF BuffersAreOwned
    <2>3. CASE kernel \in Kernels /\ Live(kernel) /\ InVector = {At(e) : e \in Ends}
        <3>1. PICK k : k = kernel
            BY Zenon
        <3>2. \A e \in Ends : EndAt(k, At(e)) = k.elements[1][e]
            BY AtSelects, Zenon
        <3>3. PICK V : V = InVector
            BY Zenon
        <3>4. PICK B : B = {a \in V : EndAt(k, a).data # NoAddr}
            BY Zenon
        <3>5. \A a : a \in B <=> \E e \in Ends : a = At(e) /\ k.elements[1][e].data # NoAddr
            BY <2>3, <3>2, <3>3, <3>4, Zenon
        <3>6. /\ DOMAIN k.heap = {k.elements[1][e].data : e \in Ends} \ {NoAddr}
              /\ \A e \in Ends : k.elements[1][e].data # NoAddr =>
                    k.elements[1][e].data # k.elements[1][Other(e)].data
            BY <2>3, <3>1, Zenon DEF Live
        <3>7. {EndAt(k, a).data : a \in B} = DOMAIN k.heap
            <4>1. ASSUME NEW a \in B PROVE EndAt(k, a).data \in DOMAIN k.heap
                <5>1. PICK e \in Ends : a = At(e) /\ k.elements[1][e].data # NoAddr
                    BY <3>5, Zenon
                <5>. QED  BY <3>2, <3>6, <5>1, Zenon
            <4>2. ASSUME NEW x \in DOMAIN k.heap PROVE \E a \in B : x = EndAt(k, a).data
                <5>1. PICK e \in Ends : x = k.elements[1][e].data /\ x # NoAddr
                    BY <3>6, Zenon
                <5>. QED  BY <3>2, <3>5, <5>1, Zenon
            <4>. QED  BY <4>1, <4>2, Zenon
        <3>8. ASSUME NEW a \in B, NEW b \in B, EndAt(k, a).data = EndAt(k, b).data PROVE a = b
            <4>1. PICK e \in Ends : a = At(e) /\ k.elements[1][e].data # NoAddr
                BY <3>5, Zenon
            <4>2. PICK f \in Ends : b = At(f) /\ k.elements[1][f].data # NoAddr
                BY <3>5, Zenon
            <4>3. k.elements[1][e].data = k.elements[1][f].data
                BY <3>2, <3>8, <4>1, <4>2, Zenon
            <4>4. f # Other(e)
                BY <3>6, <4>1, <4>3, Zenon
            <4>5. f = e
                BY <4>4, EndsDiffer, Zenon
            <4>. QED  BY <4>1, <4>2, <4>5, Zenon
        <3>9. B = {a \in InVector : EndAt(kernel, a).data # NoAddr}
            BY <3>1, <3>3, <3>4, Zenon
        <3>10. {EndAt(kernel, a).data : a \in B} = DOMAIN kernel.heap
            BY <3>1, <3>7, Zenon
        <3>11. \A a, b \in B : EndAt(kernel, a).data = EndAt(kernel, b).data => a = b
            BY <3>1, <3>8, Zenon
        <3>. QED  BY <3>9, <3>10, <3>11, Zenon DEF BuffersAreOwned
    <2>. QED  BY <1>1, <2>1, <2>2, <2>3, VectorContents, Zenon
<1>. QED  BY <1>1, ChannelInvariance, PTL

(* The channel is in the vector exactly as long as one of its ends is open:
   the second close, or the end of the last process that has an end, erases
   it, and nothing before that does. *)
THEOREM ClosedChannelsAreRemoved ==
    ASSUME OneChannel PROVE Spec => []ChannelsAreRemoved
<1>1. ASSUME ChannelInv PROVE ChannelsAreRemoved
    <2>1. PICK c : Channels = {c}
        BY Zenon DEF OneChannel
    <2>2. PICK O : O = {x[1] : x \in OpenEnds}
        BY Zenon
    <2>3. CASE kernel.size = 0 /\ \A e \in Ends : handle[c][e] = NoAddr
        <3>1. OpenEnds = {}
            BY <2>1, <2>3 DEF OpenEnds
        <3>2. O = {}
            BY <2>2, <3>1, Zenon
        <3>3. Cardinality(O) = 0
            BY <3>2, FewElements, Zenon
        <3>. QED  BY <2>2, <2>3, <3>3, Zenon DEF ChannelsAreRemoved
    <2>4. CASE kernel.size = 1 /\ \E e \in Ends : handle[c][e] # NoAddr
        <3>1. PICK e \in Ends : handle[c][e] # NoAddr
            BY <2>4, Zenon
        <3>2. <<c, e>> \in OpenEnds /\ <<c, e>>[1] = c
            BY <2>1, <3>1 DEF OpenEnds
        <3>3. \A x \in OpenEnds : x[1] = c
            BY <2>1 DEF OpenEnds
        <3>4. O = {c}
            BY <2>2, <3>2, <3>3, Zenon
        <3>5. Cardinality(O) = 1
            BY <3>4, FewElements, Zenon
        <3>. QED  BY <2>2, <2>4, <3>5, Zenon DEF ChannelsAreRemoved
    <2>. QED  BY <1>1, <2>1, <2>3, <2>4, VectorContents, Zenon
<1>. QED  BY <1>1, ChannelInvariance, PTL

(* A channel on its own is private: the vector, the pointers and the buffers
   implement PrivateChannels, where bytes arrive once, in order and unchanged
   at the other end and what a read returns is what was written. *)
THEOREM ChannelIsPrivate ==
    ASSUME OneChannel PROVE Spec => ImplementsPrivateChannels
<1>1. Init => Private!SpecInit
    <2>1. ASSUME Init PROVE Private!SpecInit
        <3>1. \A c \in Channels, e \in Ends : handle[c][e] = NoAddr
            BY <2>1, Zenon DEF Init
        <3>2. Queues(kernel, handle) = [c \in Channels |-> [e \in Ends |-> <<>>]]
            BY <3>1, Zenon DEF Queues
        <3>. QED  BY <2>1, <3>2, Zenon
                  DEF Init, Private!SpecInit, Private!Ends, Ends, Private!Done, Done, Queues
    <2>. QED  BY <2>1, Zenon
<1>2. ChannelInv /\ [Next]_vars => [Private!SpecNext]_(Private!spec_vars)
    <2>1. ASSUME ChannelInv, Next PROVE Private!SpecNext
        BY <2>1, NextStep, Zenon
    <2>2. ASSUME UNCHANGED vars PROVE UNCHANGED Private!spec_vars
        BY <2>2, Zenon DEF vars, Private!spec_vars
    <2>. QED  BY <2>1, <2>2, Zenon
<1>. QED  BY <1>1, <1>2, ChannelInvariance, PTL
          DEF Spec, ImplementsPrivateChannels, Private!PrivateChannelsSpec
=============================================================================
