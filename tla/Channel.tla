------------------------------- MODULE Channel -------------------------------
(***************************************************************************)
(* Channels as kernel/channel.cpp builds them: std::vector<Channel> holds  *)
(* the two Endpoints of every channel by value, a user handle is the       *)
(* address of an Endpoint inside the vector, and an Endpoint points to its *)
(* peer and to a malloc'd buffer.  erase() moves later elements down and   *)
(* leaves the bytes of the last one behind; addresses are not updated.     *)
(*                                                                         *)
(* The vector's first reserve is for 8 elements; the model stays below it, *)
(* so elements move only by erase().  Each syscall is one action: handlers *)
(* run with interrupts disabled.                                           *)
(***************************************************************************)
EXTENDS Integers, Sequences, FiniteSets

CONSTANTS
    Channels,           \* names for the channels programs have open at once
    Processes,          \* Task addresses
    Payloads,           \* what programs write
    Sizes,              \* how much programs ask to read
    kDefaultCapacity,   \* capacity of a new Endpoint's buffer
    MaxSize,            \* bound on size_, to keep the model finite
    NoAddr              \* nullptr

ASSUME ChannelAssumption ==
    /\ Cardinality(Channels) <= 8
    /\ \A bytes \in Payloads : bytes \in Seq(Nat)
    /\ Sizes \subseteq Nat
    /\ kDefaultCapacity \in Nat \ {0}
    /\ "closed" \notin Processes

Ends == {"end1", "end2"}
Other(e) == IF e = "end1" THEN "end2" ELSE "end1"

(* An Endpoint's address: the element of the vector it is in, and which. *)
Slots == 1 .. Cardinality(Channels)
Addresses == [slot : Slots, end : Ends]
Buffers == 1 .. 4 * Cardinality(Channels) + 1

ASSUME NullIsNoAddress == NoAddr \notin Addresses \cup Buffers

VARIABLES
    kernel,     \* gChannels (elements, size) and the buffers (heap)
    handle,     \* the handle to each end of each channel, NoAddr once closed
    has,        \* the process that has each end, "closed" once it is closed
    answer      \* what the last operation returned

vars == <<kernel, handle, has, answer>>

Done == [status |-> "none"]
EndAt(k, a) == k.elements[a.slot][a.end]

-----------------------------------------------------------------------------

(* malloc gives a buffer that is not in use; its bytes are not cleared. *)
Junk == 99
malloc(heap, bytes) ==
    LET b == CHOOSE b \in Buffers : b \notin DOMAIN heap
    IN  [addr |-> b, heap |-> [x \in DOMAIN heap \cup {b} |->
                                    IF x = b THEN bytes ELSE heap[x]]]
free(heap, b) == [x \in DOMAIN heap \ {b} |-> heap[x]]

(* The bytes at data_; a null data_ has none. *)
Bytes(heap, ep) == IF ep.data = NoAddr THEN <<>> ELSE heap[ep.data]

(* memcpy of the first size_ bytes into a new buffer of amt bytes, which
   replaces the old one. *)
Reallocate(k, a, amt) ==
    LET ep == EndAt(k, a)
        new == malloc(k.heap, [i \in 1 .. amt |->
                                IF i <= ep.size THEN Bytes(k.heap, ep)[i] ELSE Junk])
    IN  [k EXCEPT !.heap = free(new.heap, ep.data),
                  !.elements[a.slot][a.end] =
                      [ep EXCEPT !.data = new.addr, !.capacity = amt]]

(* Endpoint::ReserveIfNeeded and Endpoint::ShrinkCapacity. *)
ReserveIfNeeded(k, a, amt) ==
    IF amt > EndAt(k, a).capacity THEN Reallocate(k, a, amt) ELSE k

MutShrinkCapacityKeepsCapacity(k, a, amt) ==
    LET ep == EndAt(k, a)
    IN  IF ~(amt >= ep.size /\ amt < ep.capacity) THEN k
        ELSE IF amt = 0
        THEN [k EXCEPT !.heap = free(@, ep.data),
                       !.elements[a.slot][a.end] = [ep EXCEPT !.data = NoAddr]]
        ELSE Reallocate(k, a, amt)
ShrinkCapacity(k, a, amt) ==
    LET ep == EndAt(k, a)
    IN  IF ~(amt >= ep.size /\ amt < ep.capacity) THEN k
        ELSE IF amt = 0
        THEN [k EXCEPT !.heap = free(@, ep.data),
                       !.elements[a.slot][a.end] =
                           [ep EXCEPT !.data = NoAddr, !.capacity = 0]]
        ELSE Reallocate(k, a, amt)

(* Endpoint::WriteSelf. *)
MutWriteSelfAtStart(k, a, bytes) ==
    LET r == ReserveIfNeeded(k, a, EndAt(k, a).size + Len(bytes))
        ep == EndAt(r, a)
        old == Bytes(r.heap, ep)
    IN  IF bytes = <<>> THEN r
        ELSE [r EXCEPT !.heap[ep.data] = [i \in DOMAIN old |->
                            IF i <= Len(bytes) THEN bytes[i] ELSE old[i]],
                       !.elements[a.slot][a.end].size = ep.size + Len(bytes)]
WriteSelf(k, a, bytes) ==
    LET r == ReserveIfNeeded(k, a, EndAt(k, a).size + Len(bytes))
        ep == EndAt(r, a)
        old == Bytes(r.heap, ep)
    IN  IF bytes = <<>> THEN r
        ELSE [r EXCEPT !.heap[ep.data] = [i \in DOMAIN old |->
                            IF i \in ep.size + 1 .. ep.size + Len(bytes)
                            THEN bytes[i - ep.size] ELSE old[i]],
                       !.elements[a.slot][a.end].size = ep.size + Len(bytes)]

(* Endpoint::ReadSelf of 0 < size <= size_ bytes: memmove, then shrink. *)
ReadSelf(k, a, size) ==
    LET ep == EndAt(k, a)
        old == k.heap[ep.data]
        rest == ep.size - size
    IN  ShrinkCapacity(
            [k EXCEPT !.heap[ep.data] = [i \in DOMAIN old |->
                          IF i <= rest THEN old[i + size] ELSE old[i]],
                      !.elements[a.slot][a.end].size = rest],
            a, rest)

(* vector::erase: ~Channel frees both buffers, later elements are copied down
   one place. *)
MutEraseLeaksPeer(k, i) ==
    LET gone == k.elements[i]
    IN  [elements |-> [j \in Slots |-> IF j \in i .. k.size - 1
                                       THEN k.elements[j + 1] ELSE k.elements[j]],
         size |-> k.size - 1,
         heap |-> free(k.heap, gone["end1"].data)]
Erase(k, i) ==
    LET gone == k.elements[i]
    IN  [elements |-> [j \in Slots |-> IF j \in i .. k.size - 1
                                       THEN k.elements[j + 1] ELSE k.elements[j]],
         size |-> k.size - 1,
         heap |-> free(free(k.heap, gone["end1"].data), gone["end2"].data)]

(* Endpoint::Close.  The channel goes when both its ends are closed; only
   elements inside the vector are looked at. *)
Close(k, a) ==
    LET c == [k EXCEPT !.elements[a.slot][a.end].other = NoAddr]
    IN  IF EndAt(k, a).other = NoAddr THEN k
        ELSE IF /\ a.slot <= k.size
                /\ k.elements[a.slot][Other(a.end)].other = NoAddr
             THEN Erase(c, a.slot)
             ELSE c

(* CloseEndpointsOwnedByTask: one visit of its loop, and the loop.  After an
   erase the scan starts again at the first element; the elements it passes
   again have no open end of the owner left, so it is back at the same index. *)
CloseOwned(k, i, end, owner) ==
    IF k.elements[i][end].owner = owner
    THEN Close(k, [slot |-> i, end |-> end]) ELSE k

MutCloseEndpointsSkipsSecond(k, owner) ==
    LET scan[n \in 0 .. k.size] ==
            IF n = 0 THEN k ELSE CloseOwned(scan[n - 1], n, "end1", owner)
    IN  scan[k.size]
Visit(scan, owner) ==
    LET closed == CloseOwned(CloseOwned(scan.k, scan.at, "end1", owner),
                             scan.at, "end2", owner)
    IN  IF scan.at > scan.k.size THEN scan
        ELSE [k |-> closed,
              at |-> IF closed.size < scan.k.size THEN scan.at ELSE scan.at + 1]
CloseEndpointsOwnedByTask(k, owner) ==
    LET scan[n \in 0 .. k.size] ==
            IF n = 0 THEN [k |-> k, at |-> 1] ELSE Visit(scan[n - 1], owner)
    IN  scan[k.size].k

-----------------------------------------------------------------------------

(* SYS_ChannelCreate: emplace_back constructs the element after the last one,
   two new Endpoints that point to each other, both owned by the caller. *)
NewEnd(b, p, peer) ==
    [other |-> peer, size |-> 0, capacity |-> kDefaultCapacity, data |-> b, owner |-> p]
ChannelCreate(p, c) ==
    LET i == kernel.size + 1
        empty == [j \in 1 .. kDefaultCapacity |-> Junk]
        m1 == malloc(kernel.heap, empty)
        m2 == malloc(m1.heap, empty)
        at(e) == [slot |-> i, end |-> e]
    IN  /\ \A e \in Ends : handle[c][e] = NoAddr
        /\ i \in Slots
        /\ kernel' = [elements |-> [kernel.elements EXCEPT ![i] =
                          [e \in Ends |-> NewEnd(IF e = "end1" THEN m1.addr ELSE m2.addr,
                                                 p, at(Other(e)))]],
                      size |-> i, heap |-> m2.heap]
        /\ handle' = [handle EXCEPT ![c] = [e \in Ends |-> at(e)]]
        /\ has' = [has EXCEPT ![c] = [e \in Ends |-> p]]
        /\ answer' = Done

(* SYS_TransferHandle, with which a program gives an end away. *)
TransferHandle(c, e, p) ==
    LET a == handle[c][e]
    IN  /\ a # NoAddr
        /\ kernel' = IF a.slot <= kernel.size
                     THEN [kernel EXCEPT !.elements[a.slot][a.end].owner = p]
                     ELSE kernel
        /\ has' = [has EXCEPT ![c][e] = p]
        /\ answer' = Done
        /\ UNCHANGED handle

(* SYS_ChannelWrite: the bytes go to the endpoint other_ points to. *)
ChannelWrite(c, e, bytes) ==
    LET a == handle[c][e]
        to == EndAt(kernel, a).other
    IN  /\ a # NoAddr
        /\ to # NoAddr => EndAt(kernel, to).size + Len(bytes) <= MaxSize
        /\ kernel' = IF to = NoAddr THEN kernel ELSE WriteSelf(kernel, to, bytes)
        /\ answer' = Done
        /\ UNCHANGED <<handle, has>>

(* SYS_ChannelRead. *)
ChannelRead(c, e, size) ==
    LET a == handle[c][e]
        ep == EndAt(kernel, a)
    IN  /\ a # NoAddr
        /\ \/ /\ size > ep.size
              /\ answer' = [status |-> "K_BUFFER_TOO_SMALL", requested |-> size,
                            available |-> ep.size]
              /\ UNCHANGED kernel
           \/ /\ size <= ep.size
              /\ answer' = [status |-> "K_OK",
                            bytes |-> SubSeq(Bytes(kernel.heap, ep), 1, size)]
              /\ kernel' = IF size = 0 THEN kernel ELSE ReadSelf(kernel, a, size)
        /\ UNCHANGED <<handle, has>>

(* SYS_HandleClose; the program does not use the handle again. *)
HandleClose(c, e) ==
    /\ handle[c][e] # NoAddr
    /\ kernel' = Close(kernel, handle[c][e])
    /\ handle' = [handle EXCEPT ![c][e] = NoAddr]
    /\ has' = [has EXCEPT ![c][e] = "closed"]
    /\ answer' = Done

(* ~Task: the process stops, and with it everything it did with its handles. *)
TaskEnds(p) ==
    /\ kernel' = CloseEndpointsOwnedByTask(kernel, p)
    /\ handle' = [c \in Channels |-> [e \in Ends |->
                    IF has[c][e] = p THEN NoAddr ELSE handle[c][e]]]
    /\ has' = [c \in Channels |-> [e \in Ends |->
                    IF has[c][e] = p THEN "closed" ELSE has[c][e]]]
    /\ answer' = Done

Init ==
    /\ kernel = [elements |-> [i \in Slots |-> [e \in Ends |-> NewEnd(NoAddr, NoAddr, NoAddr)]],
                 size |-> 0, heap |-> [b \in {} |-> <<>>]]
    /\ handle = [c \in Channels |-> [e \in Ends |-> NoAddr]]
    /\ has = [c \in Channels |-> [e \in Ends |-> "closed"]]
    /\ answer = Done

Next ==
    \/ \E p \in Processes, c \in Channels : ChannelCreate(p, c)
    \/ \E c \in Channels, e \in Ends, p \in Processes : TransferHandle(c, e, p)
    \/ \E c \in Channels, e \in Ends, bytes \in Payloads : ChannelWrite(c, e, bytes)
    \/ \E c \in Channels, e \in Ends, size \in Sizes : ChannelRead(c, e, size)
    \/ \E c \in Channels, e \in Ends : HandleClose(c, e)
    \/ \E p \in Processes : TaskEnds(p)

Spec == Init /\ [][Next]_vars

-----------------------------------------------------------------------------

InVector == {[slot |-> i, end |-> e] : i \in 1 .. kernel.size, e \in Ends}
OpenEnds == {x \in Channels \X Ends : handle[x[1]][x[2]] # NoAddr}

(* What an endpoint holds fits in the buffer it has, so the copies of
   ReserveIfNeeded, ShrinkCapacity, WriteSelf and ReadSelf stay inside it:
   also after a read emptied the channel and freed the buffer. *)
BufferHoldsContents ==
    \A a \in InVector :
        /\ EndAt(kernel, a).size <= EndAt(kernel, a).capacity
        /\ EndAt(kernel, a).capacity = Len(Bytes(kernel.heap, EndAt(kernel, a)))

(* Every buffer belongs to exactly one endpoint of the vector: none is leaked,
   shared or freed early, whichever end closes first and whoever ends. *)
BuffersAreOwned ==
    LET backed == {a \in InVector : EndAt(kernel, a).data # NoAddr}
    IN  /\ {EndAt(kernel, a).data : a \in backed} = DOMAIN kernel.heap
        /\ \A a, b \in backed :
            EndAt(kernel, a).data = EndAt(kernel, b).data => a = b

(* A channel is in the vector exactly as long as one of its ends is open. *)
ChannelsAreRemoved ==
    kernel.size = Cardinality({x[1] : x \in OpenEnds})

(* Channels behave as PrivateChannels says: bytes arrive once, in order and
   unchanged at the other end, and nowhere else. *)
Private == INSTANCE PrivateChannels WITH
    holder <- has,
    queue <- [c \in Channels |-> [e \in Ends |->
                IF handle[c][e] = NoAddr THEN <<>>
                ELSE SubSeq(Bytes(kernel.heap, EndAt(kernel, handle[c][e])),
                            1, EndAt(kernel, handle[c][e]).size)]]
ImplementsPrivateChannels == Private!PrivateChannelsSpec

(* A channel is one "through which two tasks can privately communicate"
   (syscalls.cpp:441): no two open ends are the same endpoint. *)
HandlesArePrivate ==
    \A x, y \in OpenEnds : handle[x[1]][x[2]] = handle[y[1]][y[2]] => x = y

=============================================================================
