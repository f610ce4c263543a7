--------------------------- MODULE PrivateChannels ---------------------------
(***************************************************************************)
(* What channels promise user programs, from the comments on the channel   *)
(* syscalls (kernel/syscalls.cpp:441, kernel/channel.h): two queues of      *)
(* bytes per channel, one into each end, that nothing else touches.        *)
(***************************************************************************)
EXTENDS Naturals, Sequences

CONSTANTS
    Channels,   \* names of channels
    Processes,  \* names of processes
    Payloads,   \* the sequences of bytes programs write
    Sizes       \* the sizes programs ask to read

Ends == {"end1", "end2"}
Other(e) == IF e = "end1" THEN "end2" ELSE "end1"

VARIABLES
    holder,     \* the process that has an open end, or "closed"
    queue,      \* the bytes an open end can read, oldest first
    answer      \* what the last operation returned

spec_vars == <<holder, queue, answer>>

Done == [status |-> "none"]
IsOpen(c, e) == holder[c][e] # "closed"

Create(p, c) ==
    /\ \A e \in Ends : ~IsOpen(c, e)
    /\ holder' = [holder EXCEPT ![c] = [e \in Ends |-> p]]
    /\ queue' = [queue EXCEPT ![c] = [e \in Ends |-> <<>>]]
    /\ answer' = Done

Give(c, e, p) ==
    /\ IsOpen(c, e)
    /\ holder' = [holder EXCEPT ![c][e] = p]
    /\ answer' = Done
    /\ UNCHANGED queue

(* Bytes for a closed end go nowhere. *)
Write(c, e, bytes) ==
    /\ IsOpen(c, e)
    /\ queue' = IF IsOpen(c, Other(e))
                THEN [queue EXCEPT ![c][Other(e)] = @ \o bytes]
                ELSE queue
    /\ answer' = Done
    /\ UNCHANGED holder

(* A read returns all it asked for, or nothing and how much there is. *)
Read(c, e, size) ==
    /\ IsOpen(c, e)
    /\ \/ /\ size <= Len(queue[c][e])
          /\ answer' = [status |-> "K_OK", bytes |-> SubSeq(queue[c][e], 1, size)]
          /\ queue' = [queue EXCEPT ![c][e] = SubSeq(@, size + 1, Len(@))]
       \/ /\ size > Len(queue[c][e])
          /\ answer' = [status |-> "K_BUFFER_TOO_SMALL", requested |-> size,
                        available |-> Len(queue[c][e])]
          /\ UNCHANGED queue
    /\ UNCHANGED holder

(* Closing an end leaves the other one, and what it can still read, alone. *)
CloseAll(closed) ==
    /\ holder' = [c \in Channels |-> [e \in Ends |->
                    IF <<c, e>> \in closed THEN "closed" ELSE holder[c][e]]]
    /\ queue' = [c \in Channels |-> [e \in Ends |->
                    IF <<c, e>> \in closed THEN <<>> ELSE queue[c][e]]]
    /\ answer' = Done

(* A process that ends closes the ends it has. *)
End(p) == CloseAll({x \in Channels \X Ends : holder[x[1]][x[2]] = p})

SpecInit ==
    /\ holder = [c \in Channels |-> [e \in Ends |-> "closed"]]
    /\ queue = [c \in Channels |-> [e \in Ends |-> <<>>]]
    /\ answer = Done

SpecNext ==
    \/ \E p \in Processes, c \in Channels : Create(p, c)
    \/ \E c \in Channels, e \in Ends :
        \/ \E p \in Processes : Give(c, e, p)
        \/ \E bytes \in Payloads : Write(c, e, bytes)
        \/ \E size \in Sizes : Read(c, e, size)
        \/ IsOpen(c, e) /\ CloseAll({<<c, e>>})
    \/ \E p \in Processes : End(p)

PrivateChannelsSpec == SpecInit /\ [][SpecNext]_spec_vars
=============================================================================
