------------------------------ MODULE Startup -------------------------------
(***************************************************************************)
(* How a program gets its file system, environment and arguments: between  *)
(* MapAnonAndSwap and ProcessStart, LoadElfProgram (libc/elf.cpp) creates  *)
(* a channel, gives one end to the new process and writes three sizes and  *)
(* three blocks of data to the other; __libc_start_main reads them before  *)
(* it calls main.                                                          *)
(*                                                                         *)
(* One startup channel is open at a time, which behaves as PrivateChannels *)
(* promises (ChannelOne); the code does not see to that, and several open  *)
(* channels do not (ChannelTwo).  A loader whose turn it is not waits.     *)
(*                                                                         *)
(* A size is written as a word and a block as bytes; both are one unit of  *)
(* a queue each.                                                           *)
(***************************************************************************)
EXTENDS ExecMemory, Sequences

CONSTANT
    Messages        \* the contents of file system, environment and arguments

Names == {1}
NoName == 0

ASSUME StartupAssumption ==
    /\ Messages \subseteq Seq(Nat) \X Seq(Nat) \X Seq(Nat)
    /\ "closed" \notin Tasks

VARIABLES
    holder, queue, answer,  \* the channels
    sent,       \* what LoadElfProgram was asked to pass to each process
    got,        \* what each process has read; both until main is called
    wr,         \* how far each loader is: its last syscall, see Loads
    rd,         \* which read each process is at; 0: none
    out, in     \* the channel it writes to as a loader, and reads from

Ch == INSTANCE PrivateChannels
        WITH Channels <- Names, Processes <- Tasks, Payloads <- {}, Sizes <- {}

channelVars == <<holder, queue, answer>>
startupVars == <<sent, got, wr, rd, out, in>>
programVars == <<allVars, channelVars, startupVars>>

NumReads == 6
Started == NumReads + 3
Stream(m) == <<<<Len(m[1])>>, m[1], <<Len(m[2])>>, m[2], <<Len(m[3])>>, m[3]>>

-----------------------------------------------------------------------------

(* LoadElfProgram after MapAnonAndSwap: ChannelCreate, TransferHandle, six times
   ChannelWrite; LoadRun is ProcessStart, and HandleClose follows it. *)
ChannelCreate(t) ==
    /\ pc[t] = "run" /\ wr[t] = 0
    /\ \E c \in Names, m \in Messages :
        /\ Ch!Create(t, c)
        /\ out' = [out EXCEPT ![t] = c]
        /\ sent' = [sent EXCEPT ![child[t]] = m]
    /\ wr' = [wr EXCEPT ![t] = 1]
    /\ UNCHANGED <<allVars, got, rd, in>>

TransferHandle(t) ==
    /\ pc[t] = "run" /\ wr[t] = 1
    /\ Ch!Give(out[t], "end2", child[t])
    /\ wr' = [wr EXCEPT ![t] = 2]
    /\ UNCHANGED <<allVars, sent, got, rd, out, in>>

(* Variant: the environment goes before the file system. *)
MutChannelWriteSwaps(t) ==
    /\ pc[t] = "run" /\ wr[t] \in 2 .. NumReads + 1
    /\ LET m == sent[child[t]]
       IN  Ch!Write(out[t], "end1", Stream(<<m[2], m[1], m[3]>>)[wr[t] - 1])
    /\ wr' = [wr EXCEPT ![t] = @ + 1]
    /\ UNCHANGED <<allVars, sent, got, rd, out, in>>

ChannelWrite(t) ==
    /\ pc[t] = "run" /\ wr[t] \in 2 .. NumReads + 1
    /\ Ch!Write(out[t], "end1", Stream(sent[child[t]])[wr[t] - 1])
    /\ wr' = [wr EXCEPT ![t] = @ + 1]
    /\ UNCHANGED <<allVars, sent, got, rd, out, in>>

(* Variants: the process starts before the last write, and does not wait for it;
   a loader that has started a process goes on without closing its end. *)
MutStartProcessEarly(t) ==
    /\ wr[t] = NumReads + 1
    /\ LoadRun(t)
    /\ wr' = [wr EXCEPT ![t] = Started]
    /\ rd' = [rd EXCEPT ![child[t]] = 1]
    /\ in' = [in EXCEPT ![child[t]] = out[t]]
    /\ UNCHANGED <<channelVars, sent, got, out>>

MutStartProcessLeavesEnd(t) ==
    /\ wr[t] = NumReads + 2
    /\ LoadRun(t)
    /\ wr' = [wr EXCEPT ![t] = 0]
    /\ rd' = [rd EXCEPT ![child[t]] = 1]
    /\ in' = [in EXCEPT ![child[t]] = out[t]]
    /\ UNCHANGED <<channelVars, sent, got, out>>

StartProcess(t) ==
    /\ wr[t] = NumReads + 2
    /\ LoadRun(t)
    /\ wr' = [wr EXCEPT ![t] = Started]
    /\ rd' = [rd EXCEPT ![child[t]] = 1]
    /\ in' = [in EXCEPT ![child[t]] = out[t]]
    /\ UNCHANGED <<channelVars, sent, got, out>>

CloseOut(t) ==
    /\ pc[t] = "unmap" /\ wr[t] = Started
    /\ Ch!CloseAll({<<out[t], "end1">>})
    /\ wr' = [wr EXCEPT ![t] = 0]
    /\ out' = [out EXCEPT ![t] = NoName]
    /\ UNCHANGED <<allVars, sent, got, rd, in>>

(* __libc_start_main from its first ChannelReadBlocking, which repeats a read that
   fails, to HandleClose.  Userboot stage 1 reads nothing. *)
Asks(t) == IF rd[t] % 2 = 1 THEN 1 ELSE got[t][rd[t] - 1][1]

ChannelReadBlocking(t) ==
    /\ pc[t] = "main" /\ rd[t] \in 1 .. NumReads
    /\ Ch!Read(in[t], "end2", Asks(t))
    /\ IF answer'.status = "K_OK"
       THEN /\ got' = [got EXCEPT ![t] = Append(@, answer'.bytes)]
            /\ rd' = [rd EXCEPT ![t] = @ + 1]
       ELSE UNCHANGED <<got, rd>>
    /\ UNCHANGED <<allVars, sent, wr, out, in>>

(* Variant: one read too many. *)
MutCloseInLate(t) ==
    /\ pc[t] = "main" /\ rd[t] = NumReads + 1
    /\ Ch!CloseAll({<<in[t], "end2">>})
    /\ rd' = [rd EXCEPT ![t] = @ + 1]
    /\ in' = [in EXCEPT ![t] = NoName]
    /\ sent' = [sent EXCEPT ![t] = <<>>]
    /\ got' = [got EXCEPT ![t] = <<>>]
    /\ UNCHANGED <<allVars, wr, out>>

CloseIn(t) ==
    /\ pc[t] = "main" /\ rd[t] = NumReads + 1
    /\ Ch!CloseAll({<<in[t], "end2">>})
    /\ rd' = [rd EXCEPT ![t] = 0]
    /\ in' = [in EXCEPT ![t] = NoName]
    /\ sent' = [sent EXCEPT ![t] = <<>>]
    /\ got' = [got EXCEPT ![t] = <<>>]
    /\ UNCHANGED <<allVars, wr, out>>

(* The other steps of a program, and its end, which closes its channels. *)
InProgram(t) ==
    /\ \/ Start(t)
       \/ LibcStart(t)
       \/ rd[t] = 0 /\ LoadAlloc(t)
       \/ LoadCreate(t)
       \/ LoadMap(t)
       \/ ResizableBuffers(t)
       \/ wr[t] = 0 /\ LoadUnmap(t)
    /\ UNCHANGED <<channelVars, startupVars>>

EndsAnywhere(t) ==
    /\ Ends(t)
    /\ Ch!End(t)
    /\ sent' = [sent EXCEPT ![t] = <<>>]
    /\ got' = [got EXCEPT ![t] = <<>>]
    /\ wr' = [wr EXCEPT ![t] = 0]
    /\ rd' = [rd EXCEPT ![t] = 0]
    /\ out' = [out EXCEPT ![t] = NoName]
    /\ in' = [in EXCEPT ![t] = NoName]

StartupInit ==
    /\ ExecInit
    /\ Ch!SpecInit
    /\ sent = [t \in Tasks |-> <<>>]
    /\ got = [t \in Tasks |-> <<>>]
    /\ wr = [t \in Tasks |-> 0]
    /\ rd = [t \in Tasks |-> 0]
    /\ out = [t \in Tasks |-> NoName]
    /\ in = [t \in Tasks |-> NoName]

Loads(t) ==
    \/ ChannelCreate(t)
    \/ TransferHandle(t)
    \/ ChannelWrite(t)
    \/ StartProcess(t)
    \/ CloseOut(t)
Reads(t) == ChannelReadBlocking(t) \/ CloseIn(t)

StartupNext ==
    ~panic /\ \E t \in Tasks : Loads(t) \/ Reads(t) \/ InProgram(t) \/ EndsAnywhere(t)
StartupSpec == StartupInit /\ [][StartupNext]_programVars

-----------------------------------------------------------------------------

(* Programs keep their places and addresses. *)
StartupTypeOK ==
    /\ ExecTypeOK
    /\ wr \in [Tasks -> 0 .. Started]
    /\ rd \in [Tasks -> 0 .. NumReads + 1]
    /\ out \in [Tasks -> Names \cup {NoName}]
    /\ in \in [Tasks -> Names \cup {NoName}]

(* While one startup channel is open at a time: the loop in ChannelReadBlocking
   never spins, as all a program asks for is there when it asks, whether or not
   its loader still runs. *)
StartupReadsSucceed ==
    \A t \in Tasks :
        pc[t] = "main" /\ rd[t] \in 1 .. NumReads =>
            /\ Ch!IsOpen(in[t], "end2")
            /\ Asks(t) <= Len(queue[in[t]]["end2"])

(* While one startup channel is open at a time: what a program has read is what its
   own loader was asked to pass it, block by block, whoever used the channel
   before and wherever they ended; when it calls main it has all of it. *)
ProgramsGetWhatWasSent ==
    \A t \in Tasks :
        pc[t] = "main" /\ rd[t] > 0 => got[t] = SubSeq(Stream(sent[t]), 1, rd[t] - 1)

(* A program in main does not hold an end of the startup channel, unless it is
   loading another one, and one that has ended does not: it is not leaked, so that
   the next loader can open one. *)
StartupChannelsAreClosed ==
    \A t \in Tasks, c \in Names, e \in Ch!Ends :
        holder[c][e] = t =>
            \/ e = "end1" /\ out[t] = c /\ pc[t] \in {"run", "unmap"}
            \/ e = "end2" /\ out[t] = c /\ wr[t] = 1
            \/ e = "end2" /\ pc[t] \in {"created", "start", "libc", "abort"}
            \/ e = "end2" /\ in[t] = c /\ rd[t] > 0
=============================================================================
