------------------------------ MODULE Scheduler ------------------------------
(***************************************************************************)
(* The kernel scheduler: the run queue, the process syscalls that reach    *)
(* it, and the signals tasks wait for (kernel/scheduler.cpp, scheduler.h,  *)
(* linkedlist.h and the Process* handlers of kernel/syscalls.cpp).         *)
(*                                                                         *)
(* Handlers run with interrupts disabled (the assert in isr_handler), so   *)
(* one handler is one action.  A Task is named by its address.  Addresses  *)
(* are reused: ProcessCreate takes any address that holds no live Task,    *)
(* which is what kmalloc does after a delete.                              *)
(***************************************************************************)
EXTENDS Integers, Sequences, FiniteSets, Functions

CONSTANTS
    Tasks,      \* the addresses kmalloc can give a user Task
    Kernel,     \* gKernelTask, the main kernel task
    NoTask,     \* nullptr
    Masks,      \* the signal masks user programs pass to ProcessWait
    Retvals     \* the values user programs pass to ProcessKill

(* Task::signal_t.  NoSignal is signal_t(0). *)
Signals == {"kReady", "kRunning", "kTerminated"}
NoSignal == "none"

Addrs == Tasks \cup {Kernel}
Handles == Addrs \cup {NoTask}  \* what programs pass for a process

ASSUME SchedulerAssumption ==
    /\ Tasks # {}
    /\ Kernel \notin Tasks
    /\ NoTask \notin Addrs
    /\ Masks \subseteq SUBSET Signals
    /\ Retvals \subseteq Nat
    /\ {0, 1} \subseteq Retvals

VARIABLES
    gTaskQueue, \* the run queue; its head is the current task
    live,       \* the addresses that hold a constructed Task
    parent,     \* Task::parent_
    waiting,    \* Task::waiting_on_signals_, one entry per task waited on
    listeners,  \* Task::listening_for_signals_
    result      \* EAX, EBX, ECX of a ProcessWait that returns in this step

vars == <<gTaskQueue, live, parent, waiting, listeners, result>>

(* Task::Signals.  The vector holds at most one entry per sender. *)
Entries == [task : Addrs, expecting : SUBSET Signals,
            received : Signals \cup {NoSignal}, value : Retvals]

(* What the current task finds in its registers when its ProcessWait returns;
   NoResult in every other state.  EBX still holds the handle the caller
   passed when ProcessWait did not block; ECX is only written on delivery. *)
NoResult == [status |-> "none", ebx |-> NoTask, ecx |-> 0]
Results == [status : {"none", "K_OK", "K_INVALID_HANDLE"},
            ebx : Signals \cup Addrs \cup {NoTask}, ecx : Retvals]

Queued == Range(gTaskQueue)     \* IsRunningTask(t) is t \in Queued
Current == Head(gTaskQueue)     \* GetCurrentTask

(* Task::getChildren: IterateTasks collects, in queue order from the head, the
   tasks whose parent_ is t; the first of them, if any, is children[0]. *)
getChildren(t) == {c \in Queued : parent[c] = t}
FirstChild(t) ==
    {gTaskQueue[i] : i \in {j \in DOMAIN gTaskQueue :
        /\ gTaskQueue[j] \in getChildren(t)
        /\ \A k \in 1 .. j - 1 : gTaskQueue[k] \notin getChildren(t)}}

(* SYS_ProcessInfo(PROC_CHILDREN) copies the handles if n of them fit in the
   caller's buffer, and is K_BUFFER_TOO_SMALL otherwise. *)
ProcessInfoFits(t, n) == Cardinality(getChildren(t)) <= n

-----------------------------------------------------------------------------

(* Task::canRunTask: no wait is pending, or one has been answered. *)
canRunTask(w, t) ==
    \/ w[t] = {}
    \/ \E e \in w[t] : e.received # NoSignal

(* Task::SendSignal(sig, v) on sender: each listener with an entry for the
   sender that expects sig records it.  A listener whose Task was deleted died
   as the current task, with no entries, and that is what the bytes it leaves
   behind still say; ListenersAreLive is about whether they are read. *)
MutSendSignalAnySignal(w, l, sender, sig, v) ==
    [t \in Addrs |->
        IF t \in l[sender]
        THEN {IF e.task = sender
              THEN [e EXCEPT !.received = sig, !.value = v]
              ELSE e : e \in w[t]}
        ELSE w[t]]
SendSignal(w, l, sender, sig, v) ==
    [t \in Addrs |->
        IF t \in l[sender]
        THEN {IF e.task = sender /\ sig \in e.expecting
              THEN [e EXCEPT !.received = sig, !.value = v]
              ELSE e : e \in w[t]}
        ELSE w[t]]

(* Task::WaitOn with GetOrCreateSignal: the mask is or-ed into the entry. *)
WaitOn(t, other, mask) ==
    LET old == {e \in waiting[t] : e.task = other}
        new == IF old = {}
               THEN {[task |-> other, expecting |-> mask,
                      received |-> NoSignal, value |-> 0]}
               ELSE {[e EXCEPT !.expecting = @ \cup mask] : e \in old}
    IN  [waiting EXCEPT ![t] = (@ \ old) \cup new]

(* The scan at the start of Schedule: nodes after the current one whose task
   can run, and the first of them (next_node), if any. *)
MutCandidatesUserOnly ==
    {i \in 2 .. Len(gTaskQueue) : /\ gTaskQueue[i] # Kernel
                                  /\ canRunTask(waiting, gTaskQueue[i])}
Candidates == {i \in 2 .. Len(gTaskQueue) : canRunTask(waiting, gTaskQueue[i])}
NextNode == {i \in Candidates : \A j \in Candidates : i <= j}

(* Node::Cycle until node n is the front; Drop also unlinks the old front. *)
MutCycleToSwapsNodes(q, n) == [q EXCEPT ![1] = q[n], ![n] = q[1]]
CycleTo(q, n) == SubSeq(q, n, Len(q)) \o SubSeq(q, 1, n - 1)
MutDropAndCycleToKeepsNode(q, n) == CycleTo(q, n)
DropAndCycleTo(q, n) == SubSeq(q, n, Len(q)) \o SubSeq(q, 2, n - 1)

(* The tail of Schedule: q is the new queue, w and l the lists so far.  If the
   task switched to was woken by a signal, the signal goes to its registers
   and the entry is removed; then its listeners are sent kRunning. *)
MutSwitchToKeepsEntry(q, w, l) ==
    LET new == Head(q)
        got == {e \in w[new] : e.received # NoSignal}
    IN  /\ gTaskQueue' = q
        /\ waiting' = SendSignal(w, l, new, "kRunning", 0)
        /\ \/ got = {} /\ result' = NoResult
           \/ \E e \in got : result' = [status |-> "K_OK", ebx |-> e.received,
                                        ecx |-> e.value]
SwitchTo(q, w, l) ==
    LET new == Head(q)
        got == {e \in w[new] : e.received # NoSignal}
    IN  /\ gTaskQueue' = q
        /\ \/ /\ got = {}
              /\ waiting' = SendSignal(w, l, new, "kRunning", 0)
              /\ result' = NoResult
           \/ \E e \in got :
              /\ waiting' = SendSignal([w EXCEPT ![new] = @ \ {e}], l,
                                       new, "kRunning", 0)
              /\ result' = [status |-> "K_OK", ebx |-> e.received,
                            ecx |-> e.value]

-----------------------------------------------------------------------------

(* TimerCallback calls Schedule(regs, 0).  It returns without switching when
   the kernel task is alone or every other task is blocked. *)
TimerTick ==
    /\ \/ /\ Current = Kernel
          /\ Candidates = {}
          /\ result' = NoResult
          /\ UNCHANGED <<gTaskQueue, waiting>>
       \/ \E n \in NextNode :
            SwitchTo(CycleTo(gTaskQueue, n), waiting, listeners)
    /\ UNCHANGED <<live, parent, listeners>>

(* SYS_ProcessCreate: kmalloc gives a free address t; the new Task's parent is
   the current one and it is not queued. *)
ProcessCreate(t) ==
    /\ Current \in Tasks
    /\ t \in Tasks \ live
    /\ live' = live \cup {t}
    /\ parent' = [parent EXCEPT ![t] = Current]
    /\ waiting' = [waiting EXCEPT ![t] = {}]
    /\ listeners' = [listeners EXCEPT ![t] = {}]
    /\ result' = NoResult
    /\ UNCHANGED gTaskQueue

(* SYS_ProcessStart: RegisterTask appends the task, then sends kReady.  The
   one caller, LoadElfProgram, starts a handle it has just created, once. *)
ProcessStart(t) ==
    /\ Current \in Tasks
    /\ t \in (live \cap Tasks) \ Queued
    /\ gTaskQueue' = Append(gTaskQueue, t)
    /\ waiting' = SendSignal(waiting, listeners, t, "kReady", 0)
    /\ result' = NoResult
    /\ UNCHANGED <<live, parent, listeners>>

(* SYS_ProcessInfo, and every other syscall that leaves the scheduler alone. *)
ProcessInfo ==
    /\ Current \in Tasks
    /\ result' = NoResult
    /\ UNCHANGED <<gTaskQueue, live, parent, waiting, listeners>>

(* SYS_ProcessWait(h, mask): its two early returns, and the case that blocks.
   In the latter Schedule scans the other tasks, so the new wait of the current
   one does not change Candidates. *)
ProcessWaitReturns(h, mask) ==
    /\ Current \in Tasks
    /\ mask = {} \/ h \notin Queued
    /\ result' = [status |-> IF mask = {} THEN "K_OK" ELSE "K_INVALID_HANDLE",
                  ebx |-> h, ecx |-> 0]
    /\ UNCHANGED <<gTaskQueue, live, parent, waiting, listeners>>

ProcessWaitBlocks(h, mask) ==
    /\ Current \in Tasks
    /\ mask # {}
    /\ h \in Queued
    /\ listeners' = [listeners EXCEPT ![h] = @ \cup {Current}]
    /\ \E n \in NextNode :
        SwitchTo(CycleTo(gTaskQueue, n), WaitOn(Current, h, mask), listeners')
    /\ UNCHANGED <<live, parent>>

(* Schedule(nullptr, retval): the current task leaves the queue, its listeners
   are sent kTerminated, and ~Task destroys it.  Its children keep its address
   as their parent_. *)
MutTerminateDeletesFirst(retval) ==
    LET dead == Current
        l == [listeners EXCEPT ![dead] = {}]
    IN  /\ dead \in Tasks
        /\ \E n \in NextNode :
            SwitchTo(DropAndCycleTo(gTaskQueue, n),
                     [SendSignal(waiting, l, dead, "kTerminated", retval)
                         EXCEPT ![dead] = {}], l)
        /\ listeners' = l
        /\ live' = live \ {dead}
        /\ parent' = [parent EXCEPT ![dead] = NoTask]
Terminate(retval) ==
    LET dead == Current
    IN  /\ dead \in Tasks
        /\ listeners' = [listeners EXCEPT ![dead] = {}]
        /\ \E n \in NextNode :
            SwitchTo(DropAndCycleTo(gTaskQueue, n),
                     [SendSignal(waiting, listeners, dead, "kTerminated", retval)
                         EXCEPT ![dead] = {}],
                     listeners')
        /\ live' = live \ {dead}
        /\ parent' = [parent EXCEPT ![dead] = NoTask]

(* SYS_ProcessKill. *)
ProcessKill == \E retval \in Retvals : Terminate(retval)

(* DispatchUserException: a fault of a user task kills it with value 1. *)
MutUserExceptionMinusOne == Terminate(-1)
UserException == Terminate(1)

-----------------------------------------------------------------------------

(* scheduler::Initialize, then JumpToUserMode registers the first user task. *)
Init ==
    \E first \in Tasks :
        /\ gTaskQueue = <<Kernel, first>>
        /\ live = {Kernel, first}
        /\ parent = [t \in Addrs |-> IF t = first THEN Kernel ELSE NoTask]
        /\ waiting = [t \in Addrs |-> {}]
        /\ listeners = [t \in Addrs |-> {}]
        /\ result = NoResult

Next ==
    \/ TimerTick
    \/ \E t \in Tasks : ProcessCreate(t)
    \/ \E t \in Tasks : ProcessStart(t)
    \/ ProcessInfo
    \/ \E h \in Handles, mask \in Masks : ProcessWaitReturns(h, mask)
    \/ \E h \in Addrs, mask \in Masks : ProcessWaitBlocks(h, mask)
    \/ ProcessKill
    \/ UserException

(* The PIT raises IRQ0 for ever, and every return to a task re-enables
   interrupts; nothing forces a user program to make a syscall. *)
Fairness == WF_vars(TimerTick)

Spec == Init /\ [][Next]_vars
FairSpec == Spec /\ Fairness

-----------------------------------------------------------------------------

(* The scheduler's variables keep the types the source declares; the signal
   and value delivered to a waiting task are ones some task really sent. *)
TypeOK ==
    /\ gTaskQueue \in Seq(Addrs)
    /\ live \subseteq Addrs
    /\ parent \in [Addrs -> Addrs \cup {NoTask}]
    /\ waiting \in [Addrs -> SUBSET Entries]
    /\ listeners \in [Addrs -> SUBSET Addrs]
    /\ result \in Results

(* The run queue never lists a task twice and never a deleted one, so no node
   that Schedule walks points to freed memory. *)
QueueIsSound ==
    /\ \A i, j \in DOMAIN gTaskQueue : gTaskQueue[i] = gTaskQueue[j] => i = j
    /\ Queued \subseteq live

(* Schedule called for a user task always finds a task to switch to: its
   assert (scheduler.cpp:186) holds, its early return for a lone task is not
   taken, and the abort() after it in ProcessWait, ProcessKill and
   DispatchUserException is unreachable. *)
ScheduleFindsATask ==
    /\ gTaskQueue # <<>>
    /\ Current # Kernel => Candidates # {}

(* The current task waits for nothing, and no task waits for two things at
   once: a ProcessWait is always answered before the next one starts. *)
OneWaitAtATime ==
    /\ waiting[Current] = {}
    /\ \A t \in Addrs : \A e, f \in waiting[t] : e = f

(* No lost wakeup: a task that still waits for a termination waits on a task
   that is in the queue and that lists it as a listener, across exits and
   reuse of addresses. *)
TerminationWillBeSent ==
    \A t \in live : \A e \in waiting[t] :
        "kTerminated" \in e.expecting /\ e.received = NoSignal =>
            e.task \in Queued /\ t \in listeners[e.task]

(* Only queued tasks wait, and the main kernel task is queued and never waits:
   with the parts above, what every step of the scheduler relies on. *)
OnlyQueuedTasksWait ==
    /\ Kernel \in Queued
    /\ waiting[Kernel] = {}
    /\ \A t \in Addrs \ Queued : waiting[t] = {}

(* The inductive invariant of SchedulerProofs. *)
SchedulerInv ==
    /\ TypeOK
    /\ QueueIsSound
    /\ OneWaitAtATime
    /\ OnlyQueuedTasksWait
    /\ TerminationWillBeSent

(* SendSignal (scheduler.cpp:102) never follows a pointer to a deleted
   listener. *)
ListenersAreLive ==
    \A t \in live : listeners[t] \subseteq live

(* Every context switch brings each runnable task that it neither leaves nor
   chooses strictly nearer to the head of the queue, so a task that stays
   runnable is passed over at most Len(gTaskQueue) - 2 times. *)
Position(q, t) == CHOOSE i \in DOMAIN q : q[i] = t
MovesUp(t) ==
    /\ canRunTask(waiting, t)
    /\ Current # Current'
    /\ t # Current
    /\ t # Current'
    => Position(gTaskQueue', t) < Position(gTaskQueue, t)
RunnableTasksAdvance == [][\A t \in Queued \cap Queued' : MovesUp(t)]_gTaskQueue

(* No starvation: a queued task that can run gets the processor. *)
NoStarvation ==
    \A t \in Tasks :
        (t \in Queued /\ canRunTask(waiting, t)) ~> (gTaskQueue[1] = t)

(* ProcessWait(s, TASK_TERMINATED) returns kTerminated once s is gone. *)
WaitsOnlyForEnd(t, s) ==
    \E e \in waiting[t] : e.task = s /\ e.expecting = {"kTerminated"}
TerminationIsReported ==
    \A t, s \in Tasks :
        (t \in Queued /\ WaitsOnlyForEnd(t, s) /\ <>(s \notin Queued))
            ~> (t = gTaskQueue[1] /\ result.ebx = "kTerminated")

=============================================================================
