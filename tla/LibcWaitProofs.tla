--------------------------- MODULE LibcWaitProofs ---------------------------
(***************************************************************************)
(* Proofs about LibcWait: programs that call LoadElfProgram and wait() use *)
(* the scheduler as Scheduler assumes, and of the three assertions of      *)
(* wait() the first and, for a wait that blocked, the last one hold, for   *)
(* any number of programs.                                                 *)
(***************************************************************************)
EXTENDS LibcWait, SchedulerProofs, FiniteSetTheorems

UserTypes ==
    /\ pc \in [Addrs -> Pcs]
    /\ child \in [Addrs -> Handles]

(* Between ProcessCreate and ProcessStart the new task is the caller's own child
   and not in the queue, so that ProcessStart adds to nobody else's children. *)
NewChildIsMine ==
    \A u \in Tasks : pc[u] = "exec" =>
        child[u] \in live \ Queued /\ parent[child[u]] = u

KernelIsNoChild == parent[Kernel] = NoTask

-----------------------------------------------------------------------------

LEMMA MasksAreLibcs == LibcMasksOnly /\ {"kTerminated"} \in Masks
BY WaitAssumption DEF WaitAssumption, LibcMasksOnly

LEMMA FirstChildIsQueued == ASSUME NEW t PROVE FirstChild(t) \subseteq Queued
BY DEF FirstChild, getChildren

(* A step of a program is a step of the scheduler. *)
LEMMA UserStepsAreSchedulerSteps ==
    ASSUME SchedulerInv, UserTypes, [UserNext]_allVars
    PROVE  [Next]_vars
<1>0. Queued \subseteq Addrs /\ Current \in Queued
    BY QueueFacts
<1>1. CASE Tick
    BY <1>1 DEF Tick, Next
<1>2. CASE ExecCreate
    BY <1>2 DEF ExecCreate, Next
<1>3. CASE ExecStart
    <2>1. child[Current] \in Tasks
        BY <1>3 DEF ExecStart, ProcessStart
    <2>. QED  BY <1>3, <2>1 DEF ExecStart, Next
<1>4. CASE WaitCount \/ WaitFetch
    BY <1>4 DEF WaitCount, WaitFetch, Next
<1>5. CASE WaitReturns
    <2>1. child[Current] \in Handles
        BY <1>0 DEF UserTypes
    <2>. QED  BY <1>5, <2>1, MasksAreLibcs DEF WaitReturns, Next
<1>6. CASE WaitBlocks
    <2>1. child[Current] \in Addrs
        BY <1>0, <1>6 DEF WaitBlocks, ProcessWaitBlocks
    <2>. QED  BY <1>6, <2>1, MasksAreLibcs, Zenon DEF WaitBlocks, Next
<1>7. CASE Exit \/ Fault
    BY <1>7 DEF Exit, Fault, Next
<1>8. CASE UNCHANGED allVars
    BY <1>8 DEF allVars
<1>. QED  BY <1>1, <1>2, <1>3, <1>4, <1>5, <1>6, <1>7, <1>8, Zenon DEF UserNext

(* Resuming a task changes nobody else's place. *)
LEMMA ResumedType ==
    ASSUME NEW p \in [Addrs -> Pcs]
    PROVE  /\ Resumed(p) \in [Addrs -> Pcs]
           /\ \A t \in Addrs : Resumed(p)[t] \in {p[t], "main", "trap"}
           /\ \A t \in Addrs : t # Current' => Resumed(p)[t] = p[t]
           /\ result' = NoResult => Resumed(p) = p
           /\ result' # NoResult => \A t \in Addrs : t = Current' => Resumed(p)[t] \in {"main", "trap"}
BY Zenon DEF Resumed, Pcs

LEMMA UserTypesStep ==
    ASSUME SchedulerInv, UserTypes, [UserNext]_allVars
    PROVE  UserTypes'
<1>0. /\ Queued \subseteq Addrs /\ Current \in Addrs /\ Addrs \subseteq Handles
      /\ NoTask \in Handles /\ Tasks \subseteq Addrs
    BY QueueFacts DEF Handles, Addrs
<1>. USE DEF UserTypes
<1>1. CASE Tick
    BY <1>1, ResumedType DEF Tick
<1>2. CASE ExecCreate
    BY <1>0, <1>2 DEF ExecCreate, Pcs
<1>3. CASE ExecStart
    BY <1>0, <1>3 DEF ExecStart, Goto, Pcs
<1>4. CASE WaitCount
    BY <1>0, <1>4 DEF WaitCount, Goto, Pcs
<1>5. CASE WaitFetch
    <2>1. PICK h \in IF getChildren(Current) = {} THEN Handles ELSE FirstChild(Current) :
            child' = [child EXCEPT ![Current] = h]
        BY <1>5, Zenon DEF WaitFetch
    <2>2. h \in Handles
        BY <1>0, <2>1, FirstChildIsQueued
    <2>3. pc' \in [Addrs -> Pcs]
        BY <1>0, <1>5 DEF WaitFetch, Goto, Pcs
    <2>. QED  BY <1>0, <2>1, <2>2, <2>3, Zenon
<1>6. CASE WaitReturns
    BY <1>6, ResumedType DEF WaitReturns
<1>7. CASE WaitBlocks
    <2>1. [pc EXCEPT ![Current] = "blocked"] \in [Addrs -> Pcs]
        BY Zenon DEF Pcs
    <2>. QED  BY <1>7, <2>1, ResumedType, Zenon DEF WaitBlocks
<1>8. CASE Exit \/ Fault
    <2>1. [pc EXCEPT ![Current] = "none"] \in [Addrs -> Pcs]
        BY Zenon DEF Pcs
    <2>2. Ends(Current)
        BY <1>8 DEF Exit, Fault
    <2>. QED  BY <1>0, <2>1, <2>2, ResumedType, Zenon DEF Ends
<1>9. CASE UNCHANGED allVars
    BY <1>9 DEF allVars, userVars
<1>. QED  BY <1>1, <1>2, <1>3, <1>4, <1>5, <1>6, <1>7, <1>8, <1>9, SMTT(60) DEF UserNext

LEMMA UserInvariance == UserSpec => [](SchedulerInv /\ UserTypes)
<1>1. UserInit => SchedulerInv /\ UserTypes
    <2>. SUFFICES ASSUME UserInit PROVE SchedulerInv /\ UserTypes
        OBVIOUS
    <2>1. SchedulerInv
        BY InitEstablishesInv DEF UserInit
    <2>. QED  BY <2>1 DEF UserInit, UserTypes, Pcs, Handles
<1>2. SchedulerInv /\ UserTypes /\ [UserNext]_allVars => (SchedulerInv /\ UserTypes)'
    BY UserStepsAreSchedulerSteps, UserTypesStep, NextKeepsInv, Zenon
<1>. QED  BY <1>1, <1>2, PTL DEF UserSpec

(* Programs that use LoadElfProgram and wait() call the scheduler as Scheduler
   describes, so everything proved of it holds under them. *)
THEOREM ProgramsRunOnTheScheduler == UserSpec => Spec
<1>1. UserInit => Init
    BY DEF UserInit
<1>2. SchedulerInv /\ UserTypes /\ [UserNext]_allVars => [Next]_vars
    BY UserStepsAreSchedulerSteps, Zenon
<1>. QED  BY <1>1, <1>2, UserInvariance, PTL DEF UserSpec, Spec

-----------------------------------------------------------------------------

(* What a blocked wait() sees.  The tail of Schedule answers the task it switches
   to and leaves the other wait lists alone, since nobody waits for kRunning. *)
Expecting(w) == \A t \in Addrs : \A e \in w[t] :
    e.expecting = {"kTerminated"} /\ e.received \in {NoSignal, "kTerminated"}
BlockedIn(p, w) == \A t \in Tasks : (p[t] = "blocked") <=> (w[t] # {})

LEMMA SwitchToEffect ==
    ASSUME NEW q, NEW w \in WaitLists, NEW l, SwitchTo(q, w, l), q[1] \in Addrs,
           Expecting(w)
    PROVE  \/ waiting' = w /\ result' = NoResult
           \/ \E e \in w[q[1]] :
                /\ e.received # NoSignal
                /\ waiting' = [w EXCEPT ![q[1]] = @ \ {e}]
                /\ result' = [status |-> "K_OK", ebx |-> e.received, ecx |-> e.value]
<1>. DEFINE new == q[1]
<1>0. Head(q) = new
    OBVIOUS
<1>1. CASE waiting' = SendSignal(w, l, new, "kRunning", 0) /\ result' = NoResult
    BY <1>1, OtherSignalsChangeNothing DEF Expecting
<1>2. ASSUME NEW e \in w[new], e.received # NoSignal,
             waiting' = SendSignal([w EXCEPT ![new] = @ \ {e}], l, new, "kRunning", 0)
      PROVE  waiting' = [w EXCEPT ![new] = @ \ {e}]
    <2>. DEFINE x == [w EXCEPT ![new] = @ \ {e}]
    <2>1. x \in WaitLists /\ \A t \in Addrs : x[t] \subseteq w[t]
        BY DEF WaitLists
    <2>2. waiting' = SendSignal(x, l, new, "kRunning", 0)
        BY <1>2
    <2>. HIDE DEF x
    <2>3. waiting' = x
        BY <2>1, <2>2, OtherSignalsChangeNothing DEF Expecting
    <2>. QED  BY <2>3 DEF x
<1>. QED  BY <1>0, <1>1, <1>2, Zenon DEF SwitchTo

(* A task that Schedule switches to leaves wait(), with a termination. *)
LEMMA SwitchToResumes ==
    ASSUME SchedulerInv', NEW q, NEW w \in WaitLists, NEW l, SwitchTo(q, w, l),
           q[1] \in Addrs, Expecting(w),
           NEW p \in [Addrs -> Pcs], BlockedIn(p, w), pc' = Resumed(p)
    PROVE  BlockedInWait' /\ Expecting(waiting') /\ OnlyTerminationResumesWait'
<1>. DEFINE new == q[1]
<1>0. Current' = new /\ Tasks \subseteq Addrs
    BY DEF SwitchTo, Current, Addrs
<1>1. waiting'[new] = {}
    BY <1>0 DEF SchedulerInv, OneWaitAtATime
<1>2. \A t \in Addrs : t # new => pc'[t] = p[t]
    BY <1>0, ResumedType, Zenon
<1>3. CASE waiting' = w /\ result' = NoResult
    <2>1. pc' = p
        BY <1>3, ResumedType, Zenon
    <2>. QED  BY <1>3, <2>1, Zenon DEF BlockedIn, BlockedInWait, OnlyTerminationResumesWait, NoResult
<1>4. ASSUME NEW e \in w[new], e.received # NoSignal,
             waiting' = [w EXCEPT ![new] = @ \ {e}],
             result' = [status |-> "K_OK", ebx |-> e.received, ecx |-> e.value]
      PROVE  BlockedInWait' /\ Expecting(waiting') /\ OnlyTerminationResumesWait'
    <2>1. \A t \in Addrs : /\ waiting'[t] \subseteq w[t]
                           /\ t # new => waiting'[t] = w[t]
        BY <1>4 DEF WaitLists
    <2>2. result'.status = "K_OK" /\ result'.ebx = "kTerminated"
        BY <1>4, Zenon DEF Expecting
    <2>3. pc'[new] \in {"main", "trap"}
        <3>1. result' # NoResult
            BY <2>2 DEF NoResult
        <3>. QED  BY <1>0, <3>1, ResumedType, Zenon
    <2>4. BlockedInWait'
        <3>. SUFFICES ASSUME NEW t \in Tasks
                      PROVE  (pc'[t] = "blocked") <=> (waiting'[t] # {})
            BY DEF BlockedInWait
        <3>1. CASE t = new
            BY <1>1, <2>3, <3>1, Zenon
        <3>2. CASE t # new
            BY <1>0, <1>2, <2>1, <3>2, Zenon DEF BlockedIn
        <3>. QED  BY <3>1, <3>2, Zenon
    <2>5. Expecting(waiting')
        BY <2>1 DEF Expecting
    <2>. QED  BY <2>2, <2>4, <2>5, Zenon DEF OnlyTerminationResumesWait
<1>. QED  BY <1>3, <1>4, SwitchToEffect, ZenonT(90)

WaitInv == BlockedInWait /\ Expecting(waiting) /\ OnlyTerminationResumesWait

(* A step that leaves the wait lists alone and does not move a task into or out of
   a blocked wait(). *)
LEMMA WaitListsStay ==
    ASSUME WaitInv, UNCHANGED waiting,
           \A t \in Tasks : (pc'[t] = "blocked") <=> (pc[t] = "blocked"),
           result'.status # "K_OK"
    PROVE  WaitInv'
BY Zenon DEF WaitInv, BlockedInWait, Expecting, OnlyTerminationResumesWait

LEMMA ExitKeepsWaits ==
    ASSUME SchedulerInv, SchedulerInv', UserTypes, WaitInv,
           NEW retval \in Retvals, Terminate(retval), Ends(Current)
    PROVE  WaitInv'
<1>. DEFINE dead == Current
            s == SendSignal(waiting, listeners, dead, "kTerminated", retval)
            w == [s EXCEPT ![dead] = {}]
            p == [pc EXCEPT ![dead] = "none"]
<1>0. /\ waiting \in WaitLists /\ dead \in Addrs /\ Tasks \subseteq Addrs
      /\ dead \in Tasks /\ \A t \in Addrs : waiting[t] \subseteq Entries
    BY QueueFacts, Zenon DEF SchedulerInv, TypeOK, WaitLists, Terminate, Addrs
<1>1. PICK n \in NextNode : SwitchTo(DropAndCycleTo(gTaskQueue, n), w, listeners')
    BY DEF Terminate
<1>2. DropAndCycleTo(gTaskQueue, n)[1] \in Addrs
    BY <1>0, QueueFacts, DropAndCycleToKeepsOthers, SMTT(30)
<1>3. s \in WaitLists
    BY <1>0, SendSignalAnswers, Zenon DEF Answers, Signals
<1>4. ASSUME NEW t \in Addrs, NEW f \in s[t]
      PROVE  /\ waiting[t] # {}
             /\ f.expecting = {"kTerminated"}
             /\ f.received \in {NoSignal, "kTerminated"}
    <2>1. PICK e \in waiting[t] :
            \/ f = e
            \/ f = [e EXCEPT !.received = "kTerminated", !.value = retval]
        BY Zenon DEF SendSignal
    <2>. QED  BY <1>0, <2>1, ZenonT(90) DEF Entries, WaitInv, Expecting
<1>5. \A t \in Addrs : s[t] = {} => waiting[t] = {}
    <2>. SUFFICES ASSUME NEW t \in Addrs, NEW e \in waiting[t] PROVE s[t] # {}
        OBVIOUS
    <2>1. (IF e.task = dead /\ "kTerminated" \in e.expecting
           THEN [e EXCEPT !.received = "kTerminated", !.value = retval] ELSE e)
             \in s[t] \/ e \in s[t]
        BY Zenon DEF SendSignal
    <2>. QED  BY <2>1
<1>. HIDE DEF s
<1>6. /\ w \in WaitLists
      /\ \A t \in Addrs : w[t] = IF t = dead THEN {} ELSE s[t]
    BY <1>0, <1>3, Zenon DEF WaitLists
<1>7. Expecting(w)
    BY <1>4, <1>6 DEF Expecting
<1>8. /\ p \in [Addrs -> Pcs]
      /\ \A t \in Addrs : p[t] = IF t = dead THEN "none" ELSE pc[t]
    BY Zenon DEF UserTypes, Pcs
<1>9. BlockedIn(p, w)
    <2>. SUFFICES ASSUME NEW t \in Tasks PROVE (p[t] = "blocked") <=> (w[t] # {})
        BY DEF BlockedIn
    <2>. QED  BY <1>0, <1>4, <1>5, <1>6, <1>8 DEF WaitInv, BlockedInWait
<1>10. pc' = Resumed(p)
    BY DEF Ends
<1>. HIDE DEF w, p
<1>. QED  BY <1>1, <1>2, <1>6, <1>7, <1>8, <1>9, <1>10, SwitchToResumes, SMTT(60) DEF WaitInv, Expecting

LEMMA WaitInvStep ==
    ASSUME SchedulerInv, SchedulerInv', UserTypes, WaitInv, [UserNext]_allVars
    PROVE  WaitInv'
<1>0. /\ waiting \in WaitLists /\ waiting[Current] = {} /\ Current \in Addrs
      /\ Tasks \subseteq Addrs /\ live \subseteq Addrs /\ Current \in live
    BY QueueFacts, Zenon DEF SchedulerInv, TypeOK, WaitLists, OneWaitAtATime, QueueIsSound, Addrs
<1>1. BlockedIn(pc, waiting) /\ Expecting(waiting) /\ NoResult.status # "K_OK"
    BY DEF WaitInv, BlockedIn, BlockedInWait, NoResult
<1>2. Current \in Tasks => pc[Current] # "blocked"
    BY <1>0 DEF WaitInv, BlockedInWait
<1>3. CASE Tick
    <2>1. CASE result' = NoResult /\ UNCHANGED waiting
        BY <1>1, <1>3, <2>1, ResumedType, WaitListsStay, Zenon DEF Tick, UserTypes
    <2>2. ASSUME NEW n \in NextNode, SwitchTo(CycleTo(gTaskQueue, n), waiting, listeners)
          PROVE  WaitInv'
        <3>1. CycleTo(gTaskQueue, n)[1] \in Addrs
            BY <1>0, QueueFacts, CycleToKeepsTasks
        <3>2. pc' = Resumed(pc) /\ pc \in [Addrs -> Pcs]
            BY <1>3 DEF Tick, UserTypes
        <3>. QED  BY <1>0, <1>1, <2>2, <3>1, <3>2, SwitchToResumes, Zenon DEF WaitInv, Expecting
    <2>. QED  BY <1>3, <2>1, <2>2, Zenon DEF Tick, TimerTick
<1>4. CASE ExecCreate
    <2>1. PICK t \in Tasks : /\ ProcessCreate(t)
                             /\ pc' = [pc EXCEPT ![Current] = "exec", ![t] = "main"]
        BY <1>4, Zenon DEF ExecCreate
    <2>2. waiting[t] = {} /\ t \in Addrs
        BY <1>0, <2>1, QueueFacts DEF ProcessCreate, SchedulerInv, OnlyQueuedTasksWait, QueueIsSound
    <2>3. waiting' = waiting /\ result' = NoResult
        BY <1>0, <2>1, <2>2 DEF ProcessCreate, WaitLists
    <2>4. \A u \in Tasks : (pc'[u] = "blocked") <=> (pc[u] = "blocked")
        BY <1>0, <1>2, <2>1, <2>2 DEF UserTypes, WaitInv, BlockedInWait
    <2>. QED  BY <1>1, <2>3, <2>4, WaitListsStay, Zenon
<1>5. CASE ExecStart
    <2>1. /\ waiting' = SendSignal(waiting, listeners, child[Current], "kReady", 0)
          /\ result' = NoResult
        BY <1>5, Zenon DEF ExecStart, ProcessStart
    <2>2. waiting' = waiting
        BY <1>0, <1>1, <2>1, OtherSignalsChangeNothing, SMTT(30) DEF Expecting
    <2>3. \A u \in Tasks : (pc'[u] = "blocked") <=> (pc[u] = "blocked")
        BY <1>0, <1>2, <1>5, Zenon DEF ExecStart, Goto, UserTypes
    <2>. QED  BY <1>1, <2>1, <2>2, <2>3, WaitListsStay, Zenon
<1>6. CASE WaitCount \/ WaitFetch
    <2>1. waiting' = waiting /\ result' = NoResult
        BY <1>6, Zenon DEF WaitCount, WaitFetch, ProcessInfo
    <2>2. \A u \in Tasks : (pc'[u] = "blocked") <=> (pc[u] = "blocked")
        BY <1>0, <1>2, <1>6, Zenon DEF WaitCount, WaitFetch, Goto, UserTypes
    <2>. QED  BY <1>1, <2>1, <2>2, WaitListsStay, Zenon
<1>7. CASE WaitReturns
    <2>1. waiting' = waiting /\ Current' = Current /\ result'.status = "K_INVALID_HANDLE"
        BY <1>7, Zenon DEF WaitReturns, ProcessWaitReturns, Current
    <2>2. pc' = Resumed(pc) /\ Current \in Tasks
        BY <1>7 DEF WaitReturns, ProcessWaitReturns
    <2>3. result' # NoResult
        BY <2>1 DEF NoResult
    <2>4. \A u \in Tasks : (pc'[u] = "blocked") <=> (pc[u] = "blocked")
        <3>1. pc'[Current] # "blocked"
            BY <1>0, <2>1, <2>2, <2>3, ResumedType, Zenon DEF UserTypes
        <3>2. \A u \in Addrs : u # Current => pc'[u] = pc[u]
            BY <2>1, <2>2, ResumedType, Zenon DEF UserTypes
        <3>. QED  BY <1>0, <1>2, <3>1, <3>2, Zenon
    <2>. QED  BY <2>1, <2>4, WaitListsStay, Zenon
<1>8. CASE WaitBlocks
    <2>. DEFINE me == Current
                h == child[Current]
                mask == {"kTerminated"}
                new == [task |-> h, expecting |-> mask, received |-> NoSignal, value |-> 0]
                w == WaitOn(me, h, mask)
                p == [pc EXCEPT ![me] = "blocked"]
    <2>1. /\ me \in Tasks /\ h \in Queued /\ pc' = Resumed(p)
          /\ \E n \in NextNode : SwitchTo(CycleTo(gTaskQueue, n), w, listeners')
        BY <1>8, Zenon DEF WaitBlocks, ProcessWaitBlocks
    <2>2. PICK n \in NextNode : SwitchTo(CycleTo(gTaskQueue, n), w, listeners')
        BY <2>1, Zenon
    <2>3. CycleTo(gTaskQueue, n)[1] \in Addrs
        BY <1>0, QueueFacts, CycleToKeepsTasks, SMTT(30)
    <2>4. h \in Addrs
        BY <2>1, QueueFacts, Zenon
    <2>5. w = [waiting EXCEPT ![me] = {new}] /\ new \in Entries
        BY <1>0, <2>4, SchedulerAssumption, Zenon DEF WaitOn, WaitLists, Entries, Signals
    <2>. HIDE DEF w
    <2>6. /\ w \in WaitLists
          /\ \A t \in Addrs : w[t] = IF t = me THEN {new} ELSE waiting[t]
        BY <1>0, <2>5, Zenon DEF WaitLists
    <2>7. Expecting(w)
        BY <1>1, <2>6 DEF Expecting
    <2>8. /\ p \in [Addrs -> Pcs]
          /\ \A t \in Addrs : p[t] = IF t = me THEN "blocked" ELSE pc[t]
        BY Zenon DEF UserTypes, Pcs
    <2>. HIDE DEF p, new
    <2>9. BlockedIn(p, w)
        BY <1>0, <1>1, <2>6, <2>8, SMTT(60) DEF BlockedIn
    <2>. QED  BY <2>1, <2>2, <2>3, <2>6, <2>7, <2>8, <2>9, SwitchToResumes, SMTT(60) DEF WaitInv, Expecting
<1>9. CASE Exit
    BY <1>9, ExitKeepsWaits DEF Exit, ProcessKill
<1>10. CASE Fault
    BY <1>10, ExitKeepsWaits, SchedulerAssumption, Zenon DEF Fault, UserException
<1>11. CASE UNCHANGED allVars
    BY <1>11 DEF allVars, vars, userVars, WaitInv, BlockedInWait, Expecting,
                OnlyTerminationResumesWait
<1>. QED  BY <1>3, <1>4, <1>5, <1>6, <1>7, <1>8, <1>9, <1>10, <1>11, SMTT(60) DEF UserNext

LEMMA WaitInvariance == UserSpec => []WaitInv
<1>1. UserInit => WaitInv
    BY DEF UserInit, Init, WaitInv, BlockedInWait, Expecting, OnlyTerminationResumesWait,
           NoResult, Addrs
<1>2. SchedulerInv /\ SchedulerInv' /\ UserTypes /\ WaitInv /\ [UserNext]_allVars => WaitInv'
    BY WaitInvStep
<1>. QED  BY <1>1, <1>2, UserInvariance, PTL DEF UserSpec

(* A program is inside the ProcessWait of wait() exactly while the kernel has it
   waiting: no wakeup is lost and none is spurious. *)
THEOREM BlockedExactlyInWait == UserSpec => []BlockedInWait
<1>1. WaitInv => BlockedInWait
    BY DEF WaitInv
<1>. QED  BY <1>1, WaitInvariance, PTL

(* The assertion received_signal == TASK_TERMINATED of wait() holds for every wait
   that blocked. *)
THEOREM WaitEndsWithATermination == UserSpec => []OnlyTerminationResumesWait
<1>1. WaitInv => OnlyTerminationResumesWait
    BY DEF WaitInv
<1>. QED  BY <1>1, WaitInvariance, PTL

-----------------------------------------------------------------------------

(* The children of a task. *)
ChildInv ==
    /\ NewChildIsMine
    /\ KernelIsNoChild
    /\ num \in [Addrs -> 0 .. Cardinality(Tasks)]
    /\ BufferIsLargeEnough

LEMMA ChildrenAreFinite ==
    ASSUME SchedulerInv, KernelIsNoChild, NEW t \in Addrs
    PROVE  /\ getChildren(t) \subseteq Tasks
           /\ IsFiniteSet(getChildren(t))
           /\ Cardinality(getChildren(t)) \in 0 .. Cardinality(Tasks)
<1>1. getChildren(t) \subseteq Tasks
    BY QueueFacts, SchedulerAssumption, Zenon DEF getChildren, KernelIsNoChild, Addrs
<1>2. IsFiniteSet(Tasks)
    BY WaitAssumption DEF WaitAssumption
<1>3. IsFiniteSet(getChildren(t)) /\ Cardinality(getChildren(t)) <= Cardinality(Tasks)
    BY <1>1, <1>2, FS_Subset, Zenon
<1>. QED  BY <1>1, <1>2, <1>3, FS_CardinalityType

(* A step that gives a task no new child leaves it with no more than before. *)
LEMMA NoMoreChildren ==
    ASSUME SchedulerInv, KernelIsNoChild, NEW t \in Addrs,
           getChildren(t)' \subseteq getChildren(t),
           NEW n \in Int, Cardinality(getChildren(t)) <= n
    PROVE  Cardinality(getChildren(t)') <= n
<1>1. IsFiniteSet(getChildren(t)) /\ Cardinality(getChildren(t)) \in Nat
    BY ChildrenAreFinite, FS_CardinalityType, Zenon
<1>2. IsFiniteSet(getChildren(t)') /\ Cardinality(getChildren(t)') <= Cardinality(getChildren(t))
    BY <1>1, FS_Subset
<1>3. Cardinality(getChildren(t)') \in Nat
    BY <1>2, FS_CardinalityType
<1>. QED  BY <1>1, <1>2, <1>3

LEMMA NumIsInt ==
    ASSUME num \in [Addrs -> 0 .. Cardinality(Tasks)], NEW t \in Addrs
    PROVE  num[t] \in Int
<1>1. Cardinality(Tasks) \in Nat
    BY WaitAssumption, FS_CardinalityType, Zenon DEF WaitAssumption
<1>. QED  BY <1>1

LEMMA SwitchToQueue ==
    ASSUME NEW q, NEW w, NEW l, SwitchTo(q, w, l)
    PROVE  Queued' = Range(q)
BY DEF SwitchTo, Queued

(* A step without a new child: nobody starts one, and those being loaded stay out
   of the queue. *)
LEMMA OthersKeepChildInv ==
    ASSUME SchedulerInv, UserTypes, ChildInv,
           Queued' \subseteq Queued,
           \A c \in live \ Queued : c \in live' /\ parent'[c] = parent[c],
           \A c \in Queued' : parent'[c] = parent[c],
           KernelIsNoChild',
           \A u \in Tasks : pc'[u] = "exec" => pc[u] = "exec" /\ child'[u] = child[u],
           num' \in [Addrs -> 0 .. Cardinality(Tasks)],
           \A u \in Tasks : pc'[u] = "fetch" => pc[u] = "fetch" /\ num'[u] = num[u]
    PROVE  ChildInv'
<1>1. NewChildIsMine'
    BY DEF ChildInv, NewChildIsMine
<1>2. \A t \in Addrs : getChildren(t)' \subseteq getChildren(t)
    BY Zenon DEF getChildren
<1>3. BufferIsLargeEnough'
    <2>. SUFFICES ASSUME NEW t \in Tasks, pc'[t] = "fetch"
                  PROVE  Cardinality(getChildren(t)') <= num'[t]
        BY Zenon DEF BufferIsLargeEnough, ProcessInfoFits
    <2>1. /\ t \in Addrs /\ num'[t] = num[t] /\ num[t] \in Int
          /\ Cardinality(getChildren(t)) <= num[t] /\ KernelIsNoChild
        BY NumIsInt DEF ChildInv, BufferIsLargeEnough, ProcessInfoFits, Addrs
    <2>. QED  BY <1>2, <2>1, NoMoreChildren, Zenon
<1>. QED  BY <1>1, <1>3, Zenon DEF ChildInv

LEMMA ExecCreateKeepsChildInv ==
    ASSUME SchedulerInv, UserTypes, ChildInv, ExecCreate
    PROVE  ChildInv'
<1>0. /\ Current \in Queued /\ Queued \subseteq live /\ Queued \subseteq Addrs
      /\ Tasks \subseteq Addrs /\ Kernel \notin Tasks /\ Current \in Addrs
      /\ parent \in [Addrs -> Addrs \cup {NoTask}] /\ Kernel \in Addrs
    BY QueueFacts, SchedulerAssumption, Zenon DEF SchedulerInv, TypeOK, QueueIsSound, Addrs
<1>1. PICK t \in Tasks :
        /\ ProcessCreate(t)
        /\ pc' = [pc EXCEPT ![Current] = "exec", ![t] = "main"]
        /\ child' = [child EXCEPT ![Current] = t]
    BY Zenon DEF ExecCreate
<1>2. /\ t \notin live /\ live' = live \cup {t} /\ gTaskQueue' = gTaskQueue
      /\ parent' = [parent EXCEPT ![t] = Current] /\ num' = num /\ t # Current
    BY <1>0, <1>1, Zenon DEF ProcessCreate, ExecCreate
<1>3. Queued' = Queued /\ \A c \in Addrs : parent'[c] = IF c = t THEN Current ELSE parent[c]
    BY <1>0, <1>2 DEF Queued
<1>4. \A u \in Addrs : /\ pc'[u] = IF u = t THEN "main" ELSE IF u = Current THEN "exec" ELSE pc[u]
                       /\ child'[u] = IF u = Current THEN t ELSE child[u]
    BY <1>0, <1>1, <1>2, Zenon DEF UserTypes
<1>5. NewChildIsMine'
    <2>. SUFFICES ASSUME NEW u \in Tasks, pc'[u] = "exec"
                  PROVE  child'[u] \in live' \ Queued' /\ parent'[child'[u]] = u
        BY DEF NewChildIsMine
    <2>1. CASE u = Current
        BY <1>0, <1>2, <1>3, <1>4, <2>1, Zenon
    <2>2. CASE u # Current
        <3>1. pc[u] = "exec" /\ child'[u] = child[u] /\ u # t
            BY <1>0, <1>4, <2>2, Zenon
        <3>2. child[u] \in live \ Queued /\ parent[child[u]] = u
            BY <3>1, Zenon DEF ChildInv, NewChildIsMine
        <3>3. child[u] \in Addrs
            BY <3>2, Zenon DEF SchedulerInv, TypeOK
        <3>. QED  BY <1>2, <1>3, <3>1, <3>2, <3>3, Zenon
    <2>. QED  BY <2>1, <2>2, Zenon
<1>6. KernelIsNoChild'
    BY <1>0, <1>3, Zenon DEF ChildInv, KernelIsNoChild
<1>7. \A u \in Addrs : getChildren(u)' = getChildren(u)
    BY <1>0, <1>2, <1>3, Zenon DEF getChildren
<1>8. BufferIsLargeEnough'
    BY <1>0, <1>2, <1>4, <1>7, Zenon DEF ChildInv, BufferIsLargeEnough, ProcessInfoFits
<1>. QED  BY <1>2, <1>5, <1>6, <1>8, Zenon DEF ChildInv

LEMMA ExecStartKeepsChildInv ==
    ASSUME SchedulerInv, UserTypes, ChildInv, ExecStart
    PROVE  ChildInv'
<1>. DEFINE me == Current
            new == child[Current]
<1>0. /\ me \in Tasks /\ me \in Addrs /\ pc[me] = "exec" /\ new \in live \ Queued
      /\ parent[new] = me /\ gTaskQueue \in Seq(Addrs) /\ new \in Addrs
      /\ Tasks \subseteq Addrs
    BY QueueFacts, Zenon DEF ExecStart, At, ChildInv, NewChildIsMine, SchedulerInv, TypeOK, Addrs
<1>1. /\ gTaskQueue' = Append(gTaskQueue, new) /\ UNCHANGED <<live, parent, child, num>>
      /\ pc' = [pc EXCEPT ![me] = "main"]
    BY DEF ExecStart, ProcessStart, Goto
<1>2. Queued' = Queued \cup {new}
    <2>1. /\ Len(gTaskQueue') = Len(gTaskQueue) + 1 /\ gTaskQueue' \in Seq(Addrs)
          /\ \A i \in 1 .. Len(gTaskQueue) : gTaskQueue'[i] = gTaskQueue[i]
          /\ gTaskQueue'[Len(gTaskQueue) + 1] = new
        BY <1>0, <1>1, AppendProperties, SMTT(60)
    <2>2. /\ Len(gTaskQueue) \in Nat /\ DOMAIN gTaskQueue = 1 .. Len(gTaskQueue)
          /\ DOMAIN gTaskQueue' = 1 .. Len(gTaskQueue) + 1
        BY <1>0, <2>1, LenProperties, Zenon
    <2>. QED  BY <2>1, <2>2 DEF Queued, Range
<1>3. \A u \in Addrs : pc'[u] = IF u = me THEN "main" ELSE pc[u]
    BY <1>0, <1>1, Zenon DEF UserTypes
<1>. HIDE DEF me, new
<1>4. NewChildIsMine'
    <2>. SUFFICES ASSUME NEW u \in Tasks, pc'[u] = "exec"
                  PROVE  child'[u] \in live' \ Queued' /\ parent'[child'[u]] = u
        BY DEF NewChildIsMine
    <2>1. u # me /\ pc[u] = "exec"
        BY <1>0, <1>3, Zenon
    <2>2. child[u] \in live \ Queued /\ parent[child[u]] = u
        BY <2>1, Zenon DEF ChildInv, NewChildIsMine
    <2>. QED  BY <1>0, <1>1, <1>2, <2>1, <2>2, Zenon
<1>5. \A u \in Addrs : u # me => getChildren(u)' = getChildren(u)
    BY <1>0, <1>1, <1>2, Zenon DEF getChildren
<1>6. BufferIsLargeEnough'
    BY <1>0, <1>1, <1>3, <1>5, SMTT(60) DEF ChildInv, BufferIsLargeEnough, ProcessInfoFits
<1>. QED  BY <1>1, <1>4, <1>6, Zenon DEF ChildInv, KernelIsNoChild

LEMMA WaitCountKeepsChildInv ==
    ASSUME SchedulerInv, UserTypes, ChildInv, WaitCount
    PROVE  ChildInv'
<1>. DEFINE me == Current
            n == Cardinality(getChildren(me))
<1>0. me \in Tasks /\ me \in Addrs /\ Tasks \subseteq Addrs
    BY QueueFacts, Zenon DEF WaitCount, At, Addrs
<1>1. /\ pc' = [pc EXCEPT ![me] = "fetch"] /\ num' = [num EXCEPT ![me] = n]
      /\ UNCHANGED <<gTaskQueue, live, parent, child>>
    BY DEF WaitCount, Goto, ProcessInfo
<1>2. n \in 0 .. Cardinality(Tasks)
    BY <1>0, ChildrenAreFinite, Zenon DEF ChildInv
<1>3. Queued' = Queued /\ \A u \in Addrs : getChildren(u)' = getChildren(u)
    BY <1>1 DEF getChildren, Queued
<1>4. n \in Int /\ n <= n
    <2>1. Cardinality(Tasks) \in Nat
        BY WaitAssumption, FS_CardinalityType, Zenon DEF WaitAssumption
    <2>. QED  BY <1>2, <2>1
<1>5. \A u \in Addrs : /\ pc'[u] = IF u = me THEN "fetch" ELSE pc[u]
                       /\ num'[u] = IF u = me THEN n ELSE num[u]
    BY <1>0, <1>1, Zenon DEF UserTypes, ChildInv
<1>6. BufferIsLargeEnough'
    <2>. SUFFICES ASSUME NEW t \in Tasks, pc'[t] = "fetch"
                  PROVE  Cardinality(getChildren(t)') <= num'[t]
        BY Zenon DEF BufferIsLargeEnough, ProcessInfoFits
    <2>1. CASE t = me
        BY <1>0, <1>3, <1>4, <1>5, <2>1, Zenon
    <2>2. CASE t # me
        BY <1>0, <1>3, <1>5, <2>2, Zenon DEF ChildInv, BufferIsLargeEnough, ProcessInfoFits
    <2>. QED  BY <2>1, <2>2, Zenon
<1>. HIDE DEF n
<1>7. num' \in [Addrs -> 0 .. Cardinality(Tasks)]
    BY <1>1, <1>2, Zenon DEF ChildInv
<1>8. NewChildIsMine'
    BY <1>0, <1>1, <1>3, <1>5, SMTT(60) DEF ChildInv, NewChildIsMine
<1>. QED  BY <1>1, <1>6, <1>7, <1>8, Zenon DEF ChildInv, KernelIsNoChild

LEMMA ExitKeepsChildInv ==
    ASSUME SchedulerInv, UserTypes, ChildInv,
           NEW retval \in Retvals, Terminate(retval), Ends(Current)
    PROVE  ChildInv'
<1>. DEFINE dead == Current
            p == [pc EXCEPT ![dead] = "none"]
<1>0. /\ dead \in Tasks /\ dead \in Queued /\ Queued \subseteq Addrs
      /\ Kernel \notin Tasks /\ Kernel \in Addrs /\ Tasks \subseteq Addrs
      /\ parent \in [Addrs -> Addrs \cup {NoTask}] /\ live \subseteq Addrs
    BY QueueFacts, SchedulerAssumption, Zenon DEF Terminate, SchedulerInv, TypeOK, Addrs
<1>1. PICK n \in NextNode : gTaskQueue' = DropAndCycleTo(gTaskQueue, n)
    BY Zenon DEF Terminate, SwitchTo
<1>2. Queued' = Queued \ {dead}
    BY <1>1, QueueFacts, DropAndCycleToKeepsOthers DEF Queued
<1>3. live' = live \ {dead} /\ parent' = [parent EXCEPT ![dead] = NoTask]
    BY DEF Terminate
<1>4. /\ p \in [Addrs -> Pcs] /\ pc' = Resumed(p)
      /\ \A u \in Addrs : p[u] = IF u = dead THEN "none" ELSE pc[u]
    BY <1>0, Zenon DEF Ends, UserTypes, Pcs
<1>. HIDE DEF p
<1>5. \A u \in Tasks : pc'[u] \in {"exec", "fetch"} => u # dead /\ pc'[u] = pc[u]
    BY <1>0, <1>4, ResumedType, Zenon
<1>6. child' = [child EXCEPT ![dead] = NoTask] /\ num' = [num EXCEPT ![dead] = 0]
    BY DEF Ends
<1>7. num' \in [Addrs -> 0 .. Cardinality(Tasks)]
    <2>1. Cardinality(Tasks) \in Nat
        BY WaitAssumption, FS_CardinalityType DEF WaitAssumption
    <2>2. 0 \in 0 .. Cardinality(Tasks)
        BY <2>1
    <2>3. num \in [Addrs -> 0 .. Cardinality(Tasks)]
        BY DEF ChildInv
    <2>. QED  BY <1>6, <2>2, <2>3, Zenon
<1>8. \A u \in Tasks : u # dead => child'[u] = child[u] /\ num'[u] = num[u]
    BY <1>0, <1>6 DEF UserTypes, ChildInv
<1>9. KernelIsNoChild'
    BY <1>0, <1>3, Zenon DEF ChildInv, KernelIsNoChild
<1>10. \A c \in Addrs : c # dead => parent'[c] = parent[c]
    BY <1>0, <1>3, Zenon
<1>11. /\ \A c \in live \ Queued : c \in live' /\ parent'[c] = parent[c]
       /\ \A c \in Queued' : parent'[c] = parent[c]
    BY <1>0, <1>2, <1>3, <1>10, Zenon
<1>12. /\ \A u \in Tasks : pc'[u] = "exec" => pc[u] = "exec" /\ child'[u] = child[u]
       /\ \A u \in Tasks : pc'[u] = "fetch" => pc[u] = "fetch" /\ num'[u] = num[u]
    BY <1>5, <1>8, Zenon
<1>. QED  BY <1>2, <1>7, <1>9, <1>11, <1>12, OthersKeepChildInv, SMTT(60)

LEMMA ChildInvStep ==
    ASSUME SchedulerInv, SchedulerInv', UserTypes, ChildInv, [UserNext]_allVars
    PROVE  ChildInv'
<1>0. /\ Queued \subseteq Addrs /\ Current \in Queued /\ Tasks \subseteq Addrs
      /\ pc \in [Addrs -> Pcs] /\ Current \in Addrs
    BY QueueFacts, Zenon DEF UserTypes, Addrs
<1>1. CASE Tick
    <2>1. /\ UNCHANGED <<live, parent, child, num>> /\ pc' = Resumed(pc)
          /\ \/ gTaskQueue' = gTaskQueue
             \/ \E n \in NextNode : gTaskQueue' = CycleTo(gTaskQueue, n)
        BY <1>1, Zenon DEF Tick, TimerTick, SwitchTo
    <2>2. Queued' = Queued
        BY <2>1, QueueFacts, CycleToKeepsTasks DEF Queued
    <2>3. \A u \in Tasks : pc'[u] \in {"exec", "fetch"} => pc'[u] = pc[u]
        BY <1>0, <2>1, ResumedType, Zenon
    <2>4. num' \in [Addrs -> 0 .. Cardinality(Tasks)] /\ KernelIsNoChild'
        BY <2>1 DEF ChildInv, KernelIsNoChild
    <2>. QED  BY <2>1, <2>2, <2>3, <2>4, OthersKeepChildInv, Zenon
<1>2. CASE ExecCreate
    BY <1>2, ExecCreateKeepsChildInv, Zenon
<1>3. CASE ExecStart
    BY <1>3, ExecStartKeepsChildInv, Zenon
<1>4. CASE WaitCount
    BY <1>4, WaitCountKeepsChildInv, Zenon
<1>5. CASE WaitFetch
    <2>1. /\ UNCHANGED <<gTaskQueue, live, parent, num>>
          /\ \E s \in Pcs \ {"exec", "fetch"} : pc' = [pc EXCEPT ![Current] = s]
          /\ \E c : child' = [child EXCEPT ![Current] = c]
          /\ pc[Current] = "fetch"
        BY <1>5, Zenon DEF WaitFetch, ProcessInfo, Goto, At, Pcs
    <2>2. Queued' = Queued
        BY <2>1 DEF Queued
    <2>3. \A u \in Addrs : u # Current => pc'[u] = pc[u] /\ child'[u] = child[u]
        BY <1>0, <2>1 DEF UserTypes
    <2>4. pc'[Current] \notin {"exec", "fetch"}
        BY <1>0, <2>1
    <2>5. num' \in [Addrs -> 0 .. Cardinality(Tasks)] /\ KernelIsNoChild'
        BY <2>1 DEF ChildInv, KernelIsNoChild
    <2>. QED  BY <1>0, <2>1, <2>2, <2>3, <2>4, <2>5, OthersKeepChildInv, Zenon
<1>6. CASE WaitReturns
    <2>1. /\ UNCHANGED <<gTaskQueue, live, parent, num, child>>
          /\ pc' = Resumed(pc)
        BY <1>6, Zenon DEF WaitReturns, ProcessWaitReturns
    <2>2. Queued' = Queued
        BY <2>1, Zenon DEF Queued
    <2>3. \A u \in Addrs : pc'[u] \in {"exec", "fetch"} => pc'[u] = pc[u]
        BY <1>0, <2>1, ResumedType, Zenon
    <2>4. num' \in [Addrs -> 0 .. Cardinality(Tasks)] /\ KernelIsNoChild'
        BY <2>1, Zenon DEF ChildInv, KernelIsNoChild
    <2>. QED  BY <1>0, <2>1, <2>2, <2>3, <2>4, OthersKeepChildInv, SMTT(60)
<1>7. CASE WaitBlocks
    <2>. DEFINE p == [pc EXCEPT ![Current] = "blocked"]
    <2>1. /\ UNCHANGED <<live, parent, child, num>> /\ pc' = Resumed(p)
          /\ \E n \in NextNode : gTaskQueue' = CycleTo(gTaskQueue, n)
        BY <1>7, Zenon DEF WaitBlocks, ProcessWaitBlocks, SwitchTo
    <2>2. Queued' = Queued
        BY <2>1, QueueFacts, CycleToKeepsTasks, SMTT(30) DEF Queued
    <2>3. /\ p \in [Addrs -> Pcs]
          /\ \A u \in Addrs : p[u] = IF u = Current THEN "blocked" ELSE pc[u]
        BY <1>0, Zenon DEF Pcs
    <2>. HIDE DEF p
    <2>4. \A u \in Tasks : pc'[u] \in {"exec", "fetch"} => pc'[u] = pc[u]
        BY <1>0, <2>1, <2>3, ResumedType, Zenon
    <2>5. num' \in [Addrs -> 0 .. Cardinality(Tasks)] /\ KernelIsNoChild'
        BY <2>1, Zenon DEF ChildInv, KernelIsNoChild
    <2>. QED  BY <2>1, <2>2, <2>4, <2>5, OthersKeepChildInv, Zenon
<1>8. CASE Exit \/ Fault
    BY <1>8, SchedulerAssumption, ExitKeepsChildInv, Zenon
       DEF Exit, Fault, ProcessKill, UserException
<1>9. CASE UNCHANGED allVars
    BY <1>9 DEF allVars, userVars, vars, ChildInv, NewChildIsMine, KernelIsNoChild,
        BufferIsLargeEnough, ProcessInfoFits, getChildren, Queued
<1>. QED  BY <1>1, <1>2, <1>3, <1>4, <1>5, <1>6, <1>7, <1>8, <1>9, Zenon DEF UserNext

LEMMA ChildInvariance == UserSpec => []ChildInv
<1>1. UserInit => ChildInv
    <2>. SUFFICES ASSUME UserInit PROVE ChildInv
        OBVIOUS
    <2>1. Cardinality(Tasks) \in Nat
        BY WaitAssumption, FS_CardinalityType, Zenon DEF WaitAssumption
    <2>2. 0 \in 0 .. Cardinality(Tasks) /\ Tasks \subseteq Addrs /\ Kernel \in Addrs
        BY <2>1 DEF Addrs
    <2>3. \A t \in Tasks : pc[t] \in {"main", "none"}
        BY <2>2, Zenon DEF UserInit
    <2>4. num \in [Addrs -> 0 .. Cardinality(Tasks)]
        BY <2>2, Zenon DEF UserInit
    <2>5. KernelIsNoChild
        BY <2>2, SchedulerAssumption, Zenon DEF UserInit, Init, KernelIsNoChild, Addrs
    <2>. QED  BY <2>3, <2>4, <2>5, Zenon DEF ChildInv, NewChildIsMine, BufferIsLargeEnough
<1>2. SchedulerInv /\ SchedulerInv' /\ UserTypes /\ ChildInv /\ [UserNext]_allVars => ChildInv'
    BY ChildInvStep, Zenon
<1>. QED  BY <1>1, <1>2, UserInvariance, PTL DEF UserSpec

(* What a program keeps across its kernel calls has its type for ever: its place
   in exec and wait(), the handle it holds and the count of its children. *)
THEOREM WaitTypeCorrect == UserSpec => []WaitTypeOK
<1>1. UserTypes /\ ChildInv => WaitTypeOK
    BY DEF UserTypes, ChildInv, WaitTypeOK
<1>. QED  BY <1>1, UserInvariance, ChildInvariance, PTL

(* However many programs there are, and whatever ends between the two ProcessInfo
   calls of wait(), the array it allocates in between is large enough and the
   assertion at wait.cpp:53 holds. *)
THEOREM WaitArrayIsLargeEnough == UserSpec => []BufferIsLargeEnough
<1>1. ChildInv => BufferIsLargeEnough
    BY DEF ChildInv
<1>. QED  BY <1>1, ChildInvariance, PTL

(* Programs that wait only through libc never leave a deleted task in a list of
   listeners, so no signal is sent through a stale pointer. *)
THEOREM LibcListenersStayLive == UserSpec => []ListenersAreLive
<1>1. Spec => []ListenersAreLive
    BY MasksAreLibcs, ListenersStayLive, Zenon
<1>. QED  BY <1>1, ProgramsRunOnTheScheduler, Zenon
=============================================================================
