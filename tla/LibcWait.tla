------------------------------ MODULE LibcWait ------------------------------
(***************************************************************************)
(* User programs on the scheduler: LoadElfProgram creates and starts a     *)
(* child, libc's wait() (libc/wait.cpp) asks for the caller's children and *)
(* waits for the first one, main returns or faults.  wait() is several     *)
(* syscalls; the timer may switch tasks between any two of them.           *)
(***************************************************************************)
EXTENDS Scheduler

VARIABLES
    pc,         \* where each task is: see Pcs
    child,      \* proc_handle in LoadElfProgram, children[0] in wait()
    num         \* num_handles in wait()

(* wait() is the only caller of ProcessWait. *)
ASSUME WaitAssumption == Masks = {{"kTerminated"}} /\ IsFiniteSet(Tasks)

userVars == <<pc, child, num>>
allVars == <<vars, userVars>>

(* none: no task here; main: outside the functions below; exec: between
   ProcessCreate and ProcessStart; fetch and wait: before the second
   ProcessInfo and before ProcessWait of wait(); blocked: inside that
   ProcessWait; trap: at the __builtin_trap of a failed assertion. *)
Pcs == {"none", "main", "exec", "fetch", "wait", "blocked", "trap"}

At(label) == Current \in Tasks /\ pc[Current] = label
Goto(label) == pc' = [pc EXCEPT ![Current] = label]

(* A task that gets the processor with the answer to its ProcessWait checks it:
   DEBUG_ASSERT(received_signal == TASK_TERMINATED), wait.cpp:63. *)
Resumed(p) ==
    IF result' = NoResult THEN p
    ELSE [p EXCEPT ![Current'] =
            IF result'.ebx = "kTerminated" THEN "main" ELSE "trap"]

-----------------------------------------------------------------------------

Tick ==
    /\ TimerTick
    /\ pc' = Resumed(pc)
    /\ UNCHANGED <<child, num>>

(* LoadElfProgram, up to ProcessCreate and from there to ProcessStart. *)
ExecCreate ==
    /\ At("main")
    /\ \E t \in Tasks :
        /\ ProcessCreate(t)
        /\ pc' = [pc EXCEPT ![Current] = "exec", ![t] = "main"]
        /\ child' = [child EXCEPT ![Current] = t]
    /\ UNCHANGED num

ExecStart ==
    /\ At("exec")
    /\ ProcessStart(child[Current])
    /\ Goto("main")
    /\ UNCHANGED <<child, num>>

(* wait(): the first ProcessInfo(PROC_CHILDREN) gives the number of handles;
   without children wait() returns and nothing changes. *)
MutWaitCountFirstOnly ==
    /\ At("main")
    /\ ~ProcessInfoFits(Current, 0)
    /\ num' = [num EXCEPT ![Current] = 1]
    /\ Goto("fetch")
    /\ ProcessInfo
    /\ UNCHANGED child
WaitCount ==
    /\ At("main")
    /\ ~ProcessInfoFits(Current, 0)
    /\ num' = [num EXCEPT ![Current] = Cardinality(getChildren(Current))]
    /\ Goto("fetch")
    /\ ProcessInfo
    /\ UNCHANGED child

(* The second one fills the array if it is large enough (DEBUG_OK).  With no
   child left nothing is written and children[0] is what the new array held. *)
WaitFetch ==
    /\ At("fetch")
    /\ Goto(IF ProcessInfoFits(Current, num[Current]) THEN "wait" ELSE "trap")
    /\ \E h \in IF getChildren(Current) = {} THEN Handles ELSE FirstChild(Current) :
            child' = [child EXCEPT ![Current] = h]
    /\ ProcessInfo
    /\ UNCHANGED num

(* ProcessWait(children[0], TASK_TERMINATED). *)
WaitReturns ==
    /\ At("wait")
    /\ ProcessWaitReturns(child[Current], {"kTerminated"})
    /\ pc' = Resumed(pc)
    /\ UNCHANGED <<child, num>>

WaitBlocks ==
    /\ At("wait")
    /\ ProcessWaitBlocks(child[Current], {"kTerminated"})
    /\ pc' = Resumed([pc EXCEPT ![Current] = "blocked"])
    /\ UNCHANGED <<child, num>>

(* main returns or calls exit(); any program may fault; a failed assertion
   traps. *)
Ends(t) ==
    /\ pc' = Resumed([pc EXCEPT ![t] = "none"])
    /\ child' = [child EXCEPT ![t] = NoTask]
    /\ num' = [num EXCEPT ![t] = 0]

Exit == At("main") /\ ProcessKill /\ Ends(Current)
Fault == Current \in Tasks /\ UserException /\ Ends(Current)

-----------------------------------------------------------------------------

UserInit ==
    /\ Init
    /\ pc = [t \in Addrs |-> IF t \in live \cap Tasks THEN "main" ELSE "none"]
    /\ child = [t \in Addrs |-> NoTask]
    /\ num = [t \in Addrs |-> 0]

UserNext ==
    \/ Tick
    \/ ExecCreate
    \/ ExecStart
    \/ WaitCount
    \/ WaitFetch
    \/ WaitReturns
    \/ WaitBlocks
    \/ Exit
    \/ Fault

UserSpec == UserInit /\ [][UserNext]_allVars

-----------------------------------------------------------------------------

(* The handles and counts user programs hold keep their types; a count is one
   of handles, not of bytes. *)
WaitTypeOK ==
    /\ pc \in [Addrs -> Pcs]
    /\ child \in [Addrs -> Handles]
    /\ num \in [Addrs -> 0 .. Cardinality(Tasks)]

(* Children may end between the two ProcessInfo calls of wait(), but no task
   gains one, so the array is large enough and DEBUG_OK(status) at wait.cpp:53
   holds, although orphans keep the address of their parent and addresses are
   reused. *)
BufferIsLargeEnough ==
    \A t \in Tasks : pc[t] = "fetch" => ProcessInfoFits(t, num[t])

(* A wait() that blocked is resumed by the termination it waits for and by no
   other signal, so the assertion at wait.cpp:63 holds for it. *)
OnlyTerminationResumesWait ==
    result.status = "K_OK" => result.ebx = "kTerminated"

(* A program blocked in wait() is blocked in the kernel, and the other way
   round: no wakeup is lost and no task runs while it should wait. *)
BlockedInWait ==
    \A t \in Tasks : (pc[t] = "blocked") <=> (waiting[t] # {})

(* "A return status of K_INVALID_HANDLE means the child is no longer running"
   (wait.cpp:57): a child that ends before ProcessWait makes wait() return. *)
WaitNeverTraps ==
    \A t \in Tasks : pc[t] # "trap"

=============================================================================
