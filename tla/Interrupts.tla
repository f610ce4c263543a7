----------------------------- MODULE Interrupts -----------------------------
(***************************************************************************)
(* The processor under the scheduler: how IRQ0, int 0x80 and faults reach  *)
(* the handlers (kernel/isr.S, irq.cpp, isr.cpp, exceptions.cpp) and how   *)
(* the processor gets back to a task (RESTORE_REGISTERS, switchtask.S).    *)
(* Scheduler takes a handler as one step; here entry, end of interrupt,    *)
(* change of page directory, handler and return are steps of their own.    *)
(*                                                                         *)
(* The PIT, the PIC and the processor are external.  The main kernel task  *)
(* only loops, so it makes no syscalls and does not fault; IRQ0 is the one *)
(* line that raises interrupts (the serial port is polled).                *)
(***************************************************************************)
EXTENDS Scheduler

VARIABLES
    at,             \* where the processor is: see Places
    IF_FLAG,        \* EFLAGS.IF
    irr,            \* the PIC has a tick to deliver
    inService,      \* the PIC has delivered one and waits for its EOI
    cr3,            \* the task whose page directory is in use
    gOldPageDir,    \* the one that was when the handler was entered
    esp0            \* the task whose kernel stack the TSS names

machine == <<at, IF_FLAG, irr, inService, cr3, gOldPageDir, esp0>>
machineVars == <<vars, machine>>

(* boot: before EnableInterrupts; task: in the code of the current task; stub:
   in the assembly stub of a vector; handler: in ExceptionDispatcher, calling
   the handler of regs->int_no; leave: there again, after the handler. *)
Vectors == {"IRQ0", "kSyscallHandler", "fault"}
Booting == <<"boot">>
InTask == <<"task">>
Leaving == <<"leave">>
Places == {Booting, InTask, Leaving} \union ({"stub", "handler"} \X Vectors)

-----------------------------------------------------------------------------

(* The PIT has counted down; a tick that is already pending absorbs it. *)
Pit ==
    /\ irr' = TRUE
    /\ UNCHANGED <<vars, at, IF_FLAG, inService, cr3, gOldPageDir, esp0>>

(* Every gate is an interrupt gate (0x8E): the processor clears IF. *)
Vector(v) ==
    /\ at = InTask
    /\ at' = <<"stub", v>>
    /\ IF_FLAG' = FALSE
    /\ UNCHANGED <<vars, cr3, gOldPageDir, esp0>>

Irq0 ==
    /\ IF_FLAG /\ irr /\ ~inService
    /\ Vector("IRQ0")
    /\ irr' = FALSE
    /\ inService' = TRUE

Int80OrFault ==
    /\ Current \in Tasks
    /\ \E v \in Vectors \ {"IRQ0"} : Vector(v)
    /\ UNCHANGED <<irr, inService>>

(* Variant: the EOI follows isr_handler, which Schedule does not return from. *)
MutSendEndOfInterruptLast(v) == UNCHANGED inService

(* irq_handler sends the EOI before it calls isr_handler, which for a tick may
   not return. *)
SendEndOfInterrupt(v) == inService' = (inService /\ v # "IRQ0")

(* The stub calls irq_handler or isr_handler, and that ExceptionDispatcher, which
   changes to the kernel's page directory before it calls a handler. *)
ExceptionDispatcher(v) ==
    /\ at = <<"stub", v>>
    /\ at' = <<"handler", v>>
    /\ SendEndOfInterrupt(v)
    /\ gOldPageDir' = cr3
    /\ cr3' = Kernel
    /\ UNCHANGED <<vars, IF_FLAG, irr, esp0>>

(* Variant: the registers of a new task are loaded as they are. *)
MutSwitchTaskKeepsIF ==
    /\ at' = InTask
    /\ esp0' = Current'
    /\ cr3' = Current'
    /\ gOldPageDir' = NoTask
    /\ UNCHANGED <<IF_FLAG, irr, inService>>

(* Variant: the TSS keeps naming the stack of the task that was left. *)
MutSwitchTaskKeepsStack ==
    /\ at' = InTask
    /\ cr3' = Current'
    /\ IF_FLAG' = TRUE
    /\ gOldPageDir' = NoTask
    /\ UNCHANGED <<irr, inService, esp0>>

(* The end of Schedule and switch_task: esp0, the page directory and the
   registers are the new task's, with IF set.  gOldPageDir is not read again
   before it is written, here or after Return. *)
switch_task ==
    /\ at' = InTask
    /\ esp0' = Current'
    /\ cr3' = Current'
    /\ IF_FLAG' = TRUE
    /\ gOldPageDir' = NoTask
    /\ UNCHANGED <<irr, inService>>

Returns ==
    /\ at' = Leaving
    /\ UNCHANGED <<IF_FLAG, irr, inService, cr3, gOldPageDir, esp0>>

(* A handler that calls Schedule leaves through switch_task if that has found
   another task, and returns otherwise. *)
Schedules == IF Head(gTaskQueue') # Current THEN switch_task ELSE Returns

TimerCallback == at = <<"handler", "IRQ0">> /\ TimerTick /\ Schedules

SyscallHandler ==
    /\ at = <<"handler", "kSyscallHandler">>
    /\ \/ \E t \in Tasks : (ProcessCreate(t) \/ ProcessStart(t)) /\ Returns
       \/ \E h \in Handles, mask \in Masks : ProcessWaitReturns(h, mask) /\ Returns
       \/ \E h \in Addrs, mask \in Masks : ProcessWaitBlocks(h, mask) /\ Schedules
       \/ ProcessKill /\ Schedules
       \/ ProcessInfo /\ Returns

DispatchUserException == at = <<"handler", "fault">> /\ UserException /\ Schedules

(* The last line of ExceptionDispatcher, then RESTORE_REGISTERS: iret restores
   the EFLAGS of the interrupted task, which ran with interrupts enabled. *)
Return ==
    /\ at = Leaving
    /\ at' = InTask
    /\ cr3' = gOldPageDir
    /\ IF_FLAG' = TRUE
    /\ gOldPageDir' = NoTask
    /\ UNCHANGED <<vars, irr, inService, esp0>>

-----------------------------------------------------------------------------

(* JumpToUserMode: the first user task is registered, then EnableInterrupts. *)
EnableInterrupts ==
    /\ at = Booting
    /\ at' = InTask
    /\ IF_FLAG' = TRUE
    /\ UNCHANGED <<vars, irr, inService, cr3, gOldPageDir, esp0>>

MachineInit ==
    /\ Init
    /\ at = Booting
    /\ IF_FLAG = FALSE
    /\ irr = FALSE
    /\ inService = FALSE
    /\ cr3 = Kernel
    /\ gOldPageDir = NoTask
    /\ esp0 = Kernel

Cpu ==
    \/ EnableInterrupts
    \/ \E v \in Vectors : ExceptionDispatcher(v)
    \/ TimerCallback
    \/ SyscallHandler
    \/ DispatchUserException
    \/ Return

MachineNext == Pit \/ Irq0 \/ Int80OrFault \/ Cpu

(* The PIT runs for ever, the processor goes on inside the kernel, and a pending
   tick is taken at one of the times the processor could take it.  Nothing makes
   a program leave its own code. *)
MachineSpec == MachineInit /\ [][MachineNext]_machineVars
FairMachineSpec ==
    /\ MachineSpec
    /\ WF_machineVars(Pit)
    /\ WF_machineVars(Cpu)
    /\ SF_machineVars(Irq0)

-----------------------------------------------------------------------------

(* The registers and the PIC keep their types. *)
MachineTypeOK ==
    /\ at \in Places
    /\ {IF_FLAG, irr, inService} \subseteq BOOLEAN
    /\ cr3 \in Addrs /\ esp0 \in Addrs /\ gOldPageDir \in Addrs \union {NoTask}

(* Handlers run with interrupts disabled (the assert in isr_handler) and tasks
   with interrupts enabled, whichever way the processor came back to them; so no
   handler is interrupted, and no task keeps the processor from the timer. *)
InterruptsOnlyInTasks ==
    /\ IF_FLAG <=> at = InTask
    /\ inService => at = <<"stub", "IRQ0">>

(* The page directory in use has not been deleted.  A task runs in its own and an
   interrupt of it uses its own kernel stack; a handler that returns does so to
   the directory of the task it interrupted. *)
InHandler == at = Leaving \/ \E v \in Vectors : at = <<"handler", v>>
TasksRunInTheirOwnSpace ==
    /\ cr3 \in live
    /\ InHandler => cr3 = Kernel /\ gOldPageDir = Current
    /\ ~InHandler => cr3 = Current
    /\ Current \in Tasks => esp0 = Current

(* The machine implements the scheduler whose handlers are single steps, and the
   fairness that takes of the timer. *)
ImplementsScheduler == FairSpec
=============================================================================
