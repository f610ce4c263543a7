# TLA+ models of the kernel and its C library

This directory models the parts of this operating system in which steps of
several actors, reused addresses and resource limits meet: boot, the machine's
interrupts, the scheduler and its signals, the process, page and channel
syscalls, program loading and `wait()` in libc, the allocator, and what a program
hands to its children. TLC checks the models on small instances. TLAPS proves the
safety properties of all of them for any number of tasks and pages, any data and any
word size, and for the memory maps, archives and numbers of channels named below.

## The system

The kernel is a single-processor i386 kernel. Every interrupt, exception and
syscall handler runs with interrupts disabled, and the concurrency is that of user
programs: the timer may switch tasks between any two instructions of a program,
hence between any two of its syscalls. `Interrupts` models the machine with entry,
dispatch, handler and return as separate steps and is proved to implement
`Scheduler`, in which one handler is one step; the other modules build on that.
Kernel objects have no reference counts. A handle is the address of a `Task` or of
an `Endpoint`, and an address is used again once `kmalloc` has it back.

| Part | Source | Module |
| --- | --- | --- |
| Memory map and bitmap at boot | `kernel/main.cpp`, `multiboot.cpp`, `pmm.cpp`, `kmalloc.cpp` | `Boot`, `BootProofs` |
| Interrupts, dispatch, task switch | `kernel/isr.*`, `irq.cpp`, `exceptions.cpp`, `timer.cpp`, `switchtask.S` | `Interrupts`, `SchedulerProofs` |
| Scheduler, signals, process syscalls | `kernel/scheduler.*`, `linkedlist.h`, `syscalls.cpp` | `Scheduler`, `SchedulerProofs` |
| `exec` and `wait()` in user programs | `libc/wait.cpp`, `libc/elf.cpp` | `LibcWait`, `LibcWaitProofs` |
| Channels | `kernel/channel.*`, `libcxx/include/vector` | `Channel`, `ChannelProofs`, `PrivateChannels` |
| Page bitmap, page directories, ownership | `kernel/pmm.cpp`, `paging.cpp`, `kmalloc.cpp`, `syscalls.cpp` | `Memory`, `MemoryProofs` |
| Pages of programs that load programs | `libc/elf.cpp`, `start.S`, `__libc_start_main.cpp`, `userboot/include/syscalls.h` | `ExecMemory`, `MemoryProofs` |
| The startup channel | `libc/elf.cpp`, `__libc_start_main.cpp` | `Startup`, `StartupProofs` |
| Allocator of kernel and programs | `libc/malloc.cpp` | `Malloc`, `MallocProofs` |
| Startup data, environment | `libc/startparams.cpp`, `globalstate.*`, `getenv.cpp`, `exec.cpp`, `__libc_start_main.cpp` | `Session`, `SessionProofs` |
| Paths and directories | `libc/vfs.cpp`, `ustar.cpp`, `chdir.cpp` | `Session`, `SessionProofs` |

How they fit together:

- `Interrupts` implements `Scheduler`; `LibcWait` runs programs on `Scheduler`.
- `Boot` ends with the bitmap `Memory` starts from; `ExecMemory` runs programs on
  `Memory`; `Startup` composes `ExecMemory` with the channels of `PrivateChannels`.
- `Channel` implements `PrivateChannels` while one channel is open at a time, and
  that is how `Startup` uses it.
- `Malloc` and `Session` stand alone.

What one group takes from another (a kernel heap that may grow, a task that may
end at any time) is a free choice in the other's model.

## State and actions

**Boot.** A boot loader passes any map of regions in ascending order that do not
overlap: also of no length, and at or above 4 GB. Left out are reserved regions that
begin below 4 GB and end above it, for which `PageIsUsed` (`pmm.cpp:32`) admits the page
at 4 GB and reads beyond the bitmap. `getMmap` copies it, `Initialize` is `pmm::Initialize`, `FreeAvailable` and `UseReserved`
are one round each of the loops of `InitPmm`; then come `kmalloc::Initialize` and
`JumpToUserMode`. Addresses wrap where the code's are 32 bits wide. A failed assert
leads to `panic`.

**Interrupts.** The registers that decide where an interrupt goes: `IF_FLAG`,
`cr3`, the kernel stack of the TSS (`esp0`), the PIC's request and in-service bits.
`Pit` raises a tick, `Irq0` and `Int80OrFault` enter a stub, `ExceptionDispatcher`
acknowledges the tick and changes to the kernel's page directory, then the handler
is the action of `Scheduler`, and the processor leaves through `switch_task` or
`Return`. PIT, PIC and processor are external.

**Scheduler.** `gTaskQueue` is the linked list, head first; the head is the
current task. `waiting` is `waiting_on_signals_`, `listeners` is
`listening_for_signals_`, `parent` is `parent_`, `live` the addresses that hold a
`Task`. `ProcessCreate` may take any address that is not live, which is how
reuse appears. `SwitchTo` is the common tail of `Schedule`: deliver a received
signal, remove the entry, send `kRunning`. `TimerTick`, `ProcessWaitBlocks` and
`Terminate` are its three callers. `result` is what the registers of the task
that is switched to say about its `ProcessWait`. The masks programs may pass
are a constant, because libc passes only `TASK_TERMINATED`. `ProcessInfo` changes
nothing here; what it returns is `getChildren`. `ProcessStart` is
taken on a created task that is not queued, as its only caller does.

**LibcWait.** Adds where each program is and the local variables of `wait()`.
Each syscall of `wait()` and `LoadElfProgram` is a step. When no child is left
at the second `ProcessInfo`, `children[0]` is uninitialised and may be anything.
A failed `DEBUG_ASSERT` is the state `trap`.

**Channel.** `kernel` is the vector with its element slots, including the bytes
`erase` leaves behind the last element, and the heap of buffers. An address is a
slot and an end. `handle` is what programs hold, `has` who holds it. The loop of
`CloseEndpointsOwnedByTask` is a recursive function of the number of visits. The
vector reserves 8 elements first; the model stays below that.

**Memory.** `used` is the bitmap, `pd` every page directory, `owned`
`owned_phys_pages_`. `panic` records that an assert about pages fails, after which the
machine does nothing more. Programs
map pages they were given (`MayMap`) and do not unmap the kernel's code or their
kernel stack (`MayUnmap`); that the loader keeps to this is theorem `PagesStayTheirs`.
A kernel that has no page left for its heap stops; that is not modelled.

**ExecMemory.** Programs are at one syscall of `_start`, `__libc_start_main` or
`LoadElfProgram`. Any allocation may fail and any program may end at any point. The
buffers into which the kernel copies what programs read and write may make its heap
grow (`ResizableBuffers`).

**Startup.** Adds the exchange between `MapAnonAndSwap` and `main`: the loader
creates a channel, gives away one end, writes three sizes and three blocks, starts
the process and closes its end; the program reads them and closes the other. One
such channel is open at a time, and a loader whose turn it is not waits before
`ChannelCreate`. The code does not make it wait: the shell does, which waits for each
program it starts. What is shown is what holds while loads take turns, over a channel
that earlier loads have used and that any of them may have left half-way. With one
channel `Channel` is proved to implement `PrivateChannels`, which is what `Startup` is
built on. With two it does not: `erase` (`channel.cpp:92`, `vector:117`) moves the
second under its handles, the finding of `channel_two`, and nothing is claimed.

**Malloc.** `hdr` maps addresses to headers, `allocs` is the list of
allocations, `live` what callers hold. Numbers are those of a machine with `W`
bits. `Partition` is split into where the block goes (`Place`), whether it fits
(`Fits`) and what the headers are afterwards (`Partition`); the code's recursive
call is on an aligned block and does not recurse again, so no recursion is needed.
`MergeMallocHeaders` removes the headers in `Merged`, and each block that stays takes in
those that follow it one `IncSize` after the other, as the code's walk does.

**Session.** One line of descent: a program, then the child it started. Paths
are sequences of the parts between slashes, values of variables sequences of
paths between colons, so `CleanPath`, the asserts on empty parts and the search
of `PATH` act on the same structure as in the code. `env` is the vector in `Envp`,
`environ` the plain copy. `child` is the content of a startup channel, written by
`LoadElfProgram` and read by `Start` (`__libc_start_main`) while the parent goes
on. argv keeps its byte offsets. Every program builds the tree from the same
bytes, so the model builds it once, entry by entry, in any order. An entry that
fails an assert stops the program: a directory that comes after what is in it
(`Dir::Add`), and a file or link without data (`ustar.cpp:55`, a `DEBUG_ASSERT`, which
the debug build has). Paths have at most 100 characters, so that the prefix of a tar
header, which `FullPath` joins to the name without a slash, is empty.

## Runs

| Run | What it shows |
| --- | --- |
| `boot` | Every map of up to four entries on a machine of six pages. Every unit of a free page is RAM and not reserved, except that the page of the first hole is free too: the sum of memory is rounded up to pages (`pmm.cpp:83`), as are the ends of regions (`main.cpp:55`). All pages the code can use are free. The kernel reaches user mode on exactly the maps of `GoodMap` and stops in an assert on all others. |
| `interrupts` | Two tasks on the machine, with ticks, syscalls and faults anywhere and two masks. The machine implements the scheduler and its fairness; tasks run in their own page directory with interrupts on; `Schedule` always finds a task; no termination is lost; no runnable task starves. |
| `libc_wait` | Three programs in every interleaving of exec, `wait()`, exit and fault. The array of children is large enough, only a termination resumes a wait, queue and listener lists never point to deleted tasks, and a switch brings runnable tasks forward. |
| `channel_one` | One channel at a time, two processes. The code implements `PrivateChannels`; buffers are neither leaked, shared nor overrun, also after a read has freed the buffer. |
| `memory` | Two tasks, two free frames and four virtual pages: allocation, sharing, change of owner, unmapping, exit, heap growth. The bitmap is exactly what is in use, and the kernel stops exactly when a task is to own a page more than its array holds. |
| `startup` | Three programs load one another, one startup channel at a time. Blocking reads never spin, each program gets what its loader was asked to pass, the channel is closed for the next load; a program owns its code, stack and heap while it runs and only its loader shares a page with it. |
| `session` | Programs change directory and environment and start children that come up later. The tree is the archive whatever the order of entries, unless an empty file or a late directory stops `InitVFS`; a child of `execv` starts where its parent was with its variables; `environ` is stale in `PWD` and `PATH` only; argv arrives whole at any address. |
| `malloc` | A heap of 64-byte pages on an 8-bit machine, with and without growth. Blocks tile the pages, callers keep theirs, and in one page memory comes back whole and malloc fails only when nothing fits. |

### Runs that end in a counterexample

| Run | What the code does |
| --- | --- |
| `libc_wait_trap` | A child that ends between `ProcessInfo` and `ProcessWait` makes the assertion on the received signal fail, so the parent is killed instead of returning. |
| `channel_two` | With two channels, closing the older one moves the other inside the vector. Its handles keep their addresses, and the next channel is built there. |
| `memory_stack` | `ProcessCreate` clones the kernel page directory before it allocates the task's stack. If that makes the heap grow, the clone does not map the stack. |
| `exec_memory_boot` | The page the first program is copied to is not marked as used, so its first `AllocPage` gives it the same page for its stack. |

### Other differences met while modelling

These are visible in the models but have no run of their own.

- With other masks than libc's, a woken task stays in the listener list of the
  task it waited on; if it exits first, `SendSignal` reads a deleted `Task`
  (`ListenersAreLive` fails with masks that hold more than `kTerminated`).
- A `PATH` of several directories: `PathEnvIterator` stays at the first colon, so
  a search that the first directory does not answer never ends (`vfs.cpp:167`).
  The shell's completion has the same trouble (`shell.cpp:63` erases what follows
  the colon).
- `execve` never ends on an entry that is not `KEY=VAL` (`globalstate.cpp:20`).
- The paths `./` and `a//b` fail an assert when looked up, also by `cd`.
- `chdir` and the default of `PATH` do not update `environ`, which `printenv` shows.
- `FullPath` joins the prefix and the name of a tar header without a slash.
- `PROC_PARENT` returns the parent's old address after the parent has ended
  (`syscalls.cpp:331` says zero). With reused addresses two tasks can be children
  of one another and `wait()` for one another. No program asks for it.
- `TASK_READY` can never be received: `RegisterTask` sends it before the task
  can be waited on.
- `HandleClose` closes one end (`syscalls.cpp:460` says both), and `ChannelRead`
  fails when it asks for more than there is (`syscalls.cpp:485` says less).
- The kernel stops in an assert of `InitPmm` if RAM lies on the last page below
  4 GB or above 4 GB, and in `GetNumUsed4MPages` for some maps with RAM beyond the
  first hole; `GoodMap` says which.
- `isr.cpp:145` gives gate 39 the stub of vector 30, so vector 30 has no gate; gate
  39 is overwritten when the interrupt lines are set up.
- `GetNextFreePage` never finds the pages of a last, partial byte of the bitmap.
- `MergeMallocHeaders` ends its whole walk at the first allocation that ends in a
  free block, so a heap that has grown stays in pieces.
- `malloc` rounds the three largest sizes up to 0 and then fails an assert.

## Bounds, and why they suffice

Two user tasks give every pair of waiter and sender; three add a bystander, an
orphan and a reused address at once. The scheduler's queue then has up to four
nodes, so a switch can skip, pass over and rotate. `interrupts` has two tasks, its
masks are one that only a termination answers and one that every signal does; waits
of tasks on themselves or on each other are never answered. `Retvals = {0, 1}` tells a fault from a normal exit. A channel
buffer of the default capacity 2 is filled, overrun and emptied by payloads of up to
2 bytes; `MaxSize` caps what is queued. Memory instances run out of physical and of
virtual pages. In `memory` `kMaxPages` is 2 and a task reaches it; elsewhere it is the
code's 256. In `Malloc` the
sizes leave a rest of exactly one header, an empty front part, and alignments of 128
wrap the 8-bit `RoundUp`. Symmetry is used where no liveness is checked; nothing
orders or names addresses.

`Startup` has messages with blocks of different sizes, one of them empty, and one
name for the startup channel. One case needs more pages than its instance has: a new
program ends, and the page its loader still maps becomes a kernel heap page before the
loader unmaps it. The theorems about `ExecMemory` cover it.

`Session` has an archive with nested, unlisted and empty directories, one with an empty
file, paths of every form the resolver tells apart, and an argv that does not fit in a
page.
`Boot` has pages of three units, so that regions end before, at and inside a page,
bytes of two bits, so that the last byte of the bitmap can be partial, and room for
one entry less than a boot loader may pass.

Deadlock is checked everywhere except in `startup`, `exec_memory_boot` and
`session`, where all programs may have ended (the kernel then idles), in `memory`, where
the kernel may have stopped, and in `boot`, which ends in user mode or in a failed
assert.

## Fairness

- `Interrupts`: `WF(Pit)`, because the PIT counts for ever; `WF(Cpu)`, because
  the processor goes on inside the kernel, where nothing waits except `serial::Put`
  for the port to transmit; `SF(Irq0)`,
  because a pending interrupt is taken when interrupts are enabled, however often
  syscalls disable them in between. Strong fairness is needed for the last: a program
  may enter the kernel before each tick is taken, but not for ever, since the
  processor looks for interrupts after every instruction and `iret` enables them.
- `Scheduler`: `WF(TimerTick)`, which the machine is shown to provide
  (`ImplementsScheduler` checks `FairSpec`).
- `Boot`: `WF(Next)`, a sequential program.

Nothing is assumed of programs: they need not make a syscall or exit.

## Proofs

Every theorem is for any value of the constants that satisfies the named
assumptions (`SchedulerAssumption`, `WaitAssumption`, `MemoryAssumption`,
`StartupAssumption`, `ChannelAssumption`, `NullIsNoAddress`,
`MallocAssumption`, `BootAssumption`, `SessionAssumption`, `ArchiveAssumption`).
`ArchiveAssumption` says what tar makes of a directory: entries below `./`, each once
and none below a file, of any size and with paths of at most 100 characters.
`PowersOfTwo` states arithmetic that is true for every word of two or more bits and
that the provers, to which `2^W` is opaque, cannot derive.

| Module | Theorem | Statement |
| --- | --- | --- |
| `SchedulerProofs` | `TypeCorrect` | `Spec => []TypeOK` |
| | `RunQueueIsSound` | `Spec => []QueueIsSound` |
| | `WaitsAreAnswered` | `Spec => []OneWaitAtATime` |
| | `NoLostTermination` | `Spec => []TerminationWillBeSent` |
| | `ScheduleAssertHolds` | `Spec => []ScheduleFindsATask` |
| | `ListenersStayLive` | `Spec => []ListenersAreLive`, if programs wait only for terminations |
| | `RunnableTasksMoveUp` | `Spec => RunnableTasksAdvance` |
| | `MachineImplementsScheduler` | `MachineSpec => Spec` |
| | `HandlersAreNotInterrupted` | `MachineSpec => []InterruptsOnlyInTasks` |
| | `SpacesFollowTasks` | `MachineSpec => []TasksRunInTheirOwnSpace` |
| `LibcWaitProofs` | `ProgramsRunOnTheScheduler` | `UserSpec => Spec` |
| | `WaitTypeCorrect` | `UserSpec => []WaitTypeOK` |
| | `WaitArrayIsLargeEnough` | `UserSpec => []BufferIsLargeEnough` |
| | `BlockedExactlyInWait` | `UserSpec => []BlockedInWait` |
| | `WaitEndsWithATermination` | `UserSpec => []OnlyTerminationResumesWait` |
| | `LibcListenersStayLive` | `UserSpec => []ListenersAreLive` |
| `MemoryProofs` | `MemoryTypeCorrect` | `Spec => []MemoryTypeOK` |
| | `NoPageIsLostOrSharedByOwners` | `Spec => []PagesAreAccounted` |
| | `PageAssertsHold` | `Spec => []KernelAssertsHold` |
| | `ProgramsImplementMemory` | `ExecSpec => Spec` |
| | `PagesStayTheirs` | `ExecSpec => []PagesAreTheirs` |
| | `ProgramsLoseNoPage` | `ExecSpec => []PagesAreAccounted` |
| | `ProgramsFailNoAssert` | `ExecSpec => []KernelAssertsHold` |
| | `PagesStayOwned` | `ExecSpec => []ProgramsOwnTheirPages`, if `NumVPages > 4` |
| | `PagesAreNotShared` | `ExecSpec => []OnlyLoadersShare`, if `NumVPages > 4` |
| | `AddressesAreVirtualPages` | `ExecSpec => []ExecTypeOK`, if `NumVPages > 4` |
| `StartupProofs` | `StartupImplementsExec` | `StartupSpec => ExecSpec` |
| | `StartupInvariance` | `StartupSpec => [](LoadingInv /\ StartupInv)`, with one startup channel open at a time, as in all of `Startup` |
| | `ReadsSucceed` | `StartupSpec => []StartupReadsSucceed` |
| | `GetWhatWasSent` | `StartupSpec => []ProgramsGetWhatWasSent` |
| | `ChannelsAreClosed` | `StartupSpec => []StartupChannelsAreClosed` |
| `ChannelProofs` | `ChannelInvariance` | `Spec => []ChannelInv`, this and the next four if there is one channel |
| | `BuffersAreLargeEnough` | `Spec => []BufferHoldsContents` |
| | `NoBufferIsLost` | `Spec => []BuffersAreOwned` |
| | `ClosedChannelsAreRemoved` | `Spec => []ChannelsAreRemoved` |
| | `ChannelIsPrivate` | `Spec => ImplementsPrivateChannels` |
| `MallocProofs` | `MallocInvariance` | `Spec => []MallocInv`, this and the next five if `SizesDoNotWrap` |
| | `HeadersAreValid` | `Spec => []MallocTypeOK` |
| | `HeadersAlwaysTile` | `Spec => []HeadersTile` |
| | `BlocksAreKept` | `Spec => []CallersKeepTheirBlocks` |
| | `FreedIsAvailable` | `Spec => []AllIsAvailable` |
| | `FailsOnlyWhenNoRoom` | `Spec => []FailsOnlyWhenFull` |
| `BootProofs` | `BootInvariance` | `Spec => []BootInv` |
| | `BootedWithRam` | `Spec => []FreePagesAreRam` |
| | `BootsOnlyOnGoodMaps` | `Spec => []BootOutcome` |
| `SessionProofs` | `SessionInvariance` | `Spec => []SessionInv` |
| | `CwdIsADirectory` | `Spec => []SessionTypeOK` |
| | `TheTreeIsBuilt` | `Spec => []TreeIsTheArchive` |
| | `AbsPathsLeadBack` | `Spec => []AbsPathsResolve` |
| | `EnvironFollows` | `Spec => []EnvironIsCurrent` |
| | `ArgvArrivesWhole` | `Spec => []ArgvSurvives` |
| | `ChildrenStartAtHome` | `Spec => ChildStartsWhereItsParentWas` |

**Scheduler.** All rest on the inductive invariant `SchedulerInv`: types, a sound
queue, one wait at a time, only queued tasks wait and never the kernel task, and a
wait for a termination has a queued sender that lists the waiter. The parts need one
another. That no termination is lost needs the queue to be without duplicates,
because `Terminate` removes one node. That `Schedule` finds a task needs the
kernel task to be queued and never waiting. That a task waits for one thing needs
that the current one waits for nothing. There is one lemma per action; the
lemmas on `CycleTo` and `DropAndCycleTo` say what rotation does to a sequence,
and those on `SendSignal` and `SwitchTo` what delivery does to the entries.
`ListenersStayLive` strengthens it further: a listener has an unanswered entry.
Without its assumption it is false, as the first of the differences above says.

**Interrupts.** With the registers hidden a step of the machine is a step of the
scheduler or none, so the scheduler's theorems hold on the machine. That tasks run
in their own space needs, of the scheduler, that the queue holds live tasks only.

**LibcWait.** Programs take only steps of the scheduler. The array of children is
large enough because between its two `ProcessInfo` calls nobody can add a child to
the caller: a child is created with the caller as parent, by the caller itself, and
a task between `ProcessCreate` and `ProcessStart` is its creator's own and not yet
queued (`NewChildIsMine`). A deleted parent's address can be used again, so this is
about addresses, not about tasks.

**Memory.** `MemoryInv` adds to types and accounting that no directory maps page 0,
because an empty entry of `owned_phys_pages_` compares equal to it. `PageAssertsHold`
has no bound on the pages: `panic` is true exactly when some task owns more pages than
`kMaxPages`, which is the state in which `RecordOwnedPage` aborts.

**ExecMemory.** `ExecInv` says that the kernel's code, heap and stacks are mapped in
the kernel's directory, that a process being loaded waits for its one loader, and
that a loader's page is never the kernel's code or its own kernel stack. That is what
makes a step of a program a step of `Memory`. `OwnedInv` says that a program owns
what it uses and maps nothing else besides the kernel's pages, except for the page a
loader has given away. The first program is different: its code page is free in the
bitmap until its own first `AllocPage` finds that very page (`BootsAlone`), which
needs a virtual page to be left, hence `NumVPages > 4`; the machine has 1024.

**Startup.** `StartupInv` follows one message. A loader holds the end it writes to
until it closes it; the other end is its own, then its child's. What is in the
channel, with what the loader has still to write in front of it or what the child
has read taken away, is the message: `Unread` names the bytes from the r-th block
on, and each write and each read moves one block across its border. `Reader` and
`HoldersAreKnown` say that nobody else holds an end, so that the end of a program,
which closes what it holds, takes no channel away from another load. That a process
is loaded by one loader and starts only when that loader says so is `LoadingInv`, a
part of `ExecInv` proved again for the steps of `Startup`.

**Channel.** `ChannelInv` says that the kernel is what the handles say. An open end
points to the other end of the first element and has its holder as owner; while an
end is open the element is in the vector and the heap is exactly the two endpoints'
buffers, each as long as its capacity; when both are closed the heap is empty. The
lemmas go from the bottom up: what `Reallocate`, `ShrinkCapacity` and `ReserveIfNeeded`
do to a buffer, what `WriteSelf` and `ReadSelf` do to the bytes in it (`Appended`,
`Left`), what `Close`, `erase` and the loop at the end of a task do to the links, and
then one lemma per syscall, which shows both that `ChannelInv` is kept and that the
step is one of `PrivateChannels`. They hold for one channel (`OneChannel`) only. With
two, `erase` moves an element under its handles; the run `channel_two` shows it.
The hypothesis limits how many channels are open at once, not how many are created.

**Malloc.** `MallocInv` says that no assert has failed, that the headers of each
allocation tile it (`Tiled`), that the used blocks are those callers hold (`Held`), and
that in a heap of one allocation no free block follows a free one (`Joined`).
`PlaceIsInside` is about the remainders: if the wrapped sums that `Partition` compares
let a block pass, the block really lies inside the free one, with room for a header in
front; `PlaceFits` is the converse. Then come a cut at an aligned address, a cut for
the rest and the merge, each of which keeps the tiling and the callers' blocks. The merge
makes one free block of neighbours (`MergeJoins`), so that with one allocation a gap
between used blocks is one header, which is why a search that looks at one header at a
time misses nothing. `GetAvailMemory` is a fold; what it adds up is proved by taking a
smallest set of headers on which it would be wrong (`FoldsAgree`). `SizesDoNotWrap`
leaves out the three largest sizes of the word: `malloc` rounds them to 0 and fails an
assert, as said above.

**Boot.** `BootInv` says at each point of `KernelSetup` what the bitmap is as a set of
pages: what `pmm::Initialize` and the loops of `InitPmm` make of the entries visited so
far (`Marked`), then all but the free pages, then also the heap's page. It collects what
the asserts passed so far imply about the map, so that in user mode the map is one of
`GoodMap`, and that after a failed assert it is not; `BootOutcome` is those two. An end
that the 32-bit sums wrap is 0 (`RoundUp32Is`) and fails an assert, which is why the pages
that are marked are those an entry overlaps (`TouchedIs`, `PagesOfIs`). Only pages below the
rounded sum of memory can be given away; from 1 MB to the first hole all is RAM, so such
a page is RAM or the hole is on it (`RamBelowTop`), and page 0 is the BIOS's. What
`GetNumUsed4MPages` counts is about sizes of sets (`FiniteSetTheorems`).

**Session.** `SessionInv` has four parts. `TreeInv`: the tree is made of the entries
that have been read and the directories above them, so that what an entry makes is not
there yet unless it is a directory above one that was read. `StopInv`: a program that
ended before all entries were read met such a directory, or an entry without its size
(`Stopper`). No variable is set
twice in an environment (`IsEnv`), which is what makes packing it and unpacking it into
an empty one give it back. What is in a startup channel is what the caller of `exec`
passed. The loops of the code are recursive functions of the number of rounds; what they
compute is proved by looking at the smallest number of rounds after which it would be
wrong (`Least`), for the offsets of argv, for the variables `Unpack` has set and for the
parts of a path the resolver has followed.

`OneWaitAtATime`, `WaitTypeOK`, `MachineTypeOK` and `MemoryTypeOK` are proved as part
of these invariants and have no run; on `ExecMemory` and `Startup` the accounting of
pages and the kernel's asserts are theorems only. `StartupInv`, `LoadingInv`,
`ChannelInv`, `MallocInv`, `BootInv` and `SessionInv` were checked by TLC
on the instances of `startup`, `channel_one`, `malloc`, `boot` and `session` before they
were proved.

Only model-checked are liveness (`NoStarvation`, `TerminationIsReported`,
`BootsOnGoodMaps`) and the fairness part of `ImplementsScheduler`: fairness and
`ENABLED` are out of the prover's reach. The type invariant `StartupTypeOK` is only
checked, its parts are in `StartupInv` and `AddressesAreVirtualPages`. Every other safety property of a
passing run is a theorem, those of `Startup` for one startup channel at a time, those of `Channel` for one channel, which is what `channel_one` has, and those
of `Malloc` for sizes that do not wrap.

## Not modelled

- Interrupt lines other than the timer's. `RemapPic` restores the BIOS's masks; if a
  line it leaves unmasked raises an interrupt, the handler table has no entry, and the
  current program is killed or the kernel aborts. Which lines are unmasked is not in
  the repository.
- Faults of the kernel itself and unknown syscall numbers, both of which stop the
  machine in `abort()`; libc passes only known numbers.
- Where the boot loader puts the initial ramdisk. Its pages are free in the bitmap
  when it is copied, and nothing in the repository says that they are not used first.
- Copies between page directories, page attributes, and buffers that cross a page.
- ELF parsing and relocation, the octal sizes and blocks of tar, `opendir`, the
  shell's line editing and completion: sequential code on bytes.
- Growth of the channel vector past its first capacity of 8.
- Segment tables, serial port, panic output, `printf`, strings, containers and
  algorithms: device I/O, static tables and sequential helpers without state that
  others share.
