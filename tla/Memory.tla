------------------------------- MODULE Memory -------------------------------
(***************************************************************************)
(* Physical pages and page directories: the bitmap of kernel/pmm.cpp, the  *)
(* page directories of kernel/paging.cpp, the pages a Task owns            *)
(* (kernel/scheduler.cpp), the page syscalls, and the growth of the kernel *)
(* heap (kernel/kmalloc.cpp).  Pages are numbers; flags are left out.      *)
(*                                                                         *)
(* A failed kernel assert or abort() stops the machine: panic.  What a     *)
(* handler would have done after it is then of no account.                 *)
(***************************************************************************)
EXTENDS Integers, FiniteSets

CONSTANTS
    Tasks,          \* addresses of user Tasks
    Kernel,         \* stands for the kernel page directory
    NumPages,       \* gNum4MPages
    Reserved,       \* pages InitPmm marks as used, the kernel's not included
    NumVPages,      \* kNumPageDirEntries
    KernelPage,     \* the page __KERNEL_BEGIN is on, identity-mapped
    kMaxPages,      \* Task::kMaxPages
    NoPage          \* a page directory entry that is not present

CHAR_BIT == 8
FREE_PAGE_LOWER_BOUND == 1

PPages == 0 .. NumPages - 1
VPages == 0 .. NumVPages - 1

(* Page 0 is the BIOS's; it must be, because owned_phys_pages_ uses 0 for an
   empty entry.  The heap goes to the virtual page after the kernel. *)
ASSUME MemoryAssumption ==
    /\ NumPages \in Nat /\ NumVPages \in Nat /\ kMaxPages \in Nat
    /\ NumVPages > KernelPage + 1
    /\ Reserved \subseteq PPages
    /\ 0 \in Reserved
    /\ KernelPage \in PPages \ Reserved
    /\ Kernel \notin Tasks
    /\ NoPage \notin PPages

VARIABLES
    used,       \* gPhysicalBitmap
    pd,         \* the page directory of each task and of the kernel
    owned,      \* Task::owned_phys_pages_
    heapPages,  \* virtual pages of the kernel heap
    stack,      \* the heap page a Task's kernel stack is on
    live,       \* constructed user Tasks
    status,     \* EAX of the last page syscall
    panic       \* an assert of the kernel failed

vars == <<used, pd, owned, heapPages, stack, live, status, panic>>

-----------------------------------------------------------------------------

(* pmm::GetNextFreePage: the first clear bit in the whole bytes of the bitmap u;
   empty when it returns -1. *)
GetNextFreePage(u) ==
    LET bits == 0 .. CHAR_BIT * (NumPages \div CHAR_BIT) - 1
    IN  {p \in bits \ u : \A q \in 0 .. p - 1 : q \in u}

(* PageDirectory4M::VaddrIsMapped and getNextFreePage. *)
Mapped(dir) == {v \in VPages : dir[v] # NoPage}
getNextFreePage(dir, lower_bound) ==
    {v \in lower_bound .. NumVPages - 1 :
        /\ v \notin Mapped(dir)
        /\ \A w \in lower_bound .. v - 1 : w \in Mapped(dir)}

(* Task::PageIsRecorded; an empty entry compares equal to page 0. *)
PageIsRecorded(pages, p) ==
    p \in pages \/ (p = 0 /\ Cardinality(pages) < kMaxPages)

(* The asserts of Task::RecordOwnedPage and of pmm::SetPageUsed. *)
CannotRecord(pages, p, usedPages) ==
    \/ PageIsRecorded(pages, p)
    \/ Cardinality(pages) >= kMaxPages
    \/ p \in usedPages

(* The asserts of Task::RemoveOwnedPage and of pmm::SetPageFree. *)
CannotRemove(pages, p, usedPages) ==
    ~PageIsRecorded(pages, p) \/ p \notin usedPages

Returns(s) ==
    /\ status' = s
    /\ UNCHANGED <<used, pd, owned, heapPages, stack, live, panic>>

-----------------------------------------------------------------------------

(* SYS_AllocPage for the address space of t, at v or, with ALLOC_ANON, at a
   free page. *)
AllocPage(t, anon, v) ==
    LET at == IF anon THEN getNextFreePage(pd[t], FREE_PAGE_LOWER_BOUND)
              ELSE {v} \ Mapped(pd[t])
    IN  \/ GetNextFreePage(used) = {} /\ Returns("K_OOM_PHYS")
        \/ /\ GetNextFreePage(used) # {}
           /\ at = {}
           /\ Returns(IF anon THEN "K_OOM_VIRT" ELSE "K_VPAGE_MAPPED")
        \/ \E p \in GetNextFreePage(used), w \in at :
            /\ pd' = [pd EXCEPT ![t][w] = p]
            /\ owned' = [owned EXCEPT ![t] = @ \cup {p}]
            /\ used' = used \cup {p}
            /\ panic' = CannotRecord(owned[t], p, used)
            /\ status' = "K_OK"
            /\ UNCHANGED <<heapPages, stack, live>>

(* SWAP_OWNER: RemoveOwnedPage on one task, then RecordOwnedPage on the other. *)
MutSwapOwnerRecordsFirst(from, to, p) ==
    /\ owned' = [owned EXCEPT ![from] = @ \ {p}, ![to] = @ \cup {p}]
    /\ used' = used \ {p}
    /\ panic' = (CannotRecord(owned[to], p, used) \/ CannotRemove(owned[from], p, used))
SwapOwner(from, to, p) ==
    /\ owned' = [owned EXCEPT ![from] = @ \ {p}, ![to] = @ \cup {p}]
    /\ used' = used \cup {p}
    /\ panic' = \/ CannotRemove(owned[from], p, used)
                \/ CannotRecord(owned[to], p, used \ {p})

(* SYS_MapPage by t1: of v1 in its own address space and v2 in that of t2,
   exactly one is mapped, and the other gets the same physical page. *)
MapOnto(from, v, to, w, swap) ==
    /\ pd' = [pd EXCEPT ![to][w] = pd[from][v]]
    /\ IF swap THEN SwapOwner(from, to, pd[from][v])
       ELSE UNCHANGED <<owned, used, panic>>
    /\ status' = "K_OK"
    /\ UNCHANGED <<heapPages, stack, live>>
MapPage(t1, v1, t2, anon, v2, swap) ==
    LET at == IF anon THEN getNextFreePage(pd[t2], FREE_PAGE_LOWER_BOUND) ELSE {v2}
    IN  \/ t1 = t2 /\ Returns("K_OK")
        \/ t1 # t2 /\ at = {} /\ Returns("K_OOM_VIRT")
        \/ /\ t1 # t2
           /\ \E w \in at :
                \/ /\ (v1 \in Mapped(pd[t1])) <=> (w \in Mapped(pd[t2]))
                   /\ Returns("K_VPAGE_MAPPED")
                \/ /\ v1 \in Mapped(pd[t1]) /\ w \notin Mapped(pd[t2])
                   /\ MapOnto(t1, v1, t2, w, swap)
                \/ /\ v1 \notin Mapped(pd[t1]) /\ w \in Mapped(pd[t2])
                   /\ MapOnto(t2, w, t1, v1, swap)

(* SYS_UnmapPage: the page is freed if t owns it. *)
MutUnmapPageKeepsPage(t, v) ==
    /\ pd' = [pd EXCEPT ![t][v] = NoPage]
    /\ owned' = [owned EXCEPT ![t] = @ \ {pd[t][v]}]
    /\ UNCHANGED <<used, panic, heapPages, stack, live, status>>
UnmapPage(t, v) ==
    LET p == pd[t][v]
    IN  /\ pd' = [pd EXCEPT ![t][v] = NoPage]
        /\ IF PageIsRecorded(owned[t], p)
           THEN /\ owned' = [owned EXCEPT ![t] = @ \ {p}]
                /\ used' = used \ {p}
                /\ panic' = (v \notin Mapped(pd[t]) \/ p \notin used)
           ELSE /\ UNCHANGED <<owned, used>>
                /\ panic' = (v \notin Mapped(pd[t]))
        /\ UNCHANGED <<heapPages, stack, live, status>>

(* AskForMoreKernelSpace maps a new page into the kernel page directory (dirs is
   pd as the handler has left it so far).  Without a free page its assert stops
   the machine, which is not modelled. *)
AskForMoreKernelSpace(dirs, v) ==
    \E p \in GetNextFreePage(used) :
        /\ pd' = [dirs EXCEPT ![Kernel][v] = p]
        /\ heapPages' = heapPages \cup {v}
        /\ used' = used \cup {p}
        /\ panic' = (p \in used)

(* SYS_ProcessCreate: Clone the kernel page directory, then construct the Task,
   whose kernel stack is on a heap page; if the heap is full the stack's kmalloc
   makes it grow. *)
ProcessCreate(t) ==
    LET cloned == [pd EXCEPT ![t] = pd[Kernel]]
    IN  /\ t \notin live
        /\ live' = live \cup {t}
        /\ owned' = [owned EXCEPT ![t] = {}]
        /\ \/ /\ \E h \in heapPages : stack' = [stack EXCEPT ![t] = h]
              /\ pd' = cloned
              /\ UNCHANGED <<used, heapPages, panic>>
           \/ \E v \in getNextFreePage(pd[Kernel], 1) :
              /\ stack' = [stack EXCEPT ![t] = v]
              /\ AskForMoreKernelSpace(cloned, v)
        /\ UNCHANGED status

(* Any other kmalloc that finds the heap full. *)
HeapGrows ==
    /\ \E v \in getNextFreePage(pd[Kernel], 1) : AskForMoreKernelSpace(pd, v)
    /\ UNCHANGED <<owned, stack, live, status>>

(* ~Task frees the pages the task owns and its page directory. *)
TaskEnds(t) ==
    /\ live' = live \ {t}
    /\ used' = used \ owned[t]
    /\ panic' = ~(owned[t] \subseteq used)
    /\ owned' = [owned EXCEPT ![t] = {}]
    /\ pd' = [pd EXCEPT ![t] = [v \in VPages |-> NoPage]]
    /\ UNCHANGED <<heapPages, stack, status>>

-----------------------------------------------------------------------------

(* InitPmm, paging::Initialize, kmalloc::Initialize, then JumpToUserMode, which
   maps a free page for the first task and leaves it free in the bitmap. *)
BootDir(heap) ==
    [v \in VPages |-> IF v = KernelPage THEN KernelPage
                      ELSE IF v = KernelPage + 1 THEN heap ELSE NoPage]

Init ==
    LET booted == Reserved \cup {KernelPage}
    IN  \E first \in Tasks, heap \in GetNextFreePage(booted) :
        \E p \in GetNextFreePage(booted \cup {heap}), v \in getNextFreePage(BootDir(heap), 1) :
            /\ used = booted \cup {heap}
            /\ pd = [t \in Tasks \cup {Kernel} |->
                        IF t = first THEN [BootDir(heap) EXCEPT ![v] = p]
                        ELSE IF t = Kernel THEN BootDir(heap)
                        ELSE [w \in VPages |-> NoPage]]
            /\ owned = [t \in Tasks |-> {}]
            /\ heapPages = {KernelPage + 1}
            /\ stack = [t \in Tasks |-> KernelPage + 1]
            /\ live = {first}
            /\ status = "K_OK"
            /\ panic = FALSE

(* A program shares pages that it was given, not the kernel's, and swaps the owner
   only of pages that one side owns; it does not unmap what the kernel needs in
   its directory, the kernel's page and its own kernel stack. *)
UserPages(t) == {v \in Mapped(pd[t]) : \A k \in VPages : pd[Kernel][k] # pd[t][v]}
MayUnmap(t, v) ==
    v \in Mapped(pd[t]) /\ (v \in {KernelPage, stack[t]} => pd[t][v] # pd[Kernel][v])
Owns(t, v) == pd[t][v] \in owned[t]

MayMap(t1, v1, t2, anon, v2, swap) ==
    /\ v1 \in VPages \ Mapped(pd[t1]) => ~anon
    /\ v1 \in Mapped(pd[t1]) => v1 \in UserPages(t1)
    /\ ~anon /\ v2 \in Mapped(pd[t2]) => v2 \in UserPages(t2)
    /\ swap => Owns(t1, v1) \/ (~anon /\ v1 \notin Mapped(pd[t1]) /\ Owns(t2, v2))

(* The address argument of a syscall, which is not looked at if anon is set. *)
Vaddrs(anon) == IF anon THEN {0} ELSE VPages

Next ==
    /\ ~panic
    /\ \/ \E t \in live, anon \in BOOLEAN : \E v \in Vaddrs(anon) : AllocPage(t, anon, v)
       \/ \E t1, t2 \in live, v1 \in VPages, anon, swap \in BOOLEAN : \E v2 \in Vaddrs(anon) :
            /\ MayMap(t1, v1, t2, anon, v2, swap)
            /\ MapPage(t1, v1, t2, anon, v2, swap)
       \/ \E t \in live, v \in VPages : MayUnmap(t, v) /\ UnmapPage(t, v)
       \/ \E t \in Tasks : ProcessCreate(t)
       \/ HeapGrows
       \/ \E t \in live : TaskEnds(t)

Spec == Init /\ [][Next]_vars

-----------------------------------------------------------------------------

KernelFrames == {pd[Kernel][v] : v \in Mapped(pd[Kernel])}

(* Page directories map pages that exist, and the pages of a task's array are
   pages of the machine. *)
MemoryTypeOK ==
    /\ used \subseteq PPages
    /\ pd \in [Tasks \cup {Kernel} -> [VPages -> PPages \cup {NoPage}]]
    /\ owned \in [Tasks -> SUBSET PPages]
    /\ heapPages \subseteq VPages
    /\ stack \in [Tasks -> VPages]
    /\ live \subseteq Tasks
    /\ status \in {"K_OK", "K_OOM_PHYS", "K_OOM_VIRT", "K_VPAGE_MAPPED"}
    /\ panic \in BOOLEAN

(* The bitmap is exactly what is in use: reserved pages, the kernel and its
   heap, and the pages of the tasks, each owned once and only by tasks that
   live.  No page is leaked or booked twice, however tasks allocate, share,
   swap and end. *)
PagesAreAccounted ==
    /\ used = Reserved \cup KernelFrames \cup UNION {owned[t] : t \in live}
    /\ \A t \in live : owned[t] \cap (Reserved \cup KernelFrames) = {}
    /\ \A t, u \in live : t # u => owned[t] \cap owned[u] = {}
    /\ \A t \in Tasks \ live : owned[t] = {}

(* No assert of pmm, paging or Task about pages fails, and what stops the kernel
   is only, and always, the abort() of RecordOwnedPage: a task is to own one page
   more than its array has entries. *)
KernelAssertsHold == panic <=> \E t \in live : Cardinality(owned[t]) > kMaxPages

(* "cloned from the main kernel directory contain the same mappings to kernel
   pages (such as the page the kernel is on and wherever kernel allocations are
   stored)" (paging.h:75): the kernel stack of a task is mapped in its own page
   directory, where interrupts push registers before they switch to the kernel's. *)
StackIsMapped ==
    \A t \in live : pd[t][stack[t]] = pd[Kernel][stack[t]]

=============================================================================
