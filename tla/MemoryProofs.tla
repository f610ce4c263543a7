---------------------------- MODULE MemoryProofs ----------------------------
(***************************************************************************)
(* Proofs about Memory, that the bitmap of pmm.cpp is exactly what is in   *)
(* use and that no assert about pages fails, and about ExecMemory, that    *)
(* programs use the page syscalls as Memory takes them to, for any number  *)
(* of tasks and pages.                                                     *)
(***************************************************************************)
EXTENDS ExecMemory, FiniteSetTheorems, TLAPS

(* No page directory maps page 0: owned_phys_pages_ uses 0 for an empty entry, so
   UnmapPage of page 0 would find it recorded by every task. *)
PageZeroIsNotMapped ==
    \A t \in Tasks \cup {Kernel} : \A v \in VPages : pd[t][v] # 0

(* The inductive invariant. *)
MemoryInv ==
    /\ MemoryTypeOK
    /\ PagesAreAccounted
    /\ PageZeroIsNotMapped

-----------------------------------------------------------------------------

(* pmm::GetNextFreePage returns a page of the machine that the bitmap has free,
   never page 0. *)
LEMMA NextFreePageIsFree ==
    ASSUME NEW u, 0 \in u, NEW p \in GetNextFreePage(u)
    PROVE  p \in PPages /\ p \notin u /\ p # 0
<1>1. NumPages \in Nat
    BY MemoryAssumption DEF MemoryAssumption
<1>2. p \in 0 .. CHAR_BIT * (NumPages \div CHAR_BIT) - 1 /\ p \notin u
    BY DEF GetNextFreePage
<1>3. CHAR_BIT * (NumPages \div CHAR_BIT) <= NumPages
    BY <1>1, SMT DEF CHAR_BIT
<1>4. CHAR_BIT * (NumPages \div CHAR_BIT) \in Int
    BY <1>1, SMT DEF CHAR_BIT
<1> QED
    BY <1>1, <1>2, <1>3, <1>4 DEF PPages

(* PageDirectory4M::getNextFreePage returns a virtual page that is not mapped. *)
LEMMA NextFreeVPageIsFree ==
    ASSUME NEW dir, NEW v \in getNextFreePage(dir, 1)
    PROVE  v \in VPages /\ v \notin Mapped(dir)
<1>1. NumVPages \in Nat
    BY MemoryAssumption DEF MemoryAssumption
<1> QED
    BY <1>1 DEF getNextFreePage, VPages

(* A step that leaves the kernel page directory alone leaves the kernel's pages
   alone. *)
LEMMA KernelFramesStay ==
    ASSUME pd'[Kernel] = pd[Kernel]
    PROVE  KernelFrames' = KernelFrames
BY DEF KernelFrames, Mapped

(* Sets of pages have a size. *)
LEMMA PagesAreFinite ==
    ASSUME NEW pages \in SUBSET PPages
    PROVE  IsFiniteSet(pages) /\ Cardinality(pages) \in Nat
<1>1. 0 \in Int /\ NumPages - 1 \in Int
    BY MemoryAssumption DEF MemoryAssumption
<1>2. IsFiniteSet(PPages)
    BY <1>1, FS_Interval DEF PPages
<1>3. IsFiniteSet(pages)
    BY <1>2, FS_Subset
<1>. QED  BY <1>3, FS_CardinalityType

(* A page new to an array can be recorded if the array has room for it. *)
LEMMA RecordedUnlessFull ==
    ASSUME NEW pages \in SUBSET PPages, 0 \notin pages,
           NEW p \in PPages, p # 0, p \notin pages,
           NEW u, p \notin u
    PROVE  CannotRecord(pages, p, u) <=> Cardinality(pages \cup {p}) > kMaxPages
<1>1. kMaxPages \in Nat
    BY MemoryAssumption DEF MemoryAssumption
<1>2. IsFiniteSet(pages) /\ Cardinality(pages) \in Nat
    BY PagesAreFinite
<1>3. Cardinality(pages \cup {p}) = Cardinality(pages) + 1
    BY <1>2, FS_AddElement
<1>4. CannotRecord(pages, p, u) <=> Cardinality(pages) >= kMaxPages
    BY Zenon DEF CannotRecord, PageIsRecorded
<1>. QED  BY <1>1, <1>2, <1>3, <1>4

(* Part of what fits in an array fits. *)
LEMMA FewerFit ==
    ASSUME NEW pages \in SUBSET PPages, ~(Cardinality(pages) > kMaxPages),
           NEW fewer, fewer \subseteq pages
    PROVE  ~(Cardinality(fewer) > kMaxPages)
<1>1. kMaxPages \in Nat
    BY MemoryAssumption DEF MemoryAssumption
<1>2. IsFiniteSet(pages) /\ Cardinality(pages) \in Nat
    BY PagesAreFinite
<1>3. Cardinality(fewer) \in Nat
    BY PagesAreFinite
<1>4. Cardinality(fewer) <= Cardinality(pages)
    BY <1>2, FS_Subset
<1>. QED  BY <1>1, <1>2, <1>3, <1>4

-----------------------------------------------------------------------------

(* Boot: the heap page is used, the first task's page is not (JumpToUserMode). *)
LEMMA InitInv == Init => MemoryInv
<1> SUFFICES ASSUME Init PROVE MemoryInv
    OBVIOUS
<1> USE MemoryAssumption DEF MemoryAssumption
<1> DEFINE booted == Reserved \cup {KernelPage}
<1>1. PICK first \in Tasks, hp \in GetNextFreePage(booted) :
        \E p \in GetNextFreePage(booted \cup {hp}), v \in getNextFreePage(BootDir(hp), 1) :
            /\ used = booted \cup {hp}
            /\ pd = [t \in Tasks \cup {Kernel} |->
                        IF t = first THEN [BootDir(hp) EXCEPT ![v] = p]
                        ELSE IF t = Kernel THEN BootDir(hp)
                        ELSE [w \in VPages |-> NoPage]]
            /\ owned = [t \in Tasks |-> {}]
            /\ heapPages = {KernelPage + 1}
            /\ stack = [t \in Tasks |-> KernelPage + 1]
            /\ live = {first}
            /\ status = "K_OK"
            /\ panic = FALSE
    BY Zenon DEF Init
<1>2. PICK p \in GetNextFreePage(booted \cup {hp}), v \in getNextFreePage(BootDir(hp), 1) :
            /\ used = booted \cup {hp}
            /\ pd = [t \in Tasks \cup {Kernel} |->
                        IF t = first THEN [BootDir(hp) EXCEPT ![v] = p]
                        ELSE IF t = Kernel THEN BootDir(hp)
                        ELSE [w \in VPages |-> NoPage]]
            /\ owned = [t \in Tasks |-> {}]
            /\ heapPages = {KernelPage + 1}
            /\ stack = [t \in Tasks |-> KernelPage + 1]
            /\ live = {first}
            /\ status = "K_OK"
            /\ panic = FALSE
    BY <1>1
<1>3. hp \in PPages /\ hp \notin booted /\ hp # 0
    BY NextFreePageIsFree
<1>4. p \in PPages /\ p # 0
    BY NextFreePageIsFree
<1>5. v \in VPages
    BY NextFreeVPageIsFree
<1>6. KernelPage \in VPages /\ KernelPage + 1 \in VPages /\ KernelPage # KernelPage + 1
    BY DEF PPages, VPages
<1>7. /\ BootDir(hp) \in [VPages -> PPages \cup {NoPage}]
      /\ BootDir(hp)[KernelPage] = KernelPage
      /\ BootDir(hp)[KernelPage + 1] = hp
      /\ \A w \in VPages : w \notin {KernelPage, KernelPage + 1} => BootDir(hp)[w] = NoPage
    BY <1>3, <1>6 DEF BootDir
<1>8. pd[Kernel] = BootDir(hp)
    BY <1>2
<1>9. KernelFrames = {KernelPage, hp}
    BY <1>3, <1>6, <1>7, <1>8 DEF KernelFrames, Mapped
<1>10. NoPage # 0 /\ KernelPage # 0
    BY DEF PPages
<1>11. MemoryTypeOK
    BY <1>2, <1>3, <1>4, <1>5, <1>6, <1>7, Zenon DEF MemoryTypeOK
<1>12. PagesAreAccounted
    BY <1>2, <1>3, <1>9 DEF PagesAreAccounted
<1>13. PageZeroIsNotMapped
    BY <1>2, <1>3, <1>4, <1>5, <1>7, <1>10 DEF PageZeroIsNotMapped
<1> QED
    BY <1>11, <1>12, <1>13 DEF MemoryInv

(* A syscall that only returns a status. *)
LEMMA ReturnsInv ==
    ASSUME MemoryInv, NEW s \in {"K_OK", "K_OOM_PHYS", "K_OOM_VIRT", "K_VPAGE_MAPPED"}, Returns(s)
    PROVE  MemoryInv'
<1>1. KernelFrames' = KernelFrames
    BY KernelFramesStay DEF Returns
<1> QED
    BY <1>1 DEF MemoryInv, MemoryTypeOK, PagesAreAccounted, PageZeroIsNotMapped, Returns

(* SYS_AllocPage books the page it takes on the caller. *)
LEMMA AllocPageInv ==
    ASSUME MemoryInv, NEW t \in live, NEW anon \in BOOLEAN, NEW v \in VPages, AllocPage(t, anon, v)
    PROVE  MemoryInv'
<1> DEFINE at == IF anon THEN getNextFreePage(pd[t], FREE_PAGE_LOWER_BOUND)
                 ELSE {v} \ Mapped(pd[t])
<1> USE MemoryAssumption DEF MemoryAssumption
<1>1. CASE \E s \in {"K_OOM_PHYS", "K_OOM_VIRT", "K_VPAGE_MAPPED"} : Returns(s)
    BY <1>1, ReturnsInv
<1>2. CASE \E p \in GetNextFreePage(used), w \in at :
            /\ pd' = [pd EXCEPT ![t][w] = p]
            /\ owned' = [owned EXCEPT ![t] = @ \cup {p}]
            /\ used' = used \cup {p}
            /\ panic' = CannotRecord(owned[t], p, used)
            /\ status' = "K_OK"
            /\ UNCHANGED <<heapPages, stack, live>>
    <2>1. PICK p \in GetNextFreePage(used), w \in at :
            /\ pd' = [pd EXCEPT ![t][w] = p]
            /\ owned' = [owned EXCEPT ![t] = @ \cup {p}]
            /\ used' = used \cup {p}
            /\ panic' = CannotRecord(owned[t], p, used)
            /\ status' = "K_OK"
            /\ UNCHANGED <<heapPages, stack, live>>
        BY <1>2, Zenon
    <2>2. t \in Tasks /\ t # Kernel /\ 0 \in used
        BY DEF MemoryInv, MemoryTypeOK, PagesAreAccounted
    <2>3. p \in PPages /\ p \notin used /\ p # 0
        BY <2>2, NextFreePageIsFree
    <2>4. w \in VPages
        BY NextFreeVPageIsFree DEF FREE_PAGE_LOWER_BOUND
    <2>5. KernelFrames' = KernelFrames
        BY <2>1, <2>2, KernelFramesStay DEF MemoryInv, MemoryTypeOK
    <2>6. panic' \in BOOLEAN
        BY <2>1 DEF CannotRecord, PageIsRecorded
    <2>7. MemoryTypeOK'
        BY <2>1, <2>2, <2>3, <2>4, <2>6 DEF MemoryInv, MemoryTypeOK
    <2>8. PagesAreAccounted'
        BY <2>1, <2>2, <2>3, <2>5, SMTT(30) DEF MemoryInv, MemoryTypeOK, PagesAreAccounted
    <2>9. PageZeroIsNotMapped'
        BY <2>1, <2>2, <2>3, <2>4 DEF MemoryInv, MemoryTypeOK, PageZeroIsNotMapped
    <2> QED
        BY <2>7, <2>8, <2>9 DEF MemoryInv
<1> QED
    BY <1>1, <1>2 DEF AllocPage

(* SYS_MapPage onto a free virtual page: nothing is booked, or a page that its
   owner gives away changes hands. *)
LEMMA MapOntoInv ==
    ASSUME MemoryInv, NEW from \in live, NEW to \in live, from # to,
           NEW v \in VPages, NEW w \in VPages, NEW swap \in BOOLEAN,
           pd[from][v] # NoPage, swap => pd[from][v] \in owned[from],
           MapOnto(from, v, to, w, swap)
    PROVE  MemoryInv'
<1> USE MemoryAssumption DEF MemoryAssumption
<1> DEFINE p == pd[from][v]
<1>1. from \in Tasks /\ to \in Tasks /\ from # Kernel /\ to # Kernel
    BY DEF MemoryInv, MemoryTypeOK
<1>2. pd' = [pd EXCEPT ![to][w] = p] /\ status' = "K_OK" /\ UNCHANGED <<heapPages, stack, live>>
    BY DEF MapOnto
<1>3. p \in PPages /\ p # 0
    BY <1>1 DEF MemoryInv, MemoryTypeOK, PageZeroIsNotMapped
<1>4. KernelFrames' = KernelFrames
    BY <1>1, <1>2, KernelFramesStay DEF MemoryInv, MemoryTypeOK
<1>5. PageZeroIsNotMapped'
    BY <1>1, <1>2, <1>3 DEF MemoryInv, MemoryTypeOK, PageZeroIsNotMapped
<1>6. pd' \in [Tasks \cup {Kernel} -> [VPages -> PPages \cup {NoPage}]]
    BY <1>1, <1>2, <1>3, Zenon DEF MemoryInv, MemoryTypeOK
<1>7. CASE ~swap
    <2>1. UNCHANGED <<owned, used, panic>>
        BY <1>7 DEF MapOnto
    <2> QED
        BY <1>2, <1>4, <1>5, <1>6, <2>1, SMTT(30) DEF MemoryInv, MemoryTypeOK, PagesAreAccounted
<1>8. CASE swap
    <2>1. /\ owned' = [owned EXCEPT ![from] = @ \ {p}, ![to] = @ \cup {p}]
          /\ used' = used \cup {p}
          /\ panic' \in BOOLEAN
        BY <1>8 DEF MapOnto, SwapOwner, CannotRemove, CannotRecord, PageIsRecorded
    <2>2. p \in owned[from] /\ p \in used /\ p \notin Reserved \cup KernelFrames
        BY <1>8 DEF MemoryInv, PagesAreAccounted
    <2>3. /\ owned'[from] = owned[from] \ {p}
          /\ owned'[to] = owned[to] \cup {p}
          /\ \A t \in Tasks : t # from /\ t # to => owned'[t] = owned[t]
        BY <1>1, <2>1 DEF MemoryInv, MemoryTypeOK
    <2>4. UNION {owned'[t] : t \in live} = UNION {owned[t] : t \in live}
        BY <1>1, <2>2, <2>3 DEF MemoryInv, MemoryTypeOK
    <2>5. MemoryTypeOK'
        BY <1>1, <1>2, <1>3, <1>6, <2>1 DEF MemoryInv, MemoryTypeOK
    <2>6. \A t, u \in live : t # u => owned'[t] \cap owned'[u] = {}
        BY <1>1, <2>2, <2>3, SMTT(30) DEF MemoryInv, MemoryTypeOK, PagesAreAccounted
    <2>7. \A t \in live : owned'[t] \cap (Reserved \cup KernelFrames) = {}
        BY <1>1, <2>2, <2>3, SMTT(30) DEF MemoryInv, MemoryTypeOK, PagesAreAccounted
    <2>8. \A t \in Tasks \ live : owned'[t] = {}
        BY <1>1, <2>3, Zenon DEF MemoryInv, PagesAreAccounted
    <2>9. used' = Reserved \cup KernelFrames \cup UNION {owned'[t] : t \in live}
        BY <2>1, <2>2, <2>4, Zenon DEF MemoryInv, PagesAreAccounted
    <2>10. PagesAreAccounted'
        BY <1>2, <1>4, <2>6, <2>7, <2>8, <2>9 DEF PagesAreAccounted
    <2> QED
        BY <1>5, <2>5, <2>10, Zenon DEF MemoryInv
<1> QED
    BY <1>7, <1>8

(* SYS_MapPage copies from the side that maps the page to the side that does
   not; a swap is of a page that side owns (MayMap). *)
LEMMA MapPageCases ==
    ASSUME MemoryInv, NEW t1 \in live, NEW t2 \in live, NEW v1 \in VPages, NEW v2 \in VPages,
           NEW anon \in BOOLEAN, NEW swap \in BOOLEAN,
           MayMap(t1, v1, t2, anon, v2, swap), MapPage(t1, v1, t2, anon, v2, swap)
    PROVE  \/ \E s \in {"K_OK", "K_OOM_VIRT", "K_VPAGE_MAPPED"} : Returns(s)
           \/ \E from, to \in live : \E v, w \in VPages :
                /\ from # to
                /\ pd[from][v] # NoPage
                /\ swap => pd[from][v] \in owned[from]
                /\ MapOnto(from, v, to, w, swap)
<1> USE MemoryAssumption DEF MemoryAssumption
<1> DEFINE at == IF anon THEN getNextFreePage(pd[t2], FREE_PAGE_LOWER_BOUND) ELSE {v2}
           Returned == \E s \in {"K_OK", "K_OOM_VIRT", "K_VPAGE_MAPPED"} : Returns(s)
<1>1. t1 \in Tasks /\ t2 \in Tasks
    BY DEF MemoryInv, MemoryTypeOK
<1>2. \A w \in at : w \in VPages
    BY NextFreeVPageIsFree DEF FREE_PAGE_LOWER_BOUND
<1>3. CASE Returned
    BY <1>3
<1>4. ASSUME t1 # t2, NEW w \in at, v1 \in Mapped(pd[t1]), MapOnto(t1, v1, t2, w, swap)
      PROVE  \E from, to \in live : \E v, x \in VPages :
                /\ from # to
                /\ pd[from][v] # NoPage
                /\ swap => pd[from][v] \in owned[from]
                /\ MapOnto(from, v, to, x, swap)
    <2>1. pd[t1][v1] # NoPage /\ (swap => pd[t1][v1] \in owned[t1])
        BY <1>4 DEF MayMap, Owns, Mapped
    <2> QED
        BY <1>2, <1>4, <2>1
<1>5. ASSUME t1 # t2, NEW w \in at, v1 \notin Mapped(pd[t1]), w \in Mapped(pd[t2]),
             MapOnto(t2, w, t1, v1, swap)
      PROVE  \E from, to \in live : \E v, x \in VPages :
                /\ from # to
                /\ pd[from][v] # NoPage
                /\ swap => pd[from][v] \in owned[from]
                /\ MapOnto(from, v, to, x, swap)
    <2>1. ~anon /\ w = v2
        BY <1>5 DEF MayMap
    <2>2. pd[t1][v1] \notin owned[t1]
        BY <1>1, <1>5, Zenon DEF Mapped, MemoryInv, MemoryTypeOK
    <2>3. pd[t2][w] # NoPage /\ (swap => pd[t2][w] \in owned[t2])
        BY <1>5, <2>1, <2>2, Zenon DEF MayMap, Owns, Mapped
    <2> QED
        BY <1>2, <1>5, <2>3
<1> QED
    BY <1>3, <1>4, <1>5 DEF MapPage

LEMMA MapPageInv ==
    ASSUME MemoryInv, NEW t1 \in live, NEW t2 \in live, NEW v1 \in VPages, NEW v2 \in VPages,
           NEW anon \in BOOLEAN, NEW swap \in BOOLEAN,
           MayMap(t1, v1, t2, anon, v2, swap), MapPage(t1, v1, t2, anon, v2, swap)
    PROVE  MemoryInv'
BY MapPageCases, MapOntoInv, ReturnsInv, SMTT(30)

(* SYS_UnmapPage frees the page exactly when the caller owns it. *)
LEMMA UnmapPageInv ==
    ASSUME MemoryInv, NEW t \in live, NEW v \in VPages, MayUnmap(t, v), UnmapPage(t, v)
    PROVE  MemoryInv'
<1> USE MemoryAssumption DEF MemoryAssumption
<1> DEFINE p == pd[t][v]
<1>1. t \in Tasks /\ t # Kernel /\ v \in VPages /\ p \in PPages /\ p # 0
    BY DEF MemoryInv, MemoryTypeOK, PageZeroIsNotMapped, MayUnmap, Mapped
<1>2. pd' = [pd EXCEPT ![t][v] = NoPage] /\ UNCHANGED <<heapPages, stack, live, status>>
    BY DEF UnmapPage
<1>3. KernelFrames' = KernelFrames
    BY <1>1, <1>2, KernelFramesStay DEF MemoryInv, MemoryTypeOK
<1>4. PageZeroIsNotMapped'
    BY <1>1, <1>2 DEF MemoryInv, MemoryTypeOK, PageZeroIsNotMapped, PPages
<1>5. PageIsRecorded(owned[t], p) <=> p \in owned[t]
    BY <1>1 DEF PageIsRecorded
<1>6. panic' \in BOOLEAN
    BY Zenon DEF UnmapPage
<1>7. CASE p \in owned[t]
    <2>1. owned' = [owned EXCEPT ![t] = @ \ {p}] /\ used' = used \ {p}
        BY <1>5, <1>7 DEF UnmapPage
    <2>2. MemoryTypeOK'
        BY <1>1, <1>2, <1>6, <2>1 DEF MemoryInv, MemoryTypeOK
    <2>3. owned'[t] = owned[t] \ {p} /\ \A u \in Tasks : u # t => owned'[u] = owned[u]
        BY <1>1, <2>1 DEF MemoryInv, MemoryTypeOK
    <2>4. PagesAreAccounted'
        BY <1>1, <1>2, <1>3, <1>7, <2>1, <2>3, SMTT(30) DEF MemoryInv, MemoryTypeOK, PagesAreAccounted
    <2> QED
        BY <1>4, <2>2, <2>4 DEF MemoryInv
<1>8. CASE p \notin owned[t]
    <2>1. UNCHANGED <<owned, used>>
        BY <1>5, <1>8 DEF UnmapPage
    <2> QED
        BY <1>1, <1>2, <1>3, <1>4, <1>6, <2>1, SMTT(30) DEF MemoryInv, MemoryTypeOK, PagesAreAccounted
<1> QED
    BY <1>7, <1>8

(* AskForMoreKernelSpace adds one page to the kernel, whatever the page
   directories of the tasks (dirs) have become. *)
LEMMA HeapPage ==
    ASSUME MemoryInv, NEW v \in getNextFreePage(pd[Kernel], 1),
           NEW dirs \in [Tasks \cup {Kernel} -> [VPages -> PPages \cup {NoPage}]],
           dirs[Kernel] = pd[Kernel],
           \A t \in Tasks : \A w \in VPages : dirs[t][w] # 0,
           AskForMoreKernelSpace(dirs, v)
    PROVE  \E p \in PPages \ used :
                /\ v \in VPages
                /\ KernelFrames' = KernelFrames \cup {p}
                /\ used' = used \cup {p}
                /\ heapPages' = heapPages \cup {v}
                /\ pd' \in [Tasks \cup {Kernel} -> [VPages -> PPages \cup {NoPage}]]
                /\ panic' \in BOOLEAN
                /\ PageZeroIsNotMapped'
<1> USE MemoryAssumption DEF MemoryAssumption
<1>1. PICK p \in GetNextFreePage(used) :
        /\ pd' = [dirs EXCEPT ![Kernel][v] = p]
        /\ heapPages' = heapPages \cup {v}
        /\ used' = used \cup {p}
        /\ panic' = (p \in used)
    BY Zenon DEF AskForMoreKernelSpace
<1>2. p \in PPages /\ p \notin used /\ p # 0
    BY NextFreePageIsFree DEF MemoryInv, PagesAreAccounted
<1>3. v \in VPages /\ pd[Kernel][v] = NoPage
    BY NextFreeVPageIsFree DEF Mapped
<1>4. pd'[Kernel] = [pd[Kernel] EXCEPT ![v] = p] /\ \A t \in Tasks : pd'[t] = dirs[t]
    BY <1>1
<1>5. pd[Kernel] \in [VPages -> PPages \cup {NoPage}]
    BY DEF MemoryInv, MemoryTypeOK
<1>6. KernelFrames' = KernelFrames \cup {p}
    BY <1>2, <1>3, <1>4, <1>5, SMTT(30) DEF KernelFrames, Mapped
<1>7. PageZeroIsNotMapped'
    BY <1>2, <1>3, <1>4, <1>5, SMTT(30) DEF PageZeroIsNotMapped, MemoryInv
<1>8. pd' \in [Tasks \cup {Kernel} -> [VPages -> PPages \cup {NoPage}]]
    BY <1>1, <1>2, <1>3, Zenon
<1>9. panic' \in BOOLEAN
    BY <1>1, <1>2, SMTT(30)
<1>10. p \in PPages \ used
    BY <1>2
<1> WITNESS p \in PPages \ used
<1> QED
    BY <1>1, <1>3, <1>6, <1>7, <1>8, <1>9, Zenon

(* SYS_ProcessCreate: the new task owns nothing; the heap may have grown. *)
LEMMA ProcessCreateInv ==
    ASSUME MemoryInv, NEW t \in Tasks, ProcessCreate(t)
    PROVE  MemoryInv'
<1> USE MemoryAssumption DEF MemoryAssumption
<1> DEFINE cloned == [pd EXCEPT ![t] = pd[Kernel]]
<1>1. t \notin live /\ live' = live \cup {t} /\ owned' = [owned EXCEPT ![t] = {}]
      /\ UNCHANGED status
    BY DEF ProcessCreate
<1>2. /\ cloned \in [Tasks \cup {Kernel} -> [VPages -> PPages \cup {NoPage}]]
      /\ cloned[Kernel] = pd[Kernel]
      /\ \A u \in Tasks : \A w \in VPages : cloned[u][w] # 0
    BY DEF MemoryInv, MemoryTypeOK, PageZeroIsNotMapped
<1>3. owned' = owned /\ owned[t] = {}
    BY <1>1 DEF MemoryInv, MemoryTypeOK, PagesAreAccounted
<1>4. UNION {owned[u] : u \in live'} = UNION {owned[u] : u \in live}
    BY <1>1, <1>3
<1>5. CASE /\ \E h \in heapPages : stack' = [stack EXCEPT ![t] = h]
           /\ pd' = cloned
           /\ UNCHANGED <<used, heapPages, panic>>
    <2>1. KernelFrames' = KernelFrames
        BY <1>2, <1>5, KernelFramesStay
    <2>2. MemoryTypeOK'
        BY <1>1, <1>2, <1>3, <1>5, SMTT(30) DEF MemoryInv, MemoryTypeOK
    <2>3. PagesAreAccounted'
        BY <1>1, <1>3, <1>4, <1>5, <2>1 DEF MemoryInv, PagesAreAccounted
    <2>4. PageZeroIsNotMapped'
        BY <1>2, <1>5 DEF MemoryInv, PageZeroIsNotMapped
    <2> QED
        BY <2>2, <2>3, <2>4 DEF MemoryInv
<1>6. CASE \E v \in getNextFreePage(pd[Kernel], 1) :
              /\ stack' = [stack EXCEPT ![t] = v]
              /\ AskForMoreKernelSpace(cloned, v)
    <2>1. PICK v \in getNextFreePage(pd[Kernel], 1) :
              /\ stack' = [stack EXCEPT ![t] = v]
              /\ AskForMoreKernelSpace(cloned, v)
        BY <1>6, Zenon
    <2>2. PICK p \in PPages \ used :
                /\ v \in VPages
                /\ KernelFrames' = KernelFrames \cup {p}
                /\ used' = used \cup {p}
                /\ heapPages' = heapPages \cup {v}
                /\ pd' \in [Tasks \cup {Kernel} -> [VPages -> PPages \cup {NoPage}]]
                /\ panic' \in BOOLEAN
                /\ PageZeroIsNotMapped'
        BY <1>2, <2>1, HeapPage, Zenon
    <2>3. MemoryTypeOK'
        BY <1>1, <1>3, <2>1, <2>2, Zenon DEF MemoryInv, MemoryTypeOK
    <2>4. PagesAreAccounted'
        BY <1>1, <1>3, <1>4, <2>2, SMTT(30) DEF MemoryInv, PagesAreAccounted
    <2> QED
        BY <2>2, <2>3, <2>4 DEF MemoryInv
<1> QED
    BY <1>5, <1>6, Zenon DEF ProcessCreate

(* Any other growth of the kernel heap. *)
LEMMA HeapGrowsInv ==
    ASSUME MemoryInv, HeapGrows
    PROVE  MemoryInv'
<1>1. PICK v \in getNextFreePage(pd[Kernel], 1) : AskForMoreKernelSpace(pd, v)
    BY DEF HeapGrows
<1>2. PICK p \in PPages \ used :
            /\ v \in VPages
            /\ KernelFrames' = KernelFrames \cup {p}
            /\ used' = used \cup {p}
            /\ heapPages' = heapPages \cup {v}
            /\ pd' \in [Tasks \cup {Kernel} -> [VPages -> PPages \cup {NoPage}]]
            /\ panic' \in BOOLEAN
            /\ PageZeroIsNotMapped'
    BY <1>1, HeapPage, Zenon DEF MemoryInv, MemoryTypeOK, PageZeroIsNotMapped
<1>3. UNCHANGED <<owned, stack, live, status>>
    BY DEF HeapGrows
<1>4. MemoryTypeOK'
    BY <1>2, <1>3 DEF MemoryInv, MemoryTypeOK
<1>5. PagesAreAccounted'
    BY <1>2, <1>3, SMTT(30) DEF MemoryInv, PagesAreAccounted
<1> QED
    BY <1>2, <1>4, <1>5 DEF MemoryInv

(* ~Task gives back exactly what the task owned. *)
LEMMA TaskEndsInv ==
    ASSUME MemoryInv, NEW t \in live, TaskEnds(t)
    PROVE  MemoryInv'
<1> USE MemoryAssumption DEF MemoryAssumption
<1>1. t \in Tasks /\ t # Kernel
    BY DEF MemoryInv, MemoryTypeOK
<1>2. /\ live' = live \ {t}
      /\ used' = used \ owned[t]
      /\ panic' \in BOOLEAN
      /\ owned' = [owned EXCEPT ![t] = {}]
      /\ pd' = [pd EXCEPT ![t] = [v \in VPages |-> NoPage]]
      /\ UNCHANGED <<heapPages, stack, status>>
    BY DEF TaskEnds
<1>3. KernelFrames' = KernelFrames
    BY <1>1, <1>2, KernelFramesStay, Zenon DEF MemoryInv, MemoryTypeOK
<1>4. owned'[t] = {} /\ \A u \in Tasks : u # t => owned'[u] = owned[u]
    BY <1>1, <1>2 DEF MemoryInv, MemoryTypeOK
<1>5. MemoryTypeOK'
    BY <1>1, <1>2, Zenon DEF MemoryInv, MemoryTypeOK
<1>6. PagesAreAccounted'
    BY <1>1, <1>2, <1>3, <1>4, SMTT(30) DEF MemoryInv, MemoryTypeOK, PagesAreAccounted
<1>7. PageZeroIsNotMapped'
    BY <1>1, <1>2 DEF MemoryInv, MemoryTypeOK, PageZeroIsNotMapped, PPages
<1> QED
    BY <1>5, <1>6, <1>7 DEF MemoryInv

LEMMA VaddrsAreVPages == ASSUME NEW anon \in BOOLEAN PROVE Vaddrs(anon) \subseteq VPages
BY MemoryAssumption DEF MemoryAssumption, Vaddrs, VPages, PPages

(* Every step keeps the invariant. *)
LEMMA NextInv ==
    ASSUME MemoryInv, Next
    PROVE  MemoryInv'
BY VaddrsAreVPages, AllocPageInv, MapPageInv, UnmapPageInv, ProcessCreateInv, HeapGrowsInv,
   TaskEndsInv, SMTT(30) DEF Next

-----------------------------------------------------------------------------

(* Asserts.  AllocPage, SwapOwner, UnmapPage and ~Task check, through pmm and
   Task, what the accounting says: a page they take is free and not recorded, a
   page they give back is used.  A task's array has kMaxPages entries, and a page
   for which there is none stops the kernel. *)
LEMMA AssertsHoldStep ==
    ASSUME MemoryInv, KernelAssertsHold, Next
    PROVE  KernelAssertsHold'
<1> USE MemoryAssumption DEF MemoryAssumption
<1>1. /\ live \subseteq Tasks
      /\ 0 \in used
      /\ \A t \in live : 0 \notin owned[t]
      /\ \A t \in live : owned[t] \subseteq used /\ owned[t] \in SUBSET PPages
      /\ owned \in [Tasks -> SUBSET PPages]
    BY DEF MemoryInv, MemoryTypeOK, PagesAreAccounted
<1>2. ~panic /\ \A t \in live : ~(Cardinality(owned[t]) > kMaxPages)
    BY Zenon DEF Next, KernelAssertsHold
(* Steps that give a task no page. *)
<1>3. ASSUME ~panic', \A u \in live' : (u \in live /\ owned'[u] \subseteq owned[u]) \/ owned'[u] = {}
      PROVE  KernelAssertsHold'
    <2>1. ASSUME NEW u \in live', u \in live, owned'[u] \subseteq owned[u]
          PROVE  ~(Cardinality(owned'[u]) > kMaxPages)
        BY <1>1, <1>2, <2>1, FewerFit
    <2>2. ASSUME NEW u \in live', owned'[u] = {}
          PROVE  ~(Cardinality(owned'[u]) > kMaxPages)
        BY <2>2, FS_EmptySet
    <2>. QED  BY <1>3, <2>1, <2>2, Zenon DEF KernelAssertsHold
(* Steps that give t a page. *)
<1>4. ASSUME NEW t \in live, NEW p \in PPages, p # 0, p \notin owned[t], NEW w, p \notin w,
             panic' = CannotRecord(owned[t], p, w), live' = live,
             owned'[t] = owned[t] \cup {p},
             \A u \in live : u # t => owned'[u] \subseteq owned[u]
      PROVE  KernelAssertsHold'
    <2>1. CannotRecord(owned[t], p, w) <=> Cardinality(owned[t] \cup {p}) > kMaxPages
        BY <1>1, <1>4, RecordedUnlessFull
    <2>2. ASSUME NEW u \in live, u # t
          PROVE  ~(Cardinality(owned'[u]) > kMaxPages)
        BY <1>1, <1>2, <1>4, <2>2, FewerFit
    <2>. QED  BY <1>4, <2>1, <2>2, Zenon DEF KernelAssertsHold
<1>5. ASSUME NEW s, Returns(s)
      PROVE  KernelAssertsHold'
    BY <1>5, Zenon DEF Returns, KernelAssertsHold
<1>6. ASSUME NEW t \in live, NEW anon \in BOOLEAN, NEW v \in VPages, AllocPage(t, anon, v)
      PROVE  KernelAssertsHold'
    <2>1. CASE \E p \in GetNextFreePage(used) :
                    /\ panic' = CannotRecord(owned[t], p, used)
                    /\ owned' = [owned EXCEPT ![t] = @ \cup {p}]
                    /\ live' = live
        <3>1. PICK p \in GetNextFreePage(used) :
                    /\ panic' = CannotRecord(owned[t], p, used)
                    /\ owned' = [owned EXCEPT ![t] = @ \cup {p}]
                    /\ live' = live
            BY <2>1
        <3>2. p \in PPages /\ p \notin used /\ p # 0 /\ p \notin owned[t]
            BY <1>1, NextFreePageIsFree, Zenon
        <3>3. owned'[t] = owned[t] \cup {p} /\ \A u \in live : u # t => owned'[u] \subseteq owned[u]
            BY <1>1, <1>6, <3>1
        <3> QED
            BY <1>4, <3>1, <3>2, <3>3, Zenon
    <2> QED
        BY <1>5, <1>6, <2>1, Zenon DEF AllocPage
<1>7. ASSUME NEW t1 \in live, NEW t2 \in live, NEW v1 \in VPages, NEW v2 \in VPages,
             NEW anon \in BOOLEAN, NEW swap \in BOOLEAN,
             MayMap(t1, v1, t2, anon, v2, swap), MapPage(t1, v1, t2, anon, v2, swap)
      PROVE  KernelAssertsHold'
    <2>1. ASSUME NEW from \in live, NEW to \in live, from # to, NEW v \in VPages, NEW w \in VPages,
                 swap => pd[from][v] \in owned[from], MapOnto(from, v, to, w, swap)
          PROVE  KernelAssertsHold'
        <3>1. CASE ~swap
            BY <2>1, <3>1, Zenon DEF MapOnto, KernelAssertsHold
        <3>2. CASE swap
            <4> DEFINE p == pd[from][v]
            <4>1. /\ panic' = \/ CannotRemove(owned[from], p, used)
                              \/ CannotRecord(owned[to], p, used \ {p})
                  /\ owned' = [owned EXCEPT ![from] = @ \ {p}, ![to] = @ \cup {p}]
                  /\ live' = live
                BY <2>1, <3>2, Zenon DEF MapOnto, SwapOwner
            <4>2. p \in owned[from]
                BY <2>1, <3>2, Zenon
            <4>3. p \in PPages /\ p # 0 /\ p \in used /\ p \notin owned[to] /\ p \notin used \ {p}
                BY <1>1, <2>1, <4>2, Zenon DEF MemoryInv, PagesAreAccounted
            <4>4. ~CannotRemove(owned[from], p, used)
                BY <4>2, <4>3, Zenon DEF CannotRemove, PageIsRecorded
            <4>5. panic' = CannotRecord(owned[to], p, used \ {p})
                BY <4>1, <4>4, Zenon DEF CannotRecord
            <4>6. /\ owned'[to] = owned[to] \cup {p}
                  /\ \A u \in live : u # to => owned'[u] \subseteq owned[u]
                <5>. HIDE DEF p
                <5>. QED  BY <1>1, <2>1, <4>1
            <4>. HIDE DEF p
            <4> QED
                BY <1>4, <4>1, <4>3, <4>5, <4>6, Zenon
        <3> QED
            BY <3>1, <3>2, Zenon
    <2> QED
        BY <1>5, <1>7, <2>1, MapPageCases, SMTT(30)
<1>8. ASSUME NEW t \in live, NEW v \in VPages, MayUnmap(t, v), UnmapPage(t, v)
      PROVE  KernelAssertsHold'
    <2>1. v \in Mapped(pd[t]) /\ pd[t][v] # 0
        BY <1>1, <1>8 DEF MayUnmap, Mapped, MemoryInv, PageZeroIsNotMapped
    <2>2. ~panic'
        BY <1>1, <1>8, <2>1, Zenon DEF UnmapPage, PageIsRecorded
    <2>3. live' = live /\ \A u \in live : owned'[u] \subseteq owned[u]
        <3>1. live' = live
            BY <1>8, Zenon DEF UnmapPage
        <3>2. owned' = owned \/ owned' = [owned EXCEPT ![t] = @ \ {pd[t][v]}]
            BY <1>8, Zenon DEF UnmapPage
        <3>. QED  BY <1>1, <3>1, <3>2
    <2> QED
        BY <1>3, <2>2, <2>3, Zenon
<1>9. ASSUME NEW t \in Tasks, ProcessCreate(t)
      PROVE  KernelAssertsHold'
    <2>1. ~panic'
        BY <1>1, <1>2, <1>9, NextFreePageIsFree, Zenon DEF ProcessCreate, AskForMoreKernelSpace
    <2>2. live' = live \cup {t} /\ owned' = [owned EXCEPT ![t] = {}]
        BY <1>9, Zenon DEF ProcessCreate
    <2>3. \A u \in live' : (u \in live /\ owned'[u] \subseteq owned[u]) \/ owned'[u] = {}
        BY <1>1, <1>9, <2>2
    <2> QED
        BY <1>3, <2>1, <2>3, Zenon
<1>10. ASSUME HeapGrows
      PROVE  KernelAssertsHold'
    <2>1. ~panic' /\ live' = live /\ owned' = owned
        BY <1>1, <1>10, NextFreePageIsFree, Zenon DEF HeapGrows, AskForMoreKernelSpace
    <2> QED
        BY <1>3, <2>1, Zenon
<1>11. ASSUME NEW t \in live, TaskEnds(t)
      PROVE  KernelAssertsHold'
    <2>1. ~panic' /\ live' = live \ {t} /\ owned' = [owned EXCEPT ![t] = {}]
        BY <1>1, <1>11, Zenon DEF TaskEnds
    <2>2. \A u \in live' : (u \in live /\ owned'[u] \subseteq owned[u]) \/ owned'[u] = {}
        BY <1>1, <2>1
    <2> QED
        BY <1>3, <2>1, <2>2, Zenon
<1> QED
    BY <1>6, <1>7, <1>8, <1>9, <1>10, <1>11, VaddrsAreVPages, SMTT(30) DEF Next

(* The accounting holds in every state. *)
LEMMA MemoryInvariant == Spec => []MemoryInv
<1>1. Init => MemoryInv
    BY InitInv
<1>2. MemoryInv /\ [Next]_vars => MemoryInv'
    <2> SUFFICES ASSUME MemoryInv, [Next]_vars PROVE MemoryInv'
        OBVIOUS
    <2>1. CASE Next
        BY <2>1, NextInv
    <2>2. CASE UNCHANGED vars
        BY <2>2, SMTT(30) DEF vars, MemoryInv, MemoryTypeOK, PagesAreAccounted, PageZeroIsNotMapped,
            KernelFrames, Mapped
    <2> QED
        BY <2>1, <2>2
<1> QED
    BY <1>1, <1>2, PTL DEF Spec

(* Page directories and owned_phys_pages_ only ever hold pages of the machine. *)
THEOREM MemoryTypeCorrect == Spec => []MemoryTypeOK
BY MemoryInvariant, PTL DEF MemoryInv

(* However tasks allocate, share, swap, unmap and end, the bitmap of pmm.cpp is
   exactly the reserved pages, the kernel's and what live tasks own, and no page
   is owned twice. *)
THEOREM NoPageIsLostOrSharedByOwners == Spec => []PagesAreAccounted
BY MemoryInvariant, PTL DEF MemoryInv

(* On any machine and under any use, no assert of pmm.cpp or of Task about pages
   fails, and the kernel stops in RecordOwnedPage exactly when a task is to own
   more pages than its array holds. *)
THEOREM PageAssertsHold == Spec => []KernelAssertsHold
<1>1. Init => KernelAssertsHold
    <2>1. ASSUME Init PROVE KernelAssertsHold
        <3>1. panic = FALSE /\ owned = [t \in Tasks |-> {}] /\ live \subseteq Tasks
            BY <2>1, Zenon DEF Init
        <3>2. \A t \in live : owned[t] = {}
            BY <3>1
        <3>3. ~(Cardinality({}) > kMaxPages)
            BY FS_EmptySet, MemoryAssumption DEF MemoryAssumption
        <3>. QED  BY <3>1, <3>2, <3>3, Zenon DEF KernelAssertsHold
    <2>. QED  BY <2>1
<1>2. MemoryInv /\ KernelAssertsHold /\ [Next]_vars => KernelAssertsHold'
    <2>1. ASSUME KernelAssertsHold, UNCHANGED vars PROVE KernelAssertsHold'
        BY <2>1, Zenon DEF KernelAssertsHold, vars
    <2>. QED  BY <2>1, AssertsHoldStep, Zenon
<1> QED
    BY <1>1, <1>2, MemoryInvariant, PTL DEF Spec

-----------------------------------------------------------------------------
(* ExecMemory: programs that start as libc does and load others with
   LoadElfProgram use the page syscalls as Memory takes them to, so what is shown
   above of pages and asserts holds under them. *)

Loading(t) == pc[t] \in {"create", "map", "run", "unmap"}

(* The kernel's code and heap, with the kernel stacks, are mapped in the kernel
   page directory. *)
KernelIsMapped ==
    /\ KernelPage \in Mapped(pd[Kernel])
    /\ heapPages \subseteq Mapped(pd[Kernel])

(* A loader owns the page it fills until MapAnonAndSwap; until it unmaps it, the
   page may come to be anybody's but never holds the kernel's code or the loader's
   kernel stack, because these were in use before. *)
Sound(t) ==
    /\ pc[t] = "none" <=> t \notin live
    /\ t \in live => stack[t] \in Mapped(pd[Kernel])
    /\ pc[t] \in {"create", "map"} => pd[t][load[t]] \in owned[t]
    /\ Loading(t) => /\ pd[t][load[t]] # NoPage
                     /\ pd[t][load[t]] # pd[Kernel][KernelPage]
                     /\ pd[t][load[t]] # pd[Kernel][stack[t]]

(* A process that is being loaded waits for its one loader to start it. *)
HasChild(t) == pc[t] \in {"map", "run"}
ChildrenWait ==
    \A t \in Tasks : HasChild(t) =>
        /\ pc[child[t]] = "created"
        /\ \A u \in Tasks : HasChild(u) /\ child[u] = child[t] => u = t

(* The inductive invariant, besides MemoryInv. *)
ExecInv ==
    /\ pc \in [Tasks -> Pcs]
    /\ load \in [Tasks -> VPages]
    /\ child \in [Tasks -> Tasks]
    /\ KernelIsMapped
    /\ ChildrenWait
    /\ \A t \in Tasks : Sound(t)

-----------------------------------------------------------------------------

(* Steps are those of Memory because of what a loader may rely on. *)
LEMMA PagesOfLoaders ==
    MemoryInv /\ ExecInv => PagesAreTheirs
<1>. SUFFICES ASSUME MemoryInv, ExecInv, NEW t \in Tasks
              PROVE  /\ Running(t) => t \in live
                     /\ pc[t] = "map" => /\ child[t] \in live
                                         /\ MayMap(t, load[t], child[t], TRUE, 0, TRUE)
                     /\ pc[t] = "unmap" => MayUnmap(t, load[t])
    BY Zenon DEF PagesAreTheirs
<1>0. Sound(t) /\ load[t] \in VPages /\ child[t] \in Tasks /\ Sound(child[t])
    BY DEF ExecInv
<1>1. Running(t) => t \in live
    BY <1>0 DEF Sound, Running
<1>2. ASSUME pc[t] = "map"
      PROVE  child[t] \in live /\ MayMap(t, load[t], child[t], TRUE, 0, TRUE)
    <2>1. child[t] \in live
        BY <1>0, <1>2, Zenon DEF Sound, ExecInv, ChildrenWait, HasChild
    <2>2. t \in live /\ pd[t][load[t]] \in owned[t] /\ pd[t][load[t]] # NoPage
        BY <1>0, <1>2 DEF Sound, Loading
    <2>3. pd[t][load[t]] \notin KernelFrames
        BY <2>2 DEF MemoryInv, PagesAreAccounted
    <2>4. load[t] \in Mapped(pd[t])
        BY <1>0, <2>2 DEF Mapped
    <2>5. load[t] \in UserPages(t)
        BY <2>2, <2>3, <2>4, Zenon DEF UserPages, KernelFrames, Mapped
    <2>. QED  BY <2>1, <2>2, <2>4, <2>5 DEF MayMap, Owns
<1>3. ASSUME pc[t] = "unmap"
      PROVE  MayUnmap(t, load[t])
    BY <1>0, <1>3 DEF Sound, Loading, MayUnmap, Mapped
<1>. QED  BY <1>1, <1>2, <1>3, Zenon

LEMMA StepsAreMemorySteps ==
    MemoryInv /\ ExecInv /\ [ExecNext]_allVars => [Next]_vars
<1>. SUFFICES ASSUME MemoryInv, ExecInv, ExecNext
              PROVE  [Next]_vars
    BY DEF allVars, vars
<1>0. PagesAreTheirs
    BY PagesOfLoaders
<1>1. PICK t \in Tasks :
        \/ Start(t) \/ LibcStart(t) \/ LoadAlloc(t) \/ LoadCreate(t) \/ LoadMap(t)
        \/ LoadRun(t) \/ ResizableBuffers(t) \/ LoadUnmap(t) \/ Ends(t)
    BY DEF ExecNext
<1>10. ~panic
    BY DEF ExecNext
<1>2. 0 \in Vaddrs(TRUE) /\ load[t] \in VPages
    BY DEF Vaddrs, ExecInv
<1>3. CASE Start(t) \/ LibcStart(t) \/ LoadAlloc(t)
    <2>1. t \in live
        BY <1>0, <1>3, Zenon DEF PagesAreTheirs, Running, Start, LibcStart, LoadAlloc
    <2>. QED  BY <1>2, <1>3, <1>10, <2>1, Zenon DEF Start, LibcStart, LoadAlloc, Next
<1>4. CASE LoadCreate(t)
    BY <1>4, <1>10 DEF LoadCreate, Next
<1>5. CASE LoadMap(t)
    <2>1. /\ t \in live /\ child[t] \in live
          /\ MayMap(t, load[t], child[t], TRUE, 0, TRUE)
        BY <1>0, <1>5, Zenon DEF PagesAreTheirs, Running, LoadMap
    <2>. QED  BY <1>2, <1>5, <1>10, <2>1, Zenon DEF LoadMap, Next
<1>6. CASE LoadRun(t)
    BY <1>6 DEF LoadRun
<1>7. CASE ResizableBuffers(t)
    BY <1>7, <1>10 DEF ResizableBuffers, Next
<1>8. CASE LoadUnmap(t)
    <2>1. t \in live /\ MayUnmap(t, load[t])
        BY <1>0, <1>8, Zenon DEF PagesAreTheirs, Running, LoadUnmap
    <2>. QED  BY <1>2, <1>8, <1>10, <2>1 DEF LoadUnmap, Next
<1>9. CASE Ends(t)
    BY <1>0, <1>9, <1>10, Zenon DEF PagesAreTheirs, Ends, Next
<1>. QED  BY <1>1, <1>3, <1>4, <1>5, <1>6, <1>7, <1>8, <1>9

-----------------------------------------------------------------------------

(* An anonymous AllocPage that fails changes nothing; one that succeeds maps one
   page, which was free, at the address libc takes to be the new one. *)
LEMMA AllocEffect ==
    ASSUME MemoryInv, NEW t \in live, AllocPage(t, TRUE, 0)
    PROVE  /\ UNCHANGED <<heapPages, stack, live>>
           /\ \/ status' # "K_OK" /\ UNCHANGED <<used, pd, owned>>
              \/ /\ status' = "K_OK"
                 /\ NewlyMapped(t) \in VPages /\ pd[t][NewlyMapped(t)] = NoPage
                 /\ \E p \in GetNextFreePage(used) \cap (PPages \ used) :
                        /\ pd' = [pd EXCEPT ![t] = [@ EXCEPT ![NewlyMapped(t)] = p]]
                        /\ owned' = [owned EXCEPT ![t] = @ \cup {p}]
<1>1. CASE \E s \in {"K_OOM_PHYS", "K_OOM_VIRT"} : Returns(s)
    BY <1>1 DEF Returns
<1>2. ASSUME NEW p \in GetNextFreePage(used),
             NEW w \in getNextFreePage(pd[t], FREE_PAGE_LOWER_BOUND),
             pd' = [pd EXCEPT ![t][w] = p],
             owned' = [owned EXCEPT ![t] = @ \cup {p}],
             status' = "K_OK", UNCHANGED <<heapPages, stack, live>>
      PROVE  /\ NewlyMapped(t) \in VPages /\ pd[t][NewlyMapped(t)] = NoPage
             /\ \E q \in GetNextFreePage(used) \cap (PPages \ used) :
                    /\ pd' = [pd EXCEPT ![t] = [@ EXCEPT ![NewlyMapped(t)] = q]]
                    /\ owned' = [owned EXCEPT ![t] = @ \cup {q}]
    <2>1. 0 \in used
        BY MemoryAssumption DEF MemoryInv, PagesAreAccounted, MemoryAssumption
    <2>2. p \in PPages \ used
        BY <2>1, NextFreePageIsFree
    <2>3. w \in VPages /\ pd[t][w] = NoPage
        BY NextFreeVPageIsFree DEF FREE_PAGE_LOWER_BOUND, Mapped
    <2>4. /\ t \in Tasks \cup {Kernel}
          /\ pd \in [Tasks \cup {Kernel} -> [VPages -> PPages \cup {NoPage}]]
          /\ p # NoPage
        BY <2>2, MemoryAssumption DEF MemoryInv, MemoryTypeOK, MemoryAssumption
    <2>5. \A v \in VPages : pd'[t][v] # pd[t][v] <=> v = w
        BY <1>2, <2>3, <2>4
    <2>6. NewlyMapped(t) = w
        BY <2>3, <2>5 DEF NewlyMapped
    <2>7. pd' = [pd EXCEPT ![t] = [@ EXCEPT ![NewlyMapped(t)] = p]]
        BY <1>2, <2>6
    <2>. QED  BY <1>2, <2>2, <2>3, <2>6, <2>7, Zenon
<1>. QED  BY <1>1, <1>2 DEF AllocPage, Returns

(* MapAnonAndSwap from a loader to the process it has created. *)
LEMMA MapEffect ==
    ASSUME MemoryInv, ExecInv, NEW t \in Tasks, pc[t] = "map",
           MapPage(t, load[t], child[t], TRUE, 0, TRUE)
    PROVE  /\ UNCHANGED <<heapPages, stack, live>>
           /\ \/ status' # "K_OK" /\ UNCHANGED <<pd, owned>>
              \/ /\ status' = "K_OK"
                 /\ NewlyMapped(child[t]) \in VPages
                 /\ pd' = [pd EXCEPT ![child[t]] =
                                [@ EXCEPT ![NewlyMapped(child[t])] = pd[t][load[t]]]]
                 /\ owned' = [owned EXCEPT ![t] = @ \ {pd[t][load[t]]},
                                           ![child[t]] = @ \cup {pd[t][load[t]]}]
<1>1. /\ child[t] \in Tasks /\ load[t] \in VPages /\ pc[child[t]] = "created"
      /\ pd[t][load[t]] # NoPage
    BY DEF ExecInv, ChildrenWait, HasChild, Sound, Loading
<1>2. child[t] # t /\ load[t] \in Mapped(pd[t])
    BY <1>1 DEF Mapped
<1>3. CASE Returns("K_OOM_VIRT") \/ Returns("K_VPAGE_MAPPED")
    BY <1>3 DEF Returns
<1>. DEFINE c == child[t]
            p == pd[t][load[t]]
<1>4. ASSUME NEW w \in getNextFreePage(pd[c], FREE_PAGE_LOWER_BOUND),
             MapOnto(t, load[t], c, w, TRUE)
      PROVE  /\ UNCHANGED <<heapPages, stack, live>> /\ status' = "K_OK"
             /\ NewlyMapped(c) \in VPages
             /\ pd' = [pd EXCEPT ![c] = [@ EXCEPT ![NewlyMapped(c)] = p]]
             /\ owned' = [owned EXCEPT ![t] = @ \ {p}, ![c] = @ \cup {p}]
    <2>1. w \in VPages /\ pd[c][w] = NoPage
        BY NextFreeVPageIsFree DEF FREE_PAGE_LOWER_BOUND, Mapped
    <2>2. /\ pd' = [pd EXCEPT ![c][w] = p]
          /\ owned' = [owned EXCEPT ![t] = @ \ {p}, ![c] = @ \cup {p}]
          /\ UNCHANGED <<heapPages, stack, live>> /\ status' = "K_OK"
        BY <1>4 DEF MapOnto, SwapOwner
    <2>. HIDE DEF p
    <2>3. \A v \in VPages : pd'[c][v] # pd[c][v] <=> v = w
        BY <1>1, <2>1, <2>2 DEF MemoryInv, MemoryTypeOK, p
    <2>4. NewlyMapped(c) = w
        BY <2>1, <2>3 DEF NewlyMapped
    <2>. QED  BY <2>1, <2>2, <2>4
<1>5. \A w \in getNextFreePage(pd[child[t]], FREE_PAGE_LOWER_BOUND) : w \notin Mapped(pd[child[t]])
    BY NextFreeVPageIsFree, Zenon DEF FREE_PAGE_LOWER_BOUND
<1>. QED  BY <1>2, <1>3, <1>4, <1>5, Zenon DEF MapPage

(* A task that does not act keeps what its next steps rely on, whatever happens
   to the frames it maps. *)
KernelKeepsPages ==
    \A v \in VPages : pd[Kernel][v] # NoPage => pd'[Kernel][v] = pd[Kernel][v]

LEMMA SoundStays ==
    ASSUME MemoryInv, ExecInv, NEW u \in Tasks, KernelKeepsPages,
           load'[u] = load[u], stack'[u] = stack[u],
           pc[u] = "none" <=> pc'[u] = "none", u \in live <=> u \in live',
           pc'[u] \in {"create", "map"} =>
               pc[u] \in {"create", "map"} /\ owned[u] \subseteq owned'[u],
           pc'[u] \in {"create", "map", "run", "unmap"} => Loading(u) /\ pd'[u] = pd[u]
    PROVE  Sound(u)'
<1>1. /\ Sound(u) /\ KernelPage \in VPages /\ pd[Kernel][KernelPage] # NoPage
      /\ load[u] \in VPages /\ stack[u] \in VPages
    BY DEF ExecInv, KernelIsMapped, Mapped, MemoryInv, MemoryTypeOK
<1>2. u \in live => pd[Kernel][stack[u]] # NoPage /\ pd'[Kernel][stack[u]] = pd[Kernel][stack[u]]
    BY <1>1 DEF Sound, KernelKeepsPages, Mapped
<1>3. pd'[Kernel][KernelPage] = pd[Kernel][KernelPage]
    BY <1>1 DEF KernelKeepsPages
<1>4. Loading(u) => u \in live
    BY <1>1 DEF Sound, Loading
<1>. QED  BY <1>1, <1>2, <1>3, <1>4 DEF Sound, Loading, Mapped

LEMMA KernelStaysMapped ==
    ASSUME ExecInv, KernelKeepsPages, UNCHANGED heapPages
    PROVE  KernelIsMapped'
BY DEF ExecInv, KernelIsMapped, KernelKeepsPages, Mapped

(* Steps of a program that lose no child and gain none keep ChildrenWait. *)
LEMMA ChildrenStay ==
    ASSUME ExecInv, UNCHANGED child,
           \A u \in Tasks : pc'[u] \in {"map", "run"} => HasChild(u),
           \A u \in Tasks : HasChild(u) /\ pc'[u] \in {"map", "run"} => pc'[child[u]] = "created"
    PROVE  ChildrenWait'
BY DEF ExecInv, ChildrenWait, HasChild

-----------------------------------------------------------------------------

(* The start of a program and PageAlloc::PageAlloc. *)
LEMMA AllocKeepsInv ==
    ASSUME MemoryInv, ExecInv, NEW t \in Tasks, Start(t) \/ LibcStart(t) \/ LoadAlloc(t)
    PROVE  ExecInv'
<1>0. /\ t \in live /\ t # Kernel /\ ~HasChild(t) /\ ~Loading(t) /\ pc[t] # "created"
      /\ pc[t] # "none"
    BY MemoryAssumption, Zenon DEF ExecInv, Sound, Start, LibcStart, LoadAlloc, HasChild, Loading,
                            MemoryAssumption
<1>1. PICK next \in {"libc", "main", "create"} :
        /\ AllocPage(t, TRUE, 0) /\ pc' = After(t, next) /\ child' = child
        /\ load' = IF next = "create" /\ status' = "K_OK"
                   THEN [load EXCEPT ![t] = NewlyMapped(t)] ELSE load
    BY Zenon DEF Start, LibcStart, LoadAlloc
<1>2. /\ UNCHANGED <<heapPages, stack, live>>
      /\ \/ status' # "K_OK" /\ UNCHANGED <<used, pd, owned>>
         \/ /\ status' = "K_OK"
            /\ NewlyMapped(t) \in VPages
            /\ \E p \in PPages \ used :
                    /\ pd' = [pd EXCEPT ![t] = [@ EXCEPT ![NewlyMapped(t)] = p]]
                    /\ owned' = [owned EXCEPT ![t] = @ \cup {p}]
    BY <1>0, <1>1, AllocEffect, Zenon
<1>3. /\ \A u \in Tasks : u # t => pc'[u] = pc[u]
      /\ pc'[t] = IF status' = "K_OK" THEN next ELSE "abort"
      /\ pc' \in [Tasks -> Pcs] /\ load' \in [Tasks -> VPages] /\ child' \in [Tasks -> Tasks]
      /\ \A u \in Tasks : u # t => load'[u] = load[u]
    BY <1>1, <1>2 DEF ExecInv, After, Pcs
<1>4. /\ \A u \in (Tasks \cup {Kernel}) \ {t} : pd'[u] = pd[u]
      /\ \A u \in Tasks \ {t} : owned'[u] = owned[u]
      /\ KernelKeepsPages
    BY <1>0, <1>2 DEF MemoryInv, MemoryTypeOK, KernelKeepsPages
<1>5. KernelIsMapped'
    BY <1>2, <1>4, KernelStaysMapped
<1>6. ChildrenWait'
    <2>1. pc'[t] \notin {"map", "run"}
        BY <1>3
    <2>2. \A u \in Tasks : HasChild(u) => child[u] \in Tasks /\ child[u] # t /\ pc[child[u]] = "created"
        BY <1>0 DEF ExecInv, ChildrenWait
    <2>. QED  BY <1>1, <1>3, <2>1, <2>2, ChildrenStay DEF HasChild
<1>7. ASSUME NEW u \in Tasks, u # t
      PROVE  Sound(u)'
    BY <1>2, <1>3, <1>4, <1>7, SoundStays DEF Loading
<1>8. Sound(t)'
    <2>1. CASE pc'[t] # "create"
        <3>1. load' = load /\ pc'[t] \notin {"create", "map", "run", "unmap", "none"}
            BY <1>1, <1>3, <2>1, Zenon
        <3>. QED  BY <1>0, <1>2, <1>4, <3>1, SoundStays
    <2>2. CASE pc'[t] = "create"
        <3>1. status' = "K_OK" /\ load'[t] = NewlyMapped(t) /\ NewlyMapped(t) \in VPages
            BY <1>1, <1>2, <1>3, <2>2 DEF ExecInv
        <3>2. PICK p \in PPages \ used :
                    /\ pd' = [pd EXCEPT ![t] = [@ EXCEPT ![NewlyMapped(t)] = p]]
                    /\ owned' = [owned EXCEPT ![t] = @ \cup {p}]
            BY <1>2, <3>1
        <3>3. pd'[t][load'[t]] = p /\ p \in owned'[t]
            BY <3>1, <3>2 DEF MemoryInv, MemoryTypeOK
        <3>4. stack[t] \in Mapped(pd[Kernel]) /\ KernelPage \in Mapped(pd[Kernel])
            BY <1>0, Zenon DEF ExecInv, Sound, KernelIsMapped
        <3>5. pd[Kernel][stack[t]] \in used /\ pd[Kernel][KernelPage] \in used
            BY <3>4 DEF MemoryInv, PagesAreAccounted, KernelFrames
        <3>6. p # NoPage /\ pd'[Kernel] = pd[Kernel]
            BY <1>0, <1>4, MemoryAssumption, Zenon DEF MemoryAssumption
        <3>. QED  BY <1>0, <1>2, <2>2, <3>3, <3>4, <3>5, <3>6, Zenon DEF Sound, Mapped
    <2>. QED  BY <2>1, <2>2
<1>. QED  BY <1>3, <1>5, <1>6, <1>7, <1>8, Zenon DEF ExecInv

(* The kernel heap grows where the kernel page directory had nothing. *)
LEMMA GrowthKeepsKernel ==
    ASSUME MemoryInv, ExecInv, NEW dirs \in [Tasks \cup {Kernel} -> [VPages -> PPages \cup {NoPage}]],
           dirs[Kernel] = pd[Kernel],
           NEW v \in getNextFreePage(pd[Kernel], 1), AskForMoreKernelSpace(dirs, v)
    PROVE  /\ KernelKeepsPages /\ KernelIsMapped'
           /\ v \in Mapped(pd'[Kernel])
           /\ \A u \in Tasks : pd'[u] = dirs[u]
<1>1. v \in VPages /\ pd[Kernel][v] = NoPage
    BY NextFreeVPageIsFree DEF Mapped
<1>2. PICK p \in GetNextFreePage(used) : /\ pd' = [dirs EXCEPT ![Kernel][v] = p]
                                         /\ heapPages' = heapPages \cup {v}
    BY Zenon DEF AskForMoreKernelSpace
<1>3. p \in PPages /\ p # NoPage
    BY NextFreePageIsFree, MemoryAssumption DEF MemoryInv, PagesAreAccounted, MemoryAssumption
<1>4. \A w \in VPages : pd'[Kernel][w] = IF w = v THEN p ELSE pd[Kernel][w]
    BY <1>1, <1>2
<1>5. KernelKeepsPages /\ v \in Mapped(pd'[Kernel])
    BY <1>1, <1>3, <1>4 DEF KernelKeepsPages, Mapped
<1>6. KernelIsMapped'
    BY <1>1, <1>2, <1>3, <1>4 DEF ExecInv, KernelIsMapped, Mapped
<1>. QED  BY <1>2, <1>5, <1>6, MemoryAssumption DEF MemoryAssumption

LEMMA CreateKeepsInv ==
    ASSUME MemoryInv, ExecInv, NEW t \in Tasks, LoadCreate(t)
    PROVE  ExecInv'
<1>1. PICK c \in Tasks : /\ ProcessCreate(c)
                         /\ pc' = [pc EXCEPT ![t] = "map", ![c] = "created"]
                         /\ child' = [child EXCEPT ![t] = c]
    BY Zenon DEF LoadCreate
<1>2. /\ pc[t] = "create" /\ load' = load /\ c \notin live /\ pc[c] = "none" /\ c # t
      /\ live' = live \cup {c} /\ owned' = [owned EXCEPT ![c] = {}]
    BY <1>1 DEF LoadCreate, ProcessCreate, ExecInv, Sound
<1>. DEFINE dirs == [pd EXCEPT ![c] = pd[Kernel]]
<1>3. /\ dirs \in [Tasks \cup {Kernel} -> [VPages -> PPages \cup {NoPage}]]
      /\ dirs[Kernel] = pd[Kernel] /\ \A u \in Tasks : u # c => dirs[u] = pd[u]
    BY MemoryAssumption DEF MemoryInv, MemoryTypeOK, MemoryAssumption
<1>4. \/ /\ \E h \in heapPages : stack' = [stack EXCEPT ![c] = h]
         /\ pd' = dirs /\ heapPages' = heapPages
      \/ \E v \in getNextFreePage(pd[Kernel], 1) :
         stack' = [stack EXCEPT ![c] = v] /\ AskForMoreKernelSpace(dirs, v)
    BY <1>1, Zenon DEF ProcessCreate
<1>. HIDE DEF dirs
<1>5. /\ KernelKeepsPages /\ KernelIsMapped' /\ \A u \in Tasks : u # c => pd'[u] = pd[u]
      /\ \E v \in Mapped(pd'[Kernel]) : stack' = [stack EXCEPT ![c] = v]
    <2>1. CASE /\ \E h \in heapPages : stack' = [stack EXCEPT ![c] = h]
               /\ pd' = dirs /\ heapPages' = heapPages
        <3>1. KernelKeepsPages
            BY <1>3, <2>1 DEF KernelKeepsPages
        <3>2. heapPages \subseteq Mapped(pd'[Kernel])
            BY <1>3, <2>1 DEF ExecInv, KernelIsMapped
        <3>. QED  BY <1>3, <2>1, <3>1, <3>2, KernelStaysMapped, Zenon
    <2>2. CASE \E v \in getNextFreePage(pd[Kernel], 1) :
                stack' = [stack EXCEPT ![c] = v] /\ AskForMoreKernelSpace(dirs, v)
        BY <1>3, <2>2, GrowthKeepsKernel, Zenon
    <2>. QED  BY <1>4, <2>1, <2>2
<1>6. /\ \A u \in Tasks : u # c => stack'[u] = stack[u] /\ owned'[u] = owned[u]
      /\ stack'[c] \in Mapped(pd'[Kernel])
    BY <1>2, <1>5 DEF MemoryInv, MemoryTypeOK
<1>7. /\ \A u \in Tasks : pc'[u] = IF u = t THEN "map" ELSE IF u = c THEN "created" ELSE pc[u]
      /\ \A u \in Tasks : child'[u] = IF u = t THEN c ELSE child[u]
      /\ pc' \in [Tasks -> Pcs] /\ load' \in [Tasks -> VPages] /\ child' \in [Tasks -> Tasks]
    BY <1>1, <1>2 DEF ExecInv, Pcs
<1>8. ASSUME NEW u \in Tasks, u # c
      PROVE  Sound(u)'
    BY <1>2, <1>5, <1>6, <1>7, <1>8, SoundStays DEF Loading
<1>9. Sound(c)'
    BY <1>2, <1>6, <1>7, Zenon DEF Sound, Loading
<1>10. ChildrenWait'
    <2>1. \A u \in Tasks : HasChild(u) => /\ child[u] \in Tasks /\ child[u] # t /\ child[u] # c
                                          /\ pc[child[u]] = "created" /\ u # c
        BY <1>2 DEF ExecInv, ChildrenWait, HasChild
    <2>2. \A u \in Tasks : u # t /\ pc'[u] \in {"map", "run"} => HasChild(u) /\ child'[u] = child[u]
        BY <1>7 DEF HasChild
    <2>3. \A u, x \in Tasks : HasChild(u) /\ HasChild(x) /\ child[u] = child[x] => u = x
        BY DEF ExecInv, ChildrenWait
    <2>. QED  BY <1>2, <1>7, <2>1, <2>2, <2>3, SMTT(30) DEF ChildrenWait, HasChild
<1>. QED  BY <1>5, <1>7, <1>8, <1>9, <1>10 DEF ExecInv

LEMMA MapKeepsInv ==
    ASSUME MemoryInv, ExecInv, NEW t \in Tasks, LoadMap(t)
    PROVE  ExecInv'
<1>0. /\ pc[t] = "map" /\ child[t] \in Tasks /\ pc[child[t]] = "created"
      /\ pc' = After(t, "run") /\ UNCHANGED <<load, child>>
      /\ Kernel \notin Tasks
    BY MemoryAssumption, Zenon DEF LoadMap, ExecInv, ChildrenWait, HasChild, MemoryAssumption
<1>1. /\ UNCHANGED <<heapPages, stack, live>>
      /\ \/ UNCHANGED <<pd, owned>>
         \/ /\ \E dir : pd' = [pd EXCEPT ![child[t]] = dir]
            /\ owned' = [owned EXCEPT ![t] = @ \ {pd[t][load[t]]},
                                      ![child[t]] = @ \cup {pd[t][load[t]]}]
    BY <1>0, MapEffect, Zenon DEF LoadMap
<1>2. /\ \A u \in (Tasks \cup {Kernel}) \ {child[t]} : pd'[u] = pd[u]
      /\ \A u \in Tasks \ {t} : owned[u] \subseteq owned'[u]
      /\ KernelKeepsPages
    BY <1>0, <1>1, SMTT(30) DEF MemoryInv, MemoryTypeOK, KernelKeepsPages
<1>3. /\ pc'[t] \in {"run", "abort"} /\ \A u \in Tasks : u # t => pc'[u] = pc[u]
      /\ pc' \in [Tasks -> Pcs]
    BY <1>0 DEF ExecInv, After, Pcs
<1>4. KernelIsMapped'
    BY <1>1, <1>2, KernelStaysMapped
<1>5. ASSUME NEW u \in Tasks
      PROVE  Sound(u)'
    BY <1>0, <1>1, <1>2, <1>3, SoundStays DEF Loading
<1>6. ChildrenWait'
    <2>1. \A u \in Tasks : HasChild(u) => child[u] \in Tasks /\ pc[child[u]] = "created"
        BY Zenon DEF ExecInv, ChildrenWait
    <2>2. \A u \in Tasks : HasChild(u) => pc'[child[u]] = "created"
        BY <1>0, <1>3, <2>1, Zenon
    <2>. QED  BY <1>0, <1>3, <2>2, ChildrenStay, Zenon DEF HasChild
<1>. QED  BY <1>0, <1>3, <1>4, <1>5, <1>6, Zenon DEF ExecInv

LEMMA RunKeepsInv ==
    ASSUME MemoryInv, ExecInv, NEW t \in Tasks, LoadRun(t)
    PROVE  ExecInv'
<1>0. /\ pc[t] = "run" /\ child[t] \in Tasks /\ pc[child[t]] = "created"
      /\ pc' = [pc EXCEPT ![t] = "unmap", ![child[t]] = "start"]
      /\ UNCHANGED <<pd, owned, heapPages, stack, live, load, child>>
    BY DEF LoadRun, ExecInv, ChildrenWait, HasChild, vars
<1>1. KernelKeepsPages /\ KernelIsMapped'
    BY <1>0, KernelStaysMapped, Zenon DEF KernelKeepsPages
<1>2. /\ pc' \in [Tasks -> Pcs] /\ child[t] # t
      /\ \A u \in Tasks : pc'[u] = IF u = child[t] THEN "start" ELSE IF u = t THEN "unmap" ELSE pc[u]
    BY <1>0, Zenon DEF ExecInv, Pcs
<1>3. ASSUME NEW u \in Tasks
      PROVE  Sound(u)'
    BY <1>0, <1>1, <1>2, SoundStays, Zenon DEF Loading
<1>4. ChildrenWait'
    <2>1. \A u \in Tasks : HasChild(u) => /\ child[u] \in Tasks /\ pc[child[u]] = "created"
                                          /\ u # t => child[u] # child[t]
        BY <1>0 DEF ExecInv, ChildrenWait, HasChild
    <2>2. \A u \in Tasks : pc'[u] \in {"map", "run"} => HasChild(u) /\ pc'[child[u]] = "created"
        BY <1>0, <1>2, <2>1, SMTT(60) DEF HasChild
    <2>. QED  BY <1>0, <2>2, ChildrenStay, Zenon
<1>. QED  BY <1>0, <1>1, <1>2, <1>3, <1>4, Zenon DEF ExecInv

LEMMA BuffersKeepInv ==
    ASSUME MemoryInv, ExecInv, NEW t \in Tasks, ResizableBuffers(t)
    PROVE  ExecInv'
<1>1. /\ UNCHANGED userVars /\ UNCHANGED <<owned, stack, live>>
      /\ \E v \in getNextFreePage(pd[Kernel], 1) : AskForMoreKernelSpace(pd, v)
    BY Zenon DEF ResizableBuffers, HeapGrows
<1>2. KernelKeepsPages /\ KernelIsMapped' /\ \A u \in Tasks : pd'[u] = pd[u]
    BY <1>1, GrowthKeepsKernel, Zenon DEF MemoryInv, MemoryTypeOK
<1>3. ASSUME NEW u \in Tasks
      PROVE  Sound(u)'
    BY <1>1, <1>2, SoundStays DEF userVars, Loading
<1>. QED  BY <1>1, <1>2, <1>3 DEF ExecInv, ChildrenWait, HasChild, userVars

LEMMA UnmapKeepsInv ==
    ASSUME MemoryInv, ExecInv, NEW t \in Tasks, LoadUnmap(t)
    PROVE  ExecInv'
<1>0. /\ pc[t] = "unmap" /\ pc' = [pc EXCEPT ![t] = "main"]
      /\ UNCHANGED <<heapPages, stack, live, load, child>>
      /\ pd' = [pd EXCEPT ![t][load[t]] = NoPage]
      /\ owned' = [owned EXCEPT ![t] = @ \ {pd[t][load[t]]}] \/ owned' = owned
    BY Zenon DEF LoadUnmap, UnmapPage
<1>1. /\ \A u \in (Tasks \cup {Kernel}) \ {t} : pd'[u] = pd[u]
      /\ \A u \in Tasks \ {t} : owned'[u] = owned[u]
      /\ KernelKeepsPages
    BY <1>0, MemoryAssumption, Zenon DEF MemoryInv, MemoryTypeOK, KernelKeepsPages, MemoryAssumption
<1>2. KernelIsMapped'
    BY <1>0, <1>1, KernelStaysMapped, Zenon
<1>3. /\ pc' \in [Tasks -> Pcs]
      /\ \A u \in Tasks : pc'[u] = IF u = t THEN "main" ELSE pc[u]
    BY <1>0, Zenon DEF ExecInv, Pcs
<1>4. ASSUME NEW u \in Tasks
      PROVE  Sound(u)'
    BY <1>0, <1>1, <1>3, SoundStays, Zenon DEF Loading
<1>5. ChildrenWait'
    <2>1. \A u \in Tasks : HasChild(u) => child[u] \in Tasks /\ pc[child[u]] = "created"
        BY Zenon DEF ExecInv, ChildrenWait
    <2>. QED  BY <1>0, <1>3, <2>1, ChildrenStay, Zenon DEF HasChild
<1>. QED  BY <1>0, <1>2, <1>3, <1>4, <1>5 DEF ExecInv

LEMMA EndsKeepsInv ==
    ASSUME MemoryInv, ExecInv, NEW t \in Tasks, Ends(t)
    PROVE  ExecInv'
<1>0. /\ pc[t] \notin {"none", "created"} /\ pc' = [pc EXCEPT ![t] = "none"]
      /\ UNCHANGED <<heapPages, stack>> /\ live' = live \ {t}
      /\ load' = [load EXCEPT ![t] = 0] /\ child' = [child EXCEPT ![t] = t]
      /\ pd' = [pd EXCEPT ![t] = [v \in VPages |-> NoPage]]
      /\ owned' = [owned EXCEPT ![t] = {}]
    BY Zenon DEF Ends, TaskEnds, Running
<1>1. /\ \A u \in (Tasks \cup {Kernel}) \ {t} : pd'[u] = pd[u]
      /\ \A u \in Tasks \ {t} : owned'[u] = owned[u]
      /\ KernelKeepsPages
    BY <1>0, MemoryAssumption, Zenon DEF MemoryInv, MemoryTypeOK, KernelKeepsPages, MemoryAssumption
<1>2. KernelIsMapped'
    BY <1>0, <1>1, KernelStaysMapped, Zenon
<1>3. 0 \in VPages
    BY MemoryAssumption DEF MemoryAssumption, VPages, PPages
<1>4. /\ pc' \in [Tasks -> Pcs] /\ load' \in [Tasks -> VPages] /\ child' \in [Tasks -> Tasks]
      /\ \A u \in Tasks : pc'[u] = IF u = t THEN "none" ELSE pc[u]
      /\ \A u \in Tasks : u # t => load'[u] = load[u] /\ child'[u] = child[u]
    BY <1>0, <1>3, Zenon DEF ExecInv, Pcs
<1>5. ASSUME NEW u \in Tasks, u # t
      PROVE  Sound(u)'
    BY <1>0, <1>1, <1>4, <1>5, SoundStays, SMTT(30) DEF Loading
<1>6. Sound(t)'
    BY <1>0, <1>4 DEF Sound, Loading
<1>7. ChildrenWait'
    <2>1. \A u \in Tasks : HasChild(u) => /\ child[u] \in Tasks /\ pc[child[u]] = "created"
                                          /\ child[u] # t
        BY <1>0, Zenon DEF ExecInv, ChildrenWait
    <2>2. \A u \in Tasks : pc'[u] \in {"map", "run"} => HasChild(u) /\ u # t
        BY <1>4 DEF HasChild
    <2>3. \A u, x \in Tasks : HasChild(u) /\ HasChild(x) /\ child[u] = child[x] => u = x
        BY DEF ExecInv, ChildrenWait
    <2>. QED  BY <1>4, <2>1, <2>2, <2>3, SMTT(30) DEF ChildrenWait, HasChild
<1>. QED  BY <1>2, <1>4, <1>5, <1>6, <1>7, Zenon DEF ExecInv

-----------------------------------------------------------------------------

LEMMA InitEstablishesExecInv ==
    ASSUME ExecInit
    PROVE  ExecInv
<1>1. PICK first \in Tasks, frame \in PPages :
        /\ pd[Kernel] = BootDir(frame) /\ heapPages = {KernelPage + 1} /\ live = {first}
        /\ stack = [t \in Tasks |-> KernelPage + 1]
    <2>1. 0 \in Reserved \cup {KernelPage} /\ Kernel \notin Tasks
        BY MemoryAssumption DEF MemoryAssumption
    <2>. QED  BY <2>1, NextFreePageIsFree DEF ExecInit, Init
<1>2. /\ KernelPage \in VPages /\ KernelPage + 1 \in VPages /\ 0 \in VPages
      /\ KernelPage # NoPage /\ frame # NoPage /\ KernelPage # KernelPage + 1
    BY MemoryAssumption DEF MemoryAssumption, VPages, PPages
<1>3. KernelPage \in Mapped(pd[Kernel]) /\ KernelPage + 1 \in Mapped(pd[Kernel])
    BY <1>1, <1>2, Zenon DEF BootDir, Mapped
<1>4. /\ pc = [t \in Tasks |-> IF t \in live THEN "start" ELSE "none"]
      /\ load = [t \in Tasks |-> 0] /\ child = [t \in Tasks |-> t]
    BY DEF ExecInit
<1>5. KernelIsMapped
    BY <1>1, <1>3, Zenon DEF KernelIsMapped
<1>6. ChildrenWait
    BY <1>4, Zenon DEF ChildrenWait, HasChild
<1>7. ASSUME NEW t \in Tasks
      PROVE  Sound(t)
    BY <1>1, <1>3, <1>4 DEF Sound, Loading
<1>. QED  BY <1>2, <1>4, <1>5, <1>6, <1>7, Zenon DEF ExecInv, Pcs

LEMMA ExecStepKeepsInv ==
    MemoryInv /\ ExecInv /\ [ExecNext]_allVars => ExecInv'
<1>1. ASSUME MemoryInv, ExecInv, ExecNext
      PROVE  ExecInv'
    BY <1>1, AllocKeepsInv, CreateKeepsInv, MapKeepsInv, RunKeepsInv, BuffersKeepInv,
       UnmapKeepsInv, EndsKeepsInv, Zenon DEF ExecNext
<1>2. ASSUME ExecInv, UNCHANGED allVars
      PROVE  ExecInv'
    BY <1>2 DEF allVars, vars, userVars, ExecInv, KernelIsMapped, ChildrenWait, HasChild, Sound,
                Loading, Mapped
<1>. QED  BY <1>1, <1>2, Zenon

LEMMA ExecInvariance == ExecSpec => [](MemoryInv /\ ExecInv)
<1>1. ExecInit => MemoryInv /\ ExecInv
    BY InitInv, InitEstablishesExecInv DEF ExecInit
<1>2. MemoryInv /\ [Next]_vars => MemoryInv'
    <2>1. ASSUME MemoryInv, UNCHANGED vars PROVE MemoryInv'
        BY <2>1, SMTT(30) DEF vars, MemoryInv, MemoryTypeOK, PagesAreAccounted, PageZeroIsNotMapped,
                    KernelFrames, Mapped
    <2>. QED  BY <2>1, NextInv, Zenon
<1>3. MemoryInv /\ ExecInv /\ [ExecNext]_allVars => (MemoryInv /\ ExecInv)'
    BY <1>2, StepsAreMemorySteps, ExecStepKeepsInv
<1>. QED  BY <1>1, <1>3, PTL DEF ExecSpec

(* Starting and loading programs as libc does implements Memory. *)
THEOREM ProgramsImplementMemory == ExecSpec => Spec
<1>1. ExecInit => Init
    BY DEF ExecInit
<1>. QED  BY <1>1, ExecInvariance, StepsAreMemorySteps, PTL DEF ExecSpec, Spec

(* MapAnonAndSwap takes the owner's page to a process that exists, and
   PageAlloc::~PageAlloc unmaps a page that is mapped and that the kernel does not
   need there, even when the program it was given to has ended and the page has
   become somebody else's or the kernel's. *)
THEOREM PagesStayTheirs == ExecSpec => []PagesAreTheirs
BY ExecInvariance, PagesOfLoaders, PTL

(* No page is lost or owned twice, wherever programs fail or end. *)
THEOREM ProgramsLoseNoPage == ExecSpec => []PagesAreAccounted
<1>1. MemoryInv => PagesAreAccounted
    BY DEF MemoryInv
<1>. QED  BY <1>1, ExecInvariance, PTL

(* No program stops the kernel through an assert about pages, unless it is to own
   more of them than its array holds. *)
THEOREM ProgramsFailNoAssert == ExecSpec => []KernelAssertsHold
BY ProgramsImplementMemory, PageAssertsHold, Zenon

-----------------------------------------------------------------------------

(* Which pages are whose.  A loader in "run" has given its child the child's
   code page.  The first program runs on a page that is free in the bitmap until
   its own first AllocPage finds that page. *)
Given(t) == \E u \in Tasks : pc[u] = "run" /\ child[u] = t
BootsAlone(t) ==
    /\ pc[t] = "start"
    /\ live = {t}
    /\ pd[t][text[t]] \in GetNextFreePage(used)
    /\ getNextFreePage(pd[t], FREE_PAGE_LOWER_BOUND) # {}

(* A program owns what it uses and maps nothing else, except that a loader still
   maps a page that is its own no more. *)
HasIts(t) ==
    /\ Running(t) \/ Given(t) => BootsAlone(t) \/ Owns(t, text[t])
    /\ pc[t] = "libc" \/ InMain(t) => Owns(t, ustack[t])
    /\ InMain(t) => Owns(t, heap[t])
    /\ pc[t] \in {"create", "map"} =>
        /\ load[t] \notin {text[t], ustack[t], heap[t]}
        /\ \A w \in VPages : pd[t][w] = pd[t][load[t]] => w = load[t]
    /\ pc[t] \in {"run", "unmap"} => ~Owns(t, load[t])
    /\ \A w \in VPages :
        \/ pd[t][w] \in owned[t] \cup KernelFrames \cup {NoPage}
        \/ w = load[t] /\ pc[t] \in {"run", "unmap"}
        \/ w = text[t] /\ BootsAlone(t)
    /\ t \notin live => \A w \in VPages : pd[t][w] = NoPage

OwnedInv ==
    /\ text \in [Tasks -> VPages]
    /\ ustack \in [Tasks -> VPages]
    /\ heap \in [Tasks -> VPages]
    /\ \A t \in Tasks : HasIts(t)

LEMMA KernelFramesGrow ==
    ASSUME KernelKeepsPages
    PROVE  KernelFrames \subseteq KernelFrames'
BY Zenon DEF KernelKeepsPages, KernelFrames, Mapped

(* While the first program boots nobody else runs. *)
LEMMA BootingIsAlone ==
    ASSUME ExecInv, NEW t \in Tasks, BootsAlone(t), NEW u \in Tasks, pc[u] # "none"
    PROVE  u = t /\ pc[u] = "start"
BY DEF ExecInv, Sound, BootsAlone

(* GetNextFreePage is a function of the bitmap. *)
LEMMA OneNextFreePage ==
    ASSUME NEW u, NEW p \in GetNextFreePage(u), NEW q \in GetNextFreePage(u)
    PROVE  p = q
<1>1. p \in Int /\ q \in Int /\ p >= 0 /\ q >= 0 /\ p \notin u /\ q \notin u
    BY DEF GetNextFreePage
<1>2. (\A x \in 0 .. p - 1 : x \in u) /\ (\A x \in 0 .. q - 1 : x \in u)
    BY Zenon DEF GetNextFreePage
<1>. QED  BY <1>1, <1>2

LEMMA OthersKeepTheirs ==
    ASSUME ExecInv, OwnedInv, NEW u \in Tasks, ~BootsAlone(u), KernelKeepsPages,
           pc'[u] = pc[u], load'[u] = load[u], text'[u] = text[u], ustack'[u] = ustack[u],
           heap'[u] = heap[u], pd'[u] = pd[u], owned'[u] = owned[u], u \in live' <=> u \in live,
           \A x \in Tasks : pc'[x] = "run" /\ child'[x] = u => pc[x] = "run" /\ child[x] = u
    PROVE  HasIts(u)'
<1>1. HasIts(u)
    BY Zenon DEF OwnedInv
<1>2. KernelFrames \subseteq KernelFrames'
    BY KernelFramesGrow, Zenon
<1>3. Given(u)' => Given(u)
    BY Zenon DEF Given
<1>4. /\ (Running(u) \/ Given(u))' => Owns(u, text[u])'
      /\ (pc[u] = "libc" \/ InMain(u))' => Owns(u, ustack[u])'
      /\ InMain(u)' => Owns(u, heap[u])'
    BY <1>1, <1>3, Zenon DEF HasIts, Owns, Running, InMain
<1>5. /\ pc'[u] \in {"create", "map"} =>
            /\ load'[u] \notin {text'[u], ustack'[u], heap'[u]}
            /\ \A w \in VPages : pd'[u][w] = pd'[u][load'[u]] => w = load'[u]
      /\ pc'[u] \in {"run", "unmap"} => ~Owns(u, load[u])'
    BY <1>1, Zenon DEF HasIts, Owns
<1>6. /\ \A w \in VPages : \/ pd'[u][w] \in owned'[u] \cup KernelFrames' \cup {NoPage}
                           \/ w = load'[u] /\ pc'[u] \in {"run", "unmap"}
      /\ u \notin live' => \A w \in VPages : pd'[u][w] = NoPage
    BY <1>1, <1>2, Zenon DEF HasIts
<1>. QED  BY <1>4, <1>5, <1>6, Zenon DEF HasIts

(* What a program that has reached main owns. *)
LEMMA InMainHas ==
    ASSUME OwnedInv, NEW t \in Tasks, InMain(t), ~BootsAlone(t)
    PROVE  /\ text[t] \in VPages /\ ustack[t] \in VPages /\ heap[t] \in VPages
           /\ pd[t][text[t]] \in owned[t]
           /\ pd[t][ustack[t]] \in owned[t]
           /\ pd[t][heap[t]] \in owned[t]
<1>1. text[t] \in VPages /\ ustack[t] \in VPages /\ heap[t] \in VPages /\ HasIts(t)
    BY DEF OwnedInv
<1>2. Running(t)
    BY Zenon DEF Running, InMain
<1>3. Owns(t, text[t]) /\ Owns(t, ustack[t]) /\ Owns(t, heap[t])
    BY <1>1, <1>2, Zenon DEF HasIts
<1>. QED  BY <1>1, <1>3, Zenon DEF Owns

(* AllocPage by a program: the new page is nobody's, so it is none it has. *)
LEMMA AllocKeepsTheirs ==
    ASSUME MemoryInv, ExecInv, OwnedInv, NEW t \in Tasks,
           Start(t) \/ LibcStart(t) \/ LoadAlloc(t)
    PROVE  OwnedInv'
<1>0. /\ t \in live /\ t # Kernel /\ pc[t] \in {"start", "libc", "main"} /\ Running(t)
      /\ pd \in [Tasks \cup {Kernel} -> [VPages -> PPages \cup {NoPage}]]
      /\ owned \in [Tasks -> SUBSET PPages] /\ owned[t] \subseteq used
      /\ pc \in [Tasks -> Pcs] /\ text[t] \in VPages /\ NoPage \notin PPages
    <2>1. pc[t] \in {"start", "libc", "main"} /\ Running(t)
        BY Zenon DEF Start, LibcStart, LoadAlloc, Running
    <2>2. t \in live /\ t # Kernel /\ NoPage \notin PPages
        BY <2>1, MemoryAssumption DEF ExecInv, Sound, MemoryAssumption
    <2>3. owned[t] \subseteq used
        BY <2>2 DEF MemoryInv, PagesAreAccounted
    <2>. QED  BY <2>1, <2>2, <2>3, Zenon DEF ExecInv, OwnedInv, MemoryInv, MemoryTypeOK
<1>. DEFINE new == NewlyMapped(t)
            ok == status' = "K_OK"
<1>1. AllocPage(t, TRUE, 0) /\ child' = child /\ text' = text
    BY Zenon DEF Start, LibcStart, LoadAlloc
<1>2. \/ /\ pc[t] = "start" /\ pc' = After(t, "libc") /\ heap' = heap /\ load' = load
         /\ ustack' = IF ok THEN [ustack EXCEPT ![t] = new] ELSE ustack
      \/ /\ pc[t] = "libc" /\ pc' = After(t, "main") /\ ustack' = ustack /\ load' = load
         /\ heap' = IF ok THEN [heap EXCEPT ![t] = new] ELSE heap
      \/ /\ pc[t] = "main" /\ pc' = After(t, "create") /\ ustack' = ustack /\ heap' = heap
         /\ load' = IF ok THEN [load EXCEPT ![t] = new] ELSE load
    BY Zenon DEF Start, LibcStart, LoadAlloc
<1>3. /\ UNCHANGED <<heapPages, stack, live>>
      /\ \/ ~ok /\ UNCHANGED <<used, pd, owned>>
         \/ /\ ok /\ new \in VPages /\ pd[t][new] = NoPage
            /\ \E p \in GetNextFreePage(used) \cap (PPages \ used) :
                    /\ pd' = [pd EXCEPT ![t] = [@ EXCEPT ![new] = p]]
                    /\ owned' = [owned EXCEPT ![t] = @ \cup {p}]
    BY <1>0, <1>1, AllocEffect, Zenon
<1>. HIDE DEF new, ok
<1>4. /\ text' \in [Tasks -> VPages] /\ ustack' \in [Tasks -> VPages] /\ heap' \in [Tasks -> VPages]
      /\ \A u \in Tasks : u # t => /\ ustack'[u] = ustack[u] /\ heap'[u] = heap[u]
                                   /\ load'[u] = load[u] /\ pc'[u] = pc[u]
    <2>1. /\ ustack' \in {ustack, [ustack EXCEPT ![t] = new]}
          /\ heap' \in {heap, [heap EXCEPT ![t] = new]}
          /\ load' \in {load, [load EXCEPT ![t] = new]}
          /\ (ustack' = ustack /\ heap' = heap) \/ new \in VPages
        BY <1>2, <1>3
    <2>2. \A u \in Tasks : u # t => pc'[u] = pc[u]
        BY <1>0, <1>2, Zenon DEF After
    <2>. QED  BY <1>1, <2>1, <2>2, SMTT(30) DEF OwnedInv, ExecInv
<1>5. /\ \A u \in (Tasks \cup {Kernel}) \ {t} : pd'[u] = pd[u]
      /\ \A u \in Tasks \ {t} : owned'[u] = owned[u]
      /\ KernelKeepsPages /\ KernelFrames' = KernelFrames
    BY <1>0, <1>3, KernelFramesStay, Zenon DEF KernelKeepsPages
<1>6. /\ pc'[t] = IF ~ok THEN "abort" ELSE IF pc[t] = "start" THEN "libc"
                  ELSE IF pc[t] = "libc" THEN "main" ELSE "create"
      /\ \A x \in Tasks : pc'[x] = "run" => pc[x] = "run"
    BY <1>0, <1>2, <1>4, Zenon DEF After, ok
<1>7. ASSUME NEW u \in Tasks, u # t
      PROVE  HasIts(u)'
    <2>1. ~BootsAlone(u)
        BY <1>0, <1>7, BootingIsAlone, Zenon
    <2>. QED  BY <1>1, <1>3, <1>4, <1>5, <1>6, <1>7, <2>1, OthersKeepTheirs, Zenon
<1>8. HasIts(t)'
    <2>1. /\ HasIts(t) /\ ~Given(t)' /\ ~BootsAlone(t)' /\ KernelFrames \subseteq used
          /\ load[t] \in VPages /\ ustack[t] \in VPages /\ heap[t] \in VPages
          /\ pc'[t] \notin {"map", "run", "unmap", "start", "none", "created"}
        <3>1. HasIts(t) /\ load[t] \in VPages /\ ustack[t] \in VPages /\ heap[t] \in VPages
            BY Zenon DEF OwnedInv, ExecInv
        <3>2. KernelFrames \subseteq used
            BY Zenon DEF MemoryInv, PagesAreAccounted
        <3>3. pc'[t] \notin {"map", "run", "unmap", "start", "none", "created"}
            BY <1>0, <1>6, Zenon
        <3>4. ~Given(t)'
            BY <1>0, <1>1, <1>6, Zenon DEF Given, ExecInv, ChildrenWait, HasChild
        <3>. QED  BY <3>1, <3>2, <3>3, <3>4, Zenon DEF BootsAlone
    <2>2. CASE ~ok
        <3>1. pc'[t] = "abort" /\ load' = load /\ UNCHANGED <<used, pd, owned, ustack, heap>>
            BY <1>2, <1>3, <1>6, <2>2, Zenon
        <3>2. ~BootsAlone(t)
            BY <1>0, <1>1, <1>3, <2>2, Zenon DEF BootsAlone, AllocPage, ok
        <3>. QED
            BY <1>0, <1>1, <1>3, <1>5, <2>1, <3>1, <3>2, Zenon DEF HasIts, Owns, Running, InMain
    <2>3. CASE ok
        <3>1. PICK p \in GetNextFreePage(used) \cap (PPages \ used) :
                /\ pd' = [pd EXCEPT ![t] = [@ EXCEPT ![new] = p]]
                /\ owned' = [owned EXCEPT ![t] = @ \cup {p}]
            BY <1>3, <2>3, Zenon
        <3>2. /\ new \in VPages /\ owned'[t] = owned[t] \cup {p} /\ pd[t][new] = NoPage
              /\ \A w \in VPages : pd'[t][w] = IF w = new THEN p ELSE pd[t][w]
              /\ p # NoPage /\ p \notin used
            BY <1>0, <1>3, <2>3, <3>1, Zenon
        <3>3. \A v \in VPages : Owns(t, v) => v # new /\ pd'[t][v] \in owned'[t] /\ pd'[t][v] # p
            BY <1>0, <3>2, Zenon DEF Owns
        <3>4. BootsAlone(t) => pd[t][text[t]] = p
            BY <3>1, OneNextFreePage, Zenon DEF BootsAlone
        <3>5. text[t] # new /\ pd'[t][text[t]] \in owned'[t]
            BY <1>0, <2>1, <3>2, <3>3, <3>4, Zenon DEF HasIts
        <3>6. pc[t] \in {"libc", "main"} => Owns(t, ustack[t])
            BY <2>1, Zenon DEF HasIts, InMain
        <3>7. pc[t] = "main" => Owns(t, heap[t]) /\ Owns(t, text[t])
            BY <1>0, <2>1, Zenon DEF HasIts, InMain, BootsAlone
        <3>8. /\ pc'[t] = "libc" => ustack'[t] = new
              /\ pc'[t] = "main" => heap'[t] = new /\ ustack' = ustack
              /\ pc'[t] = "create" => /\ load'[t] = new /\ ustack' = ustack /\ heap' = heap
                                      /\ pc[t] = "main"
              /\ pc'[t] = "main" => pc[t] = "libc"
            BY <1>0, <1>2, <1>6, <2>3, Zenon DEF OwnedInv, ExecInv
        <3>9. pc'[t] \in {"libc", "main", "create"} => pd'[t][ustack'[t]] \in owned'[t]
            BY <2>1, <3>2, <3>3, <3>6, <3>8, Zenon
        <3>10. pc'[t] \in {"main", "create"} => pd'[t][heap'[t]] \in owned'[t]
            BY <2>1, <3>2, <3>3, <3>7, <3>8, Zenon
        <3>11. pc'[t] = "create" =>
                /\ load'[t] \notin {text'[t], ustack'[t], heap'[t]}
                /\ \A w \in VPages : pd'[t][w] = pd'[t][load'[t]] => w = load'[t]
            <4>. HAVE pc'[t] = "create"
            <4>1. pc[t] = "main" /\ load'[t] = new /\ ustack' = ustack /\ heap' = heap /\ text' = text
                BY <1>1, <3>8, Zenon
            <4>2. new \notin {text[t], ustack[t], heap[t]}
                BY <1>0, <2>1, <3>3, <3>6, <3>7, <4>1, Zenon
            <4>3. \A w \in VPages : pd[t][w] \in used \cup {NoPage}
                BY <1>0, <2>1, <4>1, Zenon DEF HasIts, BootsAlone
            <4>. QED  BY <3>2, <4>1, <4>2, <4>3, SMTT(30)
        <3>12. \A w \in VPages : pd'[t][w] \in owned'[t] \cup KernelFrames' \cup {NoPage}
            BY <1>0, <1>5, <2>1, <3>2, <3>5, <1>1, Zenon DEF HasIts
        <3>. QED
            BY <1>0, <1>1, <1>3, <2>1, <3>5, <3>9, <3>10, <3>11, <3>12, Zenon DEF HasIts, Owns, Running, InMain
    <2>. QED  BY <2>2, <2>3, Zenon
<1>. QED  BY <1>4, <1>7, <1>8, Zenon DEF OwnedInv

(* A new process maps the kernel's pages and has none of its own. *)
LEMMA CreateKeepsTheirs ==
    ASSUME MemoryInv, ExecInv, OwnedInv, NEW t \in Tasks, LoadCreate(t)
    PROVE  OwnedInv'
<1>1. PICK c \in Tasks : /\ ProcessCreate(c)
                         /\ pc' = [pc EXCEPT ![t] = "map", ![c] = "created"]
                         /\ child' = [child EXCEPT ![t] = c]
    BY Zenon DEF LoadCreate
<1>2. /\ pc[t] = "create" /\ UNCHANGED <<text, ustack, heap, load>> /\ c \notin live /\ pc[c] = "none"
      /\ c # t /\ live' = live \cup {c} /\ owned' = [owned EXCEPT ![c] = {}]
    BY <1>1 DEF LoadCreate, ProcessCreate, ExecInv, Sound
<1>. DEFINE dirs == [pd EXCEPT ![c] = pd[Kernel]]
<1>3. /\ dirs \in [Tasks \cup {Kernel} -> [VPages -> PPages \cup {NoPage}]]
      /\ dirs[Kernel] = pd[Kernel] /\ \A u \in Tasks : u # c => dirs[u] = pd[u]
      /\ dirs[c] = pd[Kernel]
    BY MemoryAssumption DEF MemoryInv, MemoryTypeOK, MemoryAssumption
<1>4. pd' = dirs \/ \E v \in getNextFreePage(pd[Kernel], 1) : AskForMoreKernelSpace(dirs, v)
    BY <1>1, Zenon DEF ProcessCreate
<1>. HIDE DEF dirs
<1>5. KernelKeepsPages /\ \A u \in Tasks : pd'[u] = dirs[u]
    <2>1. CASE pd' = dirs
        BY <1>3, <2>1 DEF KernelKeepsPages
    <2>2. CASE \E v \in getNextFreePage(pd[Kernel], 1) : AskForMoreKernelSpace(dirs, v)
        BY <1>3, <2>2, GrowthKeepsKernel, Zenon
    <2>. QED  BY <1>4, <2>1, <2>2
<1>6. /\ \A u \in Tasks : pc'[u] = IF u = t THEN "map" ELSE IF u = c THEN "created" ELSE pc[u]
      /\ \A u \in Tasks : child'[u] = IF u = t THEN c ELSE child[u]
      /\ \A u \in Tasks : u # c => owned'[u] = owned[u] /\ pd'[u] = pd[u]
      /\ pd'[c] = pd[Kernel] /\ owned'[c] = {}
    <2>1. \A u \in Tasks : pc'[u] = IF u = t THEN "map" ELSE IF u = c THEN "created" ELSE pc[u]
        BY <1>1, <1>2, Zenon DEF ExecInv
    <2>2. \A u \in Tasks : child'[u] = IF u = t THEN c ELSE child[u]
        BY <1>1, Zenon DEF ExecInv
    <2>3. \A u \in Tasks : owned'[u] = IF u = c THEN {} ELSE owned[u]
        BY <1>2, Zenon DEF MemoryInv, MemoryTypeOK
    <2>. QED  BY <1>3, <1>5, <2>1, <2>2, <2>3
<1>7. \A u \in Tasks : ~BootsAlone(u)
    BY <1>2, BootingIsAlone, Zenon
<1>8. \A x \in Tasks : pc'[x] = "run" => pc[x] = "run" /\ child'[x] = child[x] /\ child[x] # c
    <2>1. \A x \in Tasks : pc[x] = "run" => pc[child[x]] = "created"
        BY Zenon DEF ExecInv, ChildrenWait, HasChild
    <2>. QED  BY <1>2, <1>6, <2>1, SMTT(30)
<1>9. ASSUME NEW u \in Tasks, u # c, u # t
      PROVE  HasIts(u)'
    BY <1>2, <1>5, <1>6, <1>7, <1>8, <1>9, OthersKeepTheirs, Zenon
<1>10. HasIts(t)'
    <2>1. HasIts(t) /\ ~BootsAlone(t) /\ KernelFrames \subseteq KernelFrames'
        BY <1>5, <1>7, KernelFramesGrow, Zenon DEF OwnedInv
    <2>. QED  BY <1>2, <1>6, <2>1, ZenonT(90) DEF HasIts, Owns, Running, InMain
<1>11. HasIts(c)'
    <2>1. ~Given(c)'
        BY <1>8, Zenon DEF Given
    <2>2. \A w \in VPages : pd[Kernel][w] \in KernelFrames \cup {NoPage}
        BY Zenon DEF KernelFrames, Mapped
    <2>3. KernelFrames \subseteq KernelFrames'
        BY <1>5, KernelFramesGrow, Zenon
    <2>4. pc'[c] = "created" /\ c \in live'
        BY <1>2, <1>6, Zenon
    <2>. QED  BY <1>6, <2>1, <2>2, <2>3, <2>4, Zenon DEF HasIts, Running, InMain
<1>. QED  BY <1>2, <1>9, <1>10, <1>11, Zenon DEF OwnedInv

(* MapAnonAndSwap gives the page, which the loader maps once, to the child. *)
LEMMA MapKeepsTheirs ==
    ASSUME MemoryInv, ExecInv, OwnedInv, NEW t \in Tasks, LoadMap(t)
    PROVE  OwnedInv'
<1>. PICK c \in Tasks : child[t] = c
    BY Zenon DEF ExecInv
<1>. DEFINE p == pd[t][load[t]]
            new == NewlyMapped(c)
<1>0. /\ pc[t] = "map" /\ c \in Tasks /\ pc[c] = "created" /\ c # t
      /\ pc' = After(t, "run") /\ UNCHANGED <<load, child, ustack, heap>>
      /\ text' = IF status' = "K_OK" THEN [text EXCEPT ![c] = new] ELSE text
      /\ Kernel \notin Tasks /\ load[t] \in VPages
    BY MemoryAssumption, Zenon DEF LoadMap, ExecInv, ChildrenWait, HasChild, MemoryAssumption
<1>1. /\ UNCHANGED <<heapPages, stack, live>>
      /\ \/ status' # "K_OK" /\ UNCHANGED <<pd, owned>>
         \/ /\ status' = "K_OK" /\ new \in VPages
            /\ pd' = [pd EXCEPT ![c] = [@ EXCEPT ![new] = p]]
            /\ owned' = [owned EXCEPT ![t] = @ \ {p}, ![c] = @ \cup {p}]
    BY <1>0, MapEffect, Zenon DEF LoadMap
<1>2. /\ pc'[t] = IF status' = "K_OK" THEN "run" ELSE "abort"
      /\ \A u \in Tasks : u # t => pc'[u] = pc[u]
    BY <1>0 DEF ExecInv, After
<1>. HIDE DEF p, new
<1>3. /\ \A u \in (Tasks \cup {Kernel}) \ {c} : pd'[u] = pd[u]
      /\ \A u \in Tasks \ {t, c} : owned'[u] = owned[u]
      /\ KernelKeepsPages /\ KernelFrames' = KernelFrames
    <2>1. \A u \in (Tasks \cup {Kernel}) \ {c} : pd'[u] = pd[u]
        BY <1>0, <1>1, Zenon DEF MemoryInv, MemoryTypeOK
    <2>2. \A u \in Tasks \ {t, c} : owned'[u] = owned[u]
        BY <1>0, <1>1, Zenon DEF MemoryInv, MemoryTypeOK
    <2>3. pd'[Kernel] = pd[Kernel]
        BY <1>0, <2>1, Zenon
    <2>. QED  BY <2>1, <2>2, <2>3, KernelFramesStay DEF KernelKeepsPages
<1>4. \A u \in Tasks : ~BootsAlone(u)
    BY <1>0, BootingIsAlone, Zenon
<1>5. /\ text' \in [Tasks -> VPages] /\ \A u \in Tasks : u # c => text'[u] = text[u]
    BY <1>0, <1>1, Zenon DEF OwnedInv
<1>6. ASSUME NEW u \in Tasks, u # c, u # t
      PROVE  HasIts(u)'
    <2>1. \A x \in Tasks : pc'[x] = "run" /\ child'[x] = u => pc[x] = "run" /\ child[x] = u
        BY <1>0, <1>2, <1>6, Zenon
    <2>. QED  BY <1>0, <1>1, <1>2, <1>3, <1>4, <1>5, <1>6, <2>1, OthersKeepTheirs, Zenon
<1>7. ~Given(t)'
    <2>1. \A x \in Tasks : HasChild(x) => pc[child[x]] = "created"
        BY Zenon DEF ExecInv, ChildrenWait
    <2>. QED  BY <1>0, <1>2, <2>1, Zenon DEF Given, HasChild
<1>8. HasIts(t) /\ HasIts(c) /\ t \in live /\ c \in live
    BY <1>0, Zenon DEF OwnedInv, ExecInv, Sound
<1>9. CASE status' # "K_OK"
    <2>1. UNCHANGED <<pd, owned, text>> /\ pc'[t] = "abort"
        BY <1>0, <1>1, <1>2, <1>9, Zenon
    <2>2. HasIts(t)'
        BY <1>0, <1>1, <1>3, <1>4, <1>7, <1>8, <2>1, Zenon DEF HasIts, Owns, Running, InMain
    <2>3. HasIts(c)'
        <3>1. \A x \in Tasks : pc'[x] = "run" => pc[x] = "run"
            BY <1>2, <2>1, Zenon
        <3>. QED  BY <1>0, <1>1, <1>2, <1>3, <1>4, <2>1, <3>1, OthersKeepTheirs, Zenon
    <2>. QED  BY <1>0, <1>5, <1>6, <2>2, <2>3, Zenon DEF OwnedInv
<1>10. CASE status' = "K_OK"
    <2>1. /\ pc'[t] = "run" /\ text'[c] = new /\ new \in VPages
          /\ pd'[t] = pd[t] /\ owned'[t] = owned[t] \ {p} /\ owned'[c] = owned[c] \cup {p}
          /\ \A w \in VPages : pd'[c][w] = IF w = new THEN p ELSE pd[c][w]
        <3>1. /\ pd' = [pd EXCEPT ![c] = [@ EXCEPT ![new] = p]] /\ new \in VPages
              /\ owned' = [owned EXCEPT ![t] = @ \ {p}, ![c] = @ \cup {p}]
            BY <1>1, <1>10
        <3>2. pc'[t] = "run" /\ text' = [text EXCEPT ![c] = new]
            BY <1>0, <1>2, <1>10
        <3>3. text'[c] = new
            BY <3>2, Zenon DEF OwnedInv
        <3>4. owned'[t] = owned[t] \ {p} /\ owned'[c] = owned[c] \cup {p}
            BY <1>0, <3>1, Zenon DEF MemoryInv, MemoryTypeOK
        <3>5. pd'[t] = pd[t] /\ \A w \in VPages : pd'[c][w] = IF w = new THEN p ELSE pd[c][w]
            BY <1>0, <3>1, Zenon DEF MemoryInv, MemoryTypeOK
        <3>. QED  BY <3>1, <3>2, <3>3, <3>4, <3>5, Zenon
    <2>2. HasIts(t)'
        <3>1. /\ load[t] # text[t] /\ load[t] # ustack[t] /\ load[t] # heap[t]
              /\ \A w \in VPages : pd[t][w] = p => w = load[t]
            BY <1>0, <1>8, Zenon DEF HasIts, p
        <3>2. InMain(t)
            BY <1>0, Zenon DEF InMain
        <3>3. /\ text[t] \in VPages /\ ustack[t] \in VPages /\ heap[t] \in VPages
              /\ pd[t][text[t]] \in owned[t]
              /\ pd[t][ustack[t]] \in owned[t]
              /\ pd[t][heap[t]] \in owned[t]
            BY <1>4, <3>2, InMainHas, Zenon
        <3>4. pd[t][text[t]] # p /\ pd[t][ustack[t]] # p /\ pd[t][heap[t]] # p
            BY <3>1, <3>3, Zenon
        <3>5. text'[t] = text[t] /\ ustack'[t] = ustack[t] /\ heap'[t] = heap[t]
            BY <1>0, <1>5, Zenon
        <3>6. Owns(t, text[t])' /\ Owns(t, ustack[t])' /\ Owns(t, heap[t])'
            BY <2>1, <3>3, <3>4, <3>5, Zenon DEF Owns
        <3>7. ~Owns(t, load[t])'
            BY <1>0, <2>1, Zenon DEF p, Owns
        <3>8. ASSUME NEW w \in VPages, w # load[t]
              PROVE  pd'[t][w] \in owned'[t] \cup KernelFrames' \cup {NoPage}
            <4>1. pd[t][w] \in owned[t] \cup KernelFrames \cup {NoPage}
                BY <1>4, <1>8, <3>8, Zenon DEF HasIts
            <4>2. pd[t][w] # p
                BY <3>1, <3>8, Zenon
            <4>. QED  BY <1>3, <2>1, <4>1, <4>2, Zenon
        <3>9. pc'[t] = "run" /\ t \in live' /\ load'[t] = load[t]
            BY <1>0, <1>1, <1>8, <2>1, Zenon
        <3>. QED
            BY <3>6, <3>7, <3>8, <3>9, Zenon DEF HasIts
    <2>3. HasIts(c)'
        <3>1. pc'[c] = "created" /\ pd'[c][text'[c]] \in owned'[c] /\ c \in live'
            BY <1>0, <1>1, <1>2, <1>8, <2>1, Zenon
        <3>2. \A w \in VPages : pd'[c][w] \in owned'[c] \cup KernelFrames' \cup {NoPage}
            BY <1>0, <1>3, <1>4, <1>8, <2>1, Zenon DEF HasIts
        <3>. QED  BY <3>1, <3>2, Zenon DEF HasIts, Owns, InMain
    <2>. QED  BY <1>0, <1>5, <1>6, <2>2, <2>3, Zenon DEF OwnedInv
<1>. QED  BY <1>9, <1>10, Zenon

LEMMA RunKeepsTheirs ==
    ASSUME MemoryInv, ExecInv, OwnedInv, NEW t \in Tasks, LoadRun(t)
    PROVE  OwnedInv'
<1>. PICK c \in Tasks : child[t] = c
    BY Zenon DEF ExecInv
<1>0. /\ pc[t] = "run" /\ pc[c] = "created" /\ c # t
      /\ pc' = [pc EXCEPT ![t] = "unmap", ![c] = "start"]
      /\ UNCHANGED <<used, pd, owned, live, text, ustack, heap, load, child>>
    BY DEF LoadRun, ExecInv, ChildrenWait, HasChild, vars
<1>1. \A u \in Tasks : pc'[u] = IF u = c THEN "start" ELSE IF u = t THEN "unmap" ELSE pc[u]
    BY <1>0, Zenon DEF ExecInv
<1>2. /\ KernelKeepsPages /\ KernelFrames' = KernelFrames /\ \A u \in Tasks : ~BootsAlone(u)
      /\ \A x \in Tasks : pc'[x] = "run" => pc[x] = "run"
    <2>1. KernelKeepsPages /\ KernelFrames' = KernelFrames
        BY <1>0, KernelFramesStay, Zenon DEF KernelKeepsPages
    <2>2. \A u \in Tasks : ~BootsAlone(u)
        BY <1>0, BootingIsAlone, Zenon
    <2>3. \A x \in Tasks : pc'[x] = "run" => pc[x] = "run"
        BY <1>1, Zenon
    <2>. QED  BY <2>1, <2>2, <2>3, Zenon
<1>3. ASSUME NEW u \in Tasks, u # c, u # t
      PROVE  HasIts(u)'
    BY <1>0, <1>1, <1>2, <1>3, OthersKeepTheirs, Zenon
<1>4. HasIts(t) /\ HasIts(c) /\ Given(c) /\ t \in live /\ c \in live
    BY <1>0 DEF OwnedInv, Given, ExecInv, Sound
<1>5. HasIts(t)'
    <2>1. pc'[t] = "unmap" /\ ~Given(t)'
        BY <1>0, <1>1, <1>2, Zenon DEF Given, ExecInv, ChildrenWait, HasChild
    <2>2. Owns(t, text[t])' /\ Owns(t, ustack[t])' /\ Owns(t, heap[t])' /\ ~Owns(t, load[t])'
        BY <1>0, <1>2, <1>4, Zenon DEF HasIts, Owns, Running, InMain
    <2>3. \A w \in VPages : pd'[t][w] \in owned'[t] \cup KernelFrames' \cup {NoPage} \/ w = load'[t]
        BY <1>0, <1>2, <1>4, Zenon DEF HasIts
    <2>. QED  BY <1>0, <1>4, <2>1, <2>2, <2>3, Zenon DEF HasIts
<1>6. HasIts(c)'
    <2>1. pc'[c] = "start"
        BY <1>1, Zenon
    <2>2. Owns(c, text[c])'
        BY <1>0, <1>2, <1>4, Zenon DEF HasIts, Owns
    <2>3. \A w \in VPages : pd'[c][w] \in owned'[c] \cup KernelFrames' \cup {NoPage}
        BY <1>0, <1>2, <1>4, Zenon DEF HasIts
    <2>. QED  BY <1>0, <1>4, <2>1, <2>2, <2>3, Zenon DEF HasIts, InMain
<1>. QED  BY <1>0, <1>3, <1>5, <1>6, Zenon DEF OwnedInv

LEMMA BuffersKeepTheirs ==
    ASSUME MemoryInv, ExecInv, OwnedInv, NEW t \in Tasks, ResizableBuffers(t)
    PROVE  OwnedInv'
<1>1. /\ UNCHANGED userVars /\ UNCHANGED <<owned, stack, live>>
      /\ \E v \in getNextFreePage(pd[Kernel], 1) : AskForMoreKernelSpace(pd, v)
    BY Zenon DEF ResizableBuffers, HeapGrows
<1>0. pc[t] # "none" /\ pc[t] # "start"
    BY DEF ResizableBuffers, InMain
<1>2. KernelKeepsPages /\ \A u \in Tasks : pd'[u] = pd[u]
    BY <1>1, GrowthKeepsKernel, ZenonT(60) DEF MemoryInv, MemoryTypeOK
<1>3. ASSUME NEW u \in Tasks
      PROVE  HasIts(u)'
    <2>1. ~BootsAlone(u)
        BY <1>0, BootingIsAlone
    <2>. QED  BY <1>1, <1>2, <2>1, OthersKeepTheirs DEF userVars
<1>. QED  BY <1>1, <1>3, Zenon DEF OwnedInv, userVars

(* The page a loader unmaps is not its own any more, so nothing is freed. *)
LEMMA UnmapKeepsTheirs ==
    ASSUME MemoryInv, ExecInv, OwnedInv, NEW t \in Tasks, LoadUnmap(t)
    PROVE  OwnedInv'
<1>0. /\ pc[t] = "unmap" /\ pc' = [pc EXCEPT ![t] = "main"]
      /\ UNCHANGED <<live, text, ustack, heap, load, child>>
      /\ pd' = [pd EXCEPT ![t][load[t]] = NoPage] /\ UnmapPage(t, load[t])
    BY Zenon DEF LoadUnmap, UnmapPage
<1>1. /\ HasIts(t) /\ t \in live /\ load[t] \in VPages /\ pd[t][load[t]] \notin owned[t]
      /\ pd[t][load[t]] # 0 /\ \A u \in Tasks : ~BootsAlone(u)
    <2>1. HasIts(t) /\ load[t] \in VPages /\ Sound(t)
        BY Zenon DEF OwnedInv, ExecInv
    <2>2. t \in live
        BY <1>0, <2>1, Zenon DEF Sound
    <2>3. pd[t][load[t]] \notin owned[t]
        BY <1>0, <2>1, Zenon DEF HasIts, Owns
    <2>4. pd[t][load[t]] # 0
        BY <2>1, Zenon DEF MemoryInv, PageZeroIsNotMapped
    <2>5. \A u \in Tasks : ~BootsAlone(u)
        BY <1>0, BootingIsAlone, Zenon
    <2>. QED  BY <2>1, <2>2, <2>3, <2>4, <2>5, Zenon
<1>2. owned' = owned
    BY <1>0, <1>1, Zenon DEF UnmapPage, PageIsRecorded
<1>3. /\ \A u \in (Tasks \cup {Kernel}) \ {t} : pd'[u] = pd[u]
      /\ \A w \in VPages : pd'[t][w] = IF w = load[t] THEN NoPage ELSE pd[t][w]
    BY <1>0, Zenon DEF MemoryInv, MemoryTypeOK
<1>4. pd'[Kernel] = pd[Kernel]
    BY <1>3, MemoryAssumption, Zenon DEF MemoryAssumption
<1>5. KernelKeepsPages /\ KernelFrames' = KernelFrames
    BY <1>4, KernelFramesStay, Zenon DEF KernelKeepsPages
<1>6. \A u \in Tasks : pc'[u] = IF u = t THEN "main" ELSE pc[u]
    BY <1>0, Zenon DEF ExecInv
<1>7. ASSUME NEW u \in Tasks, u # t
      PROVE  HasIts(u)'
    <2>1. /\ pc'[u] = pc[u] /\ pd'[u] = pd[u] /\ owned'[u] = owned[u] /\ ~BootsAlone(u)
          /\ load'[u] = load[u] /\ text'[u] = text[u] /\ ustack'[u] = ustack[u]
          /\ heap'[u] = heap[u] /\ live' = live
        BY <1>0, <1>1, <1>2, <1>3, <1>6, <1>7, Zenon
    <2>2. \A x \in Tasks : pc'[x] = "run" /\ child'[x] = u => pc[x] = "run" /\ child[x] = u
        BY <1>0, <1>6, SMTT(30)
    <2>. QED  BY <1>5, <2>1, <2>2, OthersKeepTheirs, Zenon
<1>8. HasIts(t)'
    <2>1. InMain(t)
        BY <1>0, Zenon DEF InMain
    <2>2. /\ text[t] \in VPages /\ ustack[t] \in VPages /\ heap[t] \in VPages
          /\ pd[t][text[t]] \in owned[t]
          /\ pd[t][ustack[t]] \in owned[t]
          /\ pd[t][heap[t]] \in owned[t]
        BY <1>1, <2>1, InMainHas, Zenon
    <2>3. text[t] # load[t] /\ ustack[t] # load[t] /\ heap[t] # load[t]
        BY <1>1, <2>2, Zenon
    <2>4. text'[t] = text[t] /\ ustack'[t] = ustack[t] /\ heap'[t] = heap[t]
        BY <1>0, Zenon
    <2>5. Owns(t, text[t])' /\ Owns(t, ustack[t])' /\ Owns(t, heap[t])'
        BY <1>2, <1>3, <2>2, <2>3, <2>4, Zenon DEF Owns
    <2>6. \A w \in VPages : pd'[t][w] \in owned'[t] \cup KernelFrames' \cup {NoPage}
        BY <1>1, <1>2, <1>3, <1>5, Zenon DEF HasIts
    <2>7. pc'[t] = "main" /\ t \in live'
        BY <1>0, <1>1, <1>6, Zenon
    <2>. QED  BY <2>5, <2>6, <2>7, Zenon DEF HasIts
<1>. QED  BY <1>0, <1>7, <1>8 DEF OwnedInv

LEMMA EndsKeepTheirs ==
    ASSUME MemoryInv, ExecInv, OwnedInv, NEW t \in Tasks, Ends(t)
    PROVE  OwnedInv'
<1>0. /\ pc[t] \notin {"none", "created"} /\ pc' = [pc EXCEPT ![t] = "none"]
      /\ live' = live \ {t}
      /\ load' = [load EXCEPT ![t] = 0] /\ child' = [child EXCEPT ![t] = t]
      /\ text' = [text EXCEPT ![t] = 0] /\ ustack' = [ustack EXCEPT ![t] = 0]
      /\ heap' = [heap EXCEPT ![t] = 0]
      /\ pd' = [pd EXCEPT ![t] = [v \in VPages |-> NoPage]]
      /\ owned' = [owned EXCEPT ![t] = {}]
    BY Zenon DEF Ends, TaskEnds, Running
<1>1. /\ \A u \in (Tasks \cup {Kernel}) \ {t} : pd'[u] = pd[u]
      /\ \A u \in Tasks \ {t} : owned'[u] = owned[u]
      /\ \A w \in VPages : pd'[t][w] = NoPage
    BY <1>0, Zenon DEF MemoryInv, MemoryTypeOK
<1>2. KernelKeepsPages
    BY <1>1, MemoryAssumption, Zenon DEF KernelKeepsPages, MemoryAssumption
<1>3. 0 \in VPages
    BY MemoryAssumption DEF MemoryAssumption, VPages, PPages
<1>4. /\ text' \in [Tasks -> VPages] /\ ustack' \in [Tasks -> VPages] /\ heap' \in [Tasks -> VPages]
      /\ \A u \in Tasks : u # t => /\ text'[u] = text[u] /\ ustack'[u] = ustack[u]
                                   /\ heap'[u] = heap[u]
    BY <1>0, <1>3, Zenon DEF OwnedInv
<1>5. /\ \A u \in Tasks : pc'[u] = IF u = t THEN "none" ELSE pc[u]
      /\ \A u \in Tasks : u # t => load'[u] = load[u] /\ child'[u] = child[u]
    BY <1>0, Zenon DEF ExecInv
<1>6. ASSUME NEW u \in Tasks, u # t
      PROVE  HasIts(u)'
    <2>1. ~BootsAlone(u)
        BY <1>0, <1>6, BootingIsAlone, Zenon
    <2>2. /\ pc'[u] = pc[u] /\ pd'[u] = pd[u] /\ owned'[u] = owned[u]
          /\ load'[u] = load[u] /\ text'[u] = text[u] /\ ustack'[u] = ustack[u]
          /\ heap'[u] = heap[u] /\ (u \in live' <=> u \in live)
        BY <1>0, <1>1, <1>4, <1>5, <1>6, SMTT(30)
    <2>3. \A x \in Tasks : pc'[x] = "run" /\ child'[x] = u => pc[x] = "run" /\ child[x] = u
        BY <1>5, Zenon
    <2>. QED  BY <1>2, <2>1, <2>2, <2>3, OthersKeepTheirs, Zenon
<1>7. HasIts(t)'
    <2>1. ~Given(t)'
        <3>1. \A x \in Tasks : pc[x] = "run" => pc[child[x]] = "created"
            BY Zenon DEF ExecInv, ChildrenWait, HasChild
        <3>. QED  BY <1>0, <1>5, <3>1, SMTT(30) DEF Given
    <2>2. pc'[t] = "none"
        BY <1>5, Zenon
    <2>. QED  BY <1>1, <2>1, <2>2, Zenon DEF HasIts, Running, InMain
<1>. QED  BY <1>4, <1>6, <1>7, Zenon DEF OwnedInv

-----------------------------------------------------------------------------

(* An address space of more than four pages has one left for the first program's
   stack besides the kernel's two and its code. *)
LEMMA VirtualPageLeft ==
    ASSUME NumVPages > 4, NEW dir, NEW x, NEW y, NEW z, Mapped(dir) \subseteq {x, y, z}
    PROVE  getNextFreePage(dir, 1) # {}
<1>1. NumVPages \in Int /\ 1 \in 1 .. NumVPages - 1 /\ 2 \in 1 .. NumVPages - 1
      /\ 3 \in 1 .. NumVPages - 1 /\ 4 \in 1 .. NumVPages - 1
    BY MemoryAssumption DEF MemoryAssumption
<1>2. \/ 1 \notin Mapped(dir)
      \/ 1 \in Mapped(dir) /\ 2 \notin Mapped(dir)
      \/ 1 \in Mapped(dir) /\ 2 \in Mapped(dir) /\ 3 \notin Mapped(dir)
      \/ 1 \in Mapped(dir) /\ 2 \in Mapped(dir) /\ 3 \in Mapped(dir) /\ 4 \notin Mapped(dir)
    OBVIOUS
<1>. HIDE DEF Mapped
<1>. QED  BY <1>1, <1>2 DEF getNextFreePage

LEMMA InitEstablishesOwnedInv ==
    ASSUME NumVPages > 4, ExecInit
    PROVE  OwnedInv
<1>0. Kernel \notin Tasks /\ 0 \in VPages /\ NoPage \notin PPages /\ KernelPage \in PPages
    BY MemoryAssumption DEF MemoryAssumption, VPages, PPages
<1>. DEFINE booted == Reserved \cup {KernelPage}
<1>1. PICK first \in Tasks, frame \in GetNextFreePage(booted) :
        \E p \in GetNextFreePage(booted \cup {frame}), v \in getNextFreePage(BootDir(frame), 1) :
            /\ used = booted \cup {frame}
            /\ pd = [t \in Tasks \cup {Kernel} |->
                        IF t = first THEN [BootDir(frame) EXCEPT ![v] = p]
                        ELSE IF t = Kernel THEN BootDir(frame)
                        ELSE [w \in VPages |-> NoPage]]
            /\ owned = [t \in Tasks |-> {}]
            /\ heapPages = {KernelPage + 1}
            /\ stack = [t \in Tasks |-> KernelPage + 1]
            /\ live = {first}
            /\ status = "K_OK"
            /\ panic = FALSE
    BY Zenon DEF ExecInit, Init
<1>2. PICK p \in GetNextFreePage(booted \cup {frame}), v \in getNextFreePage(BootDir(frame), 1) :
            /\ used = booted \cup {frame}
            /\ pd = [t \in Tasks \cup {Kernel} |->
                        IF t = first THEN [BootDir(frame) EXCEPT ![v] = p]
                        ELSE IF t = Kernel THEN BootDir(frame)
                        ELSE [w \in VPages |-> NoPage]]
            /\ live = {first}
    BY <1>1, Zenon
<1>3. /\ 0 \in used /\ p \in PPages /\ v \in VPages /\ v \notin Mapped(BootDir(frame))
    BY <1>1, <1>2, MemoryAssumption, NextFreePageIsFree, NextFreeVPageIsFree DEF MemoryAssumption
<1>4. /\ BootDir(frame)[v] = NoPage
      /\ pd[Kernel] = BootDir(frame) /\ pd[first] = [BootDir(frame) EXCEPT ![v] = p]
      /\ \A t \in Tasks : t # first => \A w \in VPages : pd[t][w] = NoPage
    BY <1>0, <1>2, <1>3, Zenon DEF Mapped
<1>5. \A w \in VPages : pd[first][w] = IF w = v THEN p ELSE pd[Kernel][w]
    BY <1>4, Zenon DEF BootDir
<1>6. \A w \in VPages : pd[first][w] # pd[Kernel][w] <=> w = v
    BY <1>0, <1>3, <1>4, <1>5, Zenon
<1>7. /\ text = [t \in Tasks |->
                IF t \in live THEN CHOOSE w \in VPages : pd[t][w] # pd[Kernel][w] ELSE 0]
      /\ pc = [t \in Tasks |-> IF t \in live THEN "start" ELSE "none"]
      /\ ustack = [t \in Tasks |-> 0] /\ heap = [t \in Tasks |-> 0]
    BY Zenon DEF ExecInit
<1>8. text[first] = v /\ text \in [Tasks -> VPages]
    BY <1>0, <1>1, <1>3, <1>6, <1>7, Zenon
<1>9. getNextFreePage(pd[first], FREE_PAGE_LOWER_BOUND) # {}
    <2>1. Mapped(pd[first]) \subseteq {KernelPage, KernelPage + 1, v}
        BY <1>4, <1>5 DEF Mapped, BootDir
    <2>. QED  BY <2>1, VirtualPageLeft, Zenon DEF FREE_PAGE_LOWER_BOUND
<1>10. BootsAlone(first)
    <2>1. p \in GetNextFreePage(used) /\ live = {first}
        BY <1>2, Zenon
    <2>2. pc[first] = "start" /\ pd[first][text[first]] = p
        BY <1>3, <1>5, <1>7, <1>8, <2>1, Zenon
    <2>. QED  BY <1>9, <2>1, <2>2 DEF BootsAlone
<1>11. \A t \in Tasks : ~Given(t)
    BY <1>7 DEF Given
<1>12. HasIts(first)
    <2>1. \A w \in VPages : pd[Kernel][w] \in KernelFrames \cup {NoPage}
        BY Zenon DEF KernelFrames, Mapped
    <2>2. pc[first] = "start" /\ first \in live
        BY <1>1, <1>7, Zenon
    <2>. QED  BY <1>5, <1>8, <1>10, <2>1, <2>2, Zenon DEF HasIts, Running, InMain
<1>13. ASSUME NEW t \in Tasks, t # first
       PROVE  HasIts(t)
    <2>1. pc[t] = "none"
        BY <1>1, <1>7, <1>13, Zenon
    <2>. QED  BY <1>4, <1>11, <1>13, <2>1, Zenon DEF HasIts, Running, InMain
<1>. QED  BY <1>0, <1>7, <1>8, <1>12, <1>13, Zenon DEF OwnedInv

LEMMA OwnedStep ==
    MemoryInv /\ ExecInv /\ OwnedInv /\ [ExecNext]_allVars => OwnedInv'
<1>1. ASSUME MemoryInv, ExecInv, OwnedInv, ExecNext
      PROVE  OwnedInv'
    BY <1>1, AllocKeepsTheirs, CreateKeepsTheirs, MapKeepsTheirs, RunKeepsTheirs,
       BuffersKeepTheirs, UnmapKeepsTheirs, EndsKeepTheirs, Zenon DEF ExecNext
<1>2. ASSUME OwnedInv, UNCHANGED allVars
      PROVE  OwnedInv'
    <2>1. /\ used' = used /\ pd' = pd /\ owned' = owned /\ live' = live /\ pc' = pc
          /\ text' = text /\ ustack' = ustack /\ heap' = heap /\ load' = load /\ child' = child
        BY <1>2, Zenon DEF allVars, vars, userVars
    <2>2. KernelFrames' = KernelFrames
        BY <2>1, KernelFramesStay, Zenon
    <2>3. ASSUME NEW t \in Tasks
          PROVE  HasIts(t)'
        <3>1. HasIts(t)
            BY <1>2, Zenon DEF OwnedInv
        <3>2. Running(t)' = Running(t) /\ InMain(t)' = InMain(t)
            BY <2>1, Zenon DEF Running, InMain
        <3>3. Given(t)' <=> Given(t)
            BY <2>1, Zenon DEF Given
        <3>4. BootsAlone(t)' <=> BootsAlone(t)
            BY <2>1 DEF BootsAlone
        <3>. QED  BY <2>1, <2>2, <3>1, <3>2, <3>3, <3>4, Zenon DEF HasIts, Owns
    <2>. QED  BY <1>2, <2>1, <2>3, Zenon DEF OwnedInv
<1>. QED  BY <1>1, <1>2, Zenon

LEMMA OwnedInvariance ==
    ASSUME NumVPages > 4
    PROVE  ExecSpec => [](MemoryInv /\ ExecInv /\ OwnedInv)
<1>1. ExecInit => OwnedInv
    BY InitEstablishesOwnedInv, Zenon
<1>. QED  BY <1>1, OwnedStep, ExecInvariance, PTL DEF ExecSpec

(* What OwnedInv says of a page in OwnPages. *)
LEMMA OwnPagesAreOwned ==
    ASSUME ExecInv, OwnedInv, NEW t \in Tasks, NEW v \in OwnPages(t)
    PROVE  /\ v \in VPages
           /\ pc[t] # "none"
           /\ Owns(t, v) \/ BootsAlone(t)
<1>1. /\ HasIts(t) /\ text[t] \in VPages /\ ustack[t] \in VPages /\ heap[t] \in VPages
      /\ load[t] \in VPages
    BY Zenon DEF OwnedInv, ExecInv
<1>2. Given(t) => pc[t] = "created"
    BY Zenon DEF Given, ExecInv, ChildrenWait, HasChild
<1>3. \/ v = text[t] /\ (Running(t) \/ Given(t))
      \/ v = ustack[t] /\ (pc[t] = "libc" \/ InMain(t))
      \/ v = heap[t] /\ InMain(t)
      \/ v = load[t] /\ pc[t] \in {"create", "map"}
    BY Zenon DEF OwnPages, Given
<1>4. pc[t] \in {"create", "map"} => Owns(t, load[t])
    BY Zenon DEF ExecInv, Sound, Owns
<1>5. Owns(t, v) \/ BootsAlone(t)
    BY <1>1, <1>3, <1>4, Zenon DEF HasIts
<1>. QED  BY <1>1, <1>2, <1>3, <1>5, Zenon DEF Running, InMain

(* A program's code, stack and heap, and the page it fills for another, stay its
   own for as long as it uses them, whatever others map, unmap, load or end. *)
THEOREM PagesStayOwned ==
    ASSUME NumVPages > 4
    PROVE  ExecSpec => []ProgramsOwnTheirPages
<1>1. MemoryInv /\ ExecInv /\ OwnedInv => ProgramsOwnTheirPages
    BY OwnPagesAreOwned DEF ProgramsOwnTheirPages, Owns, BootsAlone
<1>. QED  BY <1>1, OwnedInvariance, PTL

(* No program maps another's page, but for a loader between MapAnonAndSwap and its
   PageAlloc's unmapping. *)
THEOREM PagesAreNotShared ==
    ASSUME NumVPages > 4
    PROVE  ExecSpec => []OnlyLoadersShare
<1>1. ASSUME MemoryInv, ExecInv, OwnedInv, NEW t \in Tasks, NEW u \in Tasks, t # u,
             NEW w \in VPages, NEW v \in OwnPages(t), pd[u][w] = pd[t][v]
      PROVE  w = load[u] /\ pc[u] \in {"run", "unmap"}
    <2>1. /\ v \in VPages /\ pc[t] # "none" /\ (Owns(t, v) \/ BootsAlone(t))
          /\ HasIts(u) /\ HasIts(t)
        BY <1>1, OwnPagesAreOwned, Zenon DEF OwnedInv
    <2>2. t \in live /\ NoPage \notin PPages /\ owned \in [Tasks -> SUBSET PPages]
        BY <1>1, <2>1, MemoryAssumption, Zenon
        DEF ExecInv, Sound, MemoryInv, MemoryTypeOK, MemoryAssumption
    <2>3. CASE Owns(t, v)
        <3>1. ~BootsAlone(u)
            BY <1>1, <2>1, BootingIsAlone, Zenon
        <3>2. /\ pd[t][v] \notin owned[u] /\ pd[t][v] \notin KernelFrames /\ pd[t][v] # NoPage
            BY <1>1, <2>2, <2>3, Zenon DEF Owns, MemoryInv, PagesAreAccounted
        <3>. QED  BY <1>1, <2>1, <3>1, <3>2, Zenon DEF HasIts
    <2>4. CASE BootsAlone(t) /\ ~Owns(t, v)
        <3>1. u \notin live /\ pd[u][w] = NoPage
            BY <1>1, <2>1, <2>4, Zenon DEF BootsAlone, HasIts
        <3>2. v = text[t] /\ pd[t][text[t]] \in PPages
            <4>1. 0 \in used
                BY <1>1, MemoryAssumption, Zenon DEF MemoryInv, PagesAreAccounted, MemoryAssumption
            <4>2. pc[t] = "start" /\ pd[t][text[t]] \in GetNextFreePage(used)
                BY <2>4, Zenon DEF BootsAlone
            <4>3. v = text[t]
                BY <1>1, <4>2, Zenon DEF OwnPages, InMain
            <4>. QED  BY <4>1, <4>2, <4>3, NextFreePageIsFree, Zenon
        <3>. QED  BY <1>1, <2>2, <3>1, <3>2, Zenon
    <2>. QED  BY <2>1, <2>3, <2>4, Zenon
<1>2. MemoryInv /\ ExecInv /\ OwnedInv => OnlyLoadersShare
    BY <1>1, Zenon DEF OnlyLoadersShare
<1>. QED  BY <1>2, OwnedInvariance, PTL

(* Wherever programs fail or end, the pages they take for their code, stack, heap
   and new programs are virtual pages. *)
THEOREM AddressesAreVirtualPages ==
    ASSUME NumVPages > 4
    PROVE  ExecSpec => []ExecTypeOK
<1>1. ExecInv /\ OwnedInv => ExecTypeOK
    BY Zenon DEF ExecInv, OwnedInv, ExecTypeOK
<1>. QED  BY <1>1, OwnedInvariance, PTL
=============================================================================
