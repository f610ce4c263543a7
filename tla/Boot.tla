-------------------------------- MODULE Boot --------------------------------
(***************************************************************************)
(* Booting: from the multiboot memory map to the bitmap of free pages that *)
(* Memory starts from (kernel/main.cpp, pmm.cpp, kmalloc.cpp), up to the   *)
(* jump to the first user program.  Memory is counted in units; a 4 MB     *)
(* page has kPageSize of them, and addresses are 32 bits wide where the    *)
(* code's are: arithmetic wraps at Space.                                  *)
(***************************************************************************)
EXTENDS Integers, FiniteSets

CONSTANTS
    CHAR_BIT,           \* pages per byte of gPhysicalBitmap
    kNumPageDirEntries, \* pages in the 4 GB of an address space
    kPageSize,          \* units in a page
    LowMemory,          \* units below 1 MB, which mem_upper does not count
    KernelPage,         \* the page __KERNEL_BEGIN is on
    kMmapsBuffer,       \* entries kernel_main has room for
    MaxEntries          \* the most entries a boot loader passes

Space == kNumPageDirEntries * kPageSize
Pages == 0 .. kNumPageDirEntries - 1

(* multiboot_memory_map_t: also regions of no length, and above 4 GB, where one
   address and one unit will do.  A reserved region that begins below 4 GB ends
   there: PageIsUsed admits the page at 4 GB, which has no bit in the bitmap. *)
Types == {"available", "reserved"}
Entries ==
    {r \in [addr : 0 .. Space, len : 0 .. Space + 1, type : Types] :
        /\ r.addr + r.len <= Space + 1
        /\ r.type = "reserved" /\ r.addr < Space => r.addr + r.len <= Space}

(* The kernel is linked above low memory, which holds no page of its own, and the
   bitmap is made of whole bytes. *)
ASSUME BootAssumption ==
    /\ {CHAR_BIT, kNumPageDirEntries, kPageSize, KernelPage, kMmapsBuffer, MaxEntries}
            \subseteq Nat \ {0}
    /\ kNumPageDirEntries % CHAR_BIT = 0
    /\ KernelPage \in Pages
    /\ LowMemory \in 1 .. kPageSize

VARIABLES
    mmaps,          \* the entries getMmap has copied
    num_mmaps,      \* how many it has seen
    pc,             \* where KernelSetup is
    todo,           \* entries its present loop has not visited; rounds commute
    used,           \* gPhysicalBitmap
    gNum4MPages,
    heap            \* the page kmalloc::Initialize takes

vars == <<mmaps, num_mmaps, pc, todo, used, gNum4MPages, heap>>

-----------------------------------------------------------------------------

(* The entries the loop of InitPmm for a type visits. *)
OfType(type) == {r \in mmaps : r.type = type /\ (type = "reserved" => r.len > 0)}
AddrToPage(addr) == addr \div kPageSize
RoundUp(x) == AddrToPage(x + kPageSize - 1) * kPageSize
RoundUp32(x) == AddrToPage((x + kPageSize - 1) % Space) * kPageSize

(* What a boot loader reports as mem_upper: the memory from 1 MB to the first
   hole. *)
Covered(r) == r.addr .. r.addr + r.len - 1
UnitsOf(m, type) == UNION {Covered(r) : r \in {q \in m : q.type = type}}
MemUpper(m) ==
    CHOOSE n \in 0 .. Space :
        /\ LowMemory .. LowMemory + n - 1 \subseteq UnitsOf(m, "available")
        /\ LowMemory + n \notin UnitsOf(m, "available") \/ n = Space

Bytes(n) == 0 .. CHAR_BIT * n - 1
GetNumFree4MPages(u, num) == Cardinality(Bytes((num + CHAR_BIT - 1) \div CHAR_BIT) \ u)
GetNextFreePage(u) ==
    {p \in Bytes(gNum4MPages \div CHAR_BIT) \ u : \A q \in 0 .. p - 1 : q \in u}

(* A failed assert stops the machine. *)
Asserts(condition, next) == pc' = IF condition THEN next ELSE "panic"

(* The first entry is the BIOS's. *)
Bios == [addr |-> 0, len |-> LowMemory, type |-> "reserved"]

(* One round of IterMmap for getMmap: the next entry, which lies above those before
   it, is copied while there is room and counted in any case. *)
getMmap ==
    /\ pc = "mmap"
    /\ num_mmaps < MaxEntries
    /\ \E r \in Entries :
        /\ \A q \in mmaps : q.addr + q.len <= r.addr
        /\ mmaps' = IF num_mmaps < kMmapsBuffer THEN mmaps \cup {r} ELSE mmaps
    /\ num_mmaps' = num_mmaps + 1
    /\ UNCHANGED <<pc, todo, used, gNum4MPages, heap>>

(* kernel_main checks the count and calls KernelSetup. *)
KernelMain ==
    /\ pc = "mmap"
    /\ Asserts(num_mmaps \in 1 .. kMmapsBuffer, "pmm")
    /\ UNCHANGED <<mmaps, num_mmaps, todo, used, gNum4MPages, heap>>

(* pmm::Initialize, then the first SetPageUsed of InitPmm.  Bits from gNum4MPages
   on stay set; mem_upper * 1024 is a 32-bit product. *)
Initialize ==
    /\ pc = "pmm"
    /\ gNum4MPages' = AddrToPage(RoundUp32(MemUpper(mmaps) % Space))
    /\ LET above == gNum4MPages' .. kNumPageDirEntries - 1
       IN  /\ used' = above \cup {KernelPage}
           /\ Asserts(/\ gNum4MPages' > 0
                      /\ GetNumFree4MPages(above, gNum4MPages') = gNum4MPages'
                      /\ KernelPage \notin above, "available")
    /\ todo' = OfType("available")
    /\ UNCHANGED <<mmaps, num_mmaps, heap>>

(* Variant: without the assert that the end is above the start. *)
MutFreeAvailableAnyEnd ==
    /\ pc = "available"
    /\ \E r \in todo :
        LET start == AddrToPage(r.addr)
            end == AddrToPage(RoundUp32((r.addr + r.len) % Space))
        IN  /\ Asserts(/\ r.addr < Space
                       /\ r.len < Space
                       /\ (r.addr + r.len) % Space >= r.addr, "available")
            /\ used' = IF pc' = "panic" THEN used ELSE used \ ({start} \cup (start .. end - 1))
            /\ todo' = todo \ {r}
    /\ UNCHANGED <<mmaps, num_mmaps, gNum4MPages, heap>>

(* The loop over available entries, in 32 bits: it visits the first page of a
   region whatever the end is. *)
FreeAvailable ==
    /\ pc = "available"
    /\ \E r \in todo :
        LET start == AddrToPage(r.addr)
            end == AddrToPage(RoundUp32((r.addr + r.len) % Space))
        IN  /\ Asserts(/\ r.addr < Space
                       /\ r.len < Space
                       /\ (r.addr + r.len) % Space >= r.addr
                       /\ end > start, "available")
            /\ used' = IF pc' = "panic" THEN used ELSE used \ (start .. end - 1)
            /\ todo' = todo \ {r}
    /\ UNCHANGED <<mmaps, num_mmaps, gNum4MPages, heap>>

AvailableDone ==
    /\ pc = "available" /\ todo = {}
    /\ pc' = "reserved"
    /\ todo' = OfType("reserved")
    /\ UNCHANGED <<mmaps, num_mmaps, used, gNum4MPages, heap>>

(* Variant: the start leaves out a page that is partly available. *)
MutUseReservedRoundsStart ==
    /\ pc = "reserved"
    /\ \E r \in todo :
        LET start == AddrToPage(RoundUp(r.addr))
            end == AddrToPage(RoundUp(r.addr + r.len))
        IN  /\ Asserts(r.addr < Space /\ r.len < Space /\ end > start, "reserved")
            /\ used' = IF pc' = "panic" THEN used ELSE used \cup (start .. end - 1)
            /\ todo' = todo \ {r}
    /\ UNCHANGED <<mmaps, num_mmaps, gNum4MPages, heap>>

(* The loop over the other entries, in 64 bits. *)
UseReserved ==
    /\ pc = "reserved"
    /\ \E r \in todo :
        LET start == AddrToPage(r.addr)
            end == AddrToPage(RoundUp(r.addr + r.len))
        IN  /\ Asserts(r.addr < Space /\ r.len < Space /\ end > start, "reserved")
            /\ used' = IF pc' = "panic" THEN used ELSE used \cup (start .. end - 1)
            /\ todo' = todo \ {r}
    /\ UNCHANGED <<mmaps, num_mmaps, gNum4MPages, heap>>

(* The end of InitPmm. *)
ReservedDone ==
    /\ pc = "reserved" /\ todo = {}
    /\ Asserts(KernelPage \notin used, "kmalloc")
    /\ used' = used \cup {KernelPage}
    /\ UNCHANGED <<mmaps, num_mmaps, todo, gNum4MPages, heap>>

(* kmalloc::Initialize, then GetNumUsed4MPages in KernelSetup. *)
KmallocInitialize ==
    /\ pc = "kmalloc"
    /\ heap' = GetNextFreePage(used)
    /\ used' = used \cup heap'
    /\ Asserts(heap' # {} /\ GetNumFree4MPages(used', gNum4MPages) <= gNum4MPages, "jump")
    /\ UNCHANGED <<mmaps, num_mmaps, todo, gNum4MPages>>

(* JumpToUserMode takes a page for the first program; it does not mark it. *)
JumpToUserMode ==
    /\ pc = "jump"
    /\ Asserts(GetNextFreePage(used) # {}, "user")
    /\ UNCHANGED <<mmaps, num_mmaps, todo, used, gNum4MPages, heap>>

Init ==
    /\ mmaps = {Bios}
    /\ num_mmaps = 1
    /\ pc = "mmap"
    /\ todo = {}
    /\ used = {}
    /\ gNum4MPages = 0
    /\ heap = {}

Next ==
    \/ getMmap
    \/ KernelMain
    \/ Initialize
    \/ FreeAvailable
    \/ AvailableDone
    \/ UseReserved
    \/ ReservedDone
    \/ KmallocInitialize
    \/ JumpToUserMode

Spec == Init /\ [][Next]_vars /\ WF_vars(Next)

-----------------------------------------------------------------------------

(* What the map says of pages, without the code's arithmetic.  A region of no
   length is on the page it is inside of. *)
Units(p) == p * kPageSize .. (p + 1) * kPageSize - 1
PagesOf(type) == {p \in Pages : \E r \in OfType(type) :
                    r.addr < (p + 1) * kPageSize /\ p * kPageSize < r.addr + r.len}
FirstHole == LowMemory + MemUpper(mmaps)
Top == AddrToPage(MemUpper(mmaps) + kPageSize - 1)
FreePages == ((0 .. Top - 1) \cup PagesOf("available")) \ (PagesOf("reserved") \cup {KernelPage})
GetNextCanReturn == Bytes(Top \div CHAR_BIT)

(* All of a page that the kernel can give away is RAM, unless the first hole is on
   it: the sum of memory is rounded up to pages.  No unit of it is reserved, and it
   is neither the kernel's nor its heap's; and nothing else is kept from use: what
   Memory assumes of the bitmap it starts from. *)
FreePagesAreRam ==
    pc \in {"jump", "user"} =>
        LET free == GetNextCanReturn \ used
        IN  /\ \A p \in free :
                /\ Units(p) \subseteq UnitsOf(mmaps, "available") \/ FirstHole \in Units(p)
                /\ Units(p) \cap UnitsOf(mmaps, "reserved") = {}
            /\ free = (GetNextCanReturn \cap FreePages) \ heap

(* An available region passes the asserts of its round: it ends below the last page,
   where ends wrap, and one of no length is inside a page. *)
Fits(r) == r.addr + r.len <= Space - kPageSize /\ (r.len > 0 \/ r.addr % kPageSize # 0)

(* The maps the kernel boots with: not too long; all RAM fits, and nothing is
   reserved from 4 GB on; the kernel's page is RAM all of which is before the first
   hole's page; no RAM beyond the hole that GetNumUsed4MPages would count; and, in
   whole bytes of the bitmap, a page for the heap and one for the first program. *)
GoodMap ==
    /\ num_mmaps <= kMmapsBuffer
    /\ \A r \in OfType("available") : Fits(r)
    /\ \A r \in OfType("reserved") : r.addr < Space
    /\ KernelPage < Top
    /\ KernelPage \in PagesOf("available") \ PagesOf("reserved")
    /\ Cardinality(FreePages \cap Bytes((Top + CHAR_BIT - 1) \div CHAR_BIT)) <= Top + 1
    /\ Cardinality(FreePages \cap GetNextCanReturn) >= 2

(* The kernel gets to user mode on those maps and stops in an assert, before it
   gets there, on all others: no boot goes on with a bitmap an overflow has
   emptied, and none hangs. *)
BootsOnGoodMaps == <>[](IF GoodMap THEN pc = "user" ELSE pc = "panic")
=============================================================================
