------------------------------- MODULE Malloc -------------------------------
(***************************************************************************)
(* The allocator of libc/malloc.cpp, used by the kernel and by programs: a *)
(* list of allocations, each cut into blocks by MallocHeaders.  Addresses  *)
(* are bytes of a W-bit machine.  hdr holds the headers a walk meets.      *)
(***************************************************************************)
EXTENDS Integers, Sequences, Functions

CONSTANTS
    W,              \* bits of size_t and uintptr_t
    AllocSize,      \* alloc_size of every allocation (a page)
    Allocations,    \* the allocations in the order in which they are handed out
    Sizes,          \* arguments of malloc
    Aligns

kMinSize == 4       \* also sizeof(MallocHeader) and kMinAlign
kAllocOffset == 8
kSizeMax == 2^(W - 1) - 1
NULL == 0

Word(x) == x % 2^W
Larger(x, y) == IF x > y THEN x ELSE y
With(f, x, v) == [y \in DOMAIN f \cup {x} |-> IF y = x THEN v ELSE f[y]]

(* Aligned allocations above 0 and below the last page that do not overlap. *)
ASSUME MallocAssumption ==
    /\ W \in Nat \ {0}
    /\ AllocSize \in Nat /\ AllocSize > kAllocOffset + kMinSize /\ AllocSize % kMinSize = 0
    /\ Allocations \in Seq(Nat) /\ Allocations # <<>>
    /\ \A i \in DOMAIN Allocations :
        /\ Allocations[i] > 0 /\ Allocations[i] % kMinSize = 0
        /\ Allocations[i] + 2 * AllocSize <= 2^W
        /\ \A j \in DOMAIN Allocations :
            i # j => \/ Allocations[i] + AllocSize <= Allocations[j]
                     \/ Allocations[j] + AllocSize <= Allocations[i]
    /\ Sizes \cup Aligns \subseteq 0 .. 2^W - 1

(* What the proofs use of powers of two: those of a word divide it and are
   multiples or divisors of a header's size. *)
ASSUME PowersOfTwo ==
    /\ 2^W \in Nat /\ 2^W = 2 * 2^(W - 1) /\ 2^W % kMinSize = 0
    /\ \A k \in 0 .. W - 1 :
        /\ 2^k \in 1 .. 2^(W - 1)
        /\ 2^W % 2^k = 0
        /\ IF 2^k > kMinSize THEN 2^k % kMinSize = 0 ELSE kMinSize % 2^k = 0

VARIABLES
    gAskFunc,   \* whether there is one: the kernel's heap can grow, a program's cannot
    allocs,     \* the linked list from gFirstAlloc
    hdr,        \* the MallocHeaders: address |-> [size, used]
    live,       \* the pointers the callers hold: pointer |-> the size and align asked
                \* for, and whether another caller held it already
    trap        \* an assert failed

vars == <<gAskFunc, allocs, hdr, live, trap>>

-----------------------------------------------------------------------------

IsPowerOf2(x) == \E k \in 0 .. W - 1 : x = 2^k
RoundUp(x, align) == LET y == Word(x + align - 1) IN y - (y % align)

Addr(m) == m + kMinSize
End(h, m) == Addr(m) + h[m].size
AllocOf(list, m) == CHOOSE i \in DOMAIN list : m \in list[i] .. list[i] + AllocSize - 1
HeadersIn(h, a) == {m \in DOMAIN h : m \in a .. a + AllocSize - 1}

(* The order in which IterMallocHeaders visits headers. *)
Before(list, m, n) ==
    LET i == AllocOf(list, m)
        j == AllocOf(list, n)
    IN  i < j \/ (i = j /\ m < n)

GetAvailMemory(h) ==
    FoldFunction(LAMBDA b, n : IF b.used THEN n ELSE n + b.size, 0, h)

(* MergeMallocHeaders: the headers that go away, free ones that follow a free
   one.  The walk stops at the first free header at the end of an allocation, so
   later allocations are merged only if all before them end in use. *)
Merged(list, h) ==
    LET EndsInUse(a) == \E m \in HeadersIn(h, a) : h[m].used /\ End(h, m) = a + AllocSize
        walked == UNION {HeadersIn(h, list[i]) :
                            i \in {k \in DOMAIN list : \A j \in 1 .. k - 1 : EndsInUse(list[j])}}
    IN  {n \in walked : ~h[n].used /\ \E m \in walked : ~h[m].used /\ End(h, m) = n}

(* MergeMallocHeaders: how large IncSize makes a free block: it takes in those
   that go away behind it, one after the other, with their headers. *)
MutIncSizeForgetsHeader(h, gone) ==
    LET size[m \in DOMAIN h] ==
            IF ~h[m].used /\ End(h, m) \in gone
            THEN h[m].size + size[End(h, m)]
            ELSE h[m].size
    IN  size
IncSize(h, gone) ==
    LET size[m \in DOMAIN h] ==
            IF ~h[m].used /\ End(h, m) \in gone
            THEN h[m].size + kMinSize + size[End(h, m)]
            ELSE h[m].size
    IN  size

MutMergeNothing(list, h) == h
MergeMallocHeaders(list, h) ==
    LET gone == Merged(list, h)
    IN  [m \in DOMAIN h \ gone |-> [h[m] EXCEPT !.size = IncSize(h, gone)[m]]]

(* Partition: where in the block of m it would place the new block ... *)
Place(m, align) ==
    LET addr == Addr(m)
        up == RoundUp(addr, align)
    IN  IF addr % align = 0 THEN addr
        ELSE IF Word(up - addr) = kMinSize THEN Word(up + align) ELSE up

(* ... whether it does not return nullptr ... *)
MutFitsUsed(h, m, size, align) ==
    /\ size <= h[m].size
    /\ \/ Addr(m) % align = 0
       \/ /\ size # h[m].size
          /\ Word(Place(m, align) + size) <= End(h, m)
          /\ Word(End(h, m) - Place(m, align)) \in 1 .. kSizeMax
MutFitsStrictly(h, m, size, align) ==
    /\ ~h[m].used
    /\ size < h[m].size
    /\ \/ Addr(m) % align = 0
       \/ /\ Word(Place(m, align) + size) <= End(h, m)
          /\ Word(End(h, m) - Place(m, align)) \in 1 .. kSizeMax
Fits(h, m, size, align) ==
    /\ ~h[m].used
    /\ size <= h[m].size
    /\ \/ Addr(m) % align = 0
       \/ /\ size # h[m].size
          /\ Word(Place(m, align) + size) <= End(h, m)
          /\ Word(End(h, m) - Place(m, align)) \in 1 .. kSizeMax

(* ... and the headers after it and setUsed: the part before the new block, the
   new block and the part after it, unless that would be a header only. *)
MutWholeExact(h, m, size, at) == End(h, m) - at = size
Whole(h, m, size, at) == End(h, m) - at - size <= kMinSize
Partition(h, m, size, at) ==
    LET new == at - kMinSize
        rest == at + size
        front == IF new = m THEN h
                 ELSE With(h, m, [size |-> new - Addr(m), used |-> FALSE])
        back == With(front, rest, [size |-> End(h, m) - Addr(rest), used |-> FALSE])
    IN  IF Whole(h, m, size, at)
        THEN With(front, new, [size |-> End(h, m) - at, used |-> TRUE])
        ELSE With(back, new, [size |-> size, used |-> TRUE])

(* MallocImpl on the headers h of the allocations list: the headers after it,
   the pointer, and whether the assert in setSize failed. *)
Rounded(size) == RoundUp(Larger(size, kMinSize), kMinSize)

MallocImpl(list, h, size0, align0) ==
    LET size == Rounded(size0)
        align == Larger(align0, kMinSize)
        fit == {m \in DOMAIN h : Fits(h, m, size, align)}
        first == CHOOSE m \in fit : \A n \in fit : n = m \/ Before(list, m, n)
        at == Place(first, align)
    IN  IF size0 = 0 \/ ~IsPowerOf2(align0) \/ size > kSizeMax \/ size > GetAvailMemory(h)
        THEN [hdr |-> h, ptr |-> NULL, trap |-> FALSE]
        ELSE IF fit = {}
        THEN [hdr |-> MergeMallocHeaders(list, h), ptr |-> NULL, trap |-> FALSE]
        ELSE IF size = 0 /\ ~Whole(h, first, size, at)
        THEN [hdr |-> h, ptr |-> NULL, trap |-> TRUE]
        ELSE [hdr |-> MergeMallocHeaders(list, Partition(h, first, size, at)),
              ptr |-> at, trap |-> FALSE]

(* One free block in the allocation at a. *)
SetupNewAllocation(h, a) ==
    With(h, a + kAllocOffset, [size |-> AllocSize - kMinSize - kAllocOffset, used |-> FALSE])

-----------------------------------------------------------------------------

Returns(size, align, r) ==
    /\ hdr' = r.hdr
    /\ live' = IF r.ptr = NULL THEN live
               ELSE With(live, r.ptr, [size |-> size, align |-> align,
                                       shared |-> r.ptr \in DOMAIN live])
    /\ trap' = r.trap

(* malloc, when the first MallocImpl finds a block or no more can be asked for. *)
malloc(size, align) ==
    LET r == MallocImpl(allocs, hdr, size, align)
    IN  /\ ~trap
        /\ r.ptr # NULL \/ r.trap \/ size = 0 \/ size > kSizeMax \/ ~gAskFunc
        /\ Returns(size, align, r)
        /\ UNCHANGED <<gAskFunc, allocs>>

(* malloc, when it asks for another allocation and tries once more.  The kernel
   stops in gAskFunc when there is none, which is not modelled. *)
mallocAsks(size, align) ==
    LET r == MallocImpl(allocs, hdr, size, align)
    IN  /\ ~trap
        /\ r.ptr = NULL /\ ~r.trap /\ size \in 1 .. kSizeMax /\ gAskFunc
        /\ Len(allocs) < Len(Allocations)
        /\ allocs' = SubSeq(Allocations, 1, Len(allocs) + 1)
        /\ Returns(size, align,
                   MallocImpl(allocs', SetupNewAllocation(r.hdr, allocs'[Len(allocs')]),
                              size, align))
        /\ UNCHANGED gAskFunc

free(p) ==
    /\ ~trap
    /\ hdr' = MergeMallocHeaders(allocs, [hdr EXCEPT ![p - kMinSize].used = FALSE])
    /\ live' = [q \in DOMAIN live \ {p} |-> live[q]]
    /\ UNCHANGED <<gAskFunc, allocs, trap>>

(* Initialize *)
Init ==
    /\ gAskFunc \in BOOLEAN
    /\ allocs = <<Allocations[1]>>
    /\ hdr = SetupNewAllocation([m \in {} |-> NULL], Allocations[1])
    /\ live = [p \in {} |-> NULL]
    /\ trap = FALSE

Next ==
    \/ \E size \in Sizes, align \in Aligns : malloc(size, align)
    \/ \E size \in Sizes, align \in Aligns : mallocAsks(size, align)
    \/ \E p \in DOMAIN live : free(p)

Spec == Init /\ [][Next]_vars

-----------------------------------------------------------------------------

(* Every header satisfies IsValid and, after malloc and free, none is empty; and
   sizes that RoundUp does not wrap are refused before the assert on empty blocks
   can fail ("will exceed the size limit in the malloc header", malloc.cpp:345). *)
MallocTypeOK ==
    /\ \A m \in DOMAIN hdr :
        /\ m % kMinSize = 0
        /\ hdr[m].size > 0 /\ hdr[m].size % kMinSize = 0
        /\ hdr[m].used \in BOOLEAN
    /\ allocs = SubSeq(Allocations, 1, Len(allocs))
    /\ DOMAIN live \subseteq 1 .. 2^W - 1
    /\ ~trap

(* The blocks of an allocation follow one another without gap or overlap from
   its first header to its end, so that every walk of IterMallocHeaders stays on
   headers and ends. *)
HeadersTile ==
    /\ \A i \in DOMAIN allocs : allocs[i] + kAllocOffset \in DOMAIN hdr
    /\ \A m \in DOMAIN hdr :
        LET end == allocs[AllocOf(allocs, m)] + AllocSize
        IN  /\ End(hdr, m) = end \/ (End(hdr, m) < end /\ End(hdr, m) \in DOMAIN hdr)
            /\ \A n \in DOMAIN hdr : n > m => n >= End(hdr, m)

(* Every pointer a caller holds is the start of a used block that is as large
   and as aligned as the caller asked for and that nobody else was given, and no
   other block is in use:
   what others allocate and free never takes a block away or leaks one. *)
CallersKeepTheirBlocks ==
    /\ {Addr(m) : m \in {n \in DOMAIN hdr : hdr[n].used}} = DOMAIN live
    /\ \A p \in DOMAIN live :
        /\ ~live[p].shared
        /\ hdr[p - kMinSize].size >= live[p].size
        /\ p % live[p].align = 0

(* "ASSERT_EQ(avail, libc::malloc::GetAvailMemory())" (libc/tests/malloc.cpp:18):
   when everything is freed all memory is available again, in one block.  This
   is so for the heap of a program; MergeMallocHeaders does not reach every
   block once the heap has grown. *)
AllIsAvailable ==
    DOMAIN live = {} /\ Len(allocs) = 1
        => GetAvailMemory(hdr) = AllocSize - kMinSize - kAllocOffset

(* In a heap that has not grown MallocImpl fails only if no place between the
   blocks in use can hold the block and the headers it needs: merging leaves no
   free space that its search, which looks at one header at a time, would miss. *)
Gaps == {a + kAllocOffset : a \in Range(allocs)}
            \cup {End(hdr, m) : m \in {n \in DOMAIN hdr : hdr[n].used}}
Room(g, size, align) ==
    \E p \in {g + kMinSize} \cup g + 3 * kMinSize .. g + AllocSize :
        /\ p % align = 0
        /\ \E a \in Range(allocs) : a <= g /\ p + size <= a + AllocSize
        /\ \A m \in DOMAIN hdr : hdr[m].used => m \notin g .. p + size - 1
FailsOnlyWhenFull ==
    \A size \in Sizes \cap 1 .. kSizeMax, align \in Aligns :
        /\ Len(allocs) = 1
        /\ IsPowerOf2(align)
        /\ MallocImpl(allocs, hdr, size, align).ptr = NULL
        => \A g \in Gaps : ~Room(g, Rounded(size), Larger(align, kMinSize))
=============================================================================
