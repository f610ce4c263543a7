----------------------------- MODULE BootProofs -----------------------------
(***************************************************************************)
(* What the bitmap is when the kernel has booted, and which memory maps it *)
(* boots with, for any number and size of pages and any map whose entries  *)
(* are in order.                                                           *)
(***************************************************************************)
EXTENDS Boot, FiniteSetTheorems, TLAPS

-----------------------------------------------------------------------------
(* Division with remainder. *)

(* A quotient is at least q exactly if q times the divisor fits. *)
LEMMA Quotient ==
    ASSUME NEW k \in Nat \ {0}, NEW a \in Nat, NEW q \in Int
    PROVE  a \div k \in Nat /\ (q <= a \div k <=> q * k <= a)
<1>1. PICK d, r : d = a \div k /\ r = a % k
    OBVIOUS
<1>2. d \in Int /\ r \in 0 .. k - 1 /\ a = k * d + r
    BY <1>1
<1>3. d >= 0
    <2>1. SUFFICES ASSUME d <= -1 PROVE FALSE
        BY <1>2
    <2>2. k * d <= k * (-1)
        BY <1>2, <2>1
    <2>. QED  BY <1>2, <2>2
<1>4. ASSUME q <= d PROVE q * k <= a
    <2>1. q * k <= d * k
        BY <1>2, <1>4
    <2>. QED  BY <1>2, <2>1
<1>5. ASSUME q > d PROVE q * k > a
    <2>1. q >= d + 1
        BY <1>2, <1>5
    <2>2. q * k >= (d + 1) * k
        BY <1>2, <2>1
    <2>3. (d + 1) * k = d * k + k
        BY <1>2
    <2>. QED  BY <1>2, <2>2, <2>3
<1>. QED  BY <1>1, <1>2, <1>3, <1>4, <1>5

(* Only multiples of a divisor leave no remainder. *)
LEMMA Remainder ==
    ASSUME NEW k \in Nat \ {0}, NEW a \in Nat
    PROVE  (a \div k) * k = a <=> a % k = 0
<1>1. PICK d, r, m : d = a \div k /\ r = a % k /\ m = d * k
    OBVIOUS
<1>2. d \in Int /\ r \in 0 .. k - 1 /\ a = k * d + r
    BY <1>1
<1>3. m = k * d /\ m \in Int
    BY <1>1, <1>2
<1>4. m = a <=> r = 0
    BY <1>2, <1>3
<1>. QED  BY <1>1, <1>4

(* A quotient that is rounded up is above q exactly if q times the divisor is
   below the dividend. *)
LEMMA RoundedQuotient ==
    ASSUME NEW k \in Nat \ {0}, NEW a \in Nat, NEW q \in Int
    PROVE  (a + k - 1) \div k \in Nat /\ (q < (a + k - 1) \div k <=> q * k < a)
<1>1. PICK b, d : b = a + k - 1 /\ d = b \div k
    OBVIOUS
<1>2. d \in Nat /\ (q + 1 <= d <=> (q + 1) * k <= b)
    BY <1>1, Quotient
<1>3. (q + 1) * k = q * k + k /\ q * k \in Int
    OBVIOUS
<1>4. (q + 1) * k <= b <=> q * k < a
    BY <1>1, <1>3
<1>. QED  BY <1>1, <1>2, <1>4

(* Multiples of a divisor. *)
LEMMA QuotientOfMultiple ==
    ASSUME NEW k \in Nat \ {0}, NEW q \in Nat
    PROVE  (q * k) \div k = q
<1>1. q * k \in Nat
    OBVIOUS
<1>2. PICK d : d = (q * k) \div k
    OBVIOUS
<1>3. d \in Nat /\ q <= d
    BY <1>1, <1>2, Quotient
<1>4. (d <= d <=> d * k <= q * k)
    BY <1>1, <1>2, <1>3, Quotient
<1>5. ASSUME d > q PROVE FALSE
    <2>1. d * k > q * k
        <3>1. (d - q) * k >= 1 * k
            BY <1>3, <1>5
        <3>2. (d - q) * k = d * k - q * k /\ d * k \in Int
            BY <1>3
        <3>. QED  BY <1>1, <3>1, <3>2
    <2>. QED  BY <1>1, <1>3, <1>4, <2>1
<1>. QED  BY <1>2, <1>3, <1>5

(* Remainders of numbers below twice the divisor. *)
LEMMA Wraps ==
    ASSUME NEW a \in Nat \ {0}, NEW x \in Nat, x < a + a
    PROVE  x % a = IF x < a THEN x ELSE x - a
<1>1. CASE x < a
    BY <1>1
<1>2. CASE x >= a
    BY <1>2
<1>. QED  BY <1>1, <1>2

(* A set of numbers has a smallest one. *)
LEMMA Least ==
    ASSUME NEW T, T \subseteq Nat, T # {}
    PROVE  \E n \in T : \A x \in T : n <= x
<1>. DEFINE R == {ss \in Nat \X Nat : ss[1] < ss[2]}
<1>1. IsWellFoundedOn(R, Nat)
    BY NatLessThanWellFounded, Zenon DEF OpToRel
<1>. HIDE DEF R
<1>2. PICK n \in T : \A y \in T : ~(<<y, n>> \in R)
    BY <1>1, WFMin, Zenon
<1>3. ASSUME NEW x \in T PROVE n <= x
    <2>1. ~(<<x, n>> \in R) /\ x \in Nat /\ n \in Nat
        BY <1>2
    <2>. QED  BY <2>1 DEF R
<1>. QED  BY <1>3, Zenon

-----------------------------------------------------------------------------
(* Addresses and pages. *)

LEMMA Sizes ==
    /\ kPageSize \in Nat \ {0} /\ kNumPageDirEntries \in Nat \ {0} /\ CHAR_BIT \in Nat \ {0}
    /\ KernelPage \in Nat \ {0} /\ KernelPage < kNumPageDirEntries
    /\ kMmapsBuffer \in Nat \ {0} /\ MaxEntries \in Nat \ {0}
    /\ LowMemory \in Nat \ {0} /\ LowMemory <= kPageSize
    /\ Space = kNumPageDirEntries * kPageSize /\ Space \in Nat \ {0} /\ kPageSize <= Space
<1>1. /\ kPageSize \in Nat \ {0} /\ kNumPageDirEntries \in Nat \ {0} /\ CHAR_BIT \in Nat \ {0}
      /\ KernelPage \in Nat \ {0} /\ kMmapsBuffer \in Nat \ {0} /\ MaxEntries \in Nat \ {0}
    BY BootAssumption, Zenon
<1>2. KernelPage < kNumPageDirEntries /\ LowMemory \in Nat \ {0} /\ LowMemory <= kPageSize
    BY <1>1, BootAssumption DEF Pages
<1>3. /\ kNumPageDirEntries * kPageSize \in Nat
      /\ 1 * kPageSize <= kNumPageDirEntries * kPageSize
    BY <1>1
<1>. QED  BY <1>1, <1>2, <1>3 DEF Space

(* Where RoundUp leads. *)
LEMMA RoundUpIs ==
    ASSUME NEW x \in Nat
    PROVE  /\ AddrToPage(RoundUp(x)) = (x + kPageSize - 1) \div kPageSize
           /\ AddrToPage(RoundUp(x)) \in Nat
<1>1. x + kPageSize - 1 \in Nat
    BY Sizes
<1>2. (x + kPageSize - 1) \div kPageSize \in Nat
    BY <1>1, Sizes, Quotient
<1>. QED  BY <1>2, Sizes, QuotientOfMultiple DEF AddrToPage, RoundUp

(* The pages InitPmm marks for an entry. *)
Touched(r) == AddrToPage(r.addr) .. AddrToPage(RoundUp(r.addr + r.len)) - 1

(* They are those that share a unit with it, if it has units. *)
LEMMA TouchedIs ==
    ASSUME NEW r, r.addr \in Nat, r.len \in Nat, NEW p \in Nat
    PROVE  /\ p \in Touched(r) <=> r.addr < (p + 1) * kPageSize /\ p * kPageSize < r.addr + r.len
           /\ r.len > 0 => (p \in Touched(r) <=> Covered(r) \cap Units(p) # {})
<1>1. PICK a, e, k, s, t, x, y :
        /\ a = r.addr /\ e = r.addr + r.len /\ k = kPageSize
        /\ s = a \div k /\ t = (e + k - 1) \div k /\ x = p * k /\ y = (p + 1) * k
    OBVIOUS
<1>2. a \in Nat /\ e \in Nat /\ k \in Nat \ {0} /\ x \in Nat /\ y \in Nat /\ y = x + k
    BY <1>1, Sizes
<1>3. s \in Nat /\ (p + 1 <= s <=> y <= a)
    BY <1>1, <1>2, Quotient
<1>4. t \in Nat /\ (p < t <=> x < e)
    BY <1>1, <1>2, RoundedQuotient
<1>5. Touched(r) = s .. t - 1
    <2>1. AddrToPage(RoundUp(e)) = t
        BY <1>1, <1>2, RoundUpIs
    <2>. QED  BY <1>1, <2>1 DEF Touched, AddrToPage
<1>6. p \in Touched(r) <=> a < y /\ x < e
    BY <1>2, <1>3, <1>4, <1>5
<1>7. Covered(r) = a .. e - 1 /\ Units(p) = x .. y - 1 /\ (r.len > 0 => a < e)
    <2>1. Covered(r) = a .. e - 1
        BY <1>1 DEF Covered
    <2>2. Units(p) = x .. y - 1
        BY <1>1, Zenon DEF Units
    <2>3. r.len > 0 => a < e
        BY <1>1, <1>2
    <2>. QED  BY <2>1, <2>2, <2>3
<1>8. a < e => ((a .. e - 1) \cap (x .. y - 1) # {} <=> a < y /\ x < e)
    <2>1. ASSUME a < e, a < y, x < e PROVE \E u : u \in (a .. e - 1) \cap (x .. y - 1)
        <3>1. CASE a <= x
            <4>1. x \in (a .. e - 1) \cap (x .. y - 1)
                BY <1>2, <2>1, <3>1
            <4>. QED  BY <4>1
        <3>2. CASE x <= a
            <4>1. a \in (a .. e - 1) \cap (x .. y - 1)
                BY <1>2, <2>1, <3>2
            <4>. QED  BY <4>1
        <3>. QED  BY <1>2, <3>1, <3>2
    <2>2. ASSUME NEW u \in (a .. e - 1) \cap (x .. y - 1) PROVE a < y /\ x < e
        BY <1>2, <2>2
    <2>. QED  BY <2>1, <2>2
<1>. QED  BY <1>1, <1>6, <1>7, <1>8, Zenon

(* All of them are pages of the address space if the entry ends below 4 GB, and
   there is none only if the entry has no length and is at the start of a page. *)
LEMMA TouchedArePages ==
    ASSUME NEW r, r.addr \in Nat, r.len \in Nat, r.addr + r.len <= Space
    PROVE  /\ Touched(r) \subseteq Pages
           /\ Touched(r) # {} <=> r.len > 0 \/ r.addr % kPageSize # 0
<1>1. ASSUME NEW p \in Touched(r) PROVE p \in Pages
    <2>1. p \in Nat
        BY Quotient, Sizes DEF Touched, AddrToPage
    <2>2. p * kPageSize < r.addr + r.len
        BY <1>1, <2>1, TouchedIs
    <2>3. p * kPageSize < kNumPageDirEntries * kPageSize
        BY <2>1, <2>2, Sizes
    <2>4. p < kNumPageDirEntries
        <3>1. SUFFICES ASSUME p >= kNumPageDirEntries PROVE FALSE
            BY <2>1, Sizes
        <3>2. p * kPageSize >= kNumPageDirEntries * kPageSize
            BY <2>1, <3>1, Sizes
        <3>. QED  BY <2>1, <2>3, <3>2, Sizes
    <2>. QED  BY <2>1, <2>4, Sizes DEF Pages
<1>2. PICK p : p = AddrToPage(r.addr)
    OBVIOUS
<1>3. p \in Nat /\ p * kPageSize <= r.addr /\ ~(p + 1 <= p)
    <2>1. p \in Nat
        BY <1>2, Quotient, Sizes DEF AddrToPage
    <2>2. p <= p <=> p * kPageSize <= r.addr
        BY <1>2, <2>1, Quotient, Sizes DEF AddrToPage
    <2>. QED  BY <2>1, <2>2
<1>4. p + 1 <= p <=> (p + 1) * kPageSize <= r.addr
    BY <1>2, <1>3, Quotient, Sizes DEF AddrToPage
<1>5. PICK m : m = p * kPageSize
    BY Zenon
<1>6. m \in Nat /\ m <= r.addr /\ (m = r.addr <=> r.addr % kPageSize = 0)
    <2>1. m = r.addr <=> r.addr % kPageSize = 0
        BY <1>2, <1>5, Remainder, Sizes DEF AddrToPage
    <2>2. m \in Nat
        BY <1>3, <1>5, Sizes
    <2>. QED  BY <1>3, <1>5, <2>1, <2>2
<1>7. p \in Touched(r) <=> m < r.addr + r.len
    <2>1. (p + 1) * kPageSize \in Nat
        BY <1>3, Sizes
    <2>2. r.addr < (p + 1) * kPageSize
        BY <1>3, <1>4, <2>1
    <2>. QED  BY <1>3, <1>5, <2>2, TouchedIs
<1>8. ASSUME r.len > 0 \/ r.addr % kPageSize # 0 PROVE Touched(r) # {}
    BY <1>6, <1>7, <1>8
<1>9. ASSUME NEW q \in Touched(r), r.len = 0, r.addr % kPageSize = 0 PROVE FALSE
    <2>1. PICK t : t = AddrToPage(RoundUp(r.addr + r.len))
        BY Zenon
    <2>2. t \in Nat
        BY <2>1, RoundUpIs
    <2>3. q \in p .. t - 1
        BY <1>2, <1>9, <2>1, Zenon DEF Touched
    <2>4. p \in Touched(r)
        <3>1. p \in p .. t - 1
            BY <1>3, <2>2, <2>3
        <3>. QED  BY <1>2, <2>1, <3>1, Zenon DEF Touched
    <2>. QED  BY <1>6, <1>7, <1>9, <2>4
<1>. QED  BY <1>1, <1>8, <1>9

-----------------------------------------------------------------------------
(* The inductive invariant. *)

(* The entries that getMmap has copied. *)
MapInv ==
    /\ mmaps \subseteq Entries /\ Bios \in mmaps
    /\ \A r \in mmaps : r # Bios => LowMemory <= r.addr
    /\ num_mmaps \in Nat \ {0}

(* Entries that pass the asserts of the loops. *)
AllFit(entries) == \A r \in entries : Fits(r)
BeginBelow(entries) == \A r \in entries : r.addr < Space

(* The bitmap when the loops have visited the entries avail and reserved. *)
AllTouched(entries) == UNION {Touched(r) : r \in entries}
Marked(avail, reserved) ==
    (((Top .. kNumPageDirEntries - 1) \cup {KernelPage}) \ AllTouched(avail))
        \cup AllTouched(reserved)

(* The pages GetNumUsed4MPages counts: whole bytes of the bitmap. *)
Counted == Bytes((Top + CHAR_BIT - 1) \div CHAR_BIT)

BootInv ==
    /\ MapInv
    /\ pc \in {"mmap", "pmm", "available", "reserved", "kmalloc", "jump", "user", "panic"}
    /\ pc \notin {"mmap", "panic"} => num_mmaps <= kMmapsBuffer
    /\ pc \notin {"mmap", "pmm", "panic"} =>
        gNum4MPages = Top /\ KernelPage < Top /\ Top < kNumPageDirEntries
    /\ pc = "available" =>
        /\ todo \subseteq OfType("available")
        /\ AllFit(OfType("available") \ todo)
        /\ used = Marked(OfType("available") \ todo, {})
    /\ pc \in {"reserved", "kmalloc", "jump", "user"} => AllFit(OfType("available"))
    /\ pc = "reserved" =>
        /\ todo \subseteq OfType("reserved")
        /\ BeginBelow(OfType("reserved") \ todo)
        /\ used = Marked(OfType("available"), OfType("reserved") \ todo)
    /\ pc \in {"kmalloc", "jump", "user"} =>
        /\ BeginBelow(OfType("reserved"))
        /\ KernelPage \in PagesOf("available") \ PagesOf("reserved")
    /\ pc = "kmalloc" => used = Pages \ FreePages
    /\ pc \in {"jump", "user"} =>
        /\ \E h \in FreePages \cap GetNextCanReturn : heap = {h}
        /\ used = (Pages \ FreePages) \cup heap
        /\ Cardinality(FreePages \cap Counted) <= Top + 1
    /\ pc = "user" => Cardinality(FreePages \cap GetNextCanReturn) >= 2
    /\ pc = "panic" => ~GoodMap

(* The kernel gets to user mode only with a map GoodMap allows, and stops in an
   assert only with one it does not allow. *)
BootOutcome == (pc = "user" => GoodMap) /\ (pc = "panic" => ~GoodMap)

-----------------------------------------------------------------------------
(* mem_upper and the number of pages. *)

Ram(m) == UnitsOf(m, "available")

(* There is RAM in all of the memory that mem_upper counts. *)
LEMMA UpperIs ==
    ASSUME NEW m
    PROVE  MemUpper(m) \in 0 .. Space /\ LowMemory .. LowMemory + MemUpper(m) - 1 \subseteq Ram(m)
<1>. DEFINE T == {n \in 0 .. Space : LowMemory + n \notin Ram(m) \/ n = Space}
            P(n) == /\ LowMemory .. LowMemory + n - 1 \subseteq Ram(m)
                    /\ LowMemory + n \notin Ram(m) \/ n = Space
<1>1. Space \in T /\ T \subseteq Nat
    BY Sizes
<1>2. PICK n \in T : \A x \in T : n <= x
    BY <1>1, Least
<1>3. ASSUME NEW u \in LowMemory .. LowMemory + n - 1 PROVE u \in Ram(m)
    <2>1. u - LowMemory \in 0 .. Space /\ ~(n <= u - LowMemory)
          /\ LowMemory + (u - LowMemory) = u
        BY <1>1, Sizes
    <2>2. u - LowMemory \notin T
        BY <1>2, <2>1
    <2>. QED  BY <2>1, <2>2
<1>4. n \in 0 .. Space /\ P(n)
    BY <1>3
<1>5. MemUpper(m) = CHOOSE x \in 0 .. Space : P(x)
    BY Zenon DEF MemUpper, Ram
<1>. HIDE DEF P
<1>6. MemUpper(m) \in 0 .. Space /\ P(MemUpper(m))
    BY <1>4, <1>5, Zenon
<1>. QED  BY <1>6, Zenon DEF P

(* A quotient is 0 for numbers below the divisor. *)
LEMMA NoPages ==
    ASSUME NEW x \in Nat, x < kPageSize
    PROVE  AddrToPage(x) = 0
<1>1. AddrToPage(x) \in Nat /\ (1 <= AddrToPage(x) <=> 1 * kPageSize <= x)
    BY Quotient, Sizes DEF AddrToPage
<1>. QED  BY <1>1, Sizes

(* The end of a region in 32 bits: 0 if it is rounded up to the end of the
   address space. *)
LEMMA RoundUp32Is ==
    ASSUME NEW x \in Nat, x < Space
    PROVE  AddrToPage(RoundUp32(x)) =
            IF x + kPageSize - 1 < Space THEN AddrToPage(RoundUp(x)) ELSE 0
<1>1. PICK y, z : y = x + kPageSize - 1 /\ z = y % Space
    OBVIOUS
<1>2. y \in Nat /\ y < Space + Space /\ z = IF y < Space THEN y ELSE y - Space
    <2>1. y \in Nat /\ y < Space + Space
        BY <1>1, Sizes
    <2>. QED  BY <1>1, <2>1, Wraps, Sizes
<1>3. z \in Nat /\ z \div kPageSize \in Nat
    BY <1>2, Quotient, Sizes
<1>4. AddrToPage(RoundUp32(x)) = z \div kPageSize
    BY <1>1, <1>3, Sizes, QuotientOfMultiple DEF AddrToPage, RoundUp32
<1>5. CASE y < Space
    BY <1>1, <1>2, <1>4, <1>5, RoundUpIs
<1>6. CASE y >= Space
    <2>1. z < kPageSize
        BY <1>1, <1>2, <1>6, Sizes
    <2>2. z \div kPageSize = 0
        BY <1>3, <2>1, NoPages DEF AddrToPage
    <2>. QED  BY <1>1, <1>2, <1>4, <1>6, <2>2, Sizes
<1>. QED  BY <1>2, <1>5, <1>6, Sizes

(* The number of pages that Initialize computes from mem_upper. *)
LEMMA NumPagesIs ==
    ASSUME NEW n \in 0 .. Space
    PROVE  /\ AddrToPage(n + kPageSize - 1) \in Nat
           /\ n + kPageSize - 1 < Space =>
                /\ AddrToPage(RoundUp32(n % Space)) = AddrToPage(n + kPageSize - 1)
                /\ AddrToPage(n + kPageSize - 1) < kNumPageDirEntries
           /\ n + kPageSize - 1 >= Space => AddrToPage(RoundUp32(n % Space)) = 0
<1>1. n \in Nat /\ n + kPageSize - 1 \in Nat
    BY Sizes
<1>2. AddrToPage(n + kPageSize - 1) \in Nat
    BY <1>1, Quotient, Sizes DEF AddrToPage
<1>3. ASSUME n + kPageSize - 1 < Space
      PROVE  /\ AddrToPage(RoundUp32(n % Space)) = AddrToPage(n + kPageSize - 1)
             /\ AddrToPage(n + kPageSize - 1) < kNumPageDirEntries
    <2>1. n < Space /\ n % Space = n
        BY <1>1, <1>3, Wraps, Sizes
    <2>2. AddrToPage(RoundUp32(n)) = AddrToPage(n + kPageSize - 1)
        BY <1>1, <1>3, <2>1, RoundUp32Is, RoundUpIs DEF AddrToPage
    <2>3. ~(kNumPageDirEntries <= AddrToPage(n + kPageSize - 1))
        <3>1. kNumPageDirEntries <= AddrToPage(n + kPageSize - 1)
                <=> kNumPageDirEntries * kPageSize <= n + kPageSize - 1
            BY <1>1, Quotient, Sizes DEF AddrToPage
        <3>. QED  BY <1>1, <1>3, <3>1, Sizes
    <2>. QED  BY <1>2, <2>1, <2>2, <2>3, Sizes
<1>4. ASSUME n + kPageSize - 1 >= Space PROVE AddrToPage(RoundUp32(n % Space)) = 0
    <2>1. CASE n = Space
        <3>1. n % Space = 0
            BY <1>1, <2>1, Wraps, Sizes
        <3>2. AddrToPage(RoundUp(0)) = AddrToPage(kPageSize - 1)
            BY RoundUpIs, Sizes DEF AddrToPage
        <3>3. AddrToPage(kPageSize - 1) = 0
            BY NoPages, Sizes
        <3>4. 0 + kPageSize - 1 < Space
            BY Sizes
        <3>. QED  BY <3>1, <3>2, <3>3, <3>4, RoundUp32Is, Sizes
    <2>2. CASE n < Space
        <3>1. n % Space = n
            BY <1>1, <2>2, Wraps, Sizes
        <3>. QED  BY <1>1, <1>4, <2>2, <3>1, RoundUp32Is, Sizes
    <2>. QED  BY <1>1, <2>1, <2>2, Sizes
<1>. QED  BY <1>2, <1>3, <1>4

-----------------------------------------------------------------------------
(* What the map says of pages. *)

LEMMA EntryIs ==
    ASSUME MapInv, NEW r \in mmaps
    PROVE  /\ r.addr \in Nat /\ r.len \in Nat /\ r.addr + r.len <= Space + 1
           /\ r.type \in {"available", "reserved"}
           /\ r.type = "reserved" /\ r.addr < Space => r.addr + r.len <= Space /\ r.len < Space
<1>1. r \in Entries
    BY DEF MapInv
<1>2. r.addr \in 0 .. Space /\ r.len \in 0 .. Space + 1 /\ r.type \in {"available", "reserved"}
    BY <1>1 DEF Entries, Types
<1>3. /\ r.addr + r.len <= Space + 1
      /\ r.type = "reserved" /\ r.addr < Space => r.addr + r.len <= Space
    BY <1>1 DEF Entries
<1>4. kPageSize < Space
    <2>1. 2 * kPageSize <= kNumPageDirEntries * kPageSize
        BY Sizes
    <2>. QED  BY <2>1, Sizes
<1>5. ASSUME r.type = "reserved", r.addr < Space PROVE r.len < Space
    <2>1. CASE r = Bios
        BY <1>4, <2>1, Sizes DEF Bios
    <2>2. CASE r # Bios
        <3>1. LowMemory <= r.addr
            BY <2>2 DEF MapInv
        <3>. QED  BY <1>2, <1>3, <1>5, <3>1, Sizes
    <2>. QED  BY <2>1, <2>2
<1>. QED  BY <1>2, <1>3, <1>5, Sizes

(* The pages of the entries of a type are the ones InitPmm marks for them. *)
LEMMA PagesOfIs ==
    ASSUME MapInv
    PROVE  /\ \A type : PagesOf(type) = Pages \cap AllTouched(OfType(type))
           /\ BeginBelow(OfType("reserved")) => AllTouched(OfType("reserved")) \subseteq Pages
<1>1. ASSUME NEW type, NEW p \in Pages
      PROVE  p \in PagesOf(type) <=> p \in AllTouched(OfType(type))
    <2>1. p \in Nat
        BY DEF Pages
    <2>2. \A r \in OfType(type) :
            r.addr < (p + 1) * kPageSize /\ p * kPageSize < r.addr + r.len <=> p \in Touched(r)
        BY <2>1, EntryIs, TouchedIs DEF OfType
    <2>. QED  BY <2>2, Zenon DEF PagesOf, AllTouched
<1>2. ASSUME BeginBelow(OfType("reserved"))
      PROVE  \A r \in OfType("reserved") : Touched(r) \subseteq Pages
    BY <1>2, EntryIs, TouchedArePages DEF OfType, BeginBelow
<1>3. ASSUME NEW type PROVE PagesOf(type) = Pages \cap AllTouched(OfType(type))
    <2>1. PagesOf(type) \subseteq Pages
        BY Zenon DEF PagesOf
    <2>. QED  BY <1>1, <2>1, Zenon
<1>4. BeginBelow(OfType("reserved")) => AllTouched(OfType("reserved")) \subseteq Pages
    BY <1>2, Zenon DEF AllTouched
<1>. QED  BY <1>3, <1>4, Zenon

(* When the loops are done and the kernel's page is marked again, the pages that
   are not marked are the free ones. *)
LEMMA MarkedIs ==
    ASSUME MapInv, BeginBelow(OfType("reserved")), Top \in Nat
    PROVE  Pages \ FreePages
            = Marked(OfType("available"), OfType("reserved")) \cup {KernelPage}
<1>1. PICK A, R, top, rest :
        /\ A = AllTouched(OfType("available")) /\ R = AllTouched(OfType("reserved"))
        /\ top = 0 .. Top - 1 /\ rest = Top .. kNumPageDirEntries - 1
    BY Zenon
<1>2. PagesOf("available") = Pages \cap A /\ PagesOf("reserved") = Pages \cap R /\ R \subseteq Pages
    BY <1>1, PagesOfIs, Zenon
<1>3. rest \subseteq Pages /\ KernelPage \in Pages /\ \A p \in Pages : p \in top <=> p \notin rest
    BY <1>1, Sizes DEF Pages
<1>4. FreePages = (top \cup (Pages \cap A)) \ ((Pages \cap R) \cup {KernelPage})
    BY <1>1, <1>2, Zenon DEF FreePages
<1>5. Marked(OfType("available"), OfType("reserved")) = ((rest \cup {KernelPage}) \ A) \cup R
    BY <1>1, Zenon DEF Marked
<1>. QED  BY <1>2, <1>3, <1>4, <1>5

(* The first page is the BIOS's. *)
LEMMA PageZero == ASSUME MapInv PROVE 0 \in PagesOf("reserved")
<1>1. Bios \in OfType("reserved") /\ Bios.addr = 0 /\ Bios.len = LowMemory
    BY Sizes DEF MapInv, OfType, Bios
<1>2. 0 < (0 + 1) * kPageSize /\ 0 * kPageSize < 0 + LowMemory
    BY Sizes
<1>3. 0 \in Touched(Bios)
    BY <1>1, <1>2, TouchedIs, Sizes
<1>4. 0 \in Pages /\ 0 \in AllTouched(OfType("reserved"))
    BY <1>1, <1>3, Sizes DEF Pages, AllTouched
<1>. QED  BY <1>4, PagesOfIs, Zenon

LEMMA TopIs == Top \in Nat
<1>1. MemUpper(mmaps) \in 0 .. Space
    BY UpperIs
<1>. QED  BY <1>1, NumPagesIs DEF Top

(* All pages below Top but the first are RAM, unless the first hole is on them. *)
LEMMA RamBelowTop ==
    ASSUME NEW p \in 1 .. Top - 1
    PROVE  Units(p) \subseteq Ram(mmaps) \/ FirstHole \in Units(p)
<1>1. PICK n, x, f : n = MemUpper(mmaps) /\ x = p * kPageSize /\ f = LowMemory + n
    BY Zenon
<1>2. n \in Nat /\ LowMemory .. f - 1 \subseteq Ram(mmaps) /\ f = FirstHole /\ f > n
    BY <1>1, UpperIs, Sizes DEF FirstHole
<1>3. p \in Nat /\ p < Top /\ Top = (n + kPageSize - 1) \div kPageSize
    BY <1>1, TopIs DEF Top, AddrToPage
<1>4. x < n
    BY <1>1, <1>2, <1>3, Sizes, RoundedQuotient
<1>5. x \in Nat /\ x >= LowMemory
    <2>1. p * kPageSize >= 1 * kPageSize
        BY <1>3, Sizes
    <2>. QED  BY <1>1, <1>3, <2>1, Sizes
<1>6. PICK y : y = (p + 1) * kPageSize /\ y \in Nat
    BY <1>3, Sizes
<1>7. Units(p) = x .. y - 1
    BY <1>1, <1>6, Zenon DEF Units
<1>8. f \in Nat /\ LowMemory \in Nat
    BY <1>1, <1>2, Sizes
<1>9. CASE f < y
    <2>1. f \in x .. y - 1
        BY <1>2, <1>4, <1>5, <1>6, <1>8, <1>9
    <2>. QED  BY <1>2, <1>7, <2>1, Zenon
<1>10. CASE f >= y
    <2>1. x .. y - 1 \subseteq LowMemory .. f - 1
        BY <1>5, <1>6, <1>8, <1>10
    <2>. QED  BY <1>2, <1>7, <2>1, Zenon
<1>. QED  BY <1>6, <1>8, <1>9, <1>10

(* Whole bytes of the bitmap below Top, and with the byte Top is in. *)
LEMMA BytesAre ==
    ASSUME Top < kNumPageDirEntries
    PROVE  /\ GetNextCanReturn \subseteq 0 .. Top - 1
           /\ 0 .. Top - 1 \subseteq Counted
           /\ Counted \subseteq Pages
           /\ \A p \in GetNextCanReturn : 0 .. p \subseteq GetNextCanReturn
<1>1. PICK c, k, d, u, m :
        /\ c = CHAR_BIT /\ k = Top /\ d = k \div c /\ u = (k + c - 1) \div c
        /\ m = kNumPageDirEntries \div c
    BY Zenon
<1>2. c \in Nat \ {0} /\ k \in Nat /\ k < kNumPageDirEntries
    BY <1>1, TopIs, Sizes
<1>3. d \in Nat /\ (d <= d <=> d * c <= k)
    BY <1>1, <1>2, Quotient
<1>4. u \in Nat /\ (u < u <=> u * c < k)
    BY <1>1, <1>2, RoundedQuotient
<1>5. m \in Nat /\ kNumPageDirEntries = c * m
    <2>1. kNumPageDirEntries % c = 0
        BY <1>1, BootAssumption
    <2>2. m \in Nat
        BY <1>1, <1>2, Quotient, Sizes
    <2>. QED  BY <1>1, <1>2, <2>1, <2>2, Sizes
<1>6. m < u <=> m * c < k
    BY <1>1, <1>2, <1>5, RoundedQuotient
<1>7. u <= m
    BY <1>2, <1>4, <1>5, <1>6
<1>8. d * c = c * d /\ u * c = c * u /\ c * d \in Nat /\ c * u \in Nat
    BY <1>2, <1>3, <1>4
<1>9. c * u <= c * m
    BY <1>2, <1>4, <1>5, <1>7
<1>10. c * d <= k /\ k <= c * u /\ c * u <= kNumPageDirEntries
    BY <1>2, <1>3, <1>4, <1>5, <1>8, <1>9
<1>11. GetNextCanReturn = 0 .. c * d - 1 /\ Counted = 0 .. c * u - 1
    BY <1>1 DEF GetNextCanReturn, Counted, Bytes
<1>. QED  BY <1>1, <1>2, <1>8, <1>10, <1>11, Sizes DEF Pages

(* GetNextFreePage returns the first page that is not marked, if there is one. *)
LEMMA NextFreeIs ==
    ASSUME Top < kNumPageDirEntries, gNum4MPages = Top, NEW u
    PROVE  /\ GetNextCanReturn \subseteq u => GetNextFreePage(u) = {}
           /\ ~(GetNextCanReturn \subseteq u) =>
                \E h \in GetNextCanReturn \ u : GetNextFreePage(u) = {h}
<1>1. PICK B, S : B = GetNextCanReturn /\ S = B \ u
    BY Zenon
<1>2. GetNextFreePage(u) = {p \in S : \A q \in 0 .. p - 1 : q \in u}
    BY <1>1, Zenon DEF GetNextFreePage, GetNextCanReturn
<1>3. B \subseteq Nat /\ \A p \in B : 0 .. p \subseteq B
    BY <1>1, BytesAre DEF Pages
<1>4. ASSUME S # {} PROVE \E h \in S : GetNextFreePage(u) = {h}
    <2>1. PICK h \in S : \A x \in S : h <= x
        <3>1. S \subseteq Nat
            BY <1>1, <1>3
        <3>. QED  BY <1>4, <3>1, Least
    <2>2. ASSUME NEW q \in 0 .. h - 1 PROVE q \in u
        <3>1. q \in B
            BY <1>1, <1>3, <2>1
        <3>2. q \notin S
            BY <1>1, <1>3, <2>1
        <3>. QED  BY <1>1, <3>1, <3>2
    <2>3. ASSUME NEW p \in S, \A q \in 0 .. p - 1 : q \in u PROVE p = h
        <3>1. h <= p /\ h \in Nat /\ p \in Nat /\ h \notin u
            BY <1>1, <1>3, <2>1, <2>3
        <3>2. h \notin 0 .. p - 1
            BY <2>3, <3>1
        <3>. QED  BY <3>1, <3>2
    <2>4. GetNextFreePage(u) = {h}
        BY <1>2, <2>1, <2>2, <2>3
    <2>. QED  BY <2>1, <2>4
<1>. QED  BY <1>1, <1>2, <1>4

-----------------------------------------------------------------------------
(* One lemma per action. *)

(* What is defined by the map stays while the map does. *)
LEMMA SameMap ==
    ASSUME mmaps' = mmaps, num_mmaps' = num_mmaps
    PROVE  /\ MapInv' = MapInv /\ Top' = Top /\ GoodMap' = GoodMap
           /\ OfType("available")' = OfType("available")
           /\ OfType("reserved")' = OfType("reserved")
           /\ PagesOf("available")' = PagesOf("available")
           /\ PagesOf("reserved")' = PagesOf("reserved")
           /\ FreePages' = FreePages /\ GetNextCanReturn' = GetNextCanReturn
           /\ Counted' = Counted
<1>1. Top' = Top /\ \A type : OfType(type)' = OfType(type) /\ PagesOf(type)' = PagesOf(type)
    BY DEF Top, OfType, PagesOf
<1>2. FreePages' = FreePages /\ GetNextCanReturn' = GetNextCanReturn /\ Counted' = Counted
    BY <1>1 DEF FreePages, GetNextCanReturn, Counted
<1>3. MapInv' = MapInv
    BY DEF MapInv
<1>4. GoodMap' = GoodMap
    BY <1>1, <1>2 DEF GoodMap
<1>. QED  BY <1>1, <1>2, <1>3, <1>4

LEMMA InitBoots == Init => BootInv
<1>1. SUFFICES ASSUME Init PROVE BootInv
    OBVIOUS
<1>2. mmaps = {Bios} /\ num_mmaps = 1 /\ pc = "mmap"
    BY <1>1 DEF Init
<1>3. Bios \in Entries
    BY Sizes DEF Bios, Entries, Types
<1>4. MapInv
    BY <1>2, <1>3 DEF MapInv
<1>. QED  BY <1>2, <1>4 DEF BootInv

LEMMA getMmapBoots == ASSUME BootInv, getMmap PROVE BootInv'
<1>1. pc = "mmap" /\ pc' = "mmap" /\ num_mmaps' = num_mmaps + 1 /\ MapInv
    BY DEF getMmap, BootInv
<1>2. PICK r \in Entries :
        /\ \A q \in mmaps : q.addr + q.len <= r.addr
        /\ mmaps' = IF num_mmaps < kMmapsBuffer THEN mmaps \cup {r} ELSE mmaps
    BY DEF getMmap
<1>3. LowMemory <= r.addr
    <2>1. Bios.addr + Bios.len <= r.addr
        BY <1>1, <1>2 DEF MapInv
    <2>2. Bios.addr = 0 /\ Bios.len = LowMemory
        BY DEF Bios
    <2>. QED  BY <2>1, <2>2, Sizes
<1>4. MapInv'
    BY <1>1, <1>2, <1>3 DEF MapInv
<1>. QED  BY <1>1, <1>4 DEF BootInv

LEMMA KernelMainBoots == ASSUME BootInv, KernelMain PROVE BootInv'
<1>1. /\ pc = "mmap" /\ mmaps' = mmaps /\ num_mmaps' = num_mmaps
      /\ pc' = IF num_mmaps \in 1 .. kMmapsBuffer THEN "pmm" ELSE "panic"
    BY DEF KernelMain, Asserts
<1>2. MapInv' /\ GoodMap' = GoodMap /\ num_mmaps \in Nat \ {0}
    BY <1>1, SameMap DEF BootInv, MapInv
<1>3. CASE num_mmaps \in 1 .. kMmapsBuffer
    <2>1. pc' = "pmm" /\ num_mmaps' <= kMmapsBuffer
        BY <1>1, <1>3, Sizes
    <2>. QED  BY <1>2, <2>1 DEF BootInv
<1>4. CASE num_mmaps \notin 1 .. kMmapsBuffer
    <2>1. ~GoodMap
        BY <1>2, <1>4, Sizes, SMTT(30) DEF GoodMap
    <2>2. pc' = "panic"
        BY <1>1, <1>4
    <2>. QED  BY <1>2, <2>1, <2>2 DEF BootInv
<1>. QED  BY <1>3, <1>4

(* If mem_upper reaches the last page, so does an available entry. *)
LEMMA WrapsOnBadMap ==
    ASSUME MapInv, MemUpper(mmaps) + kPageSize - 1 >= Space
    PROVE  ~GoodMap
<1>1. PICK n, x : n = MemUpper(mmaps) /\ x = LowMemory + n - 1
    BY Zenon
<1>2. n \in Nat /\ LowMemory .. LowMemory + n - 1 \subseteq Ram(mmaps)
    BY <1>1, UpperIs, Sizes
<1>3. kPageSize < Space
    <2>1. 2 * kPageSize <= kNumPageDirEntries * kPageSize
        BY Sizes
    <2>. QED  BY <2>1, Sizes
<1>4. x \in LowMemory .. LowMemory + n - 1 /\ x >= Space - kPageSize + 1
    BY <1>1, <1>2, <1>3, Sizes
<1>5. PICK r \in OfType("available") : x \in Covered(r)
    BY <1>2, <1>4 DEF Ram, UnitsOf, OfType
<1>6. r.addr \in Nat /\ r.len \in Nat
    BY <1>5, EntryIs DEF OfType
<1>7. r.addr + r.len > Space - kPageSize
    BY <1>4, <1>5, <1>6, Sizes DEF Covered
<1>. QED  BY <1>5, <1>6, <1>7, Sizes DEF GoodMap, Fits

(* All bits below the number of pages are free at first. *)
LEMMA AllAreFree ==
    ASSUME Top < kNumPageDirEntries
    PROVE  GetNumFree4MPages(Top .. kNumPageDirEntries - 1, Top) = Top
<1>1. 0 .. Top - 1 \subseteq Counted /\ Counted \subseteq 0 .. kNumPageDirEntries - 1
    BY BytesAre DEF Pages
<1>2. Counted \ (Top .. kNumPageDirEntries - 1) = 0 .. Top - 1
    <2>1. PICK t, n, S : t = Top /\ n = kNumPageDirEntries /\ S = Counted
        BY Zenon
    <2>2. t \in Nat /\ n \in Nat /\ t < n /\ 0 .. t - 1 \subseteq S /\ S \subseteq 0 .. n - 1
        BY <1>1, <2>1, TopIs, Sizes, Zenon
    <2>3. \A p \in 0 .. n - 1 : p \in t .. n - 1 <=> p \notin 0 .. t - 1
        BY <2>2
    <2>4. (0 .. t - 1) \cap (t .. n - 1) = {}
        BY <2>2
    <2>. QED  BY <2>1, <2>2, <2>3, <2>4, Zenon
<1>3. Cardinality(0 .. Top - 1) = Top
    <2>1. Cardinality(0 .. Top - 1) = IF 0 > Top - 1 THEN 0 ELSE Top - 1 - 0 + 1
        BY TopIs, FS_Interval
    <2>. QED  BY <2>1, TopIs
<1>. QED  BY <1>2, <1>3 DEF GetNumFree4MPages, Counted

LEMMA InitializeBoots == ASSUME BootInv, Initialize PROVE BootInv'
<1>1. /\ pc = "pmm" /\ mmaps' = mmaps /\ num_mmaps' = num_mmaps
      /\ gNum4MPages' = AddrToPage(RoundUp32(MemUpper(mmaps) % Space))
      /\ used' = (gNum4MPages' .. kNumPageDirEntries - 1) \cup {KernelPage}
      /\ pc' = IF /\ gNum4MPages' > 0
                  /\ GetNumFree4MPages(gNum4MPages' .. kNumPageDirEntries - 1, gNum4MPages')
                        = gNum4MPages'
                  /\ KernelPage \notin gNum4MPages' .. kNumPageDirEntries - 1
               THEN "available" ELSE "panic"
      /\ todo' = OfType("available")
    BY DEF Initialize, Asserts
<1>2. /\ MapInv /\ MapInv' /\ GoodMap' = GoodMap /\ Top' = Top
      /\ OfType("available")' = OfType("available")
      /\ num_mmaps <= kMmapsBuffer
    BY <1>1, SameMap DEF BootInv
<1>3. MemUpper(mmaps) \in 0 .. Space /\ Top = AddrToPage(MemUpper(mmaps) + kPageSize - 1)
    BY UpperIs DEF Top
<1>4. CASE MemUpper(mmaps) + kPageSize - 1 >= Space
    <2>1. gNum4MPages' = 0
        BY <1>1, <1>3, <1>4, NumPagesIs
    <2>2. pc' = "panic" /\ ~GoodMap
        BY <1>1, <1>2, <1>4, <2>1, WrapsOnBadMap
    <2>. QED  BY <1>2, <2>2 DEF BootInv
<1>5. CASE MemUpper(mmaps) + kPageSize - 1 < Space
    <2>1. gNum4MPages' = Top /\ Top < kNumPageDirEntries
        BY <1>1, <1>3, <1>5, NumPagesIs
    <2>2. GetNumFree4MPages(Top .. kNumPageDirEntries - 1, Top) = Top
        BY <2>1, AllAreFree
    <2>3. KernelPage \notin Top .. kNumPageDirEntries - 1 <=> KernelPage < Top
        BY TopIs, Sizes
    <2>4. CASE KernelPage < Top
        <3>1. pc' = "available"
            BY <1>1, <2>1, <2>2, <2>3, <2>4, TopIs, Sizes
        <3>2. OfType("available") \ OfType("available") = {} /\ AllTouched({}) = {}
            BY Zenon DEF AllTouched
        <3>3. used' = Marked({}, {})'
            BY <1>1, <1>2, <2>1, <3>2 DEF Marked
        <3>4. AllFit({})
            BY DEF AllFit
        <3>5. /\ todo' \subseteq OfType("available")'
              /\ AllFit(OfType("available") \ todo)'
              /\ used' = Marked(OfType("available") \ todo, {})'
            BY <1>1, <1>2, <3>2, <3>3, <3>4, Zenon
        <3>. QED  BY <1>1, <1>2, <2>1, <2>4, <3>1, <3>5 DEF BootInv
    <2>5. CASE ~(KernelPage < Top)
        <3>1. pc' = "panic" /\ ~GoodMap
            BY <1>1, <2>1, <2>3, <2>5 DEF GoodMap
        <3>. QED  BY <1>2, <3>1 DEF BootInv
    <2>. QED  BY <2>4, <2>5
<1>. QED  BY <1>3, <1>4, <1>5, Sizes

(* An available entry passes the asserts of its round, in 32 bits, exactly if it
   fits, and the round then clears the pages it touches. *)
LEMMA AvailableRound ==
    ASSUME MapInv, NEW r \in OfType("available"), NEW start, NEW end,
           start = AddrToPage(r.addr),
           end = AddrToPage(RoundUp32((r.addr + r.len) % Space))
    PROVE  /\ Fits(r) <=>
                /\ r.addr < Space /\ r.len < Space
                /\ (r.addr + r.len) % Space >= r.addr
                /\ end > start
           /\ Fits(r) => start .. end - 1 = Touched(r)
<1>1. PICK a, l, x, s, k : a = r.addr /\ l = r.len /\ x = a + l /\ s = Space /\ k = kPageSize
    BY Zenon
<1>2. a \in Nat /\ l \in Nat /\ x <= s + 1 /\ x \in Nat
    BY <1>1, EntryIs DEF OfType
<1>3. s \in Nat \ {0} /\ k \in Nat \ {0} /\ k < s
    <2>1. 2 * kPageSize <= kNumPageDirEntries * kPageSize
        BY Sizes
    <2>. QED  BY <1>1, <2>1, Sizes, SMTT(30)
<1>4. start \in Nat
    BY <1>1, <1>2, Quotient, Sizes DEF AddrToPage
<1>5. ASSUME x <= s - k
      PROVE  /\ a < s /\ l < s /\ x % s >= a /\ start .. end - 1 = Touched(r)
             /\ end > start <=> Fits(r)
    <2>1. x < s /\ x % s = x /\ x + k - 1 < s
        BY <1>2, <1>3, <1>5, Wraps
    <2>2. end = AddrToPage(RoundUp(x))
        BY <1>1, <1>2, <2>1, RoundUp32Is
    <2>3. start .. end - 1 = Touched(r)
        BY <1>1, <2>2 DEF Touched
    <2>4. Touched(r) # {} <=> Fits(r)
        <3>1. r.addr \in Nat /\ r.len \in Nat /\ r.addr + r.len <= Space
            BY <1>1, <1>2, <1>3, <2>1
        <3>2. Touched(r) # {} <=> r.len > 0 \/ r.addr % kPageSize # 0
            BY <3>1, TouchedArePages
        <3>3. r.addr + r.len <= Space - kPageSize
            BY <1>1, <1>5
        <3>. QED  BY <3>2, <3>3, Zenon DEF Fits
    <2>5. end \in Nat
        BY <1>2, <2>2, RoundUpIs
    <2>6. end > start <=> start .. end - 1 # {}
        BY <1>4, <2>5
    <2>7. a < s /\ l < s /\ x % s >= a
        BY <1>1, <1>2, <1>3, <1>5, <2>1
    <2>. QED  BY <2>3, <2>4, <2>6, <2>7, Zenon
<1>6. ASSUME x > s - k, a < s, l < s, x % s >= a, end > start PROVE FALSE
    <2>1. CASE x < s
        <3>1. x % s = x /\ ~(x + k - 1 < s)
            BY <1>2, <1>3, <1>6, <2>1, Wraps
        <3>2. end = 0
            BY <1>1, <1>2, <2>1, <3>1, RoundUp32Is
        <3>. QED  BY <1>4, <1>6, <3>2
    <2>2. CASE x >= s
        <3>1. x < s + s /\ x % s = x - s
            BY <1>2, <1>3, <2>2, Wraps
        <3>. QED  BY <1>1, <1>2, <1>3, <1>6, <3>1
    <2>. QED  BY <1>2, <1>3, <2>1, <2>2
<1>7. CASE x <= s - k
    BY <1>1, <1>5, <1>7, Zenon
<1>8. CASE x > s - k
    <2>1. ~Fits(r)
        BY <1>1, <1>2, <1>3, <1>8 DEF Fits
    <2>. QED  BY <1>1, <1>6, <1>8, <2>1, Zenon
<1>. QED  BY <1>2, <1>3, <1>7, <1>8

LEMMA FreeAvailableBoots == ASSUME BootInv, FreeAvailable PROVE BootInv'
<1>1. /\ pc = "available" /\ mmaps' = mmaps /\ num_mmaps' = num_mmaps
      /\ gNum4MPages' = gNum4MPages
    BY DEF FreeAvailable
<1>2. PICK r, start, end :
        /\ r \in todo
        /\ start = AddrToPage(r.addr)
        /\ end = AddrToPage(RoundUp32((r.addr + r.len) % Space))
        /\ pc' = IF /\ r.addr < Space /\ r.len < Space
                    /\ (r.addr + r.len) % Space >= r.addr
                    /\ end > start
                 THEN "available" ELSE "panic"
        /\ used' = IF pc' = "panic" THEN used ELSE used \ (start .. end - 1)
        /\ todo' = todo \ {r}
    BY DEF FreeAvailable, Asserts
<1>3. /\ MapInv /\ MapInv' /\ GoodMap' = GoodMap /\ Top' = Top
      /\ OfType("available")' = OfType("available")
      /\ num_mmaps <= kMmapsBuffer
      /\ gNum4MPages = Top /\ KernelPage < Top /\ Top < kNumPageDirEntries
      /\ todo \subseteq OfType("available")
      /\ AllFit(OfType("available") \ todo)
      /\ used = Marked(OfType("available") \ todo, {})
    BY <1>1, SameMap DEF BootInv
<1>4. r \in OfType("available")
    BY <1>2, <1>3
<1>5. /\ Fits(r) <=>
            /\ r.addr < Space /\ r.len < Space
            /\ (r.addr + r.len) % Space >= r.addr
            /\ end > start
      /\ Fits(r) => start .. end - 1 = Touched(r)
    BY <1>2, <1>3, <1>4, AvailableRound
<1>6. CASE Fits(r)
    <2>1. pc' = "available" /\ used' = used \ Touched(r)
        BY <1>2, <1>5, <1>6
    <2>2. PICK A, D : A = OfType("available") \ todo /\ D = A \cup {r}
        BY Zenon
    <2>3. (OfType("available") \ todo)' = D
        BY <1>2, <1>3, <1>4, <2>2
    <2>4. AllTouched(D) = AllTouched(A) \cup Touched(r)
        BY <2>2 DEF AllTouched
    <2>5. AllTouched({}) = {}
        BY Zenon DEF AllTouched
    <2>6. used' = ((Top .. kNumPageDirEntries - 1) \cup {KernelPage}) \ AllTouched(D)
        BY <1>3, <2>1, <2>2, <2>4, <2>5 DEF Marked
    <2>7. used' = Marked(OfType("available") \ todo, {})'
        BY <1>3, <2>3, <2>5, <2>6 DEF Marked
    <2>8. AllFit(D)
        BY <1>3, <1>6, <2>2 DEF AllFit
    <2>9. AllFit(OfType("available") \ todo)'
        BY <2>3, <2>8, Zenon
    <2>10. todo' \subseteq OfType("available")'
        BY <1>2, <1>3
    <2>. QED  BY <1>1, <1>3, <2>1, <2>7, <2>9, <2>10 DEF BootInv
<1>7. CASE ~Fits(r)
    <2>1. pc' = "panic" /\ ~GoodMap
        BY <1>2, <1>4, <1>5, <1>7 DEF GoodMap
    <2>. QED  BY <1>3, <2>1 DEF BootInv
<1>. QED  BY <1>6, <1>7

LEMMA AvailableDoneBoots == ASSUME BootInv, AvailableDone PROVE BootInv'
<1>1. /\ pc = "available" /\ todo = {} /\ pc' = "reserved" /\ todo' = OfType("reserved")
      /\ mmaps' = mmaps /\ num_mmaps' = num_mmaps /\ used' = used
      /\ gNum4MPages' = gNum4MPages
    BY DEF AvailableDone
<1>2. /\ MapInv' /\ Top' = Top
      /\ OfType("available")' = OfType("available") /\ OfType("reserved")' = OfType("reserved")
      /\ num_mmaps <= kMmapsBuffer
      /\ gNum4MPages = Top /\ KernelPage < Top /\ Top < kNumPageDirEntries
      /\ AllFit(OfType("available") \ todo)
      /\ used = Marked(OfType("available") \ todo, {})
    BY <1>1, SameMap DEF BootInv
<1>3. OfType("available") \ todo = OfType("available") /\ (OfType("reserved") \ todo)' = {}
    BY <1>1, <1>2
<1>4. AllFit(OfType("available"))'
    BY <1>2, <1>3, Zenon
<1>5. used' = Marked(OfType("available"), OfType("reserved") \ todo)'
    <2>1. used' = Marked(OfType("available"), {})
        BY <1>1, <1>2, <1>3, Zenon
    <2>. QED  BY <1>2, <1>3, <2>1 DEF Marked
<1>6. BeginBelow(OfType("reserved") \ todo)'
    BY <1>3 DEF BeginBelow
<1>. QED  BY <1>1, <1>2, <1>4, <1>5, <1>6 DEF BootInv

LEMMA UseReservedBoots == ASSUME BootInv, UseReserved PROVE BootInv'
<1>1. /\ pc = "reserved" /\ mmaps' = mmaps /\ num_mmaps' = num_mmaps
      /\ gNum4MPages' = gNum4MPages
    BY DEF UseReserved
<1>2. PICK r, start, end :
        /\ r \in todo
        /\ start = AddrToPage(r.addr) /\ end = AddrToPage(RoundUp(r.addr + r.len))
        /\ pc' = IF r.addr < Space /\ r.len < Space /\ end > start THEN "reserved" ELSE "panic"
        /\ used' = IF pc' = "panic" THEN used ELSE used \cup (start .. end - 1)
        /\ todo' = todo \ {r}
    BY DEF UseReserved, Asserts
<1>3. /\ MapInv /\ MapInv' /\ GoodMap' = GoodMap /\ Top' = Top
      /\ OfType("available")' = OfType("available") /\ OfType("reserved")' = OfType("reserved")
      /\ num_mmaps <= kMmapsBuffer
      /\ gNum4MPages = Top /\ KernelPage < Top /\ Top < kNumPageDirEntries
      /\ AllFit(OfType("available"))
      /\ todo \subseteq OfType("reserved")
      /\ BeginBelow(OfType("reserved") \ todo)
      /\ used = Marked(OfType("available"), OfType("reserved") \ todo)
    BY <1>1, SameMap DEF BootInv
<1>4. r \in OfType("reserved") /\ r \in mmaps /\ r.type = "reserved" /\ r.len > 0
    BY <1>2, <1>3 DEF OfType
<1>5. CASE ~(r.addr < Space)
    <2>1. pc' = "panic" /\ ~GoodMap
        BY <1>2, <1>4, <1>5 DEF GoodMap
    <2>. QED  BY <1>3, <2>1 DEF BootInv
<1>6. CASE r.addr < Space
    <2>1. /\ r.addr \in Nat /\ r.len \in Nat /\ r.addr + r.len <= Space /\ r.len < Space
        BY <1>3, <1>4, <1>6, EntryIs
    <2>2. start .. end - 1 = Touched(r) /\ Touched(r) # {}
        BY <1>2, <1>4, <2>1, TouchedArePages DEF Touched
    <2>3. start \in Nat /\ end \in Nat
        <3>1. r.addr + r.len \in Nat
            BY <2>1
        <3>2. start \in Nat
            BY <1>2, <2>1, Quotient, Sizes, SMTT(30) DEF AddrToPage
        <3>3. end \in Nat
            BY <1>2, <3>1, RoundUpIs
        <3>. QED  BY <3>2, <3>3
    <2>4. end > start
        BY <2>2, <2>3
    <2>5. pc' = "reserved" /\ used' = used \cup Touched(r)
        BY <1>2, <1>6, <2>1, <2>2, <2>4
    <2>6. PICK A, D : A = OfType("reserved") \ todo /\ D = A \cup {r}
        BY Zenon
    <2>7. (OfType("reserved") \ todo)' = D
        BY <1>2, <1>3, <1>4, <2>6
    <2>8. AllTouched(D) = AllTouched(A) \cup Touched(r)
        BY <2>6 DEF AllTouched
    <2>9. used' = Marked(OfType("available"), D)
        BY <1>3, <2>5, <2>6, <2>8 DEF Marked
    <2>10. used' = Marked(OfType("available"), OfType("reserved") \ todo)'
        BY <1>3, <2>7, <2>9 DEF Marked
    <2>11. AllFit(OfType("available"))' /\ todo' \subseteq OfType("reserved")'
        BY <1>2, <1>3
    <2>12. BeginBelow(D)
        BY <1>3, <1>6, <2>6 DEF BeginBelow
    <2>13. BeginBelow(OfType("reserved") \ todo)'
        BY <2>7, <2>12, Zenon
    <2>. QED  BY <1>1, <1>3, <2>5, <2>10, <2>11, <2>13 DEF BootInv
<1>. QED  BY <1>5, <1>6

LEMMA ReservedDoneBoots == ASSUME BootInv, ReservedDone PROVE BootInv'
<1>1. /\ pc = "reserved" /\ todo = {} /\ mmaps' = mmaps /\ num_mmaps' = num_mmaps
      /\ gNum4MPages' = gNum4MPages /\ used' = used \cup {KernelPage}
      /\ pc' = IF KernelPage \notin used THEN "kmalloc" ELSE "panic"
    BY DEF ReservedDone, Asserts
<1>2. /\ MapInv /\ MapInv' /\ GoodMap' = GoodMap /\ Top' = Top
      /\ OfType("available")' = OfType("available") /\ OfType("reserved")' = OfType("reserved")
      /\ PagesOf("available")' = PagesOf("available")
      /\ PagesOf("reserved")' = PagesOf("reserved") /\ FreePages' = FreePages
      /\ num_mmaps <= kMmapsBuffer
      /\ gNum4MPages = Top /\ KernelPage < Top /\ Top < kNumPageDirEntries
      /\ AllFit(OfType("available"))
      /\ BeginBelow(OfType("reserved") \ todo)
      /\ used = Marked(OfType("available"), OfType("reserved") \ todo)
    BY <1>1, SameMap DEF BootInv
<1>3. used = Marked(OfType("available"), OfType("reserved")) /\ BeginBelow(OfType("reserved"))
    <2>1. OfType("reserved") \ todo = OfType("reserved")
        BY <1>1
    <2>. QED  BY <1>2, <2>1, Zenon
<1>4. KernelPage \notin used <=> KernelPage \in PagesOf("available") \ PagesOf("reserved")
    <2>1. KernelPage \in Pages
        BY BootAssumption, Zenon
    <2>2. /\ PagesOf("available") = Pages \cap AllTouched(OfType("available"))
          /\ PagesOf("reserved") = Pages \cap AllTouched(OfType("reserved"))
        BY <1>2, PagesOfIs, Zenon
    <2>. QED  BY <1>3, <2>1, <2>2, Zenon DEF Marked
<1>5. CASE KernelPage \notin used
    <2>1. pc' = "kmalloc" /\ KernelPage \in (PagesOf("available") \ PagesOf("reserved"))'
        BY <1>1, <1>2, <1>4, <1>5
    <2>2. used' = Pages \ FreePages
        BY <1>1, <1>2, <1>3, TopIs, MarkedIs, Zenon
    <2>3. /\ used' = (Pages \ FreePages)' /\ AllFit(OfType("available"))'
          /\ BeginBelow(OfType("reserved"))'
        BY <1>2, <1>3, <2>2, Zenon
    <2>. QED  BY <1>1, <1>2, <2>1, <2>3 DEF BootInv
<1>6. CASE KernelPage \in used
    <2>1. pc' = "panic" /\ ~GoodMap
        BY <1>1, <1>4, <1>6 DEF GoodMap
    <2>. QED  BY <1>2, <2>1 DEF BootInv
<1>. QED  BY <1>5, <1>6

(* The sets that are counted are finite. *)
LEMMA FreeAreFinite ==
    ASSUME Top < kNumPageDirEntries
    PROVE  IsFiniteSet(FreePages \cap Counted) /\ IsFiniteSet(FreePages \cap GetNextCanReturn)
<1>1. IsFiniteSet(0 .. kNumPageDirEntries - 1)
    BY FS_Interval, Sizes
<1>2. /\ FreePages \cap Counted \subseteq 0 .. kNumPageDirEntries - 1
      /\ FreePages \cap GetNextCanReturn \subseteq 0 .. kNumPageDirEntries - 1
    BY BytesAre, Zenon DEF Pages
<1>. QED  BY <1>1, <1>2, FS_Subset

LEMMA KmallocInitializeBoots == ASSUME BootInv, KmallocInitialize PROVE BootInv'
<1>1. /\ pc = "kmalloc" /\ mmaps' = mmaps /\ num_mmaps' = num_mmaps
      /\ gNum4MPages' = gNum4MPages
      /\ heap' = GetNextFreePage(used) /\ used' = used \cup heap'
      /\ pc' = IF heap' # {} /\ GetNumFree4MPages(used', gNum4MPages) <= gNum4MPages
               THEN "jump" ELSE "panic"
    BY DEF KmallocInitialize, Asserts
<1>2. /\ MapInv' /\ GoodMap' = GoodMap /\ Top' = Top
      /\ OfType("available")' = OfType("available") /\ OfType("reserved")' = OfType("reserved")
      /\ PagesOf("available")' = PagesOf("available")
      /\ PagesOf("reserved")' = PagesOf("reserved") /\ FreePages' = FreePages
      /\ GetNextCanReturn' = GetNextCanReturn /\ Counted' = Counted
      /\ num_mmaps <= kMmapsBuffer
      /\ gNum4MPages = Top /\ KernelPage < Top /\ Top < kNumPageDirEntries
      /\ AllFit(OfType("available")) /\ BeginBelow(OfType("reserved"))
      /\ KernelPage \in PagesOf("available") \ PagesOf("reserved")
      /\ used = Pages \ FreePages
    BY <1>1, SameMap DEF BootInv
<1>3. PICK B, C, F : B = GetNextCanReturn /\ C = Counted /\ F = FreePages
    BY Zenon
<1>4. B \subseteq C /\ C \subseteq Pages
    BY <1>2, <1>3, BytesAre, Zenon
<1>5. CASE B \subseteq used
    <2>1. heap' = {}
        BY <1>1, <1>2, <1>3, <1>5, NextFreeIs
    <2>2. F \cap B = {}
        BY <1>2, <1>3, <1>4, <1>5, Zenon
    <2>3. ~(Cardinality(F \cap B) >= 2)
        BY <2>2, FS_EmptySet
    <2>4. pc' = "panic" /\ ~GoodMap
        BY <1>1, <1>3, <2>1, <2>3 DEF GoodMap
    <2>. QED  BY <1>2, <2>4 DEF BootInv
<1>6. CASE ~(B \subseteq used)
    <2>1. PICK h \in B \ used : heap' = {h}
        BY <1>1, <1>2, <1>3, <1>6, NextFreeIs
    <2>2. h \in F \cap B /\ h \in F \cap C
        BY <1>2, <1>3, <1>4, <2>1, Zenon
    <2>3. C \ used' = (F \cap C) \ {h}
        BY <1>1, <1>2, <1>3, <1>4, <2>1, Zenon
    <2>4. IsFiniteSet(F \cap C)
        BY <1>2, <1>3, FreeAreFinite, Zenon
    <2>5. /\ Cardinality((F \cap C) \ {h}) = Cardinality(F \cap C) - 1
          /\ Cardinality(F \cap C) \in Nat
        BY <2>2, <2>4, FS_RemoveElement, FS_CardinalityType
    <2>6. GetNumFree4MPages(used', gNum4MPages) = Cardinality((F \cap C) \ {h})
        BY <1>2, <1>3, <2>3, Zenon DEF GetNumFree4MPages, Counted
    <2>7. GetNumFree4MPages(used', gNum4MPages) <= gNum4MPages
            <=> Cardinality(F \cap C) <= Top + 1
        BY <1>2, <2>5, <2>6, TopIs
    <2>8. CASE Cardinality(F \cap C) <= Top + 1
        <3>1. pc' = "jump"
            BY <1>1, <2>1, <2>7, <2>8
        <3>2. /\ \E x \in (FreePages \cap GetNextCanReturn)' : heap' = {x}
              /\ used' = ((Pages \ FreePages) \cup heap)'
              /\ (Cardinality(FreePages \cap Counted) <= Top + 1)'
            BY <1>1, <1>2, <1>3, <2>1, <2>2, <2>8, Zenon
        <3>3. /\ AllFit(OfType("available"))' /\ BeginBelow(OfType("reserved"))'
              /\ KernelPage \in (PagesOf("available") \ PagesOf("reserved"))'
            BY <1>2, Zenon
        <3>. QED  BY <1>1, <1>2, <3>1, <3>2, <3>3 DEF BootInv
    <2>9. CASE ~(Cardinality(F \cap C) <= Top + 1)
        <3>1. pc' = "panic"
            BY <1>1, <2>7, <2>9
        <3>2. ~GoodMap
            BY <1>3, <2>9 DEF GoodMap, Counted
        <3>. QED  BY <1>2, <3>1, <3>2 DEF BootInv
    <2>. QED  BY <2>8, <2>9
<1>. QED  BY <1>5, <1>6

LEMMA JumpBoots == ASSUME BootInv, JumpToUserMode PROVE BootInv'
<1>1. /\ pc = "jump" /\ mmaps' = mmaps /\ num_mmaps' = num_mmaps
      /\ gNum4MPages' = gNum4MPages /\ heap' = heap /\ used' = used
      /\ pc' = IF GetNextFreePage(used) # {} THEN "user" ELSE "panic"
    BY DEF JumpToUserMode, Asserts
<1>2. /\ MapInv' /\ GoodMap' = GoodMap /\ Top' = Top
      /\ OfType("available")' = OfType("available") /\ OfType("reserved")' = OfType("reserved")
      /\ PagesOf("available")' = PagesOf("available")
      /\ PagesOf("reserved")' = PagesOf("reserved") /\ FreePages' = FreePages
      /\ GetNextCanReturn' = GetNextCanReturn /\ Counted' = Counted
      /\ num_mmaps <= kMmapsBuffer
      /\ gNum4MPages = Top /\ KernelPage < Top /\ Top < kNumPageDirEntries
      /\ AllFit(OfType("available")) /\ BeginBelow(OfType("reserved"))
      /\ KernelPage \in PagesOf("available") \ PagesOf("reserved")
      /\ \E h \in FreePages \cap GetNextCanReturn : heap = {h}
      /\ used = (Pages \ FreePages) \cup heap
      /\ Cardinality(FreePages \cap Counted) <= Top + 1
    BY <1>1, SameMap DEF BootInv
<1>3. PICK B, F : B = GetNextCanReturn /\ F = FreePages
    BY Zenon
<1>4. PICK h \in F \cap B : heap = {h}
    BY <1>2, <1>3, Zenon
<1>5. B \subseteq Pages /\ IsFiniteSet(F \cap B)
    BY <1>2, <1>3, BytesAre, FreeAreFinite, Zenon
<1>6. B \ used = (F \cap B) \ {h}
    BY <1>2, <1>3, <1>4, <1>5, Zenon
<1>7. /\ Cardinality(B \ used) = Cardinality(F \cap B) - 1 /\ IsFiniteSet(B \ used)
      /\ Cardinality(F \cap B) \in Nat
    <2>1. PICK S : S = F \cap B
        BY Zenon
    <2>2. IsFiniteSet(S) /\ h \in S
        BY <1>4, <1>5, <2>1, Zenon
    <2>3. IsFiniteSet(S \ {h}) /\ Cardinality(S \ {h}) = Cardinality(S) - 1
        BY <2>2, FS_RemoveElement
    <2>4. Cardinality(S) \in Nat
        BY <2>2, FS_CardinalityType
    <2>. QED  BY <1>6, <2>1, <2>3, <2>4, Zenon
<1>8. B \ used = {} <=> ~(Cardinality(F \cap B) >= 2)
    <2>1. Cardinality(B \ used) = 0 <=> B \ used = {}
        BY <1>7, FS_EmptySet
    <2>2. Cardinality(B \ used) \in Nat
        BY <1>7, FS_CardinalityType
    <2>. QED  BY <1>7, <2>1, <2>2
<1>9. GetNextFreePage(used) = {} <=> B \ used = {}
    BY <1>2, <1>3, NextFreeIs, SMTT(30)
<1>10. CASE Cardinality(F \cap B) >= 2
    <2>1. pc' = "user"
        BY <1>1, <1>8, <1>9, <1>10
    <2>2. /\ \E x \in (FreePages \cap GetNextCanReturn)' : heap' = {x}
          /\ used' = ((Pages \ FreePages) \cup heap)'
          /\ (Cardinality(FreePages \cap Counted) <= Top + 1)'
          /\ (Cardinality(FreePages \cap GetNextCanReturn) >= 2)'
        BY <1>1, <1>2, <1>3, <1>10, Zenon
    <2>3. /\ AllFit(OfType("available"))' /\ BeginBelow(OfType("reserved"))'
          /\ KernelPage \in (PagesOf("available") \ PagesOf("reserved"))'
        BY <1>2, Zenon
    <2>. QED  BY <1>1, <1>2, <2>1, <2>2, <2>3 DEF BootInv
<1>11. CASE ~(Cardinality(F \cap B) >= 2)
    <2>1. pc' = "panic" /\ ~GoodMap
        BY <1>1, <1>3, <1>8, <1>9, <1>11 DEF GoodMap
    <2>. QED  BY <1>2, <2>1 DEF BootInv
<1>. QED  BY <1>10, <1>11

(* At every step the bitmap is what the entries visited so far make of it. *)
THEOREM BootInvariance == Spec => []BootInv
<1>1. Init => BootInv
    BY InitBoots
<1>2. BootInv /\ [Next]_vars => BootInv'
    <2>1. SUFFICES ASSUME BootInv, [Next]_vars PROVE BootInv'
        OBVIOUS
    <2>2. CASE UNCHANGED vars
        <3>1. /\ mmaps' = mmaps /\ num_mmaps' = num_mmaps /\ pc' = pc /\ todo' = todo
              /\ used' = used /\ gNum4MPages' = gNum4MPages /\ heap' = heap
            BY <2>2 DEF vars
        <3>2. /\ MapInv' = MapInv /\ Top' = Top /\ GoodMap' = GoodMap
              /\ OfType("available")' = OfType("available")
              /\ OfType("reserved")' = OfType("reserved")
              /\ PagesOf("available")' = PagesOf("available")
              /\ PagesOf("reserved")' = PagesOf("reserved")
              /\ FreePages' = FreePages /\ GetNextCanReturn' = GetNextCanReturn
              /\ Counted' = Counted
            BY <3>1, SameMap
        <3>. QED  BY <2>1, <3>1, <3>2 DEF BootInv, Marked
    <2>. QED  BY <2>1, <2>2, getMmapBoots, KernelMainBoots, InitializeBoots,
                 FreeAvailableBoots, AvailableDoneBoots, UseReservedBoots, ReservedDoneBoots,
                 KmallocInitializeBoots, JumpBoots DEF Next
<1>. QED  BY <1>1, <1>2, PTL DEF Spec

(* With any memory map, all of a page the kernel can give away when it has booted is
   RAM, but for the page of the first hole; no reserved region, the kernel or its
   heap uses it, and it can give away all such pages that are in whole bytes of the
   bitmap. *)
THEOREM BootedWithRam == Spec => []FreePagesAreRam
<1>1. BootInv => FreePagesAreRam
    <2>1. SUFFICES ASSUME BootInv, pc \in {"jump", "user"}
                   PROVE  LET free == GetNextCanReturn \ used
                          IN  /\ \A p \in free :
                                /\ \/ Units(p) \subseteq UnitsOf(mmaps, "available")
                                   \/ FirstHole \in Units(p)
                                /\ Units(p) \cap UnitsOf(mmaps, "reserved") = {}
                              /\ free = (GetNextCanReturn \cap FreePages) \ heap
        BY DEF FreePagesAreRam
    <2>2. MapInv /\ Top < kNumPageDirEntries /\ used = (Pages \ FreePages) \cup heap
        BY <2>1 DEF BootInv
    <2>3. GetNextCanReturn \subseteq 0 .. Top - 1 /\ GetNextCanReturn \subseteq Pages
        BY <2>2, BytesAre, Zenon
    <2>4. GetNextCanReturn \ used = (GetNextCanReturn \cap FreePages) \ heap
        BY <2>2, <2>3, Zenon
    <2>5. ASSUME NEW p \in GetNextCanReturn \cap FreePages
          PROVE  /\ Units(p) \subseteq UnitsOf(mmaps, "available") \/ FirstHole \in Units(p)
                 /\ Units(p) \cap UnitsOf(mmaps, "reserved") = {}
        <3>1. p \notin PagesOf("reserved") /\ p \in Pages
            BY <2>3, <2>5, Zenon DEF FreePages
        <3>2. p # 0
            BY <2>2, <3>1, PageZero
        <3>3. p \in 1 .. Top - 1
            BY <2>3, <2>5, <3>2, TopIs
        <3>4. Units(p) \subseteq UnitsOf(mmaps, "available") \/ FirstHole \in Units(p)
            BY <3>3, RamBelowTop, Zenon DEF Ram
        <3>5. ASSUME NEW r \in mmaps, r.type = "reserved", NEW u \in Covered(r), u \in Units(p)
              PROVE  FALSE
            <4>1. r.addr \in Nat /\ r.len \in Nat /\ p \in Nat
                BY <2>2, <3>1, EntryIs DEF Pages
            <4>2. r.len > 0
                BY <3>5, <4>1 DEF Covered
            <4>3. p \in Touched(r)
                BY <3>5, <4>1, <4>2, TouchedIs
            <4>4. r \in OfType("reserved")
                BY <3>5, <4>2 DEF OfType
            <4>5. p \in Pages \cap AllTouched(OfType("reserved"))
                BY <3>1, <4>3, <4>4, Zenon DEF AllTouched
            <4>. QED  BY <2>2, <3>1, <4>5, PagesOfIs, Zenon
        <3>6. Units(p) \cap UnitsOf(mmaps, "reserved") = {}
            BY <3>5, Zenon DEF UnitsOf
        <3>. QED  BY <3>4, <3>6, Zenon
    <2>. QED  BY <2>4, <2>5, Zenon
<1>. QED  BY <1>1, BootInvariance, PTL

(* A memory map that GoodMap does not allow never gets the kernel to user mode, and
   with one it allows no assert fails, however entries lie in pages, whether or not
   they have units, and wherever ends wrap. *)
THEOREM BootsOnlyOnGoodMaps == Spec => []BootOutcome
<1>1. ASSUME BootInv, pc = "user" PROVE GoodMap
    <2>1. /\ num_mmaps <= kMmapsBuffer /\ AllFit(OfType("available"))
          /\ BeginBelow(OfType("reserved")) /\ KernelPage < Top
          /\ KernelPage \in PagesOf("available") \ PagesOf("reserved")
          /\ Cardinality(FreePages \cap Counted) <= Top + 1
          /\ Cardinality(FreePages \cap GetNextCanReturn) >= 2
        BY <1>1 DEF BootInv
    <2>. QED  BY <2>1, Zenon DEF GoodMap, AllFit, BeginBelow, Counted
<1>2. BootInv => (pc = "panic" => ~GoodMap)
    BY DEF BootInv
<1>3. BootInv => BootOutcome
    BY <1>1, <1>2, Zenon DEF BootOutcome
<1>. QED  BY <1>3, BootInvariance, PTL

=============================================================================
