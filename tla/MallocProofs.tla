---------------------------- MODULE MallocProofs ----------------------------
(***************************************************************************)
(* Proofs about Malloc for any word size, allocations and alignments, and  *)
(* any sizes that rounding up does not wrap: the blocks tile the           *)
(* allocations, and every caller keeps the block it was given.             *)
(***************************************************************************)
EXTENDS Malloc, WellFoundedInduction, TLAPS

(* RoundUp does not wrap the sizes callers ask for. *)
SizesDoNotWrap == \A size \in Sizes : size <= 2^W - kMinSize

-----------------------------------------------------------------------------
(* Remainders. *)

(* A number that a divides is a multiple of a. *)
LEMMA IsMultiple ==
    ASSUME NEW a \in Nat \ {0}, NEW x \in Int, x % a = 0
    PROVE  \E q \in Int : x = a * q
    OBVIOUS

(* A multiple of a is one that a divides. *)
LEMMA MultipleIs ==
    ASSUME NEW a \in Nat \ {0}, NEW q \in Int
    PROVE  (a * q) % a = 0
    OBVIOUS

(* Sums and differences of multiples. *)
LEMMA MultiplesAdd ==
    ASSUME NEW a \in Nat \ {0}, NEW x \in Int, NEW y \in Int, x % a = 0, y % a = 0
    PROVE  (x + y) % a = 0 /\ (x - y) % a = 0
<1>1. PICK q \in Int, r \in Int : x = a * q /\ y = a * r
    BY IsMultiple
<1>2. x + y = a * (q + r) /\ x - y = a * (q - r)
    BY <1>1
<1>3. (a * (q + r)) % a = 0 /\ (a * (q - r)) % a = 0
    BY MultipleIs
<1>. QED  BY <1>2, <1>3, Zenon

(* What divides a divisor. *)
LEMMA DivisorsDivide ==
    ASSUME NEW a \in Nat \ {0}, NEW b \in Nat \ {0}, NEW x \in Int, x % a = 0, a % b = 0
    PROVE  x % b = 0
<1>1. PICK q \in Int, r \in Int : x = a * q /\ a = b * r
    BY IsMultiple
<1>2. x = b * (r * q)
    BY <1>1
<1>3. (b * (r * q)) % b = 0
    BY MultipleIs
<1>. QED  BY <1>2, <1>3, Zenon

(* The next multiple of a is a further on. *)
LEMMA MultiplesAreApart ==
    ASSUME NEW a \in Nat \ {0}, NEW x \in Int, NEW y \in Int, x % a = 0, y % a = 0, x < y
    PROVE  x + a <= y
<1>1. PICK d : d = y - x
    OBVIOUS
<1>2. d % a = 0
    BY <1>1, MultiplesAdd, Zenon
<1>3. d \in Int /\ d > 0
    BY <1>1
<1>4. d >= a
    BY <1>2, <1>3
<1>. QED  BY <1>1, <1>4

(* The largest multiple of a that is not above y. *)
LEMMA RoundDown ==
    ASSUME NEW a \in Nat \ {0}, NEW y \in Nat
    PROVE  /\ y - (y % a) \in Nat /\ (y - (y % a)) % a = 0
           /\ y - (y % a) <= y /\ y < y - (y % a) + a
           /\ y < a => y - (y % a) = 0
<1>1. y % a \in 0 .. a - 1
    OBVIOUS
<1>2. (y - (y % a)) % a = 0
    <2>1. y - (y % a) = a * (y \div a)
        OBVIOUS
    <2>2. y \div a \in Int
        OBVIOUS
    <2>3. (a * (y \div a)) % a = 0
        BY <2>2, MultipleIs
    <2>. QED  BY <2>1, <2>3, Zenon
<1>3. y < a => y % a = y
    OBVIOUS
<1>4. y % a <= y
    BY <1>1, <1>3
<1>. QED  BY <1>1, <1>2, <1>3, <1>4

(* What a word's remainder is for numbers less than a word away. *)
LEMMA Wraps ==
    ASSUME NEW a \in Nat \ {0}, NEW x \in Int
    PROVE  /\ 0 <= x /\ x < a => x % a = x
           /\ a <= x /\ x < a + a => x % a = x - a
           /\ -a <= x /\ x < 0 => x % a = x + a
<1>1. ASSUME 0 <= x, x < a PROVE x % a = x
    BY <1>1
<1>2. ASSUME a <= x, x < a + a PROVE x % a = x - a
    BY <1>2
<1>3. ASSUME -a <= x, x < 0 PROVE x % a = x + a
    BY <1>3
<1>. QED  BY <1>1, <1>2, <1>3

(* Half a word and a word. *)
LEMMA Words ==
    /\ 2^W \in Nat \ {0} /\ 2^(W - 1) \in Nat /\ 2^W = 2 * 2^(W - 1)
    /\ kSizeMax = 2^(W - 1) - 1
    /\ \A x : Word(x) = x % 2^W
<1>1. 2^W \in Nat /\ 2^W = 2 * 2^(W - 1)
    BY PowersOfTwo
<1>2. \E i : i \in DOMAIN Allocations
    BY MallocAssumption
<1>3. 2^W > 0
    <2>1. PICK i \in DOMAIN Allocations : Allocations[i] > 0 /\ Allocations[i] + 2 * AllocSize <= 2^W
        BY <1>2, MallocAssumption
    <2>2. Allocations[i] \in Nat /\ AllocSize \in Nat
        BY MallocAssumption
    <2>. QED  BY <1>1, <2>1, <2>2
<1>4. 2^(W - 1) \in Nat
    <2>1. W - 1 \in 0 .. W - 1
        BY MallocAssumption
    <2>. QED  BY <2>1, PowersOfTwo
<1>. QED  BY <1>1, <1>3, <1>4 DEF kSizeMax, Word

(* Where Partition puts a block it does not refuse: aligned, inside the block of
   m, and either at its start or with room for a block in front.  RoundUp may
   wrap; the conditions of Fits then fail, because m is in the upper half. *)
LEMMA PlaceIsInside ==
    ASSUME NEW m \in Nat, m % 4 = 0, NEW end \in Nat, end % 4 = 0, Addr(m) < end,
           NEW align \in Nat, align >= 4, align % 4 = 0, 2^W % align = 0, align <= 2^(W - 1),
           NEW size \in Nat, Addr(m) + size <= end, end + size < 2^W,
           \/ Addr(m) % align = 0
           \/ /\ Word(Place(m, align) + size) <= end
              /\ Word(end - Place(m, align)) \in 1 .. kSizeMax
    PROVE  /\ Place(m, align) \in Nat
           /\ Place(m, align) % align = 0 /\ Place(m, align) % 4 = 0
           /\ Place(m, align) = Addr(m) \/ Place(m, align) >= Addr(m) + 8
           /\ Place(m, align) + size <= end
<1>1. PICK M, H, addr, p : M = 2^W /\ H = 2^(W - 1) /\ addr = Addr(m) /\ p = Place(m, align)
    BY Zenon
<1>2. M \in Nat \ {0} /\ H \in Nat /\ M = 2 * H /\ kSizeMax = H - 1
    BY <1>1, Words
<1>3. addr \in Nat /\ addr = m + 4 /\ addr % 4 = 0
    BY <1>1 DEF Addr, kMinSize
<1>4. align \in Nat \ {0} /\ M % align = 0 /\ align <= H
    BY <1>1
<1>5. PICK y, up : y = Word(addr + align - 1) /\ up = y - (y % align)
    BY Zenon
<1>6. p = IF addr % align = 0 THEN addr
          ELSE IF Word(up - addr) = 4 THEN Word(up + align) ELSE up
    BY <1>1, <1>5, Zenon DEF Place, RoundUp, kMinSize
<1>7. \A x \in Int : /\ 0 <= x /\ x < M => Word(x) = x
                     /\ M <= x /\ x < M + M => Word(x) = x - M
                     /\ -M <= x /\ x < 0 => Word(x) = x + M
    BY <1>1, <1>2, Wraps, Words, SMTT(60)
<1>8. ASSUME NEW x \in Nat, x % align = 0 PROVE x % 4 = 0
    <2>1. x \in Int /\ 4 \in Nat \ {0}
        OBVIOUS
    <2>. QED  BY <1>4, <1>8, <2>1, DivisorsDivide, Zenon
<1>9. SUFFICES p \in Nat /\ p % align = 0 /\ (p = addr \/ p >= addr + 8) /\ p + size <= end
    BY <1>1, <1>9, <1>8, Zenon
<1>10. CASE addr % align = 0
    BY <1>1, <1>3, <1>6, <1>10
<1>11. CASE addr % align # 0
    <2>1. Word(p + size) <= end /\ Word(end - p) \in 1 .. H - 1
        BY <1>1, <1>2, <1>11, Zenon
    <2>2. addr < end /\ end < M /\ addr + size <= end /\ addr + 4 <= end
        BY <1>1, <1>3
    (* A place below the end, and not above it by wrapping. *)
    <2>3. ASSUME p \in Nat, p < M, p <= end + H
          PROVE  p + size <= end
        <3>1. p < end
            <4>1. SUFFICES ASSUME p >= end PROVE FALSE
                BY <2>3
            <4>2. end - p \in Int /\ -M <= end - p /\ end - p <= 0
                BY <1>2, <2>3, <4>1, <2>2
            <4>3. CASE end = p
                <5>1. Word(0) = 0
                    BY <1>2, <1>7
                <5>. QED  BY <2>1, <4>3, <5>1
            <4>4. CASE end # p
                <5>1. Word(end - p) = end - p + M
                    BY <4>2, <4>4, <1>7, <2>3
                <5>. QED  BY <1>2, <2>1, <2>3, <5>1
            <4>. QED  BY <4>3, <4>4
        <3>2. p + size \in Int /\ 0 <= p + size /\ p + size < M
            BY <1>1, <2>3, <3>1
        <3>3. Word(p + size) = p + size
            BY <1>7, <3>2, Zenon
        <3>. QED  BY <2>1, <3>3
    <2>4. ~(p = 0 /\ end >= H)
        <3>1. SUFFICES ASSUME p = 0, end >= H PROVE FALSE
            OBVIOUS
        <3>2. Word(end - 0) = end
            BY <1>7, <2>2
        <3>. QED  BY <1>2, <2>1, <3>1, <3>2
    <2>5. CASE addr + align - 1 < M
        <3>1. y = addr + align - 1 /\ y \in Nat
            BY <1>3, <1>4, <1>5, <1>7, <2>5
        <3>2. up \in Nat /\ up % align = 0 /\ up <= y /\ y < up + align
            BY <1>4, <1>5, <3>1, RoundDown
        <3>3. addr < up
            <4>1. up # addr
                BY <1>11, <3>2
            <4>. QED  BY <1>3, <1>4, <3>1, <3>2, <4>1
        <3>4. up % 4 = 0
            BY <1>8, <3>2, Zenon
        <3>5. Word(up - addr) = up - addr
            <4>1. up - addr \in Int /\ 0 <= up - addr /\ up - addr < M
                BY <1>2, <1>3, <2>5, <3>1, <3>2, <3>3
            <4>. QED  BY <1>7, <4>1, Zenon
        <3>6. CASE up - addr = 4
            <4>1. p = Word(up + align)
                BY <1>6, <1>11, <3>5, <3>6, Zenon
            <4>2. up + align <= M
                <5>1. up < M
                    BY <1>2, <1>3, <2>5, <3>1, <3>2
                <5>2. up \in Int /\ M \in Int
                    BY <1>2, <3>2
                <5>. QED  BY <1>4, <3>2, <5>1, <5>2, MultiplesAreApart, Zenon
            <4>3. CASE up + align = M
                <5>1. p = 0
                    BY <1>2, <1>7, <4>1, <4>3
                <5>2. end >= H
                    BY <1>2, <1>3, <1>4, <2>2, <3>2, <3>6, <4>3
                <5>. QED  BY <2>4, <5>1, <5>2
            <4>4. CASE up + align # M
                <5>1. p = up + align
                    <6>1. up + align \in Int /\ 0 <= up + align /\ up + align < M
                        BY <1>2, <1>4, <3>2, <4>2, <4>4
                    <6>. QED  BY <1>7, <4>1, <6>1, Zenon
                <5>2. p % align = 0
                    <6>1. align % align = 0
                        BY <1>4
                    <6>. QED  BY <1>4, <3>2, <5>1, <6>1, MultiplesAdd, SMTT(60)
                <5>3. p \in Nat /\ p < M /\ p <= end + H /\ p >= addr + 8
                    BY <1>2, <1>3, <1>4, <2>2, <3>2, <3>6, <4>2, <4>4, <5>1
                <5>. QED  BY <2>3, <5>2, <5>3
            <4>. QED  BY <4>3, <4>4
        <3>7. CASE up - addr # 4
            <4>1. p = up
                BY <1>6, <1>11, <3>5, <3>7, Zenon
            <4>2. up >= addr + 8
                BY <1>3, <3>2, <3>3, <3>4, <3>7
            <4>3. p < M /\ p <= end + H
                BY <1>2, <1>3, <1>4, <2>2, <2>5, <3>1, <3>2, <4>1
            <4>. QED  BY <2>3, <3>2, <4>1, <4>2, <4>3
        <3>. QED  BY <3>6, <3>7
    <2>6. CASE addr + align - 1 >= M
        <3>1. y = addr + align - 1 - M /\ y \in Nat /\ y < align
            BY <1>2, <1>3, <1>4, <1>5, <1>7, <2>2, <2>6
        <3>2. up = 0
            BY <1>4, <1>5, <3>1, RoundDown
        <3>3. Word(up - addr) = M - addr
            <4>1. up - addr \in Int /\ -M <= up - addr /\ up - addr < 0 /\ up - addr + M = M - addr
                BY <1>2, <1>3, <2>2, <3>2
            <4>. QED  BY <1>7, <4>1, Zenon
        <3>4. p = 0
            <4>1. M - addr # 4
                BY <1>2, <1>3, <2>2
            <4>. QED  BY <1>6, <1>11, <3>2, <3>3, <4>1, Zenon
        <3>5. end >= H
            BY <1>2, <1>3, <1>4, <2>2, <2>6
        <3>. QED  BY <2>4, <3>4, <3>5
    <2>. QED  BY <1>3, <1>4, <1>2, <2>5, <2>6
<1>. QED  BY <1>10, <1>11

-----------------------------------------------------------------------------
(* Blocks that tile the allocations. *)

(* A set of numbers has a smallest one. *)
LEMMA Least ==
    ASSUME NEW T, T \subseteq Nat, T # {}
    PROVE  \E n \in T : \A x \in T : n <= x
<1>. DEFINE R == {ss \in Nat \X Nat : ss[1] < ss[2]}
<1>1. IsWellFoundedOn(R, Nat)
    BY NatLessThanWellFounded, Zenon DEF OpToRel
<1>. HIDE DEF R
<1>2. PICK n \in T : \A y \in T : ~(<<y, n>> \in R)
    BY <1>1, WFMin, Zenon
<1>3. ASSUME NEW x \in T PROVE n <= x
    <2>1. ~(<<x, n>> \in R) /\ x \in Nat /\ n \in Nat
        BY <1>2
    <2>. QED  BY <2>1 DEF R
<1>. QED  BY <1>3, Zenon

(* What MallocAssumption says of the allocations, for a list of some of them. *)
Apart(list) ==
    /\ \A i \in DOMAIN list :
        /\ i \in Nat /\ list[i] \in Nat /\ list[i] > 0 /\ list[i] % 4 = 0
        /\ list[i] + 2 * AllocSize <= 2^W
    /\ \A i, j \in DOMAIN list :
        i # j => list[i] + AllocSize <= list[j] \/ list[j] + AllocSize <= list[i]

(* D are the headers and E[m] is where the block of m ends.  They start behind
   the header of the allocation, follow one another and do not overlap. *)
Tiling(list, D, E) ==
    /\ D \subseteq Nat /\ E \in [D -> Nat]
    /\ \A i \in DOMAIN list : list[i] + 8 \in D
    /\ \A m \in D : m % 4 = 0 /\ E[m] % 4 = 0 /\ m + 4 < E[m]
    /\ \A m \in D : \E i \in DOMAIN list :
        /\ list[i] + 8 <= m /\ E[m] <= list[i] + AllocSize
        /\ E[m] = list[i] + AllocSize \/ E[m] \in D
    /\ \A m, n \in D : m < n => E[m] <= n

(* An address is in one allocation. *)
LEMMA AllocIs ==
    ASSUME NEW list, Apart(list), NEW i \in DOMAIN list,
           NEW m \in Nat, list[i] <= m, m < list[i] + AllocSize
    PROVE  AllocOf(list, m) = i
<1>1. \A j \in DOMAIN list : m \in list[j] .. list[j] + AllocSize - 1 <=> j = i
    <2>1. AllocSize \in Nat
        BY MallocAssumption
    <2>. QED  BY <2>1 DEF Apart
<1>. QED  BY <1>1, Zenon DEF AllocOf

(* Where the allocation of m ends, and where a block that takes in all headers
   behind m that are not kept does. *)
Limit(list, m) == list[AllocOf(list, m)] + AllocSize
StopAt(list, kept, m) ==
    CHOOSE n \in kept \cup {Limit(list, m)} :
        n > m /\ \A x \in kept \cup {Limit(list, m)} : m < x => n <= x

(* Where a header is, and where its block ends. *)
LEMMA HeaderIs ==
    ASSUME NEW list, Apart(list), NEW D, NEW E, Tiling(list, D, E), NEW m \in D
    PROVE  /\ m \in Nat /\ E[m] \in Nat /\ Limit(list, m) \in Nat /\ m + 4 < E[m]
           /\ m % 4 = 0 /\ E[m] % 4 = 0 /\ Limit(list, m) % 4 = 0
           /\ AllocOf(list, m) \in DOMAIN list
           /\ list[AllocOf(list, m)] + 8 <= m /\ E[m] <= Limit(list, m)
           /\ E[m] = Limit(list, m) \/ E[m] \in D
<1>1. PICK i \in DOMAIN list : /\ list[i] + 8 <= m /\ E[m] <= list[i] + AllocSize
                               /\ E[m] = list[i] + AllocSize \/ E[m] \in D
    BY Zenon DEF Tiling
<1>2. m \in Nat /\ E[m] \in Nat /\ m + 4 < E[m] /\ m % 4 = 0 /\ E[m] % 4 = 0
    BY DEF Tiling
<1>3. list[i] \in Nat /\ list[i] % 4 = 0 /\ AllocSize \in Nat /\ AllocSize % 4 = 0
    BY MallocAssumption DEF Apart, kMinSize
<1>4. AllocOf(list, m) = i
    <2>1. list[i] <= m /\ m < list[i] + AllocSize
        BY <1>1, <1>2, <1>3
    <2>. QED  BY <1>2, <2>1, AllocIs
<1>5. PICK l : l = list[i] + AllocSize
    BY Zenon
<1>6. l \in Nat /\ l % 4 = 0
    BY <1>3, <1>5
<1>. QED  BY <1>1, <1>2, <1>4, <1>5, <1>6, Zenon DEF Limit

(* That is the next kept header or the end of the allocation. *)
LEMMA StopsNext ==
    ASSUME NEW list, Apart(list), NEW D, NEW E, Tiling(list, D, E),
           NEW kept, kept \subseteq D, NEW m \in D
    PROVE  /\ StopAt(list, kept, m) \in kept \cup {Limit(list, m)}
           /\ E[m] <= StopAt(list, kept, m) /\ StopAt(list, kept, m) <= Limit(list, m)
           /\ \A n \in kept : m < n => StopAt(list, kept, m) <= n
           /\ E[m] \in kept \cup {Limit(list, m)} => StopAt(list, kept, m) = E[m]
<1>1. PICK C, l : C = kept \cup {Limit(list, m)} /\ l = Limit(list, m)
    BY Zenon
<1>2. /\ m \in Nat /\ E[m] \in Nat /\ l \in Nat /\ m + 4 < E[m] /\ E[m] <= l
      /\ E[m] = l \/ E[m] \in D
    BY <1>1, HeaderIs, Zenon
<1>3. \A n \in kept : n \in Nat /\ (m < n => E[m] <= n)
    BY DEF Tiling
<1>4. l \in C /\ m < l /\ C \subseteq Nat
    <2>1. l \in C /\ \A x \in C : x \in Nat
        BY <1>1, <1>2, <1>3, Zenon
    <2>2. m < l
        BY <1>2
    <2>. QED  BY <2>1, <2>2, Zenon
<1>5. PICK T : T = {x \in C : m < x}
    BY Zenon
<1>6. T \subseteq Nat /\ T # {}
    BY <1>4, <1>5, Zenon
<1>7. PICK n \in T : \A x \in T : n <= x
    BY <1>6, Least, Zenon
<1>8. n \in C /\ n > m /\ \A x \in C : m < x => n <= x
    BY <1>4, <1>5, <1>7
<1>9. PICK s : s = StopAt(list, kept, m)
    BY Zenon
<1>10. s \in C /\ s > m /\ \A x \in C : m < x => s <= x
    BY <1>1, <1>8, <1>9, Zenon DEF StopAt
<1>11. E[m] <= s
    BY <1>1, <1>2, <1>3, <1>10
<1>12. s <= l
    BY <1>4, <1>10
<1>13. E[m] \in C => s = E[m]
    BY <1>2, <1>4, <1>10, <1>11
<1>. QED  BY <1>1, <1>9, <1>10, <1>11, <1>12, <1>13, Zenon

(* Headers that are not the first of an allocation may go. *)
LEMMA KeptTile ==
    ASSUME NEW list, Apart(list), NEW D, NEW E, Tiling(list, D, E),
           NEW kept, kept \subseteq D, \A i \in DOMAIN list : list[i] + 8 \in kept
    PROVE  Tiling(list, kept, [m \in kept |-> StopAt(list, kept, m)])
<1>1. PICK F : F = [m \in kept |-> StopAt(list, kept, m)]
    BY Zenon
<1>2. ASSUME NEW m \in kept
      PROVE  /\ F[m] = Limit(list, m) \/ F[m] \in kept
             /\ E[m] <= F[m] /\ F[m] <= Limit(list, m)
             /\ \A n \in kept : m < n => F[m] <= n
    <2>1. m \in D
        OBVIOUS
    <2>2. /\ StopAt(list, kept, m) \in kept \cup {Limit(list, m)}
          /\ E[m] <= StopAt(list, kept, m) /\ StopAt(list, kept, m) <= Limit(list, m)
          /\ \A n \in kept : m < n => StopAt(list, kept, m) <= n
        BY <2>1, StopsNext
    <2>3. F[m] = StopAt(list, kept, m)
        BY <1>1, <1>2, Zenon
    <2>. QED  BY <2>2, <2>3, Zenon
<1>3. ASSUME NEW m \in kept
      PROVE  /\ m \in Nat /\ E[m] \in Nat /\ Limit(list, m) \in Nat /\ m + 4 < E[m]
             /\ m % 4 = 0 /\ Limit(list, m) % 4 = 0
             /\ AllocOf(list, m) \in DOMAIN list
             /\ list[AllocOf(list, m)] + 8 <= m
    BY HeaderIs
<1>4. ASSUME NEW m \in kept
      PROVE  F[m] \in Nat /\ F[m] % 4 = 0 /\ m + 4 < F[m]
    <2>1. F[m] \in Nat /\ F[m] % 4 = 0
        BY <1>2, <1>3, Zenon
    <2>. QED  BY <1>2, <1>3, <2>1
<1>5. kept \subseteq Nat /\ F \in [kept -> Nat]
    BY <1>1, <1>3, <1>4
<1>6. ASSUME NEW m \in kept
      PROVE  \E i \in DOMAIN list : /\ list[i] + 8 <= m /\ F[m] <= list[i] + AllocSize
                                    /\ F[m] = list[i] + AllocSize \/ F[m] \in kept
    BY <1>2, <1>3, Zenon DEF Limit
<1>7. Tiling(list, kept, F)
    BY <1>2, <1>3, <1>4, <1>5, <1>6, Zenon DEF Tiling
<1>. QED  BY <1>1, <1>7, Zenon

-----------------------------------------------------------------------------

Blocks == [size : Nat, used : BOOLEAN]
Ends(h) == [m \in DOMAIN h |-> End(h, m)]
Tiled(list, h) == h \in [DOMAIN h -> Blocks] /\ Tiling(list, DOMAIN h, Ends(h))
InUse(h) == {m \in DOMAIN h : h[m].used}

(* From h to r the blocks in use stay what they are ... *)
IsKept(list, h, r) ==
    Tiled(list, r) /\ InUse(r) = InUse(h) /\ \A k \in InUse(h) : r[k] = h[k]

(* ... or there is one more, at the address at and of that size or more. *)
IsGiven(list, h, size, at, r) ==
    /\ Tiled(list, r)
    /\ at - 4 \notin InUse(h) /\ InUse(r) = InUse(h) \cup {at - 4}
    /\ \A k \in InUse(h) : r[k] = h[k]
    /\ r[at - 4].size >= size

(* A header that goes away is free and follows a free one. *)
LEMMA MergedIs ==
    ASSUME NEW list, NEW h, NEW n \in Merged(list, h)
    PROVE  /\ n \in DOMAIN h /\ ~h[n].used
           /\ \E m \in DOMAIN h : ~h[m].used /\ End(h, m) = n
<1>1. \A a : HeadersIn(h, a) \subseteq DOMAIN h
    BY Zenon DEF HeadersIn
<1>. QED  BY <1>1, Zenon DEF Merged

IsBlock(r, m, used, end) == r[m] \in Blocks /\ r[m].used = used /\ End(r, m) = end

(* A block ends where the next one does if that goes away behind it. *)
LEMMA StopsWithNext ==
    ASSUME NEW list, Apart(list), NEW D, NEW E, Tiling(list, D, E),
           NEW kept, kept \subseteq D, NEW m \in D, E[m] \in D, E[m] \notin kept
    PROVE  StopAt(list, kept, m) = StopAt(list, kept, E[m])
<1>1. PICK e, s, t, l : /\ e = E[m] /\ s = StopAt(list, kept, m) /\ t = StopAt(list, kept, e)
                        /\ l = Limit(list, m)
    BY Zenon
<1>2. e \in D /\ e \notin kept
    BY <1>1, Zenon
<1>3. /\ m \in Nat /\ e \in Nat /\ l \in Nat /\ m + 4 < e /\ e <= l
      /\ AllocOf(list, m) \in DOMAIN list /\ list[AllocOf(list, m)] + 8 <= m
    BY <1>1, HeaderIs, Zenon
<1>4. E[e] \in Nat /\ e + 4 < E[e] /\ AllocOf(list, e) \in DOMAIN list
      /\ list[AllocOf(list, e)] + 8 <= e /\ E[e] <= Limit(list, e)
    BY <1>2, HeaderIs, Zenon
<1>5. Limit(list, e) = l
    <2>1. PICK i, j : i = AllocOf(list, m) /\ j = AllocOf(list, e)
        BY Zenon
    <2>2. /\ i \in DOMAIN list /\ j \in DOMAIN list /\ list[i] \in Nat /\ list[j] \in Nat
          /\ l = list[i] + AllocSize /\ Limit(list, e) = list[j] + AllocSize
          /\ i # j => list[i] + AllocSize <= list[j] \/ list[j] + AllocSize <= list[i]
        BY <1>1, <1>3, <1>4, <2>1, Zenon DEF Limit, Apart
    <2>3. AllocSize \in Nat
        BY MallocAssumption
    <2>4. list[i] + 8 <= m /\ list[j] + 8 <= e
        BY <1>3, <1>4, <2>1, Zenon
    <2>5. i = j
        BY <1>3, <1>4, <2>2, <2>3, <2>4
    <2>. QED  BY <2>2, <2>5, Zenon
<1>6. /\ s \in kept \cup {l} /\ e <= s /\ s <= l
      /\ \A n \in kept : m < n => s <= n
    BY <1>1, StopsNext, Zenon
<1>7. /\ t \in kept \cup {l} /\ E[e] <= t /\ t <= l
      /\ \A n \in kept : e < n => t <= n
    <2>1. /\ StopAt(list, kept, e) \in kept \cup {Limit(list, e)}
          /\ E[e] <= StopAt(list, kept, e) /\ StopAt(list, kept, e) <= Limit(list, e)
          /\ \A n \in kept : e < n => StopAt(list, kept, e) <= n
        BY <1>2, StopsNext
    <2>. QED  BY <1>1, <1>5, <2>1, Zenon
<1>8. s \in Nat /\ t \in Nat
    BY <1>3, <1>6, <1>7 DEF Tiling
<1>9. s # e
    <2>1. e # l
        BY <1>3, <1>4, <1>5
    <2>. QED  BY <1>2, <1>6, <2>1, Zenon
<1>10. t <= s
    BY <1>3, <1>6, <1>7, <1>8, <1>9
<1>11. s <= t
    BY <1>3, <1>4, <1>6, <1>7, <1>8
<1>. QED  BY <1>1, <1>8, <1>10, <1>11

(* What IncSize says of the size of a block and of the next one ... *)
Grows(h, gone, f) ==
    [m \in DOMAIN h |-> IF ~h[m].used /\ End(h, m) \in gone
                        THEN h[m].size + kMinSize + f[End(h, m)] ELSE h[m].size]

(* ... holds of no two functions, as headers only go away towards the end. *)
LEMMA GrowsOneWay ==
    ASSUME NEW list, Apart(list), NEW h, Tiled(list, h), NEW gone, gone \subseteq DOMAIN h,
           NEW f, f = Grows(h, gone, f), NEW g, g = Grows(h, gone, g)
    PROVE  f = g
<1>1. PICK D, E, top : D = DOMAIN h /\ E = Ends(h) /\ top = 2^W
    BY Zenon
<1>2. Tiling(list, D, E) /\ \A m \in D : E[m] = End(h, m)
    BY <1>1, Zenon DEF Tiled, Ends
<1>3. top \in Nat
    BY <1>1, PowersOfTwo
<1>4. ASSUME NEW m \in D PROVE m \in Nat /\ E[m] \in Nat /\ m < E[m] /\ m < top
    <2>1. PICK i \in DOMAIN list : list[i] + 8 <= m /\ E[m] <= list[i] + AllocSize
        BY <1>2, Zenon DEF Tiling
    <2>2. m \in Nat /\ E[m] \in Nat /\ m + 4 < E[m]
        BY <1>2, HeaderIs
    <2>3. list[i] \in Nat /\ list[i] + 2 * AllocSize <= top /\ AllocSize \in Nat
        BY <1>1, MallocAssumption DEF Apart
    <2>. QED  BY <1>3, <2>1, <2>2, <2>3
<1>5. DOMAIN f = D /\ DOMAIN g = D /\ f = [m \in D |-> f[m]] /\ g = [m \in D |-> g[m]]
    BY <1>1, Zenon DEF Grows
<1>6. PICK B, T : B = {m \in D : f[m] # g[m]} /\ T = {top - m : m \in B}
    BY Zenon
<1>7. CASE B = {}
    <2>1. \A m \in D : f[m] = g[m]
        BY <1>6, <1>7, Zenon
    <2>. QED  BY <1>5, <2>1, Zenon
<1>8. CASE B # {}
    <2>1. T \subseteq Nat /\ T # {}
        <3>1. \A m \in B : top - m \in Nat
            BY <1>3, <1>4, <1>6
        <3>. QED  BY <1>6, <1>8, <3>1, Zenon
    <2>2. PICK n \in T : \A x \in T : n <= x
        BY <2>1, Least, Zenon
    <2>3. PICK m \in B : n = top - m
        BY <1>6, <2>2, Zenon
    <2>4. m \in D /\ f[m] # g[m]
        BY <1>6, <2>3, Zenon
    <2>5. ASSUME NEW k \in D, m < k PROVE f[k] = g[k]
        <3>1. SUFFICES ASSUME k \in B PROVE FALSE
            BY <1>6, <2>5, Zenon
        <3>2. top - m <= top - k
            BY <1>6, <2>2, <2>3, <3>1, Zenon
        <3>. QED  BY <1>3, <1>4, <2>4, <2>5, <3>2
    <2>6. /\ f[m] = IF ~h[m].used /\ E[m] \in gone THEN h[m].size + kMinSize + f[E[m]] ELSE h[m].size
          /\ g[m] = IF ~h[m].used /\ E[m] \in gone THEN h[m].size + kMinSize + g[E[m]] ELSE h[m].size
        <3>1. m \in DOMAIN h /\ End(h, m) = E[m]
            BY <1>1, <1>2, <2>4, Zenon
        <3>2. /\ f[m] = Grows(h, gone, f)[m]
              /\ g[m] = Grows(h, gone, g)[m]
            BY Zenon
        <3>. QED  BY <3>1, <3>2, Zenon DEF Grows
    <2>7. E[m] \in gone => f[E[m]] = g[E[m]]
        BY <1>1, <1>4, <2>4, <2>5, Zenon
    <2>. QED  BY <2>4, <2>6, <2>7, Zenon
<1>. QED  BY <1>7, <1>8

(* A header that goes away follows no block in use. *)
LEMMA OnlyFreeOnesGrow ==
    ASSUME NEW list, Apart(list), NEW h, Tiled(list, h), NEW m \in DOMAIN h,
           End(h, m) \in Merged(list, h)
    PROVE  ~h[m].used
<1>1. PICK D, E : D = DOMAIN h /\ E = Ends(h)
    BY Zenon
<1>2. Tiling(list, D, E) /\ \A k \in D : E[k] = End(h, k)
    BY <1>1, Zenon DEF Tiled, Ends
<1>3. PICK k \in D : ~h[k].used /\ End(h, k) = End(h, m)
    BY <1>1, MergedIs
<1>4. m \in D /\ E[k] = E[m]
    BY <1>1, <1>2, <1>3, Zenon
<1>5. m \in Nat /\ k \in Nat /\ m < E[m] /\ k < E[k] /\ E[m] \in Nat
    BY <1>2, <1>4, HeaderIs
<1>6. (m < k => E[m] <= k) /\ (k < m => E[k] <= m)
    BY <1>2, <1>4, Zenon DEF Tiling
<1>7. k = m
    BY <1>4, <1>5, <1>6
<1>. QED  BY <1>3, <1>7, Zenon

(* IncSize makes a block reach to the next kept header, or to the end. *)
LEMMA IncSizeIs ==
    ASSUME NEW list, Apart(list), NEW h, Tiled(list, h),
           NEW gone, gone = Merged(list, h), NEW kept, kept = DOMAIN h \ gone
    PROVE  \A m \in DOMAIN h : IncSize(h, gone)[m] = StopAt(list, kept, m) - Addr(m)
<1>1. PICK D, E : D = DOMAIN h /\ E = Ends(h)
    BY Zenon
<1>2. /\ Tiling(list, D, E) /\ h \in [D -> Blocks] /\ kept \subseteq D
      /\ \A m \in D : E[m] = End(h, m)
    BY <1>1, Zenon DEF Tiled, Ends
<1>3. gone \subseteq DOMAIN h
    BY MergedIs
<1>4. PICK g : g = [m \in D |-> StopAt(list, kept, m) - Addr(m)]
    BY Zenon
<1>5. ASSUME NEW m \in D
      PROVE  g[m] = IF ~h[m].used /\ End(h, m) \in gone
                    THEN h[m].size + kMinSize + g[End(h, m)] ELSE h[m].size
    <2>1. PICK e, s : e = E[m] /\ s = StopAt(list, kept, m)
        BY Zenon
    <2>2. /\ m \in Nat /\ h[m].size \in Nat /\ e = m + 4 + h[m].size /\ e = End(h, m)
          /\ g[m] = s - (m + 4)
        <3>1. m \in Nat /\ h[m].size \in Nat
            BY <1>2, <1>5, HeaderIs DEF Blocks
        <3>2. e = Addr(m) + h[m].size /\ e = End(h, m) /\ g[m] = s - Addr(m)
            BY <1>2, <1>4, <1>5, <2>1, Zenon DEF End
        <3>. QED  BY <3>1, <3>2 DEF Addr, kMinSize
    <2>3. CASE ~h[m].used /\ End(h, m) \in gone
        <3>1. e \in D /\ e \notin kept /\ e \in Nat
            BY <1>1, <1>2, <1>3, <2>2, <2>3, HeaderIs
        <3>2. s = StopAt(list, kept, e)
            <4>1. E[m] \in D /\ E[m] \notin kept
                BY <2>1, <3>1, Zenon
            <4>2. StopAt(list, kept, m) = StopAt(list, kept, E[m])
                BY <1>2, <1>5, <4>1, StopsWithNext
            <4>. QED  BY <2>1, <4>2, Zenon
        <3>3. s \in Nat
            <4>1. s \in kept \cup {Limit(list, m)} /\ Limit(list, m) \in Nat
                BY <1>2, <2>1, StopsNext, HeaderIs, Zenon
            <4>2. kept \subseteq Nat
                BY <1>2, Zenon DEF Tiling
            <4>. QED  BY <4>1, <4>2, Zenon
        <3>4. g[e] = s - (e + 4)
            BY <1>4, <3>1, <3>2, Zenon DEF Addr, kMinSize
        <3>5. g[m] = h[m].size + 4 + g[e]
            BY <2>2, <3>1, <3>3, <3>4
        <3>. QED  BY <2>2, <2>3, <3>5, Zenon DEF kMinSize
    <2>4. CASE ~(~h[m].used /\ End(h, m) \in gone)
        <3>1. e \notin gone
            BY <1>1, <2>2, <2>4, OnlyFreeOnesGrow
        <3>2. e = Limit(list, m) \/ e \in D
            BY <1>2, <2>1, HeaderIs, Zenon
        <3>3. e \in kept \cup {Limit(list, m)}
            BY <1>1, <3>1, <3>2, Zenon
        <3>4. s = e
            <4>1. /\ StopAt(list, kept, m) \in kept \cup {Limit(list, m)}
                  /\ E[m] <= StopAt(list, kept, m) /\ StopAt(list, kept, m) <= Limit(list, m)
                  /\ \A n \in kept : m < n => StopAt(list, kept, m) <= n
                  /\ E[m] \in kept \cup {Limit(list, m)} => StopAt(list, kept, m) = E[m]
                BY <1>2, <1>5, StopsNext
            <4>. QED  BY <2>1, <3>3, <4>1, Zenon
        <3>5. g[m] = h[m].size
            BY <2>2, <3>4
        <3>. QED  BY <2>4, <3>5, Zenon
    <2>. QED  BY <2>3, <2>4
<1>6. g = Grows(h, gone, g)
    BY <1>1, <1>4, <1>5, Zenon DEF Grows
<1>7. PICK f : f = IncSize(h, gone)
    BY Zenon
<1>8. f = CHOOSE x : x = Grows(h, gone, x)
    BY <1>7, Zenon DEF IncSize, Grows
<1>9. f = Grows(h, gone, f)
    BY <1>6, <1>8, Zenon
<1>10. f = g
    BY <1>3, <1>6, <1>9, GrowsOneWay
<1>. QED  BY <1>1, <1>4, <1>7, <1>10, Zenon

(* The kept headers after MergeMallocHeaders ... *)
LEMMA MergedSizes ==
    ASSUME NEW list, Apart(list), NEW h, Tiled(list, h),
           NEW kept, kept = DOMAIN h \ Merged(list, h)
    PROVE  MergeMallocHeaders(list, h)
            = [k \in kept |-> [h[k] EXCEPT !.size = StopAt(list, kept, k) - Addr(k)]]
<1>1. PICK gone : gone = Merged(list, h)
    BY Zenon
<1>2. MergeMallocHeaders(list, h) = [k \in kept |-> [h[k] EXCEPT !.size = IncSize(h, gone)[k]]]
    BY <1>1, Zenon DEF MergeMallocHeaders
<1>3. \A k \in DOMAIN h : IncSize(h, gone)[k] = StopAt(list, kept, k) - Addr(k)
    <2>1. kept = DOMAIN h \ gone
        BY <1>1, Zenon
    <2>. QED  BY <1>1, <2>1, IncSizeIs
<1>4. \A k \in kept : IncSize(h, gone)[k] = StopAt(list, kept, k) - Addr(k)
    BY <1>3, Zenon
<1>. QED  BY <1>2, <1>4, Zenon

(* ... and each of them. *)
LEMMA MergedBlock ==
    ASSUME NEW list, Apart(list), NEW h, Tiled(list, h),
           NEW kept, kept = DOMAIN h \ Merged(list, h),
           NEW r, r = MergeMallocHeaders(list, h), NEW m \in kept
    PROVE  IsBlock(r, m, h[m].used, StopAt(list, kept, m))
<1>1. PICK D, E : D = DOMAIN h /\ E = Ends(h)
    BY Zenon
<1>2. Tiling(list, D, E) /\ h \in [D -> Blocks] /\ kept \subseteq D
    BY <1>1, Zenon DEF Tiled
<1>3. r = [k \in kept |-> [h[k] EXCEPT !.size = StopAt(list, kept, k) - Addr(k)]]
    BY MergedSizes
<1>4. PICK s : s = StopAt(list, kept, m)
    BY Zenon
<1>5. h[m] \in Blocks /\ r[m] = [h[m] EXCEPT !.size = s - Addr(m)]
    BY <1>2, <1>3, <1>4
<1>6. s \in Nat /\ s - Addr(m) \in Nat /\ m \in Nat
    <2>1. E[m] <= s /\ s \in kept \cup {Limit(list, m)}
        BY <1>2, <1>4, StopsNext, Zenon
    <2>2. m + 4 < E[m] /\ m \in Nat /\ E[m] \in Nat /\ Limit(list, m) \in Nat
        BY <1>2, HeaderIs
    <2>3. \A k \in kept : k \in Nat
        BY <1>2, Zenon DEF Tiling
    <2>4. s \in Nat
        BY <2>1, <2>2, <2>3, Zenon
    <2>. QED  BY <2>1, <2>2, <2>4 DEF Addr, kMinSize
<1>7. r[m] \in Blocks /\ r[m].used = h[m].used /\ r[m].size = s - Addr(m)
    BY <1>5, <1>6 DEF Blocks
<1>8. Addr(m) \in Nat
    BY <1>6 DEF Addr, kMinSize
<1>9. End(r, m) = s
    BY <1>6, <1>7, <1>8 DEF End
<1>. QED  BY <1>4, <1>7, <1>9, Zenon DEF IsBlock

(* MergeMallocHeaders leaves blocks that tile, and all that are in use. *)
LEMMA MergeTiles ==
    ASSUME NEW list, Apart(list), NEW h, Tiled(list, h)
    PROVE  IsKept(list, h, MergeMallocHeaders(list, h))
<1>1. PICK kept, D, E, r : /\ kept = DOMAIN h \ Merged(list, h) /\ D = DOMAIN h /\ E = Ends(h)
                           /\ r = MergeMallocHeaders(list, h)
    BY Zenon
<1>2. /\ r = [m \in kept |-> [h[m] EXCEPT !.size = StopAt(list, kept, m) - Addr(m)]]
      /\ \A n \in D : n \notin kept =>
            ~h[n].used /\ \E m \in D : ~h[m].used /\ E[m] = n
    <2>1. r = [m \in kept |-> [h[m] EXCEPT !.size = StopAt(list, kept, m) - Addr(m)]]
        BY <1>1, MergedSizes
    <2>2. \A m \in D : E[m] = End(h, m)
        BY <1>1, Zenon DEF Ends
    <2>3. ASSUME NEW n \in D, n \notin kept
          PROVE  ~h[n].used /\ \E m \in D : ~h[m].used /\ E[m] = n
        <3>1. n \in Merged(list, h)
            BY <1>1, <2>3, Zenon
        <3>2. ~h[n].used /\ \E m \in DOMAIN h : ~h[m].used /\ End(h, m) = n
            BY <3>1, MergedIs
        <3>. QED  BY <1>1, <2>2, <3>2, Zenon
    <2>. QED  BY <2>1, <2>3, Zenon
<1>3. Tiling(list, D, E) /\ h \in [D -> Blocks] /\ kept \subseteq D
    BY <1>1, Zenon DEF Tiled
<1>4. ASSUME NEW m \in D, NEW n \in D, E[m] = E[n] PROVE m = n
    <2>1. m \in Nat /\ n \in Nat /\ m < E[m] /\ n < E[n] /\ E[n] \in Nat
        BY <1>3, HeaderIs
    <2>. QED  BY <1>3, <1>4, <2>1 DEF Tiling
<1>5. ASSUME NEW i \in DOMAIN list PROVE list[i] + 8 \in kept
    <2>1. list[i] + 8 \in D
        BY <1>3 DEF Tiling
    <2>2. SUFFICES ASSUME NEW m \in D, E[m] = list[i] + 8 PROVE FALSE
        BY <1>2, <2>1, Zenon
    <2>3. PICK j \in DOMAIN list : list[j] + 8 <= m /\ E[m] <= list[j] + AllocSize
        BY <1>3, Zenon DEF Tiling
    <2>4. /\ list[i] \in Nat /\ list[j] \in Nat /\ AllocSize \in Nat /\ AllocSize > 12
          /\ i # j => list[i] + AllocSize <= list[j] \/ list[j] + AllocSize <= list[i]
        BY MallocAssumption DEF Apart, kMinSize, kAllocOffset
    <2>5. m \in Nat /\ E[m] \in Nat /\ m < E[m]
        BY <1>3, HeaderIs
    <2>. QED  BY <2>2, <2>3, <2>4, <2>5
<1>6. Tiling(list, kept, [m \in kept |-> StopAt(list, kept, m)])
    BY <1>3, <1>5, KeptTile, Zenon
<1>7. ASSUME NEW m \in kept
      PROVE  r[m] \in Blocks /\ r[m].used = h[m].used /\ End(r, m) = StopAt(list, kept, m)
    <2>1. IsBlock(r, m, h[m].used, StopAt(list, kept, m))
        BY <1>1, MergedBlock, Zenon
    <2>. QED  BY <2>1, Zenon DEF IsBlock
<1>8. DOMAIN r = kept
    BY <1>2, Zenon
<1>9. Ends(r) = [m \in kept |-> StopAt(list, kept, m)]
    BY <1>7, <1>8, Zenon DEF Ends
<1>10. Tiled(list, r)
    <2>1. r \in [kept -> Blocks]
        BY <1>2, <1>7, Zenon
    <2>. QED  BY <1>6, <1>8, <1>9, <2>1, Zenon DEF Tiled
<1>11. InUse(r) = InUse(h)
    BY <1>1, <1>2, <1>3, <1>7, <1>8, Zenon DEF InUse
<1>12. ASSUME NEW m \in InUse(h) PROVE r[m] = h[m]
    <2>1. m \in kept /\ h[m].used
        BY <1>1, <1>2, Zenon DEF InUse
    <2>2. E[m] \in kept \cup {Limit(list, m)}
        <3>1. m \in D
            BY <1>3, <2>1, Zenon
        <3>2. E[m] = Limit(list, m) \/ E[m] \in D
            BY <1>3, <3>1, HeaderIs, Zenon
        <3>3. ASSUME E[m] \in D, E[m] \notin kept PROVE FALSE
            BY <1>2, <1>4, <2>1, <3>1, <3>3, Zenon
        <3>. QED  BY <3>2, <3>3, Zenon
    <2>3. StopAt(list, kept, m) = E[m]
        <3>1. E[m] \in kept \cup {Limit(list, m)} => StopAt(list, kept, m) = E[m]
            <4>1. m \in D
                BY <1>3, <2>1, Zenon
            <4>2. /\ StopAt(list, kept, m) \in kept \cup {Limit(list, m)}
                  /\ E[m] <= StopAt(list, kept, m) /\ StopAt(list, kept, m) <= Limit(list, m)
                  /\ \A n \in kept : m < n => StopAt(list, kept, m) <= n
                  /\ E[m] \in kept \cup {Limit(list, m)} => StopAt(list, kept, m) = E[m]
                BY <1>3, <4>1, StopsNext
            <4>. QED  BY <4>2, Zenon
        <3>. QED  BY <2>2, <3>1, Zenon
    <2>4. m \in Nat /\ h[m] \in Blocks /\ E[m] = Addr(m) + h[m].size
        <3>1. m \in Nat /\ h[m] \in Blocks
            BY <1>3, <2>1, HeaderIs
        <3>2. E[m] = End(h, m)
            BY <1>1, <1>3, <2>1, Zenon DEF Ends
        <3>. QED  BY <3>1, <3>2, Zenon DEF End
    <2>5. StopAt(list, kept, m) - Addr(m) = h[m].size
        BY <2>3, <2>4 DEF Blocks, Addr, kMinSize
    <2>6. r[m] = [h[m] EXCEPT !.size = h[m].size]
        BY <1>2, <2>1, <2>5, Zenon
    <2>. QED  BY <2>4, <2>6 DEF Blocks
<1>. QED  BY <1>1, <1>10, <1>11, <1>12, Zenon DEF IsKept

-----------------------------------------------------------------------------
(* In a heap that has not grown, no free block follows a free one. *)

Joined(h) == \A m, n \in DOMAIN h : ~h[m].used /\ ~h[n].used => End(h, m) # n

(* A header that is not the first follows another. *)
LEMMA Precedes ==
    ASSUME NEW list, Apart(list), DOMAIN list = {1}, NEW D, NEW E, Tiling(list, D, E),
           NEW n \in D, n # list[1] + 8
    PROVE  \E k \in D : E[k] = n
<1>1. PICK a : a = list[1]
    BY Zenon
<1>2. a \in Nat /\ AllocSize \in Nat
    BY <1>1, MallocAssumption DEF Apart
<1>3. /\ a + 8 \in D
      /\ \A k \in D :
            /\ k \in Nat /\ E[k] \in Nat /\ k + 4 < E[k]
            /\ a + 8 <= k /\ E[k] <= a + AllocSize
            /\ E[k] = a + AllocSize \/ E[k] \in D
    BY <1>1 DEF Tiling
<1>4. \A x, y \in D : x < y => E[x] <= y
    BY Zenon DEF Tiling
<1>5. PICK T : T = {n - k : k \in {x \in D : x < n}}
    BY Zenon
<1>6. T \subseteq Nat
    BY <1>3, <1>5
<1>7. T # {}
    <2>1. a + 8 < n
        BY <1>1, <1>2, <1>3
    <2>. QED  BY <1>3, <1>5, <2>1, Zenon
<1>8. PICK t \in T : \A x \in T : t <= x
    BY <1>6, <1>7, Least, Zenon
<1>9. PICK k \in D : k < n /\ t = n - k
    BY <1>5, <1>8, Zenon
<1>10. ASSUME NEW x \in D, x < n PROVE x <= k
    <2>1. n - x \in T
        BY <1>5, <1>10, Zenon
    <2>2. n - k <= n - x
        BY <1>8, <1>9, <2>1, Zenon
    <2>. QED  BY <1>3, <2>2
<1>11. E[k] <= n
    BY <1>4, <1>9, Zenon
<1>12. ASSUME E[k] < n PROVE FALSE
    <2>1. E[k] \in D
        BY <1>2, <1>3, <1>9, <1>12
    <2>2. E[k] <= k
        BY <1>10, <1>12, <2>1, Zenon
    <2>. QED  BY <1>3, <1>9, <2>2
<1>13. E[k] = n
    <2>1. E[k] \in Nat /\ n \in Nat
        BY <1>3, Zenon
    <2>. QED  BY <1>11, <1>12, <2>1
<1>. QED  BY <1>9, <1>13, Zenon

(* The walk of MergeMallocHeaders meets every header of the only allocation. *)
LEMMA AllAreWalked ==
    ASSUME NEW list, Apart(list), DOMAIN list = {1}, NEW h, Tiled(list, h), NEW n \in DOMAIN h,
           ~h[n].used, NEW m \in DOMAIN h, ~h[m].used, End(h, m) = n
    PROVE  n \in Merged(list, h)
<1>1. ASSUME NEW k \in DOMAIN h PROVE k \in HeadersIn(h, list[1])
    <2>1. PICK a : a = list[1]
        BY Zenon
    <2>2. Tiling(list, DOMAIN h, Ends(h))
        BY Zenon DEF Tiled
    <2>3. k \in Nat /\ Ends(h)[k] \in Nat /\ k + 4 < Ends(h)[k]
        BY <2>2 DEF Tiling
    <2>4. a + 8 <= k /\ Ends(h)[k] <= a + AllocSize
        BY <2>1, <2>2, Zenon DEF Tiling
    <2>5. a \in Nat /\ AllocSize \in Nat
        BY <2>1, MallocAssumption DEF Apart
    <2>6. k \in a .. a + AllocSize - 1
        BY <2>3, <2>4, <2>5
    <2>. QED  BY <2>1, <2>6, Zenon DEF HeadersIn
<1>2. 1 .. 1 - 1 = {}
    OBVIOUS
<1>. QED  BY <1>1, <1>2, Zenon DEF Merged

(* MergeMallocHeaders leaves no free block behind a free one. *)
LEMMA MergeJoins ==
    ASSUME NEW list, Apart(list), DOMAIN list = {1}, NEW h, Tiled(list, h)
    PROVE  Joined(MergeMallocHeaders(list, h))
<1>1. PICK kept, D, E, r : /\ kept = DOMAIN h \ Merged(list, h) /\ D = DOMAIN h /\ E = Ends(h)
                           /\ r = MergeMallocHeaders(list, h)
    BY Zenon
<1>2. Tiling(list, D, E) /\ kept \subseteq D /\ \A m \in D : E[m] = End(h, m)
    BY <1>1, Zenon DEF Tiled, Ends
<1>3. DOMAIN r = kept
    BY <1>1, Zenon DEF MergeMallocHeaders
<1>4. \A m \in kept : r[m].used = h[m].used /\ End(r, m) = StopAt(list, kept, m)
    <2>1. \A m \in kept : IsBlock(r, m, h[m].used, StopAt(list, kept, m))
        BY <1>1, MergedBlock, Zenon
    <2>. QED  BY <2>1, Zenon DEF IsBlock
<1>5. SUFFICES ASSUME NEW m \in kept, NEW n \in kept, ~h[m].used, ~h[n].used,
                      StopAt(list, kept, m) = n
               PROVE  FALSE
    BY <1>1, <1>3, <1>4, Zenon DEF Joined
<1>6. PICK a : a = list[1]
    BY Zenon
<1>7. a \in Nat
    BY <1>6 DEF Apart
<1>8. \A k \in D : k \in Nat /\ E[k] \in Nat /\ k + 4 < E[k] /\ a + 8 <= k
    <2>1. D \subseteq Nat /\ E \in [D -> Nat] /\ \A k \in D : k + 4 < E[k]
        BY <1>2, Zenon DEF Tiling
    <2>2. \A k \in D : a + 8 <= k
        BY <1>2, <1>6, Zenon DEF Tiling
    <2>. QED  BY <2>1, <2>2
<1>9. E[m] <= n /\ \A k \in kept : m < k => n <= k
    BY <1>2, <1>5, StopsNext
<1>10. m < n /\ n # a + 8
    <2>1. m \in Nat /\ n \in Nat /\ E[m] \in Nat /\ m + 4 < E[m] /\ a + 8 <= m
        BY <1>2, <1>8, Zenon
    <2>. QED  BY <1>7, <1>9, <2>1
<1>11. PICK k \in D : E[k] = n
    BY <1>2, <1>6, <1>10, Precedes
<1>12. h[k].used
    <2>1. SUFFICES ASSUME ~h[k].used PROVE FALSE
        OBVIOUS
    <2>2. n \in Merged(list, h)
        BY <1>1, <1>2, <1>5, <1>11, <2>1, AllAreWalked, Zenon
    <2>. QED  BY <1>1, <2>2, Zenon
<1>13. k \in kept /\ k # m
    <2>1. ASSUME k \in Merged(list, h) PROVE FALSE
        BY <1>12, <2>1, MergedIs
    <2>. QED  BY <1>1, <1>5, <1>12, <2>1, Zenon
<1>14. CASE m < k
    BY <1>2, <1>8, <1>9, <1>11, <1>13, <1>14
<1>15. CASE k < m
    <2>1. E[k] <= m
        BY <1>2, <1>15, Zenon DEF Tiling
    <2>. QED  BY <1>2, <1>8, <1>10, <1>11, <2>1
<1>. QED  BY <1>2, <1>8, <1>13, <1>14, <1>15

-----------------------------------------------------------------------------
(* Partition cuts a free block in two, perhaps twice, and marks one used. *)

Cut(h, m, n) ==
    [k \in DOMAIN h \cup {n} |->
        IF k = m THEN [size |-> n - Addr(m), used |-> FALSE]
        ELSE IF k = n THEN [size |-> End(h, m) - Addr(n), used |-> FALSE]
        ELSE h[k]]

(* Blocks still tile when a header is put inside one of them. *)
LEMMA CutTiles ==
    ASSUME NEW list, Apart(list), NEW D, NEW E, Tiling(list, D, E),
           NEW m \in D, NEW n \in Nat, n % 4 = 0, m + 4 < n, n + 4 < E[m],
           NEW F, F = [k \in D \cup {n} |-> IF k = m THEN n ELSE IF k = n THEN E[m] ELSE E[k]]
    PROVE  n \notin D /\ Tiling(list, D \cup {n}, F)
<1>1. PICK e : e = E[m]
    BY Zenon
<1>2. m \in Nat /\ e \in Nat /\ m % 4 = 0 /\ e % 4 = 0 /\ m + 4 < n /\ n + 4 < e
    BY <1>1 DEF Tiling
<1>3. n \notin D /\ n # m
    BY <1>1, <1>2 DEF Tiling
<1>4. PICK i \in DOMAIN list : /\ list[i] + 8 <= m /\ e <= list[i] + AllocSize
                               /\ e = list[i] + AllocSize \/ e \in D
    BY <1>1, Zenon DEF Tiling
<1>5. list[i] \in Nat /\ AllocSize \in Nat
    BY MallocAssumption DEF Apart
<1>6. F[m] = n /\ F[n] = e /\ \A k \in D : k # m => F[k] = E[k]
    BY <1>1, <1>3, Zenon
<1>7. /\ D \cup {n} \subseteq Nat /\ F \in [D \cup {n} -> Nat]
      /\ \A j \in DOMAIN list : list[j] + 8 \in D \cup {n}
    <2>1. D \subseteq Nat /\ E \in [D -> Nat] /\ \A j \in DOMAIN list : list[j] + 8 \in D
        BY DEF Tiling
    <2>2. \A k \in D \cup {n} : F[k] \in Nat
        BY <1>2, <1>6, <2>1
    <2>. QED  BY <2>1, <2>2
<1>8. ASSUME NEW k \in D \cup {n}
      PROVE  k % 4 = 0 /\ F[k] % 4 = 0 /\ k + 4 < F[k]
    <2>1. CASE k = m  BY <1>2, <1>6, <2>1
    <2>2. CASE k = n  BY <1>2, <1>6, <2>2
    <2>3. CASE k \in D /\ k # m
        <3>1. F[k] = E[k] /\ k % 4 = 0 /\ E[k] % 4 = 0 /\ k + 4 < E[k]
            BY <1>6, <2>3, Zenon DEF Tiling
        <3>. QED  BY <3>1, Zenon
    <2>. QED  BY <2>1, <2>2, <2>3, Zenon
<1>9. ASSUME NEW k \in D \cup {n}
      PROVE  \E j \in DOMAIN list :
                /\ list[j] + 8 <= k /\ F[k] <= list[j] + AllocSize
                /\ F[k] = list[j] + AllocSize \/ F[k] \in D \cup {n}
    <2>1. CASE k = m
        <3>1. list[i] + 8 <= k /\ F[k] <= list[i] + AllocSize
            BY <1>2, <1>4, <1>5, <1>6, <2>1
        <3>2. F[k] \in D \cup {n}
            BY <1>6, <2>1, Zenon
        <3>. QED  BY <3>1, <3>2, Zenon
    <2>2. CASE k = n
        <3>1. list[i] + 8 <= k /\ F[k] <= list[i] + AllocSize
            BY <1>2, <1>4, <1>5, <1>6, <2>2
        <3>2. F[k] = list[i] + AllocSize \/ F[k] \in D \cup {n}
            BY <1>4, <1>6, <2>2, Zenon
        <3>. QED  BY <3>1, <3>2, Zenon
    <2>3. CASE k \in D /\ k # m
        <3>1. PICK j \in DOMAIN list :
                /\ list[j] + 8 <= k /\ E[k] <= list[j] + AllocSize
                /\ E[k] = list[j] + AllocSize \/ E[k] \in D
            BY <2>3, Zenon DEF Tiling
        <3>2. F[k] = E[k]
            BY <1>6, <2>3, Zenon
        <3>. QED  BY <3>1, <3>2, Zenon
    <2>. QED  BY <2>1, <2>2, <2>3, Zenon
<1>10. ASSUME NEW k \in D \cup {n}, NEW l \in D \cup {n}, k < l
       PROVE  F[k] <= l
    <2>1. \A x, y \in D : x < y => E[x] <= y
        BY Zenon DEF Tiling
    <2>2. \A x \in D : x \in Nat /\ E[x] \in Nat /\ x + 4 < E[x]
        BY DEF Tiling
    <2>3. CASE k = n
        <3>1. l \in D /\ m < l
            BY <1>2, <1>10, <2>3
        <3>. QED  BY <1>1, <1>6, <2>1, <2>3, <3>1, ZenonT(90)
    <2>4. CASE k = m
        BY <1>1, <1>2, <1>6, <2>1, <2>2, <2>4, <1>10
    <2>5. CASE k \in D /\ k # m /\ l \in D
        BY <1>6, <1>10, <2>1, <2>5, Zenon
    <2>6. CASE k \in D /\ k # m /\ l = n
        <3>1. k < m \/ m < k
            BY <1>2, <2>2, <2>6
        <3>2. ASSUME m < k PROVE FALSE
            BY <1>1, <1>2, <1>10, <2>1, <2>2, <2>6, <3>2
        <3>3. E[k] <= m
            BY <2>1, <2>6, <3>1, <3>2, Zenon
        <3>. QED  BY <1>2, <1>6, <2>2, <2>6, <3>3
    <2>. QED  BY <2>3, <2>4, <2>5, <2>6, Zenon
<1>. QED  BY <1>3, <1>7, <1>8, <1>9, <1>10, Zenon DEF Tiling

(* The blocks of h, one by one. *)
LEMMA BlockIs ==
    ASSUME NEW list, Apart(list), NEW h, Tiled(list, h), NEW m \in DOMAIN h
    PROVE  /\ h[m] \in Blocks /\ h[m].size \in Nat /\ h[m].used \in BOOLEAN
           /\ m \in Nat /\ m % 4 = 0 /\ Addr(m) = m + 4
           /\ End(h, m) \in Nat /\ End(h, m) % 4 = 0
           /\ End(h, m) = m + 4 + h[m].size /\ h[m].size > 0 /\ Ends(h)[m] = End(h, m)
<1>1. h[m] \in Blocks /\ Tiling(list, DOMAIN h, Ends(h)) /\ Ends(h)[m] = End(h, m)
    BY Zenon DEF Tiled, Ends
<1>2. h[m].size \in Nat /\ h[m].used \in BOOLEAN
    BY <1>1 DEF Blocks
<1>3. m \in Nat /\ m % 4 = 0 /\ Ends(h)[m] \in Nat /\ Ends(h)[m] % 4 = 0 /\ m + 4 < Ends(h)[m]
    BY <1>1, HeaderIs, Zenon
<1>4. Addr(m) = m + 4 /\ End(h, m) = m + 4 + h[m].size
    BY Zenon DEF Addr, End, kMinSize
<1>5. End(h, m) \in Nat /\ End(h, m) % 4 = 0 /\ m + 4 < End(h, m)
    BY <1>1, <1>3, Zenon
<1>6. h[m].size > 0
    BY <1>2, <1>3, <1>4, <1>5, SMTT(30)
<1>. QED  BY <1>1, <1>2, <1>3, <1>4, <1>5, <1>6, Zenon

IsCut(list, h, m, n, c) ==
    /\ n \notin DOMAIN h /\ DOMAIN c = DOMAIN h \cup {n} /\ Tiled(list, c)
    /\ InUse(c) = InUse(h) /\ \A k \in InUse(h) : c[k] = h[k]
    /\ End(c, n) = End(h, m) /\ ~c[n].used

(* A free block cut in two. *)
LEMMA CutKeeps ==
    ASSUME NEW list, Apart(list), NEW h, Tiled(list, h), NEW m \in DOMAIN h, ~h[m].used,
           NEW n \in Nat, n % 4 = 0, m + 4 < n, n + 4 < End(h, m)
    PROVE  IsCut(list, h, m, n, Cut(h, m, n))
<1>1. PICK D, E, c, e, F :
        /\ D = DOMAIN h /\ E = Ends(h) /\ c = Cut(h, m, n) /\ e = End(h, m)
        /\ F = [k \in D \cup {n} |-> IF k = m THEN n ELSE IF k = n THEN E[m] ELSE E[k]]
    BY Zenon
<1>2. Tiling(list, D, E) /\ h \in [D -> Blocks] /\ \A k \in D : E[k] = End(h, k)
    BY <1>1, Zenon DEF Tiled, Ends
<1>3. m \in Nat /\ e \in Nat /\ E[m] = e /\ Addr(m) = m + 4 /\ Addr(n) = n + 4 /\ n + 4 < e
    BY <1>1, BlockIs DEF Addr, kMinSize
<1>4. n \notin D /\ Tiling(list, D \cup {n}, F)
    <2>1. m \in D /\ m + 4 < n /\ n + 4 < E[m]
        BY <1>1, <1>3, Zenon
    <2>. QED  BY <1>1, <1>2, <2>1, CutTiles
<1>5. DOMAIN c = D \cup {n} /\ n # m
    BY <1>1, <1>4, Zenon DEF Cut
<1>6. c[m] = [size |-> n - Addr(m), used |-> FALSE]
    BY <1>1, Zenon DEF Cut
<1>7. c[n] = [size |-> e - Addr(n), used |-> FALSE]
    BY <1>1, <1>5, Zenon DEF Cut
<1>8. ASSUME NEW k \in D, k # m PROVE c[k] = h[k] /\ k # n
    BY <1>1, <1>4, <1>8, Zenon DEF Cut
<1>9. c[m] \in Blocks /\ ~c[m].used /\ End(c, m) = n
    <2>1. c[m].size = n - Addr(m) /\ ~c[m].used
        BY <1>6
    <2>2. n - Addr(m) \in Nat /\ Addr(m) + (n - Addr(m)) = n
        BY <1>3
    <2>3. c[m] \in Blocks
        BY <1>6, <2>2 DEF Blocks
    <2>. QED  BY <2>1, <2>2, <2>3, Zenon DEF End
<1>10. c[n] \in Blocks /\ ~c[n].used /\ End(c, n) = e
    <2>1. c[n].size = e - Addr(n) /\ ~c[n].used
        BY <1>7
    <2>2. e - Addr(n) \in Nat /\ Addr(n) + (e - Addr(n)) = e
        BY <1>3
    <2>3. c[n] \in Blocks
        BY <1>7, <2>2 DEF Blocks
    <2>. QED  BY <2>1, <2>2, <2>3, Zenon DEF End
<1>11. ASSUME NEW k \in D, k # m PROVE c[k] \in Blocks /\ End(c, k) = E[k]
    BY <1>2, <1>8, <1>11, Zenon DEF End
<1>12. Tiled(list, c)
    <2>1. \A k \in D \cup {n} : c[k] \in Blocks
        BY <1>9, <1>10, <1>11, Zenon
    <2>2. c \in [D \cup {n} -> Blocks]
        <3>1. c = [k \in D \cup {n} |-> c[k]]
            BY <1>1, Zenon DEF Cut
        <3>. QED  BY <2>1, <3>1, Zenon
    <2>3. \A k \in D \cup {n} : End(c, k) = F[k]
        BY <1>1, <1>3, <1>4, <1>9, <1>10, <1>11, Zenon
    <2>4. Ends(c) = F
        <3>1. Ends(c) = [k \in D \cup {n} |-> End(c, k)]
            BY <1>5, Zenon DEF Ends
        <3>2. F = [k \in D \cup {n} |-> F[k]]
            BY <1>1, Zenon
        <3>. QED  BY <2>3, <3>1, <3>2, Zenon
    <2>. QED  BY <1>4, <1>5, <2>2, <2>4, Zenon DEF Tiled
<1>13. InUse(c) = InUse(h)
    BY <1>1, <1>5, <1>8, <1>9, <1>10, Zenon DEF InUse
<1>14. \A k \in InUse(h) : c[k] = h[k]
    BY <1>1, <1>8, Zenon DEF InUse
<1>. QED  BY <1>1, <1>4, <1>5, <1>10, <1>12, <1>13, <1>14, Zenon DEF IsCut

IsMarked(list, h, m, u, r) ==
    /\ Tiled(list, r) /\ DOMAIN r = DOMAIN h /\ r[m] = [size |-> h[m].size, used |-> u]
    /\ \A k \in DOMAIN h : k # m => r[k] = h[k]

(* setUsed changes no sizes. *)
LEMMA MarkKeeps ==
    ASSUME NEW list, Apart(list), NEW h, Tiled(list, h), NEW m \in DOMAIN h, NEW u \in BOOLEAN,
           NEW r, r = [h EXCEPT ![m].used = u]
    PROVE  IsMarked(list, h, m, u, r)
<1>1. h \in [DOMAIN h -> Blocks] /\ DOMAIN r = DOMAIN h
    BY Zenon DEF Tiled
<1>2. r[m] = [h[m] EXCEPT !.used = u] /\ h[m] \in Blocks
    BY <1>1
<1>3. r[m] = [size |-> h[m].size, used |-> u]
    BY <1>2 DEF Blocks
<1>4. \A k \in DOMAIN h : k # m => r[k] = h[k]
    BY <1>1, Zenon
<1>5. r[m] \in Blocks /\ r[m].size = h[m].size
    BY <1>2 DEF Blocks
<1>6. \A k \in DOMAIN h : r[k] \in Blocks /\ End(r, k) = End(h, k)
    BY <1>1, <1>4, <1>5, Zenon DEF End
<1>7. Ends(r) = Ends(h)
    BY <1>1, <1>6, Zenon DEF Ends
<1>8. r \in [DOMAIN h -> Blocks]
    BY <1>1, <1>6
<1>. QED  BY <1>1, <1>3, <1>4, <1>7, <1>8, Zenon DEF Tiled, IsMarked

(* Partition leaves blocks that tile; the one at the given place is used and
   large enough, and all that were in use are still there. *)
LEMMA PartitionKeeps ==
    ASSUME NEW list, Apart(list), NEW h, Tiled(list, h), NEW m \in DOMAIN h, ~h[m].used,
           NEW size \in Nat, size > 0, size % 4 = 0,
           NEW at \in Nat, at % 4 = 0, at = Addr(m) \/ at >= Addr(m) + 8, at + size <= End(h, m)
    PROVE  IsGiven(list, h, size, at, Partition(h, m, size, at))
<1>1. PICK new, rest, e, r : /\ new = at - 4 /\ rest = at + size /\ e = End(h, m)
                             /\ r = Partition(h, m, size, at)
    BY Zenon
<1>2. /\ m \in Nat /\ e \in Nat /\ m % 4 = 0 /\ e % 4 = 0 /\ Addr(m) = m + 4
      /\ e = m + 4 + h[m].size /\ h[m].size \in Nat
    BY <1>1, BlockIs, Zenon
<1>3. /\ new \in Nat /\ new % 4 = 0 /\ at = new + 4 /\ rest \in Nat /\ rest % 4 = 0
      /\ new = m \/ m + 4 < new
      /\ new + 4 + size = rest /\ rest <= e
    BY <1>1, <1>2
\* f has a free block that starts at new and ends at e.
<1>4. PICK f : /\ f = IF new = m THEN h ELSE Cut(h, m, new)
    BY Zenon
<1>5. /\ Tiled(list, f) /\ new \in DOMAIN f /\ ~f[new].used /\ End(f, new) = e
      /\ InUse(f) = InUse(h) /\ \A k \in InUse(h) : f[k] = h[k]
      /\ DOMAIN f = DOMAIN h \cup {new}
    <2>1. CASE new = m
        BY <1>1, <1>4, <2>1, Zenon
    <2>2. CASE new # m
        <3>1. m + 4 < new /\ new + 4 < e
            BY <1>2, <1>3, <2>2
        <3>2. f = Cut(h, m, new)
            BY <1>4, <2>2, Zenon
        <3>3. new + 4 < End(h, m)
            BY <1>1, <3>1, Zenon
        <3>4. IsCut(list, h, m, new, f)
            BY <1>3, <3>1, <3>2, <3>3, CutKeeps, Zenon
        <3>. QED  BY <1>1, <3>4, Zenon DEF IsCut
    <2>. QED  BY <2>1, <2>2, Zenon
<1>6. f[new].size = e - at /\ e - at \in Nat /\ f[new].size \in Nat
    <2>1. f[new].size \in Nat /\ e = new + 4 + f[new].size
        BY <1>5, BlockIs, ZenonT(90)
    <2>. QED  BY <1>2, <1>3, <2>1
<1>7. new \notin InUse(h)
    BY <1>5, Zenon DEF InUse
\* front is f but for the block at new.
<1>8. PICK front : front = IF new = m THEN h
                           ELSE With(h, m, [size |-> new - Addr(m), used |-> FALSE])
    BY Zenon
<1>9. DOMAIN front = DOMAIN h /\ \A k \in DOMAIN h : k # new => front[k] = f[k]
    <2>1. CASE new = m
        BY <1>4, <1>8, <2>1, Zenon
    <2>2. CASE new # m
        <3>1. front = [k \in DOMAIN h \cup {m} |->
                        IF k = m THEN [size |-> new - Addr(m), used |-> FALSE] ELSE h[k]]
            BY <1>8, <2>2, Zenon DEF With
        <3>2. f = [k \in DOMAIN h \cup {new} |->
                    IF k = m THEN [size |-> new - Addr(m), used |-> FALSE]
                    ELSE IF k = new THEN [size |-> End(h, m) - Addr(new), used |-> FALSE]
                    ELSE h[k]]
            BY <1>4, <2>2, Zenon DEF Cut
        <3>3. DOMAIN front = DOMAIN h
            BY <3>1, Zenon
        <3>4. ASSUME NEW k \in DOMAIN h, k # new PROVE front[k] = f[k]
            BY <3>1, <3>2, <3>4, Zenon
        <3>. QED  BY <3>3, <3>4, Zenon
    <2>. QED  BY <2>1, <2>2, Zenon
<1>10. CASE Whole(h, m, size, at)
    <2>1. r = With(front, new, [size |-> e - at, used |-> TRUE])
        BY <1>1, <1>8, <1>10, Zenon DEF Partition, kMinSize
    <2>2. r = [k \in DOMAIN front \cup {new} |->
                IF k = new THEN [size |-> e - at, used |-> TRUE] ELSE front[k]]
        BY <2>1, Zenon DEF With
    <2>3. PICK g : g = [f EXCEPT ![new].used = TRUE]
        BY Zenon
    <2>4. /\ Tiled(list, g) /\ DOMAIN g = DOMAIN f /\ g[new] = [size |-> e - at, used |-> TRUE]
          /\ \A k \in DOMAIN f : k # new => g[k] = f[k]
        <3>1. IsMarked(list, f, new, TRUE, g)
            BY <1>5, <2>3, MarkKeeps, Zenon
        <3>. QED  BY <1>6, <3>1, Zenon DEF IsMarked
    <2>5. g = [k \in DOMAIN f |-> g[k]]
        BY <2>4, Zenon DEF Tiled
    <2>6. r = g
        <3>1. DOMAIN front \cup {new} = DOMAIN f
            BY <1>5, <1>9, Zenon
        <3>2. ASSUME NEW k \in DOMAIN f PROVE r[k] = g[k]
            BY <1>5, <1>9, <2>2, <2>4, <3>1, Zenon
        <3>. QED  BY <2>2, <2>5, <3>1, <3>2, Zenon
    <2>7. InUse(g) = InUse(f) \cup {new}
        <3>1. g[new].used
            BY <2>4
        <3>. QED  BY <1>5, <2>4, <3>1, Zenon DEF InUse
    <2>8. \A k \in InUse(h) : g[k] = h[k]
        BY <1>5, <1>7, <2>4, Zenon DEF InUse
    <2>9. g[new].size >= size
        <3>1. g[new].size = e - at
            BY <2>4
        <3>. QED  BY <1>2, <1>3, <3>1
    <2>. QED  BY <1>1, <1>5, <1>7, <2>4, <2>6, <2>7, <2>8, <2>9, Zenon DEF IsGiven
<1>11. CASE ~Whole(h, m, size, at)
    <2>1. rest + 4 < e
        BY <1>1, <1>2, <1>3, <1>11 DEF Whole, kMinSize
    <2>2. PICK c : c = Cut(f, new, rest)
        BY Zenon
    <2>3. /\ rest \notin DOMAIN f /\ DOMAIN c = DOMAIN f \cup {rest} /\ Tiled(list, c)
          /\ InUse(c) = InUse(f) /\ \A k \in InUse(f) : c[k] = f[k]
        <3>1. new + 4 < rest /\ rest + 4 < End(f, new)
            BY <1>3, <1>5, <2>1, SMTT(30)
        <3>2. IsCut(list, f, new, rest, c)
            BY <1>3, <1>5, <2>2, <3>1, CutKeeps, Zenon
        <3>. QED  BY <3>2, Zenon DEF IsCut
    <2>4. c = [k \in DOMAIN f \cup {rest} |->
                IF k = new THEN [size |-> rest - Addr(new), used |-> FALSE]
                ELSE IF k = rest THEN [size |-> e - Addr(rest), used |-> FALSE]
                ELSE f[k]]
        BY <1>5, <2>2, Zenon DEF Cut
    <2>5. c[new].size = size /\ ~c[new].used /\ new \in DOMAIN c
        <3>1. c[new] = [size |-> rest - Addr(new), used |-> FALSE]
            BY <1>5, <2>4, Zenon
        <3>2. rest - Addr(new) = size
            BY <1>3 DEF Addr, kMinSize
        <3>3. c[new].size = rest - Addr(new) /\ ~c[new].used
            BY <3>1
        <3>. QED  BY <1>5, <2>3, <3>2, <3>3, Zenon
    <2>6. PICK g : g = [c EXCEPT ![new].used = TRUE]
        BY Zenon
    <2>7. /\ Tiled(list, g) /\ DOMAIN g = DOMAIN c /\ g[new] = [size |-> size, used |-> TRUE]
          /\ \A k \in DOMAIN c : k # new => g[k] = c[k]
        <3>1. IsMarked(list, c, new, TRUE, g)
            BY <2>3, <2>5, <2>6, MarkKeeps, Zenon
        <3>. QED  BY <2>5, <3>1, Zenon DEF IsMarked
    <2>8. PICK back : back = With(front, rest, [size |-> e - Addr(rest), used |-> FALSE])
        BY Zenon
    <2>9. back = [k \in DOMAIN front \cup {rest} |->
                    IF k = rest THEN [size |-> e - Addr(rest), used |-> FALSE] ELSE front[k]]
        BY <2>8, Zenon DEF With
    <2>10. r = With(back, new, [size |-> size, used |-> TRUE])
        BY <1>1, <1>8, <1>11, <2>8, Zenon DEF Partition, kMinSize
    <2>11. r = [k \in DOMAIN back \cup {new} |->
                IF k = new THEN [size |-> size, used |-> TRUE] ELSE back[k]]
        BY <2>10, Zenon DEF With
    <2>12. r = g
        <3>1. DOMAIN back \cup {new} = DOMAIN c
            BY <1>5, <1>9, <2>3, <2>9, Zenon
        <3>2. ASSUME NEW k \in DOMAIN c, k # new PROVE back[k] = c[k]
            BY <1>5, <1>9, <2>3, <2>4, <2>9, <3>2, Zenon
        <3>3. ASSUME NEW k \in DOMAIN c PROVE r[k] = g[k]
            BY <2>7, <2>11, <3>1, <3>2, Zenon
        <3>4. g = [k \in DOMAIN c |-> g[k]]
            BY <2>7, Zenon DEF Tiled
        <3>. QED  BY <2>11, <3>1, <3>3, <3>4, Zenon
    <2>13. InUse(g) = InUse(c) \cup {new}
        <3>1. g[new].used
            BY <2>7
        <3>. QED  BY <2>5, <2>7, <3>1, Zenon DEF InUse
    <2>14. \A k \in InUse(h) : g[k] = h[k]
        BY <1>5, <1>7, <2>3, <2>7, Zenon DEF InUse
    <2>15. g[new].size >= size
        BY <2>7
    <2>. QED  BY <1>1, <1>5, <1>7, <2>3, <2>7, <2>12, <2>13, <2>14, <2>15, Zenon DEF IsGiven
<1>. QED  BY <1>10, <1>11, Zenon

-----------------------------------------------------------------------------
(* GetAvailMemory folds over the headers.  That its recursion defines a number
   for any set of headers is shown by a smallest counterexample. *)

HasSmallest(C) == \E c \in C : \A d \in C : d \subseteq c => d = c

(* Sets of numbers below N: any collection of them has a smallest one. *)
LEMMA Smallest ==
    ASSUME NEW N \in Nat, NEW C, C \subseteq SUBSET (0 .. N - 1), C # {}
    PROVE  HasSmallest(C)
<1>. DEFINE Bad(n, B) == /\ B \subseteq SUBSET (0 .. n - 1) /\ B # {}
                         /\ \A c \in B : \E d \in B : d \subseteq c /\ d # c
            T == {n \in Nat : \E B : Bad(n, B)}
<1>1. SUFFICES ASSUME T # {} PROVE FALSE
    <2>1. SUFFICES ASSUME ~HasSmallest(C) PROVE FALSE
        OBVIOUS
    <2>2. Bad(N, C)
        BY <2>1, Zenon DEF HasSmallest
    <2>. HIDE DEF Bad
    <2>. QED  BY <1>1, <2>2, Zenon
<1>. HIDE DEF Bad
<1>2. T \subseteq Nat
    BY Zenon
<1>3. PICK n \in T : \A x \in T : n <= x
    <2>. HIDE DEF T
    <2>. QED  BY <1>1, <1>2, Least, Zenon
<1>4. PICK B : Bad(n, B)
    BY <1>3, Zenon
<1>5. n \in Nat /\ \A x \in Nat : \A A : Bad(x, A) => n <= x
    BY <1>3, Zenon
<1>. HIDE DEF T
<1>6. n # 0
    <2>1. SUFFICES ASSUME n = 0 PROVE FALSE
        OBVIOUS
    <2>2. 0 .. n - 1 = {}
        BY <2>1
    <2>3. \A c \in B : c = {}
        BY <1>4, <2>2, Zenon DEF Bad
    <2>4. PICK c \in B : TRUE
        BY <1>4, Zenon DEF Bad
    <2>5. PICK d \in B : d # c
        BY <1>4, <2>4, Zenon DEF Bad
    <2>. QED  BY <2>3, <2>4, <2>5, Zenon
<1>7. PICK k : k = n - 1
    BY Zenon
<1>8. k \in Nat /\ k < n /\ \A x \in 0 .. n - 1 : x = k \/ x \in 0 .. k - 1
    BY <1>5, <1>6, <1>7
<1>9. \A A : ~Bad(k, A)
    <2>1. ~(n <= k)
        BY <1>5, <1>8
    <2>. QED  BY <1>5, <1>8, <2>1, Zenon
<1>10. /\ \A c \in B : \A x \in c : x = k \/ x \in 0 .. k - 1
       /\ \A c \in B : \E d \in B : d \subseteq c /\ d # c
       /\ \E c : c \in B
    BY <1>4, <1>8, Zenon DEF Bad
<1>11. CASE \E c \in B : k \notin c
    <2>1. PICK A : A = {c \in B : k \notin c}
        BY Zenon
    <2>2. Bad(k, A)
        <3>1. A \subseteq SUBSET (0 .. k - 1) /\ A # {}
            BY <1>10, <1>11, <2>1, Zenon
        <3>2. ASSUME NEW c \in A PROVE \E d \in A : d \subseteq c /\ d # c
            BY <1>10, <2>1, Zenon
        <3>. QED  BY <3>1, <3>2, Zenon DEF Bad
    <2>. QED  BY <1>9, <2>2, Zenon
<1>12. CASE \A c \in B : k \in c
    <2>1. PICK A : A = {c \ {k} : c \in B}
        BY Zenon
    <2>2. Bad(k, A)
        <3>1. A \subseteq SUBSET (0 .. k - 1) /\ A # {}
            <4>1. ASSUME NEW c \in B PROVE c \ {k} \in SUBSET (0 .. k - 1)
                BY <1>10, Zenon
            <4>2. A \subseteq SUBSET (0 .. k - 1)
                BY <2>1, <4>1, Zenon
            <4>3. A # {}
                <5>1. PICK c : c \in B
                    BY <1>10, Zenon
                <5>2. c \ {k} \in A
                    BY <2>1, <5>1, Zenon
                <5>. QED  BY <5>2, Zenon
            <4>. QED  BY <4>2, <4>3, Zenon
        <3>2. ASSUME NEW c \in A PROVE \E d \in A : d \subseteq c /\ d # c
            <4>1. PICK b \in B : c = b \ {k}
                BY <2>1, Zenon
            <4>2. PICK e \in B : e \subseteq b /\ e # b
                BY <1>10, <4>1, Zenon
            <4>3. k \in b /\ k \in e
                BY <1>12, <4>1, <4>2, Zenon
            <4>4. e \ {k} \subseteq c /\ e \ {k} # c
                BY <4>1, <4>2, <4>3, Zenon
            <4>5. e \ {k} \in A
                BY <2>1, <4>2, Zenon
            <4>. QED  BY <4>4, <4>5, Zenon
        <3>. QED  BY <3>1, <3>2, Zenon DEF Bad
    <2>. QED  BY <1>9, <2>2, Zenon
<1>. QED  BY <1>11, <1>12, Zenon

Chosen(s) == CHOOSE x \in s : TRUE
Plus(b, n) == IF b.used THEN n ELSE n + b.size

(* g is the fold of GetAvailMemory on the subsets of s. *)
IsFold(h, s, g) ==
    /\ g \in [SUBSET s -> Nat]
    /\ \A t \in SUBSET s :
        g[t] = IF t = {} THEN 0 ELSE Plus(h[Chosen(t)], g[t \ {Chosen(t)}])

(* An element, if there is one. *)
LEMMA ChosenIs ==
    ASSUME NEW t, t # {}
    PROVE  Chosen(t) \in t
BY Zenon DEF Chosen

(* There is one such g at most. *)
LEMMA FoldsAgree ==
    ASSUME NEW N \in Nat, NEW h, NEW s, NEW r, s \subseteq 0 .. N - 1,
           NEW f, IsFold(h, s, f), NEW g, IsFold(h, r, g), NEW u, u \subseteq s, u \subseteq r
    PROVE  f[u] = g[u]
<1>1. PICK C : C = {t \in SUBSET u : f[t] # g[t]}
    BY Zenon
<1>2. C \subseteq SUBSET (0 .. N - 1)
    BY <1>1, Zenon
<1>3. SUFFICES ASSUME C # {} PROVE FALSE
    BY <1>1, Zenon
<1>4. PICK c \in C : \A d \in C : d \subseteq c => d = c
    <2>1. HasSmallest(C)
        BY <1>2, <1>3, Smallest, Zenon
    <2>. QED  BY <2>1, Zenon DEF HasSmallest
<1>5. c \subseteq u /\ f[c] # g[c] /\ c \in SUBSET s /\ c \in SUBSET r
    BY <1>1, <1>4, Zenon
<1>6. CASE c = {}
    BY <1>5, <1>6, Zenon DEF IsFold
<1>7. CASE c # {}
    <2>1. PICK x, d : x = Chosen(c) /\ d = c \ {x}
        BY Zenon
    <2>2. d \subseteq c /\ d # c
        BY <1>7, <2>1, ChosenIs, Zenon
    <2>3. f[d] = g[d]
        BY <1>1, <1>4, <1>5, <2>2, Zenon
    <2>4. f[c] = Plus(h[x], f[d]) /\ g[c] = Plus(h[x], g[d])
        BY <1>5, <1>7, <2>1, Zenon DEF IsFold
    <2>. QED  BY <1>5, <2>3, <2>4, Zenon
<1>. QED  BY <1>6, <1>7, Zenon

(* There is one. *)
LEMMA FoldExists ==
    ASSUME NEW N \in Nat, NEW h, h \in [DOMAIN h -> Blocks],
           DOMAIN h \subseteq 0 .. N - 1
    PROVE  \E g : IsFold(h, DOMAIN h, g)
<1>1. PICK C : C = {s \in SUBSET DOMAIN h : \A g : ~IsFold(h, s, g)}
    BY Zenon
<1>2. C \subseteq SUBSET (0 .. N - 1)
    BY <1>1, Zenon
<1>3. SUFFICES ASSUME C # {} PROVE FALSE
    BY <1>1, Zenon
<1>4. PICK c \in C : \A d \in C : d \subseteq c => d = c
    <2>1. HasSmallest(C)
        BY <1>2, <1>3, Smallest, Zenon
    <2>. QED  BY <2>1, Zenon DEF HasSmallest
<1>5. c \subseteq DOMAIN h /\ \A g : ~IsFold(h, c, g)
    BY <1>1, <1>4, Zenon
<1>6. \A d \in SUBSET c : d # c => \E g : IsFold(h, d, g)
    BY <1>1, <1>4, <1>5, Zenon
<1>7. CASE c = {}
    <2>1. PICK g : g = [t \in SUBSET c |-> 0]
        BY Zenon
    <2>2. g \in [SUBSET c -> Nat]
        BY <2>1
    <2>3. \A t \in SUBSET c : t = {} /\ g[t] = 0
        BY <1>7, <2>1, Zenon
    <2>4. IsFold(h, c, g)
        BY <2>2, <2>3, Zenon DEF IsFold
    <2>. QED  BY <1>5, <2>4, Zenon
<1>8. CASE c # {}
    <2>1. PICK G, x : G = [d \in SUBSET c |-> CHOOSE g : IsFold(h, d, g)] /\ x = Chosen(c)
        BY Zenon
    <2>2. \A d \in SUBSET c : d # c => IsFold(h, d, G[d])
        BY <1>6, <2>1, Zenon
    <2>3. x \in c /\ c \ {x} \in SUBSET c /\ c \ {x} # c
        BY <1>8, <2>1, ChosenIs, Zenon
    <2>4. PICK g : g = [t \in SUBSET c |->
                        IF t = c THEN Plus(h[x], G[c \ {x}][c \ {x}]) ELSE G[t][t]]
        BY Zenon
    <2>5. \A t \in SUBSET c : t # c => g[t] = G[t][t] /\ g[t] \in Nat
        BY <2>2, <2>4, Zenon DEF IsFold
    <2>6. g[c] = Plus(h[x], g[c \ {x}])
        BY <2>3, <2>4, <2>5, Zenon
    <2>7. g[c] \in Nat
        <3>1. PICK n, b : n = g[c \ {x}] /\ b = h[x]
            BY Zenon
        <3>2. n \in Nat /\ b \in Blocks
            BY <1>5, <2>3, <2>5, <3>1, Zenon
        <3>3. Plus(b, n) \in Nat
            BY <3>2 DEF Plus, Blocks
        <3>. QED  BY <2>6, <3>1, <3>3, Zenon
    <2>8. g \in [SUBSET c -> Nat]
        <3>1. \A t \in SUBSET c : g[t] \in Nat
            BY <2>5, <2>7, Zenon
        <3>2. g = [t \in SUBSET c |-> g[t]]
            BY <2>4, Zenon
        <3>. QED  BY <3>1, <3>2, Zenon
    <2>9. ASSUME NEW t \in SUBSET c
          PROVE  g[t] = IF t = {} THEN 0 ELSE Plus(h[Chosen(t)], g[t \ {Chosen(t)}])
        <3>1. CASE t = c
            BY <1>8, <2>1, <2>6, <3>1, Zenon
        <3>2. CASE t # c
            <4>1. IsFold(h, t, G[t]) /\ g[t] = G[t][t]
                BY <2>2, <2>5, <3>2, Zenon
            <4>2. CASE t = {}
                BY <4>1, <4>2, Zenon DEF IsFold
            <4>3. CASE t # {}
                <5>1. PICK y, d : y = Chosen(t) /\ d = t \ {y}
                    BY Zenon
                <5>2. d \in SUBSET c /\ d # c /\ d \subseteq t
                    BY <4>3, <5>1, ChosenIs, Zenon
                <5>3. IsFold(h, d, G[d]) /\ g[d] = G[d][d]
                    BY <2>2, <2>5, <5>2, Zenon
                <5>4. G[d][d] = G[t][d]
                    <6>1. d \subseteq 0 .. N - 1 /\ d \subseteq d
                        BY <1>5, <5>2, Zenon
                    <6>2. PICK p, q : p = G[d] /\ q = G[t]
                        BY Zenon
                    <6>3. IsFold(h, d, p) /\ IsFold(h, t, q) /\ d \subseteq t
                        BY <4>1, <5>2, <5>3, <6>2, Zenon
                    <6>4. p[d] = q[d]
                        BY <6>1, <6>3, FoldsAgree
                    <6>. QED  BY <6>2, <6>4, Zenon
                <5>5. G[t][t] = Plus(h[y], G[t][d])
                    BY <4>1, <4>3, <5>1, Zenon DEF IsFold
                <5>6. g[t] = Plus(h[y], g[d])
                    BY <4>1, <5>3, <5>4, <5>5, Zenon
                <5>. QED  BY <4>3, <5>1, <5>6, Zenon
            <4>. QED  BY <4>2, <4>3, Zenon
        <3>. QED  BY <3>1, <3>2, Zenon
    <2>10. IsFold(h, c, g)
        BY <2>8, <2>9, Zenon DEF IsFold
    <2>. QED  BY <1>5, <2>10, Zenon
<1>. QED  BY <1>7, <1>8, Zenon

(* GetAvailMemory is at least the size of every free block. *)
LEMMA FreeIsAvail ==
    ASSUME NEW N \in Nat, NEW h, h \in [DOMAIN h -> Blocks],
           DOMAIN h \subseteq 0 .. N - 1
    PROVE  /\ GetAvailMemory(h) \in Nat
           /\ \A m \in DOMAIN h : ~h[m].used => h[m].size <= GetAvailMemory(h)
<1>. DEFINE S == DOMAIN h
            step(f) == [s \in SUBSET S |->
                            IF s = {} THEN 0
                            ELSE Plus(h[CHOOSE x \in s : TRUE], f[s \ {CHOOSE x \in s : TRUE}])]
            iter == CHOOSE f : f = step(f)
<1>1. PICK g : IsFold(h, S, g)
    BY FoldExists, Zenon
<1>2. g = step(g)
    <2>1. g = [s \in SUBSET S |-> g[s]]
        BY <1>1, Zenon DEF IsFold
    <2>2. \A s \in SUBSET S : g[s] = IF s = {} THEN 0
                ELSE Plus(h[CHOOSE x \in s : TRUE], g[s \ {CHOOSE x \in s : TRUE}])
        BY <1>1, Zenon DEF IsFold, Chosen
    <2>. QED  BY <2>1, <2>2, Zenon
<1>3. iter = step(iter)
    <2>. HIDE DEF step
    <2>. QED  BY <1>2, Zenon
<1>4. GetAvailMemory(h) = iter[S]
    BY Zenon DEF GetAvailMemory, FoldFunction, FoldFunctionOnSet, MapThenFoldSet, Plus
<1>. HIDE DEF iter
<1>5. \A s \in SUBSET S :
        iter[s] = IF s = {} THEN 0 ELSE Plus(h[Chosen(s)], iter[s \ {Chosen(s)}])
    BY <1>3, Zenon DEF Chosen
<1>6. PICK C : C = {s \in SUBSET S :
                    ~(iter[s] \in Nat /\ \A m \in s : ~h[m].used => h[m].size <= iter[s])}
    BY Zenon
<1>7. C \subseteq SUBSET (0 .. N - 1)
    BY <1>6, Zenon
<1>8. C = {}
    <2>1. SUFFICES ASSUME C # {} PROVE FALSE
        OBVIOUS
    <2>2. PICK c \in C : \A d \in C : d \subseteq c => d = c
        <3>1. HasSmallest(C)
            BY <1>7, <2>1, Smallest, Zenon
        <3>. QED  BY <3>1, Zenon DEF HasSmallest
    <2>3. c \in SUBSET S /\ ~(iter[c] \in Nat /\ \A m \in c : ~h[m].used => h[m].size <= iter[c])
        BY <1>6, <2>2, Zenon
    <2>4. CASE c = {}
        <3>1. iter[c] = 0
            BY <1>5, <2>3, <2>4, Zenon
        <3>. QED  BY <2>3, <2>4, <3>1
    <2>5. CASE c # {}
        <3>1. PICK x, d, n : x = Chosen(c) /\ d = c \ {x} /\ n = iter[d]
            BY Zenon
        <3>2. x \in c /\ d \subseteq c /\ d # c /\ d \in SUBSET S
            BY <2>3, <2>5, <3>1, ChosenIs, Zenon
        <3>3. n \in Nat /\ \A m \in d : ~h[m].used => h[m].size <= n
            BY <1>6, <2>2, <3>1, <3>2, Zenon
        <3>4. iter[c] = Plus(h[x], n)
            BY <1>5, <2>3, <2>5, <3>1, Zenon
        <3>5. \A m \in c : h[m] \in Blocks
            BY <2>3
        <3>6. h[x].size \in Nat /\ h[x].used \in BOOLEAN
            BY <3>2, <3>5 DEF Blocks
        <3>7. PICK v : v = iter[c]
            BY Zenon
        <3>8. v \in Nat /\ n <= v /\ (~h[x].used => h[x].size <= v)
            BY <3>3, <3>4, <3>6, <3>7 DEF Plus
        <3>9. ASSUME NEW m \in c, ~h[m].used PROVE h[m].size <= v
            <4>1. CASE m = x
                BY <3>8, <3>9, <4>1, Zenon
            <4>2. CASE m # x
                <5>1. m \in d
                    BY <3>1, <4>2, Zenon
                <5>2. h[m].size <= n /\ h[m].size \in Nat
                    <6>1. h[m].size <= n
                        BY <3>3, <3>9, <5>1, Zenon
                    <6>2. h[m].size \in Nat
                        BY <3>5 DEF Blocks
                    <6>. QED  BY <6>1, <6>2, Zenon
                <5>. QED  BY <3>3, <3>8, <5>2
            <4>. QED  BY <4>1, <4>2, Zenon
        <3>. QED  BY <2>3, <3>7, <3>8, <3>9, Zenon
    <2>. QED  BY <2>4, <2>5, Zenon
<1>9. PICK v : v = iter[S]
    BY Zenon
<1>10. v \in Nat /\ \A m \in S : ~h[m].used => h[m].size <= v
    <2>1. S \in SUBSET S
        OBVIOUS
    <2>2. S \notin C
        BY <1>8, Zenon
    <2>. QED  BY <1>6, <1>9, <2>1, <2>2, Zenon
<1>. QED  BY <1>4, <1>9, <1>10, Zenon

(* The memory available in a heap that is one free block. *)
LEMMA OneBlockIsAvail ==
    ASSUME NEW h, NEW m, DOMAIN h = {m}, ~h[m].used, h[m].size \in Nat
    PROVE  GetAvailMemory(h) = h[m].size
<1>. DEFINE S == DOMAIN h
            step(f) == [s \in SUBSET S |->
                            IF s = {} THEN 0
                            ELSE Plus(h[CHOOSE x \in s : TRUE], f[s \ {CHOOSE x \in s : TRUE}])]
            iter == CHOOSE f : f = step(f)
            g == [s \in SUBSET S |-> IF s = {} THEN 0 ELSE h[m].size]
<1>1. ASSUME NEW s \in SUBSET S, s # {}
      PROVE  (CHOOSE x \in s : TRUE) = m /\ s \ {CHOOSE x \in s : TRUE} = {}
    <2>1. s = {m}
        BY <1>1
    <2>2. (CHOOSE x \in {m} : TRUE) = m
        BY Zenon
    <2>. QED  BY <2>1, <2>2
<1>2. {} \in SUBSET S /\ S \in SUBSET S /\ S # {}
    OBVIOUS
<1>3. Plus(h[m], 0) = h[m].size
    BY DEF Plus
<1>4. g = step(g)
    <2>1. g[{}] = 0
        BY <1>2
    <2>2. ASSUME NEW s \in SUBSET S
          PROVE  (IF s = {} THEN 0 ELSE h[m].size) =
                    IF s = {} THEN 0
                    ELSE Plus(h[CHOOSE x \in s : TRUE], g[s \ {CHOOSE x \in s : TRUE}])
        <3>. HIDE DEF g
        <3>. QED  BY <1>1, <1>3, <2>1, Zenon
    <2>. QED  BY <2>2, Zenon
<1>5. iter = step(iter)
    <2>. HIDE DEF step, g
    <2>. QED  BY <1>4, Zenon
<1>6. GetAvailMemory(h) = iter[S]
    BY Zenon DEF GetAvailMemory, FoldFunction, FoldFunctionOnSet, MapThenFoldSet, Plus
<1>. HIDE DEF iter
<1>7. iter[{}] = 0
    BY <1>2, <1>5, Zenon
<1>8. iter[S] = Plus(h[m], 0)
    BY <1>1, <1>2, <1>5, <1>7, Zenon
<1>. QED  BY <1>3, <1>6, <1>8, Zenon

-----------------------------------------------------------------------------
(* MallocImpl. *)

(* The size it looks for. *)
LEMMA RoundedIs ==
    ASSUME SizesDoNotWrap, NEW size \in Sizes
    PROVE  /\ Rounded(size) \in Nat /\ Rounded(size) > 0 /\ Rounded(size) % 4 = 0
           /\ Rounded(size) >= size /\ size \in Nat
<1>1. PICK M, l, y : M = 2^W /\ l = Larger(size, 4) /\ y = Word(l + 3)
    BY Zenon
<1>2. M \in Nat /\ M > 24 /\ M % 4 = 0
    <2>1. PICK i \in DOMAIN Allocations : Allocations[i] > 0 /\ Allocations[i] + 2 * AllocSize <= M
        BY <1>1, MallocAssumption
    <2>2. Allocations[i] \in Nat /\ AllocSize \in Nat /\ AllocSize > 12
        BY MallocAssumption DEF kMinSize, kAllocOffset
    <2>3. M \in Nat /\ M % 4 = 0
        BY <1>1, PowersOfTwo DEF kMinSize
    <2>. QED  BY <2>1, <2>2, <2>3
<1>3. size \in Nat /\ size <= M - 4
    <2>1. size \in 0 .. M - 1
        BY <1>1, MallocAssumption, Zenon
    <2>. QED  BY <1>1, <1>2, <2>1 DEF SizesDoNotWrap, kMinSize
<1>4. l \in Nat /\ l >= 4 /\ l >= size /\ l <= M - 4
    BY <1>1, <1>2, <1>3 DEF Larger
<1>5. y = l + 3
    <2>1. l + 3 \in Nat /\ l + 3 < M /\ M # 0
        BY <1>2, <1>4
    <2>2. (l + 3) % M = l + 3
        BY <1>2, <2>1
    <2>. QED  BY <1>1, <2>2, Zenon DEF Word
<1>6. Rounded(size) = y - (y % 4)
    <2>1. Rounded(size) = Word(l + 4 - 1) - (Word(l + 4 - 1) % 4)
        BY <1>1, Zenon DEF Rounded, RoundUp, kMinSize
    <2>2. l + 4 - 1 = l + 3
        BY <1>4
    <2>. QED  BY <1>1, <2>1, <2>2, Zenon
<1>. QED  BY <1>3, <1>4, <1>5, <1>6

IsAlign(align0, align) ==
    /\ align \in Nat /\ align >= 4 /\ align % 4 = 0
    /\ 2^W % align = 0 /\ align <= 2^(W - 1)
    /\ \A p \in Nat : p % align = 0 => p % align0 = 0

(* The alignment it looks for. *)
LEMMA AlignIs ==
    ASSUME NEW align0, IsPowerOf2(align0), NEW align, align = Larger(align0, kMinSize)
    PROVE  IsAlign(align0, align)
<1>1. PICK k \in 0 .. W - 1 : align0 = 2^k
    BY Zenon DEF IsPowerOf2
<1>2. PICK M, H : M = 2^W /\ H = 2^(W - 1)
    BY Zenon
<1>3. /\ align0 \in 1 .. H /\ M % align0 = 0
      /\ IF align0 > 4 THEN align0 % 4 = 0 ELSE 4 % align0 = 0
    BY <1>1, <1>2, PowersOfTwo, Zenon DEF kMinSize
<1>4. M \in Nat /\ M % 4 = 0 /\ H \in Nat /\ H > 4
    <2>1. PICK i \in DOMAIN Allocations : Allocations[i] > 0 /\ Allocations[i] + 2 * AllocSize <= M
        BY <1>2, MallocAssumption
    <2>2. Allocations[i] \in Nat /\ AllocSize \in Nat /\ AllocSize > 12
        BY MallocAssumption DEF kMinSize, kAllocOffset
    <2>3. M \in Nat /\ M % 4 = 0 /\ M = 2 * H
        BY <1>2, PowersOfTwo, Zenon DEF kMinSize
    <2>4. H \in Nat
        BY <1>2, Words, Zenon
    <2>. QED  BY <2>1, <2>2, <2>3, <2>4
<1>5. CASE align0 > 4
    <2>1. align = align0
        BY <1>5, Zenon DEF Larger, kMinSize
    <2>2. align \in Nat /\ align >= 4 /\ align <= H
        BY <1>3, <1>4, <1>5, <2>1
    <2>. QED  BY <1>2, <1>3, <1>5, <2>1, <2>2, Zenon DEF IsAlign
<1>6. CASE ~(align0 > 4)
    <2>1. align = 4
        BY <1>6, Zenon DEF Larger, kMinSize
    <2>2. ASSUME NEW p \in Nat, p % 4 = 0 PROVE p % align0 = 0
        <3>1. align0 \in Nat \ {0} /\ 4 \in Nat \ {0} /\ 4 % align0 = 0 /\ p \in Int
            BY <1>3, <1>4, <1>6
        <3>. QED  BY <2>2, <3>1, DivisorsDivide, Zenon
    <2>3. 4 \in Nat /\ 4 >= 4 /\ 4 % 4 = 0 /\ 4 <= H
        BY <1>4
    <2>. QED  BY <1>2, <1>4, <2>1, <2>2, <2>3, Zenon DEF IsAlign
<1>. QED  BY <1>5, <1>6, Zenon

(* The first of some headers, in the order of IterMallocHeaders. *)
LEMMA FirstIs ==
    ASSUME NEW list, Apart(list), NEW h, Tiled(list, h), NEW fit, fit \subseteq DOMAIN h, fit # {}
    PROVE  (CHOOSE m \in fit : \A n \in fit : n = m \/ Before(list, m, n)) \in fit
<1>1. \A m \in fit : m \in Nat /\ AllocOf(list, m) \in Nat
    <2>1. Tiling(list, DOMAIN h, Ends(h))
        BY Zenon DEF Tiled
    <2>2. \A m \in fit : m \in Nat /\ AllocOf(list, m) \in DOMAIN list
        BY <2>1, HeaderIs
    <2>. QED  BY <2>2, Zenon DEF Apart
<1>2. PICK I : I = {AllocOf(list, m) : m \in fit}
    BY Zenon
<1>3. I \subseteq Nat /\ I # {}
    BY <1>1, <1>2, Zenon
<1>4. PICK i \in I : \A x \in I : i <= x
    BY <1>3, Least, Zenon
<1>5. PICK T : T = {m \in fit : AllocOf(list, m) = i}
    BY Zenon
<1>6. T \subseteq Nat /\ T # {}
    BY <1>1, <1>2, <1>4, <1>5, Zenon
<1>7. PICK m \in T : \A x \in T : m <= x
    BY <1>6, Least, Zenon
<1>8. m \in fit /\ AllocOf(list, m) = i /\ m \in Nat /\ i \in Nat
    BY <1>1, <1>5, <1>7, Zenon
<1>9. ASSUME NEW n \in fit, n # m PROVE Before(list, m, n)
    <2>1. PICK j : j = AllocOf(list, n)
        BY Zenon
    <2>2. j \in Nat /\ n \in Nat /\ i <= j
        BY <1>1, <1>2, <1>4, <2>1, Zenon
    <2>3. j = i => m <= n
        BY <1>5, <1>7, <2>1, Zenon
    <2>4. i < j \/ (i = j /\ m < n)
        BY <1>8, <1>9, <2>2, <2>3
    <2>. QED  BY <1>8, <2>1, <2>4, Zenon DEF Before
<1>. QED  BY <1>8, <1>9, Zenon

(* What MallocImpl returns: nothing, or an aligned block that was free. *)
IsAnswer(list, h, size, align, r) ==
    /\ r.trap = FALSE
    /\ r.hdr = h \/ \E x : Tiled(list, x) /\ r.hdr = MergeMallocHeaders(list, x)
    /\ \/ r.ptr = NULL /\ IsKept(list, h, r.hdr)
       \/ /\ r.ptr \in Nat /\ r.ptr > 0 /\ r.ptr < 2^W /\ r.ptr % align = 0
          /\ IsGiven(list, h, size, r.ptr, r.hdr)

(* Where MallocImpl puts a block. *)
LEMMA FitIsInside ==
    ASSUME NEW list, Apart(list), NEW h, Tiled(list, h), NEW m \in DOMAIN h,
           NEW align \in Nat, align >= 4, align % 4 = 0, 2^W % align = 0, align <= 2^(W - 1),
           NEW size \in Nat, size > 0, size % 4 = 0, Fits(h, m, size, align),
           NEW at, at = Place(m, align)
    PROVE  /\ at \in Nat /\ at > 0 /\ at < 2^W /\ at % align = 0
           /\ IsGiven(list, h, size, at, Partition(h, m, size, at))
<1>1. PICK e, M : e = End(h, m) /\ M = 2^W
    BY Zenon
<1>2. /\ m \in Nat /\ m % 4 = 0 /\ Addr(m) = m + 4 /\ e \in Nat /\ e % 4 = 0
      /\ h[m].size \in Nat /\ e = m + 4 + h[m].size /\ h[m].size > 0
    BY <1>1, BlockIs, Zenon
<1>3. ~h[m].used /\ size <= h[m].size
    BY Zenon DEF Fits
<1>4. PICK i \in DOMAIN list : list[i] + 8 <= m /\ e <= list[i] + AllocSize
    <2>1. Tiling(list, DOMAIN h, Ends(h)) /\ Ends(h)[m] = e
        BY <1>1, BlockIs, Zenon DEF Tiled
    <2>. QED  BY <2>1, Zenon DEF Tiling
<1>5. list[i] \in Nat /\ AllocSize \in Nat /\ list[i] + 2 * AllocSize <= M /\ M \in Nat
    <2>1. list[i] \in Nat /\ list[i] + 2 * AllocSize <= M
        BY <1>1, Zenon DEF Apart
    <2>. QED  BY <1>1, <2>1, Words, MallocAssumption
<1>6. m + 4 < e /\ m + 4 + size <= e /\ e + size < M /\ e < M
    BY <1>2, <1>3, <1>4, <1>5, SMTT(30)
<1>7. \/ Addr(m) % align = 0
      \/ Word(at + size) <= e /\ Word(e - at) \in 1 .. kSizeMax
    BY <1>1, Zenon DEF Fits
<1>8. /\ at \in Nat /\ at % align = 0 /\ at % 4 = 0
      /\ at = m + 4 \/ at >= m + 4 + 8
      /\ at + size <= e
    <2>1. Addr(m) < e /\ Addr(m) + size <= e /\ e + size < 2^W
        BY <1>1, <1>2, <1>6, Zenon
    <2>2. \/ Addr(m) % align = 0
          \/ Word(Place(m, align) + size) <= e /\ Word(e - Place(m, align)) \in 1 .. kSizeMax
        BY <1>7, Zenon
    <2>3. /\ Place(m, align) \in Nat
          /\ Place(m, align) % align = 0 /\ Place(m, align) % 4 = 0
          /\ Place(m, align) = Addr(m) \/ Place(m, align) >= Addr(m) + 8
          /\ Place(m, align) + size <= e
        BY <1>2, <2>1, <2>2, PlaceIsInside, SMTT(30)
    <2>. QED  BY <1>2, <2>3, Zenon
<1>9. at > 0 /\ at < M
    <2>1. e < M /\ M \in Nat /\ e \in Nat /\ m \in Nat /\ at \in Nat
        BY <1>2, <1>5, <1>6, <1>8, Zenon
    <2>2. at + size <= e /\ (at = m + 4 \/ at >= m + 4 + 8)
        BY <1>8, Zenon
    <2>. QED  BY <2>1, <2>2
<1>10. IsGiven(list, h, size, at, Partition(h, m, size, at))
    <2>1. at = Addr(m) \/ at >= Addr(m) + 8
        BY <1>2, <1>8, Zenon
    <2>2. at + size <= End(h, m)
        BY <1>1, <1>8, Zenon
    <2>. QED  BY <1>3, <1>8, <2>1, <2>2, PartitionKeeps, Zenon
<1>. QED  BY <1>1, <1>8, <1>9, <1>10, Zenon

(* Merging after giving a block. *)
LEMMA GivenThenKept ==
    ASSUME NEW list, NEW h, NEW size \in Nat, NEW least \in Nat, least <= size, NEW at,
           NEW p, IsGiven(list, h, size, at, p), p[at - 4].size \in Nat,
           NEW r, IsKept(list, p, r)
    PROVE  IsGiven(list, h, least, at, r)
<1>1. Tiled(list, r) /\ InUse(r) = InUse(h) \cup {at - 4} /\ at - 4 \notin InUse(h)
    BY Zenon DEF IsGiven, IsKept
<1>2. \A k \in InUse(h) : r[k] = h[k]
    BY Zenon DEF IsGiven, IsKept
<1>3. r[at - 4] = p[at - 4] /\ p[at - 4].size >= size
    BY Zenon DEF IsGiven, IsKept
<1>4. r[at - 4].size >= least
    <2>1. PICK x : x = p[at - 4].size
        BY Zenon
    <2>2. x \in Nat /\ x >= size
        BY <1>3, <2>1, Zenon
    <2>3. x >= least
        BY <2>2, SMTT(30)
    <2>. QED  BY <1>3, <2>1, <2>3, Zenon
<1>. QED  BY <1>1, <1>2, <1>4, Zenon DEF IsGiven

(* MallocImpl keeps the blocks of others and gives one that fits, if any. *)
LEMMA ImplKeeps ==
    ASSUME SizesDoNotWrap, NEW list, Apart(list), NEW h, Tiled(list, h),
           NEW size0 \in Sizes, NEW align0
    PROVE  IsAnswer(list, h, size0, align0, MallocImpl(list, h, size0, align0))
<1>1. PICK size, align, fit, first, at, r :
        /\ size = Rounded(size0) /\ align = Larger(align0, kMinSize)
        /\ fit = {m \in DOMAIN h : Fits(h, m, size, align)}
        /\ first = CHOOSE m \in fit : \A n \in fit : n = m \/ Before(list, m, n)
        /\ at = Place(first, align)
        /\ r = MallocImpl(list, h, size0, align0)
    BY Zenon
<1>2. PICK none : none = (size0 = 0 \/ ~IsPowerOf2(align0) \/ size > kSizeMax
                            \/ size > GetAvailMemory(h))
    BY Zenon
<1>3. size \in Nat /\ size > 0 /\ size % 4 = 0 /\ size0 <= size /\ size0 \in Nat
    BY <1>1, RoundedIs
<1>4. r = IF none THEN [hdr |-> h, ptr |-> NULL, trap |-> FALSE]
          ELSE IF fit = {}
          THEN [hdr |-> MergeMallocHeaders(list, h), ptr |-> NULL, trap |-> FALSE]
          ELSE [hdr |-> MergeMallocHeaders(list, Partition(h, first, size, at)),
                ptr |-> at, trap |-> FALSE]
    <2>1. size # 0
        BY <1>3
    <2>. QED  BY <1>1, <1>2, <2>1, Zenon DEF MallocImpl
<1>5. CASE none
    <2>1. r.hdr = h /\ r.ptr = NULL /\ r.trap = FALSE
        BY <1>4, <1>5
    <2>2. IsKept(list, h, h)
        BY Zenon DEF IsKept
    <2>. QED  BY <1>1, <2>1, <2>2, Zenon DEF IsAnswer
<1>6. CASE ~none /\ fit = {}
    <2>1. r.hdr = MergeMallocHeaders(list, h) /\ r.ptr = NULL /\ r.trap = FALSE
        BY <1>4, <1>6
    <2>2. IsKept(list, h, r.hdr)
        BY <2>1, MergeTiles, Zenon
    <2>. QED  BY <1>1, <2>1, <2>2, Zenon DEF IsAnswer
<1>7. CASE ~none /\ fit # {}
    <2>1. PICK p : p = Partition(h, first, size, at)
        BY Zenon
    <2>2. r.hdr = MergeMallocHeaders(list, p) /\ r.ptr = at /\ r.trap = FALSE
        BY <1>4, <1>7, <2>1
    <2>3. first \in DOMAIN h /\ Fits(h, first, size, align)
        <3>1. \A m \in fit : m \in DOMAIN h /\ Fits(h, m, size, align)
            BY <1>1, Zenon
        <3>2. fit \subseteq DOMAIN h
            BY <3>1, Zenon
        <3>3. first \in fit
            BY <1>1, <1>7, <3>2, FirstIs, Zenon
        <3>. QED  BY <3>1, <3>3, Zenon
    <2>4. /\ align \in Nat /\ align >= 4 /\ align % 4 = 0
          /\ 2^W % align = 0 /\ align <= 2^(W - 1)
          /\ \A x \in Nat : x % align = 0 => x % align0 = 0
        <3>1. IsPowerOf2(align0)
            BY <1>2, <1>7, Zenon
        <3>2. IsAlign(align0, align)
            BY <1>1, <3>1, AlignIs, Zenon
        <3>. QED  BY <3>2, Zenon DEF IsAlign
    <2>5. /\ at \in Nat /\ at > 0 /\ at < 2^W /\ at % align = 0
          /\ IsGiven(list, h, size, at, p)
        BY <1>1, <1>3, <2>1, <2>3, <2>4, FitIsInside, SMTT(30)
    <2>6. Tiled(list, p) /\ p[at - 4].size \in Nat
        <3>1. Tiled(list, p) /\ at - 4 \in DOMAIN p
            BY <2>5, Zenon DEF IsGiven, InUse
        <3>. QED  BY <3>1, BlockIs, Zenon
    <2>7. IsKept(list, p, r.hdr)
        BY <2>2, <2>6, MergeTiles, Zenon
    <2>8. IsGiven(list, h, size0, at, r.hdr)
        BY <1>3, <2>5, <2>6, <2>7, GivenThenKept, Zenon
    <2>9. at % align0 = 0
        BY <2>4, <2>5, Zenon
    <2>. QED  BY <1>1, <2>2, <2>5, <2>6, <2>8, <2>9, Zenon DEF IsAnswer
<1>. QED  BY <1>5, <1>6, <1>7, Zenon

(* MallocImpl merges the only allocation or leaves it. *)
LEMMA AnswerIsJoined ==
    ASSUME NEW list, Apart(list), DOMAIN list = {1}, NEW h, Joined(h),
           NEW size, NEW align, NEW r, IsAnswer(list, h, size, align, r)
    PROVE  Joined(r.hdr)
<1>1. CASE r.hdr = h
    BY <1>1, Zenon
<1>2. CASE \E x : Tiled(list, x) /\ r.hdr = MergeMallocHeaders(list, x)
    BY <1>2, MergeJoins, Zenon
<1>. QED  BY <1>1, <1>2, Zenon DEF IsAnswer

(* SetupNewAllocation adds a block that tiles the new allocation. *)
LEMMA SetupKeeps ==
    ASSUME NEW list, NEW more, Apart(more), NEW l, l \notin DOMAIN list,
           DOMAIN more = DOMAIN list \cup {l}, \A i \in DOMAIN list : more[i] = list[i],
           NEW h, Tiled(list, h)
    PROVE  IsKept(more, h, SetupNewAllocation(h, more[l]))
<1>1. PICK D, E, n, a, r, b, F :
        /\ D = DOMAIN h /\ E = Ends(h) /\ a = more[l] /\ n = a + 8
        /\ b = [size |-> AllocSize - 4 - 8, used |-> FALSE]
        /\ r = SetupNewAllocation(h, more[l])
        /\ F = [k \in D \cup {n} |-> IF k = n THEN a + AllocSize ELSE E[k]]
    BY Zenon
<1>2. /\ a \in Nat /\ a % 4 = 0 /\ n \in Nat /\ n % 4 = 0 /\ (a + AllocSize) % 4 = 0
      /\ AllocSize \in Nat /\ n + 4 < a + AllocSize
    <2>1. a \in Nat /\ a % 4 = 0
        BY <1>1, Zenon DEF Apart
    <2>2. AllocSize \in Nat /\ AllocSize % 4 = 0 /\ AllocSize > 12
        BY MallocAssumption, SMTT(30) DEF kMinSize, kAllocOffset
    <2>. QED  BY <1>1, <2>1, <2>2, SMTT(30)
<1>3. Tiling(list, D, E) /\ h \in [D -> Blocks] /\ \A k \in D : E[k] = End(h, k)
    BY <1>1, Zenon DEF Tiled, Ends
<1>4. ASSUME NEW k \in D
      PROVE  k \in Nat /\ E[k] \in Nat /\ k < E[k] /\ (E[k] <= a \/ a + AllocSize <= k)
    <2>1. k \in Nat /\ E[k] \in Nat /\ k + 4 < E[k]
        BY <1>3 DEF Tiling
    <2>2. PICK i \in DOMAIN list : list[i] + 8 <= k /\ E[k] <= list[i] + AllocSize
        BY <1>3, Zenon DEF Tiling
    <2>3. more[i] = list[i] /\ i \in DOMAIN more /\ l \in DOMAIN more /\ i # l
        BY <2>2, Zenon
    <2>4. list[i] \in Nat /\ (list[i] + AllocSize <= a \/ a + AllocSize <= list[i])
        BY <1>1, <2>3, Zenon DEF Apart
    <2>. QED  BY <1>2, <2>1, <2>2, <2>4
<1>5. n \notin D
    BY <1>1, <1>2, <1>4, SMTT(30)
<1>6. F[n] = a + AllocSize /\ \A k \in D : F[k] = E[k] /\ k # n
    BY <1>1, <1>5, Zenon
<1>7. Tiling(more, D \cup {n}, F)
    <2>1. D \cup {n} \subseteq Nat /\ F \in [D \cup {n} -> Nat]
        <3>1. \A k \in D \cup {n} : k \in Nat /\ F[k] \in Nat
            BY <1>2, <1>4, <1>6
        <3>2. F = [k \in D \cup {n} |-> F[k]]
            BY <1>1, Zenon
        <3>. QED  BY <3>1, <3>2, Zenon
    <2>2. \A i \in DOMAIN more : more[i] + 8 \in D \cup {n}
        <3>1. \A i \in DOMAIN list : list[i] + 8 \in D
            BY <1>3, Zenon DEF Tiling
        <3>. QED  BY <1>1, <3>1, Zenon
    <2>3. ASSUME NEW k \in D \cup {n} PROVE k % 4 = 0 /\ F[k] % 4 = 0 /\ k + 4 < F[k]
        <3>1. \A x \in D : x % 4 = 0 /\ E[x] % 4 = 0 /\ x + 4 < E[x]
            BY <1>3, Zenon DEF Tiling
        <3>. QED  BY <1>2, <1>6, <3>1, Zenon
    <2>4. ASSUME NEW k \in D \cup {n}
          PROVE  \E i \in DOMAIN more :
                    /\ more[i] + 8 <= k /\ F[k] <= more[i] + AllocSize
                    /\ F[k] = more[i] + AllocSize \/ F[k] \in D \cup {n}
        <3>1. CASE k \in D
            <4>1. PICK i \in DOMAIN list :
                    /\ list[i] + 8 <= k /\ E[k] <= list[i] + AllocSize
                    /\ E[k] = list[i] + AllocSize \/ E[k] \in D
                BY <1>3, <3>1, Zenon DEF Tiling
            <4>2. i \in DOMAIN more /\ more[i] = list[i] /\ F[k] = E[k]
                BY <1>6, <3>1, <4>1, Zenon
            <4>. QED  BY <4>1, <4>2, Zenon
        <3>2. CASE k = n
            <4>1. l \in DOMAIN more /\ more[l] + 8 = k /\ F[k] = more[l] + AllocSize
                BY <1>1, <1>6, <3>2, Zenon
            <4>2. k \in Nat /\ F[k] \in Nat
                BY <1>2, <1>6, <3>2
            <4>3. more[l] + 8 <= k /\ F[k] <= more[l] + AllocSize
                BY <4>1, <4>2
            <4>. QED  BY <4>1, <4>3, Zenon
        <3>. QED  BY <3>1, <3>2, Zenon
    <2>5. ASSUME NEW k \in D \cup {n}, NEW m \in D \cup {n}, k < m PROVE F[k] <= m
        <3>1. CASE k \in D /\ m \in D
            <4>1. E[k] <= m
                BY <1>3, <2>5, <3>1, Zenon DEF Tiling
            <4>. QED  BY <1>6, <3>1, <4>1, Zenon
        <3>2. CASE k = n /\ m \in D
            BY <1>1, <1>2, <1>4, <1>6, <2>5, <3>2, SMTT(30)
        <3>3. CASE k \in D /\ m = n
            BY <1>1, <1>2, <1>4, <1>6, <2>5, <3>3, SMTT(30)
        <3>4. CASE k = n /\ m = n
            BY <1>2, <2>5, <3>4
        <3>. QED  BY <3>1, <3>2, <3>3, <3>4, Zenon
    <2>. QED  BY <2>1, <2>2, <2>3, <2>4, <2>5, Zenon DEF Tiling
<1>8. r = [k \in D \cup {n} |-> IF k = n THEN b ELSE h[k]]
    BY <1>1, Zenon DEF SetupNewAllocation, With, kMinSize, kAllocOffset
<1>9. DOMAIN r = D \cup {n} /\ r[n] = b /\ \A k \in D : r[k] = h[k]
    BY <1>6, <1>8, Zenon
<1>10. b \in Blocks /\ ~b.used /\ End(r, n) = a + AllocSize
    <2>1. AllocSize - 4 - 8 \in Nat /\ n + 4 + (AllocSize - 4 - 8) = a + AllocSize
        BY <1>1, <1>2, SMTT(30)
    <2>2. b \in Blocks /\ ~b.used /\ b.size = AllocSize - 4 - 8
        BY <1>1, <2>1 DEF Blocks
    <2>. QED  BY <1>9, <2>1, <2>2, Zenon DEF End, Addr, kMinSize
<1>11. Tiled(more, r)
    <2>1. \A k \in D \cup {n} : r[k] \in Blocks /\ End(r, k) = F[k]
        BY <1>3, <1>6, <1>9, <1>10, Zenon DEF End
    <2>2. r \in [D \cup {n} -> Blocks]
        <3>1. r = [k \in D \cup {n} |-> r[k]]
            BY <1>8, Zenon
        <3>. QED  BY <2>1, <3>1, Zenon
    <2>3. Ends(r) = F
        <3>1. Ends(r) = [k \in D \cup {n} |-> End(r, k)]
            BY <1>9, Zenon DEF Ends
        <3>2. F = [k \in D \cup {n} |-> F[k]]
            BY <1>1, Zenon
        <3>. QED  BY <2>1, <3>1, <3>2, Zenon
    <2>. QED  BY <1>7, <1>9, <2>2, <2>3, Zenon DEF Tiled
<1>12. InUse(r) = InUse(h) /\ \A k \in InUse(h) : r[k] = h[k]
    BY <1>1, <1>9, <1>10, Zenon DEF InUse
<1>. QED  BY <1>1, <1>11, <1>12, Zenon DEF IsKept

(* The allocations handed out so far. *)
LEMMA HandedOut ==
    ASSUME NEW n \in 0 .. Len(Allocations), NEW list, list = SubSeq(Allocations, 1, n)
    PROVE  Apart(list) /\ DOMAIN list = 1 .. n /\ Len(list) = n
           /\ \A i \in 1 .. n : list[i] = Allocations[i]
<1>1. Allocations \in Seq(Nat)
    BY MallocAssumption
<1>2. Len(list) = n /\ DOMAIN list = 1 .. n /\ \A i \in 1 .. n : list[i] = Allocations[i]
    BY <1>1
<1>3. \A i \in 1 .. n : i \in DOMAIN Allocations /\ i \in Nat /\ Allocations[i] \in Nat
    BY <1>1
<1>4. \A i \in DOMAIN Allocations :
        /\ Allocations[i] > 0 /\ Allocations[i] % 4 = 0
        /\ Allocations[i] + 2 * AllocSize <= 2^W
        /\ \A j \in DOMAIN Allocations :
            i # j => \/ Allocations[i] + AllocSize <= Allocations[j]
                     \/ Allocations[j] + AllocSize <= Allocations[i]
    BY MallocAssumption, Zenon DEF kMinSize
<1>5. Apart(list)
    BY <1>2, <1>3, <1>4, Zenon DEF Apart
<1>. QED  BY <1>2, <1>5, Zenon

-----------------------------------------------------------------------------
(* The inductive invariant: the blocks tile the allocations, and what the
   callers hold are the blocks in use. *)

Held(h, l) ==
    /\ DOMAIN l = {Addr(m) : m \in InUse(h)}
    /\ \A p \in DOMAIN l :
        /\ p \in Nat /\ p > 0 /\ p < 2^W
        /\ ~l[p].shared /\ h[p - 4].size >= l[p].size /\ p % l[p].align = 0

MallocInv ==
    /\ trap = FALSE
    /\ \E n \in 1 .. Len(Allocations) : allocs = SubSeq(Allocations, 1, n)
    /\ Tiled(allocs, hdr) /\ Held(hdr, live)
    /\ Len(allocs) = 1 => Joined(hdr)

(* What is held when the blocks in use do not change. *)
LEMMA KeptAreHeld ==
    ASSUME NEW list, Apart(list), NEW h, Tiled(list, h), NEW r, IsKept(list, h, r),
           NEW l, Held(h, l)
    PROVE  Held(r, l)
<1>1. InUse(r) = InUse(h) /\ \A k \in InUse(h) : r[k] = h[k]
    BY Zenon DEF IsKept
<1>2. DOMAIN l = {Addr(m) : m \in InUse(r)}
    BY <1>1, Zenon DEF Held
<1>3. ASSUME NEW p \in DOMAIN l PROVE r[p - 4] = h[p - 4]
    <2>1. PICK m \in InUse(h) : p = Addr(m)
        BY Zenon DEF Held
    <2>2. m \in Nat /\ Addr(m) = m + 4
        <3>1. m \in DOMAIN h
            BY Zenon DEF InUse
        <3>. QED  BY <3>1, BlockIs, Zenon
    <2>3. p - 4 = m
        BY <2>1, <2>2
    <2>. QED  BY <1>1, <2>1, <2>3, Zenon
<1>. QED  BY <1>2, <1>3, Zenon DEF Held

(* What is held after a block is given. *)
LEMMA GivenIsHeld ==
    ASSUME NEW list, Apart(list), NEW h, Tiled(list, h), NEW size, NEW align,
           NEW at \in Nat, at > 0, at < 2^W, at % align = 0,
           NEW r, IsGiven(list, h, size, at, r), NEW l, Held(h, l),
           NEW k, k = With(l, at, [size |-> size, align |-> align, shared |-> at \in DOMAIN l])
    PROVE  Held(r, k)
<1>1. /\ at - 4 \notin InUse(h) /\ InUse(r) = InUse(h) \cup {at - 4}
      /\ r[at - 4].size >= size /\ \A m \in InUse(h) : r[m] = h[m]
    BY Zenon DEF IsGiven
<1>2. \A m \in InUse(h) : m \in Nat /\ Addr(m) = m + 4
    <2>1. \A m \in InUse(h) : m \in DOMAIN h
        BY Zenon DEF InUse
    <2>. QED  BY <2>1, BlockIs, Zenon
<1>3. Addr(at - 4) = at
    BY DEF Addr, kMinSize
<1>4. DOMAIN l = {Addr(m) : m \in InUse(h)}
    BY Zenon DEF Held
<1>5. at \notin DOMAIN l
    <2>1. SUFFICES ASSUME NEW m \in InUse(h), at = Addr(m) PROVE FALSE
        BY <1>4, Zenon
    <2>2. at - 4 = m
        BY <1>2, <2>1
    <2>. QED  BY <1>1, <2>2, Zenon
<1>6. DOMAIN k = DOMAIN l \cup {at}
    BY Zenon DEF With
<1>7. DOMAIN k = {Addr(m) : m \in InUse(r)}
    BY <1>1, <1>3, <1>4, <1>6, Zenon
<1>8. k[at] = [size |-> size, align |-> align, shared |-> at \in DOMAIN l]
    BY Zenon DEF With
<1>9. ~k[at].shared /\ k[at].size = size /\ k[at].align = align
    <2>1. k[at] = [size |-> size, align |-> align, shared |-> FALSE]
        <3>1. (at \in DOMAIN l) = FALSE
            BY <1>5
        <3>. QED  BY <1>8, <3>1, Zenon
    <2>. QED  BY <2>1, SMTT(30)
<1>10. ASSUME NEW p \in DOMAIN l PROVE k[p] = l[p] /\ r[p - 4] = h[p - 4]
    <2>1. k[p] = l[p]
        BY <1>5, Zenon DEF With
    <2>2. PICK m \in InUse(h) : p = Addr(m)
        BY <1>4, Zenon
    <2>3. p - 4 = m
        BY <1>2, <2>2
    <2>. QED  BY <1>1, <2>1, <2>2, <2>3, Zenon
<1>11. ASSUME NEW p \in DOMAIN k
       PROVE  /\ p \in Nat /\ p > 0 /\ p < 2^W
              /\ ~k[p].shared /\ r[p - 4].size >= k[p].size /\ p % k[p].align = 0
    <2>1. CASE p = at
        BY <1>1, <1>9, <2>1, Zenon
    <2>2. CASE p \in DOMAIN l
        <3>1. /\ p \in Nat /\ p > 0 /\ p < 2^W
              /\ ~l[p].shared /\ h[p - 4].size >= l[p].size /\ p % l[p].align = 0
            BY <2>2, Zenon DEF Held
        <3>. QED  BY <1>10, <2>2, <3>1, Zenon
    <2>. QED  BY <1>6, <2>1, <2>2, Zenon
<1>. QED  BY <1>7, <1>11, Zenon DEF Held

(* The end of malloc, for what MallocImpl returned on the headers h. *)
LEMMA ReturnsKeep ==
    ASSUME NEW list, Apart(list), NEW h, Tiled(list, h), Held(h, live),
           NEW size, NEW align, NEW r, IsAnswer(list, h, size, align, r),
           Returns(size, align, r)
    PROVE  trap' = FALSE /\ Tiled(list, hdr') /\ Held(hdr', live')
<1>1. trap' = FALSE /\ hdr' = r.hdr
    BY Zenon DEF Returns, IsAnswer
<1>2. CASE r.ptr = NULL /\ IsKept(list, h, r.hdr)
    <2>1. live' = live
        BY <1>2, Zenon DEF Returns
    <2>2. Tiled(list, r.hdr)
        BY <1>2, Zenon DEF IsKept
    <2>3. Held(r.hdr, live)
        BY <1>2, KeptAreHeld, Zenon
    <2>. QED  BY <1>1, <2>1, <2>2, <2>3, Zenon
<1>3. CASE /\ r.ptr \in Nat /\ r.ptr > 0 /\ r.ptr < 2^W /\ r.ptr % align = 0
           /\ IsGiven(list, h, size, r.ptr, r.hdr)
    <2>1. r.ptr # NULL
        BY <1>3 DEF NULL
    <2>2. live' = With(live, r.ptr, [size |-> size, align |-> align,
                                     shared |-> r.ptr \in DOMAIN live])
        BY <2>1, Zenon DEF Returns
    <2>3. Tiled(list, r.hdr)
        BY <1>3, Zenon DEF IsGiven
    <2>4. Held(r.hdr, live')
        <3>1. PICK at, g, k : at = r.ptr /\ g = r.hdr /\ k = live'
            BY Zenon
        <3>2. k = With(live, at, [size |-> size, align |-> align, shared |-> at \in DOMAIN live])
            BY <2>2, <3>1, Zenon
        <3>3. at \in Nat /\ at > 0 /\ at < 2^W /\ at % align = 0 /\ IsGiven(list, h, size, at, g)
            BY <1>3, <3>1, Zenon
        <3>4. Held(g, k)
            BY <3>2, <3>3, GivenIsHeld, SMTT(30)
        <3>. QED  BY <3>1, <3>4, Zenon
    <2>. QED  BY <1>1, <2>3, <2>4, Zenon
<1>. QED  BY <1>2, <1>3, Zenon DEF IsAnswer

(* The first allocation is one free block. *)
LEMMA InitKeeps == Init => MallocInv
<1>. SUFFICES ASSUME Init PROVE MallocInv
    OBVIOUS
<1>1. PICK none, list, n : /\ none = [m \in {} |-> NULL] /\ list = SubSeq(Allocations, 1, 0)
                           /\ n = 1
    BY Zenon
<1>2. /\ 0 \in 0 .. Len(Allocations) /\ 1 \in 0 .. Len(Allocations) /\ 1 \in 1 .. Len(Allocations)
      /\ Allocations \in Seq(Nat)
    BY MallocAssumption
<1>3. PICK one : one = SubSeq(Allocations, 1, 1)
    BY Zenon
<1>4. Apart(one) /\ DOMAIN one = 1 .. 1 /\ one[1] = Allocations[1] /\ allocs = one
    <2>1. /\ Apart(one) /\ DOMAIN one = 1 .. n /\ Len(one) = n
          /\ \A i \in 1 .. n : one[i] = Allocations[i]
        <3>1. n \in 0 .. Len(Allocations) /\ one = SubSeq(Allocations, 1, n)
            BY <1>1, <1>2, <1>3, Zenon
        <3>. QED  BY <3>1, HandedOut, Zenon
    <2>2. one = <<Allocations[1]>>
        <3>1. PICK a : a = Allocations[1]
            BY Zenon
        <3>2. one \in Seq(Nat)
            BY <1>2, <1>3
        <3>3. Len(one) = 1 /\ one[1] = a
            BY <1>1, <2>1, <3>1
        <3>4. one = <<a>>
            BY <3>2, <3>3
        <3>. QED  BY <3>1, <3>4, Zenon
    <2>3. 1 \in 1 .. 1
        OBVIOUS
    <2>. QED  BY <1>1, <2>1, <2>2, <2>3, Zenon DEF Init
<1>5. DOMAIN list = {}
    <2>1. DOMAIN list = 1 .. 0
        BY <1>1, <1>2, HandedOut, Zenon
    <2>. QED  BY <2>1
<1>6. DOMAIN none = {} /\ InUse(none) = {} /\ none = [m \in {} |-> none[m]]
    BY <1>1, Zenon DEF InUse
<1>7. Tiled(list, none)
    <2>1. none \in [{} -> Blocks]
        BY <1>6, Zenon
    <2>2. DOMAIN Ends(none) = {} /\ Ends(none) \in [{} -> Nat]
        BY <1>6, Zenon DEF Ends
    <2>3. Tiling(list, {}, Ends(none))
        BY <1>5, <2>2, Zenon DEF Tiling
    <2>. QED  BY <1>6, <2>1, <2>3, Zenon DEF Tiled
<1>8. IsKept(one, none, SetupNewAllocation(none, one[1]))
    <2>1. 1 \notin DOMAIN list /\ DOMAIN one = DOMAIN list \cup {1}
        BY <1>4, <1>5
    <2>2. \A i \in DOMAIN list : one[i] = list[i]
        BY <1>5, Zenon
    <2>. QED  BY <1>4, <1>7, <2>1, <2>2, SetupKeeps
<1>9. hdr = SetupNewAllocation(none, one[1]) /\ DOMAIN live = {} /\ trap = FALSE
    BY <1>1, <1>4, Zenon DEF Init
<1>10. Tiled(allocs, hdr) /\ InUse(hdr) = {}
    BY <1>4, <1>6, <1>8, <1>9, Zenon DEF IsKept
<1>11. Held(hdr, live)
    BY <1>9, <1>10, Zenon DEF Held
<1>12. Joined(hdr)
    <2>1. PICK x : x = one[1] + kAllocOffset
        BY Zenon
    <2>2. DOMAIN hdr = {x}
        BY <1>6, <1>9, <2>1, Zenon DEF SetupNewAllocation, With
    <2>3. x \in Nat /\ End(hdr, x) = x + 4 + hdr[x].size /\ hdr[x].size \in Nat
        <3>1. x \in DOMAIN hdr /\ Apart(allocs)
            BY <1>4, <2>2, Zenon
        <3>. QED  BY <1>10, <3>1, BlockIs, Zenon
    <2>4. End(hdr, x) # x
        BY <2>3
    <2>. QED  BY <2>2, <2>4, Zenon DEF Joined
<1>. QED  BY <1>2, <1>3, <1>4, <1>9, <1>10, <1>11, <1>12, Zenon DEF MallocInv

(* The allocations of a reachable state. *)
LEMMA OnlyOne ==
    ASSUME NEW n \in 1 .. Len(Allocations), NEW list, list = SubSeq(Allocations, 1, n)
    PROVE  Apart(list) /\ (Len(list) = 1 => DOMAIN list = {1})
<1>1. n \in 0 .. Len(Allocations)
    OBVIOUS
<1>2. /\ Apart(list) /\ DOMAIN list = 1 .. n /\ Len(list) = n
      /\ \A i \in 1 .. n : list[i] = Allocations[i]
    BY <1>1, HandedOut, Zenon
<1>3. 1 .. 1 = {1}
    OBVIOUS
<1>. QED  BY <1>2, <1>3, Zenon

(* malloc in the heap as it is. *)
LEMMA MallocKeeps ==
    ASSUME SizesDoNotWrap, MallocInv, NEW size \in Sizes, NEW align \in Aligns, malloc(size, align)
    PROVE  MallocInv'
<1>1. PICK n \in 1 .. Len(Allocations) : allocs = SubSeq(Allocations, 1, n)
    BY Zenon DEF MallocInv
<1>2. Apart(allocs) /\ (Len(allocs) = 1 => DOMAIN allocs = {1})
    BY <1>1, OnlyOne, Zenon
<1>3. PICK r : r = MallocImpl(allocs, hdr, size, align)
    BY Zenon
<1>4. Returns(size, align, r) /\ allocs' = allocs
    BY <1>3, Zenon DEF malloc
<1>5. Tiled(allocs, hdr) /\ Held(hdr, live)
    BY Zenon DEF MallocInv
<1>6. IsAnswer(allocs, hdr, size, align, r)
    BY <1>2, <1>3, <1>5, ImplKeeps, Zenon
<1>7. trap' = FALSE /\ Tiled(allocs, hdr') /\ Held(hdr', live')
    BY <1>2, <1>4, <1>5, <1>6, ReturnsKeep, Zenon
<1>8. Len(allocs) = 1 => Joined(hdr')
    <2>1. SUFFICES ASSUME Len(allocs) = 1 PROVE Joined(hdr')
        OBVIOUS
    <2>2. Joined(hdr) /\ hdr' = r.hdr
        BY <1>4, <2>1, Zenon DEF MallocInv, Returns
    <2>3. Joined(r.hdr)
        BY <1>2, <1>6, <2>1, <2>2, AnswerIsJoined
    <2>. QED  BY <2>2, <2>3, Zenon
<1>. QED  BY <1>1, <1>4, <1>7, <1>8, Zenon DEF MallocInv

(* malloc in a heap that grows. *)
LEMMA AsksKeeps ==
    ASSUME SizesDoNotWrap, MallocInv,
           NEW size \in Sizes, NEW align \in Aligns, mallocAsks(size, align)
    PROVE  MallocInv'
<1>1. PICK n \in 1 .. Len(Allocations) : allocs = SubSeq(Allocations, 1, n)
    BY Zenon DEF MallocInv
<1>2. PICK r, more : /\ r = MallocImpl(allocs, hdr, size, align)
                     /\ more = SubSeq(Allocations, 1, n + 1)
    BY Zenon
<1>3. n \in Nat /\ n \in 0 .. Len(Allocations) /\ Len(Allocations) \in Nat
    BY <1>1, MallocAssumption, SMTT(30)
<1>4. /\ Apart(allocs) /\ DOMAIN allocs = 1 .. n /\ Len(allocs) = n
      /\ \A i \in 1 .. n : allocs[i] = Allocations[i]
    BY <1>1, <1>3, HandedOut, Zenon
<1>5. r.ptr = NULL /\ Len(allocs) < Len(Allocations) /\ allocs' = more
    BY <1>2, <1>4, Zenon DEF mallocAsks
<1>6. n + 1 \in 0 .. Len(Allocations) /\ n + 1 \in 1 .. Len(Allocations)
    BY <1>3, <1>4, <1>5, SMTT(30)
<1>7. /\ Apart(more) /\ DOMAIN more = 1 .. n + 1 /\ Len(more) = n + 1
      /\ \A i \in 1 .. n + 1 : more[i] = Allocations[i]
    BY <1>2, <1>6, HandedOut, Zenon
<1>8. Tiled(allocs, hdr) /\ Held(hdr, live)
    BY Zenon DEF MallocInv
<1>9. IsKept(allocs, hdr, r.hdr)
    <2>1. IsAnswer(allocs, hdr, size, align, r)
        BY <1>2, <1>4, <1>8, ImplKeeps, Zenon
    <2>2. ~(r.ptr > 0)
        BY <1>5 DEF NULL
    <2>. QED  BY <2>1, <2>2, Zenon DEF IsAnswer
<1>10. Tiled(allocs, r.hdr) /\ Held(r.hdr, live)
    BY <1>4, <1>8, <1>9, KeptAreHeld, Zenon DEF IsKept
<1>11. PICK h, l : l = n + 1 /\ h = SetupNewAllocation(r.hdr, more[l])
    BY Zenon
<1>12. IsKept(more, r.hdr, h)
    <2>1. l \notin DOMAIN allocs /\ DOMAIN more = DOMAIN allocs \cup {l}
        BY <1>3, <1>4, <1>7, <1>11, SMTT(30)
    <2>2. \A i \in DOMAIN allocs : more[i] = allocs[i]
        BY <1>3, <1>4, <1>7, SMTT(30)
    <2>. QED  BY <1>7, <1>10, <1>11, <2>1, <2>2, SetupKeeps
<1>13. Tiled(more, h) /\ Held(h, live)
    <2>1. Tiled(more, h) /\ InUse(h) = InUse(r.hdr) /\ \A k \in InUse(r.hdr) : h[k] = r.hdr[k]
        BY <1>12, Zenon DEF IsKept
    <2>2. \A m \in InUse(r.hdr) : m \in Nat /\ Addr(m) = m + 4
        <3>1. \A m \in InUse(r.hdr) : m \in DOMAIN r.hdr
            BY Zenon DEF InUse
        <3>. QED  BY <1>4, <1>10, <3>1, BlockIs, Zenon
    <2>3. ASSUME NEW p \in DOMAIN live PROVE h[p - 4] = r.hdr[p - 4]
        <3>1. PICK m \in InUse(r.hdr) : p = Addr(m)
            BY <1>10, Zenon DEF Held
        <3>2. p - 4 = m
            BY <2>2, <3>1
        <3>. QED  BY <2>1, <3>1, <3>2, Zenon
    <2>4. DOMAIN live = {Addr(m) : m \in InUse(h)}
        BY <1>10, <2>1, Zenon DEF Held
    <2>5. Held(h, live)
        BY <1>10, <2>3, <2>4, Zenon DEF Held
    <2>. QED  BY <2>1, <2>5, Zenon
<1>14. PICK s : s = MallocImpl(more, h, size, align)
    BY Zenon
<1>15. Returns(size, align, s)
    <2>1. Len(allocs') = l
        BY <1>5, <1>7, <1>11, Zenon
    <2>. QED  BY <1>2, <1>5, <1>11, <1>14, <2>1, Zenon DEF mallocAsks
<1>16. IsAnswer(more, h, size, align, s)
    BY <1>7, <1>13, <1>14, ImplKeeps, Zenon
<1>17. trap' = FALSE /\ Tiled(more, hdr') /\ Held(hdr', live')
    BY <1>7, <1>13, <1>15, <1>16, ReturnsKeep, Zenon
<1>18. Len(more) # 1
    BY <1>1, <1>3, <1>7
<1>. QED  BY <1>2, <1>5, <1>6, <1>17, <1>18, Zenon DEF MallocInv

(* free takes one block from the callers and no other. *)
LEMMA FreeKeeps ==
    ASSUME MallocInv, NEW p \in DOMAIN live, free(p)
    PROVE  MallocInv'
<1>1. PICK n \in 1 .. Len(Allocations) : allocs = SubSeq(Allocations, 1, n)
    BY Zenon DEF MallocInv
<1>2. Apart(allocs) /\ (Len(allocs) = 1 => DOMAIN allocs = {1})
    BY <1>1, OnlyOne, Zenon
<1>3. Tiled(allocs, hdr) /\ Held(hdr, live)
    BY Zenon DEF MallocInv
<1>4. \A k \in InUse(hdr) : k \in DOMAIN hdr /\ k \in Nat /\ Addr(k) = k + 4
    <2>1. \A k \in InUse(hdr) : k \in DOMAIN hdr
        BY Zenon DEF InUse
    <2>. QED  BY <1>2, <1>3, <2>1, BlockIs, Zenon
<1>5. DOMAIN live = {Addr(k) : k \in InUse(hdr)}
    BY <1>3, Zenon DEF Held
<1>6. PICK m \in InUse(hdr) : p = Addr(m)
    BY <1>5, Zenon
<1>7. p - 4 = m /\ m \in DOMAIN hdr
    BY <1>4, <1>6
<1>8. PICK h : h = [hdr EXCEPT ![m].used = FALSE]
    BY Zenon
<1>9. IsMarked(allocs, hdr, m, FALSE, h)
    BY <1>2, <1>3, <1>7, <1>8, MarkKeeps, Zenon
<1>10. /\ Tiled(allocs, h) /\ DOMAIN h = DOMAIN hdr /\ h[m] = [size |-> hdr[m].size, used |-> FALSE]
       /\ \A k \in DOMAIN hdr : k # m => h[k] = hdr[k]
    BY <1>9, Zenon DEF IsMarked
<1>11. InUse(h) = InUse(hdr) \ {m}
    <2>1. ~h[m].used
        BY <1>10
    <2>. QED  BY <1>10, <2>1, Zenon DEF InUse
<1>12. /\ hdr' = MergeMallocHeaders(allocs, h) /\ allocs' = allocs /\ trap' = trap
       /\ live' = [q \in DOMAIN live \ {p} |-> live[q]]
    <2>1. p - kMinSize = m
        BY <1>7, Zenon DEF kMinSize
    <2>. QED  BY <1>8, <2>1, Zenon DEF free
<1>13. IsKept(allocs, h, hdr')
    BY <1>2, <1>10, <1>12, MergeTiles, Zenon
<1>14. PICK l : l = live'
    BY Zenon
<1>15. DOMAIN l = DOMAIN live \ {p} /\ \A q \in DOMAIN l : q \in DOMAIN live /\ l[q] = live[q]
    BY <1>12, <1>14, Zenon
<1>16. Held(h, l)
    <2>1. ASSUME NEW k \in InUse(hdr), k # m PROVE Addr(k) # p
        BY <1>4, <1>6, <2>1
    <2>2. DOMAIN l = {Addr(k) : k \in InUse(h)}
        BY <1>5, <1>6, <1>11, <1>15, <2>1, Zenon
    <2>3. ASSUME NEW q \in DOMAIN l PROVE h[q - 4] = hdr[q - 4]
        <3>1. PICK k \in InUse(h) : q = Addr(k)
            BY <2>2, Zenon
        <3>2. k \in InUse(hdr) /\ k # m
            BY <1>11, <3>1, Zenon
        <3>3. q - 4 = k
            BY <1>4, <3>1, <3>2
        <3>. QED  BY <1>4, <1>10, <3>2, <3>3, Zenon
    <2>4. ASSUME NEW q \in DOMAIN l
          PROVE  /\ q \in Nat /\ q > 0 /\ q < 2^W
                 /\ ~l[q].shared /\ h[q - 4].size >= l[q].size /\ q % l[q].align = 0
        <3>1. /\ q \in Nat /\ q > 0 /\ q < 2^W
              /\ ~live[q].shared /\ hdr[q - 4].size >= live[q].size /\ q % live[q].align = 0
            BY <1>3, <1>15, Zenon DEF Held
        <3>. QED  BY <1>15, <2>3, <3>1, Zenon
    <2>. QED  BY <2>2, <2>4, Zenon DEF Held
<1>17. Tiled(allocs, hdr') /\ Held(hdr', live')
    BY <1>2, <1>10, <1>13, <1>14, <1>16, KeptAreHeld, Zenon DEF IsKept
<1>18. Len(allocs) = 1 => Joined(hdr')
    BY <1>2, <1>10, <1>12, MergeJoins, Zenon
<1>. QED  BY <1>1, <1>12, <1>17, <1>18, Zenon DEF MallocInv

(* The invariant, for any word, allocations and alignments and for sizes that
   RoundUp does not wrap. *)
THEOREM MallocInvariance == ASSUME SizesDoNotWrap PROVE Spec => []MallocInv
<1>1. Init => MallocInv
    BY InitKeeps
<1>2. MallocInv /\ [Next]_vars => MallocInv'
    <2>. SUFFICES ASSUME MallocInv, [Next]_vars PROVE MallocInv'
        OBVIOUS
    <2>1. CASE \E size \in Sizes, align \in Aligns : malloc(size, align)
        BY <2>1, MallocKeeps
    <2>2. CASE \E size \in Sizes, align \in Aligns : mallocAsks(size, align)
        BY <2>2, AsksKeeps
    <2>3. CASE \E p \in DOMAIN live : free(p)
        BY <2>3, FreeKeeps
    <2>4. CASE UNCHANGED vars
        BY <2>4, Zenon DEF vars, MallocInv
    <2>. QED  BY <2>1, <2>2, <2>3, <2>4, Zenon DEF Next
<1>. QED  BY <1>1, <1>2, PTL DEF Spec

(* The walk of IterMallocHeaders stays on headers and ends with the allocation. *)
LEMMA InvTiles == ASSUME MallocInv PROVE HeadersTile
<1>1. PICK n \in 1 .. Len(Allocations) : allocs = SubSeq(Allocations, 1, n)
    BY Zenon DEF MallocInv
<1>2. Apart(allocs)
    BY <1>1, OnlyOne, Zenon
<1>3. PICK D, E : D = DOMAIN hdr /\ E = Ends(hdr)
    BY Zenon
<1>4. Tiling(allocs, D, E) /\ \A m \in D : E[m] = End(hdr, m)
    BY <1>3, Zenon DEF MallocInv, Tiled, Ends
<1>5. \A i \in DOMAIN allocs : allocs[i] + kAllocOffset \in DOMAIN hdr
    BY <1>3, <1>4, Zenon DEF Tiling, kAllocOffset
<1>6. ASSUME NEW m \in D
      PROVE  /\ E[m] = Limit(allocs, m) \/ (E[m] < Limit(allocs, m) /\ E[m] \in D)
             /\ \A k \in D : k > m => k >= E[m]
    <2>1. /\ m \in Nat /\ E[m] \in Nat /\ Limit(allocs, m) \in Nat /\ E[m] <= Limit(allocs, m)
          /\ E[m] = Limit(allocs, m) \/ E[m] \in D
        BY <1>2, <1>4, HeaderIs, Zenon
    <2>2. ASSUME NEW k \in D, k > m PROVE k >= E[m]
        <3>1. k \in Nat
            BY <1>4 DEF Tiling
        <3>2. m < k
            BY <2>1, <2>2, <3>1
        <3>3. E[m] <= k
            BY <1>4, <3>2, Zenon DEF Tiling
        <3>. QED  BY <2>1, <3>1, <3>3
    <2>. QED  BY <2>1, <2>2
<1>. QED  BY <1>3, <1>4, <1>5, <1>6, Zenon DEF HeadersTile, Limit

(* Headers are aligned and not empty, and no assert has failed. *)
LEMMA InvTypes == ASSUME MallocInv PROVE MallocTypeOK
<1>1. PICK n \in 1 .. Len(Allocations) : allocs = SubSeq(Allocations, 1, n)
    BY Zenon DEF MallocInv
<1>2. Apart(allocs) /\ Len(allocs) = n
    <2>1. n \in 0 .. Len(Allocations)
        BY <1>1
    <2>. QED  BY <1>1, <2>1, HandedOut, Zenon
<1>3. ASSUME NEW m \in DOMAIN hdr
      PROVE  /\ m % 4 = 0 /\ hdr[m].size > 0 /\ hdr[m].size % 4 = 0
             /\ hdr[m].used \in BOOLEAN
    <2>1. Tiled(allocs, hdr)
        BY Zenon DEF MallocInv
    <2>2. /\ hdr[m].size \in Nat /\ hdr[m].used \in BOOLEAN /\ m \in Nat /\ m % 4 = 0
          /\ End(hdr, m) % 4 = 0 /\ End(hdr, m) = m + 4 + hdr[m].size /\ hdr[m].size > 0
        BY <1>2, <2>1, BlockIs
    <2>3. PICK s : s = hdr[m].size
        BY Zenon
    <2>4. s \in Nat /\ m \in Nat /\ m % 4 = 0 /\ (m + 4 + s) % 4 = 0
        BY <2>2, <2>3, Zenon
    <2>5. s % 4 = 0
        BY <2>4
    <2>. QED  BY <2>2, <2>3, <2>5, Zenon
<1>4. DOMAIN live \subseteq 1 .. 2^W - 1
    <2>1. \A p \in DOMAIN live : p \in Nat /\ p > 0 /\ p < 2^W
        BY Zenon DEF MallocInv, Held
    <2>2. 2^W \in Nat
        BY PowersOfTwo
    <2>. QED  BY <2>1, <2>2
<1>5. allocs = SubSeq(Allocations, 1, Len(allocs)) /\ ~trap
    BY <1>1, <1>2, Zenon DEF MallocInv
<1>. QED  BY <1>3, <1>4, <1>5, Zenon DEF MallocTypeOK, kMinSize

(* The blocks in use are those that callers hold, one each, large enough and
   aligned. *)
LEMMA InvHolds == ASSUME MallocInv PROVE CallersKeepTheirBlocks
BY Zenon DEF MallocInv, Held, InUse, CallersKeepTheirBlocks, kMinSize

(* No sequence of calls of malloc and free, in a heap that may grow, leaves an
   empty or misaligned header or makes an assert of the allocator fail. *)
THEOREM HeadersAreValid == ASSUME SizesDoNotWrap PROVE Spec => []MallocTypeOK
<1>1. Spec => []MallocInv
    BY MallocInvariance
<1>2. MallocInv => MallocTypeOK
    BY InvTypes
<1>. QED  BY <1>1, <1>2, PTL

(* The headers of every allocation follow one another from its start to its end. *)
THEOREM HeadersAlwaysTile == ASSUME SizesDoNotWrap PROVE Spec => []HeadersTile
<1>1. Spec => []MallocInv
    BY MallocInvariance
<1>2. MallocInv => HeadersTile
    BY InvTiles
<1>. QED  BY <1>1, <1>2, PTL

(* What one caller allocates and frees never touches the block of another, and
   a block stays as large and as aligned as it was asked for. *)
THEOREM BlocksAreKept == ASSUME SizesDoNotWrap PROVE Spec => []CallersKeepTheirBlocks
<1>1. Spec => []MallocInv
    BY MallocInvariance
<1>2. MallocInv => CallersKeepTheirBlocks
    BY InvHolds
<1>. QED  BY <1>1, <1>2, PTL

-----------------------------------------------------------------------------
(* What MallocImpl finds in a heap that has not grown. *)

(* If there is room for an aligned block and a block in front of it then
   Partition finds a place that is not behind it. *)
LEMMA PlaceFits ==
    ASSUME NEW m \in Nat, NEW end \in Nat, end < 2^W, end - Addr(m) <= kSizeMax,
           NEW align \in Nat, align >= 4, 2^W % align = 0, align <= 2^(W - 1),
           NEW size \in Nat, size > 0,
           NEW p \in Nat, p % align = 0, Addr(m) + 8 <= p, p + size <= end,
           Addr(m) % align # 0
    PROVE  /\ Word(Place(m, align) + size) <= end
           /\ Word(end - Place(m, align)) \in 1 .. kSizeMax
<1>1. PICK M, H, addr, q : M = 2^W /\ H = 2^(W - 1) /\ addr = Addr(m) /\ q = Place(m, align)
    BY Zenon
<1>2. M \in Nat \ {0} /\ H \in Nat /\ M = 2 * H /\ kSizeMax = H - 1
    BY <1>1, Words
<1>3. addr \in Nat /\ addr = m + 4
    BY <1>1 DEF Addr, kMinSize
<1>4. align \in Nat \ {0} /\ M % align = 0 /\ align <= H
    BY <1>1
<1>5. addr + 8 <= p /\ p + size <= end /\ end < M /\ end - addr <= H - 1
    BY <1>1, <1>2
<1>6. PICK y, up : y = Word(addr + align - 1) /\ up = y - (y % align)
    BY Zenon
<1>7. q = IF Word(up - addr) = 4 THEN Word(up + align) ELSE up
    BY <1>1, <1>6, Zenon DEF Place, RoundUp, kMinSize
<1>8. \A x \in Int : 0 <= x /\ x < M => Word(x) = x
    <2>1. \A x \in Int : 0 <= x /\ x < M => x % M = x
        BY <1>2, Wraps, Zenon
    <2>. QED  BY <1>1, <2>1, Zenon DEF Word
<1>9. p + align <= M
    <2>1. p < M /\ p \in Int /\ M \in Int
        BY <1>2, <1>5
    <2>. QED  BY <1>4, <2>1, MultiplesAreApart, Zenon
<1>10. y = addr + align - 1 /\ y \in Nat
    <2>1. addr + align - 1 \in Nat /\ addr + align - 1 < M
        BY <1>2, <1>3, <1>4, <1>5, <1>9
    <2>. QED  BY <1>6, <1>8, <2>1
<1>11. up \in Nat /\ up % align = 0 /\ up <= y /\ y < up + align
    BY <1>4, <1>6, <1>10, RoundDown, Zenon
<1>12. addr <= up
    BY <1>3, <1>4, <1>10, <1>11
<1>13. up <= p
    <2>1. ASSUME p < up PROVE FALSE
        <3>1. p + align <= up
            BY <1>4, <1>11, <2>1, MultiplesAreApart
        <3>. QED  BY <1>3, <1>4, <1>5, <1>10, <1>11, <3>1
    <2>. QED  BY <1>11, <2>1
<1>14. Word(up - addr) = up - addr
    <2>1. up - addr \in Int /\ 0 <= up - addr /\ up - addr < M
        BY <1>2, <1>3, <1>5, <1>11, <1>12, <1>13
    <2>. QED  BY <1>8, <2>1, Zenon
<1>15. q \in Nat /\ addr <= q /\ q <= p
    <2>1. CASE up - addr = 4
        <3>1. up < p
            BY <1>3, <1>5, <1>11, <2>1
        <3>2. up + align <= p
            BY <1>4, <1>11, <3>1, MultiplesAreApart
        <3>3. Word(up + align) = up + align
            <4>1. up + align \in Int /\ 0 <= up + align /\ up + align < M
                BY <1>2, <1>4, <1>5, <1>11, <3>2
            <4>. QED  BY <1>8, <4>1, Zenon
        <3>4. q = up + align
            BY <1>7, <1>14, <2>1, <3>3, Zenon
        <3>. QED  BY <1>3, <1>4, <1>11, <1>12, <3>2, <3>4
    <2>2. CASE up - addr # 4
        <3>1. q = up
            BY <1>7, <1>14, <2>2, Zenon
        <3>. QED  BY <1>11, <1>12, <1>13, <3>1
    <2>. QED  BY <2>1, <2>2, Zenon
<1>16. Word(q + size) = q + size /\ q + size <= end
    <2>1. q + size \in Int /\ 0 <= q + size /\ q + size < M /\ q + size <= end
        BY <1>2, <1>5, <1>15
    <2>. QED  BY <1>8, <2>1, Zenon
<1>17. Word(end - q) = end - q /\ end - q \in 1 .. H - 1
    <2>1. end - q \in Int /\ 0 <= end - q /\ end - q < M /\ end - q \in 1 .. H - 1
        BY <1>2, <1>3, <1>5, <1>15
    <2>. QED  BY <1>8, <2>1, Zenon
<1>. QED  BY <1>1, <1>2, <1>16, <1>17, Zenon

(* The only allocation of a heap and its blocks. *)
IsHeap(list, h, a) ==
    /\ DOMAIN list = {1} /\ a = list[1] /\ a \in Nat /\ a > 0 /\ a + 2 * AllocSize <= 2^W
    /\ AllocSize \in Nat /\ AllocSize > 12 /\ a + 8 \in DOMAIN h
    /\ \A m \in DOMAIN h :
        /\ m \in Nat /\ h[m].size \in Nat /\ h[m].used \in BOOLEAN /\ Addr(m) = m + 4
        /\ End(h, m) = m + 4 + h[m].size /\ h[m].size > 0
        /\ a + 8 <= m /\ End(h, m) <= a + AllocSize
        /\ End(h, m) = a + AllocSize \/ End(h, m) \in DOMAIN h
    /\ \A m, n \in DOMAIN h : m < n => End(h, m) <= n

(* A heap that has not grown is one. *)
LEMMA HeapIs ==
    ASSUME MallocInv, Len(allocs) = 1
    PROVE  /\ Apart(allocs) /\ Tiled(allocs, hdr) /\ Joined(hdr) /\ Held(hdr, live)
           /\ IsHeap(allocs, hdr, allocs[1])
<1>1. Apart(allocs) /\ DOMAIN allocs = {1}
    <2>1. PICK n \in 1 .. Len(Allocations) : allocs = SubSeq(Allocations, 1, n)
        BY Zenon DEF MallocInv
    <2>. QED  BY <2>1, OnlyOne, Zenon
<1>2. Tiled(allocs, hdr) /\ Joined(hdr) /\ Held(hdr, live)
    BY Zenon DEF MallocInv
<1>3. PICK a : a = allocs[1]
    BY Zenon
<1>4. a \in Nat /\ a > 0 /\ a + 2 * AllocSize <= 2^W
    BY <1>1, <1>3, Zenon DEF Apart
<1>5. AllocSize \in Nat /\ AllocSize > 12
    BY MallocAssumption DEF kMinSize, kAllocOffset
<1>6. Tiling(allocs, DOMAIN hdr, Ends(hdr))
    BY <1>2, Zenon DEF Tiled
<1>7. \A m \in DOMAIN hdr : Ends(hdr)[m] = End(hdr, m)
    BY Zenon DEF Ends
<1>8. a + 8 \in DOMAIN hdr
    BY <1>1, <1>3, <1>6, Zenon DEF Tiling
<1>9. ASSUME NEW m \in DOMAIN hdr
      PROVE  /\ m \in Nat /\ hdr[m].size \in Nat /\ hdr[m].used \in BOOLEAN /\ Addr(m) = m + 4
             /\ End(hdr, m) = m + 4 + hdr[m].size /\ hdr[m].size > 0
    BY <1>1, <1>2, BlockIs, ZenonT(90)
<1>10. ASSUME NEW m \in DOMAIN hdr
       PROVE  /\ a + 8 <= m /\ End(hdr, m) <= a + AllocSize
              /\ End(hdr, m) = a + AllocSize \/ End(hdr, m) \in DOMAIN hdr
    BY <1>1, <1>3, <1>6, <1>7, Zenon DEF Tiling
<1>11. \A m, n \in DOMAIN hdr : m < n => End(hdr, m) <= n
    BY <1>6, <1>7, Zenon DEF Tiling
<1>12. IsHeap(allocs, hdr, a)
    BY <1>1, <1>3, <1>4, <1>5, <1>8, <1>9, <1>10, <1>11, Zenon DEF IsHeap
<1>. QED  BY <1>1, <1>2, <1>3, <1>12, Zenon

(* When nothing is held the heap is one free block. *)
LEMMA InvAvail == ASSUME MallocInv PROVE AllIsAvailable
<1>1. SUFFICES ASSUME DOMAIN live = {}, Len(allocs) = 1
               PROVE  GetAvailMemory(hdr) = AllocSize - kMinSize - kAllocOffset
    BY Zenon DEF AllIsAvailable
<1>2. PICK a, x : a = allocs[1] /\ x = a + 8
    BY Zenon
<1>3. Joined(hdr) /\ Held(hdr, live) /\ IsHeap(allocs, hdr, a)
    BY <1>1, <1>2, HeapIs, Zenon
<1>4. \A m \in DOMAIN hdr : ~hdr[m].used
    BY <1>1, <1>3, Zenon DEF Held, InUse
<1>5. x \in DOMAIN hdr /\ a \in Nat /\ AllocSize \in Nat /\ AllocSize > 12
    BY <1>2, <1>3, Zenon DEF IsHeap
<1>6. End(hdr, x) = a + AllocSize
    BY <1>3, <1>4, <1>5, Zenon DEF IsHeap, Joined
<1>7. ASSUME NEW m \in DOMAIN hdr PROVE m = x
    <2>1. /\ m \in Nat /\ hdr[m].size \in Nat /\ x <= m
          /\ End(hdr, m) = m + 4 + hdr[m].size /\ End(hdr, m) <= a + AllocSize
        BY <1>2, <1>3, Zenon DEF IsHeap
    <2>2. x < m => End(hdr, x) <= m
        BY <1>3, <1>5, Zenon DEF IsHeap
    <2>. QED  BY <1>2, <1>5, <1>6, <2>1, <2>2
<1>8. DOMAIN hdr = {x}
    BY <1>5, <1>7, Zenon
<1>9. hdr[x].size \in Nat /\ End(hdr, x) = x + 4 + hdr[x].size
    BY <1>3, <1>5, Zenon DEF IsHeap
<1>10. hdr[x].size = AllocSize - 4 - 8
    BY <1>2, <1>5, <1>6, <1>9
<1>11. GetAvailMemory(hdr) = hdr[x].size
    BY <1>4, <1>5, <1>8, <1>9, OneBlockIsAvail, Zenon
<1>. QED  BY <1>10, <1>11, Zenon DEF kMinSize, kAllocOffset

(* If there is room at g then g is a free header and its block fits. *)
LEMMA RoomFits ==
    ASSUME MallocInv, Len(allocs) = 1, NEW g \in Gaps,
           NEW size \in Nat, size > 0, NEW align0, NEW align, IsAlign(align0, align),
           Room(g, size, align)
    PROVE  g \in DOMAIN hdr /\ Fits(hdr, g, size, align) /\ size <= kSizeMax
<1>1. PICK a, e, M, H : a = allocs[1] /\ e = End(hdr, g) /\ M = 2^W /\ H = 2^(W - 1)
    BY Zenon
<1>2. Joined(hdr) /\ IsHeap(allocs, hdr, a)
    BY <1>1, HeapIs, Zenon
<1>3. /\ a \in Nat /\ a > 0 /\ a + 2 * AllocSize <= M /\ AllocSize \in Nat /\ AllocSize > 12
      /\ DOMAIN allocs = {1}
    BY <1>1, <1>2, Zenon DEF IsHeap
<1>4. M \in Nat \ {0} /\ H \in Nat /\ M = 2 * H /\ kSizeMax = H - 1
    BY <1>1, Words
<1>5. PICK S : S = {g + kMinSize} \cup (g + 3 * kMinSize .. g + AllocSize)
    BY Zenon
<1>6. Range(allocs) = {a}
    BY <1>1, <1>3, Zenon DEF Range
<1>7. PICK p \in S : /\ p % align = 0 /\ a <= g /\ p + size <= a + AllocSize
                     /\ \A m \in DOMAIN hdr : hdr[m].used => m \notin g .. p + size - 1
    BY <1>5, <1>6, Zenon DEF Room
<1>8. g \in Nat /\ (g \in DOMAIN hdr \/ g >= a + AllocSize)
    <2>1. g = a + 8 \/ \E m \in DOMAIN hdr : g = End(hdr, m)
        BY <1>6, Zenon DEF Gaps, kAllocOffset
    <2>2. CASE g = a + 8
        BY <1>2, <1>3, <2>2 DEF IsHeap
    <2>3. CASE \E m \in DOMAIN hdr : g = End(hdr, m)
        <3>1. PICK m \in DOMAIN hdr : g = End(hdr, m)
            BY <2>3, Zenon
        <3>2. /\ m \in Nat /\ hdr[m].size \in Nat /\ g = m + 4 + hdr[m].size
              /\ g = a + AllocSize \/ g \in DOMAIN hdr
            BY <1>2, <3>1, Zenon DEF IsHeap
        <3>. QED  BY <1>3, <3>2, SMTT(30)
    <2>. QED  BY <2>1, <2>2, <2>3, Zenon
<1>9. p \in Nat /\ (p = g + 4 \/ p >= g + 12)
    <2>1. p = g + 4 \/ p \in g + 3 * 4 .. g + AllocSize
        BY <1>5, <1>7, Zenon DEF kMinSize
    <2>. QED  BY <1>3, <1>8, <2>1
<1>10. g \in DOMAIN hdr
    BY <1>3, <1>7, <1>8, <1>9
<1>11. /\ hdr[g].size \in Nat /\ hdr[g].used \in BOOLEAN /\ Addr(g) = g + 4
       /\ e = g + 4 + hdr[g].size /\ a + 8 <= g /\ e <= a + AllocSize
       /\ e = a + AllocSize \/ e \in DOMAIN hdr
    BY <1>1, <1>2, <1>10, Zenon DEF IsHeap
<1>12. ~hdr[g].used
    <2>1. g \in g .. p + size - 1
        BY <1>8, <1>9
    <2>. QED  BY <1>7, <1>10, <2>1, Zenon
<1>13. p + size <= e
    <2>1. CASE e = a + AllocSize
        BY <1>7, <2>1, Zenon
    <2>2. CASE e \in DOMAIN hdr
        <3>1. hdr[e].used
            BY <1>1, <1>2, <1>10, <1>12, <2>2, Zenon DEF Joined
        <3>2. e \notin g .. p + size - 1
            BY <1>7, <2>2, <3>1, Zenon
        <3>. QED  BY <1>8, <1>9, <1>11, <3>2, SMTT(30)
    <2>. QED  BY <1>11, <2>1, <2>2, Zenon
<1>14. size <= hdr[g].size /\ e < M /\ e - (g + 4) <= H - 1 /\ size <= H - 1 /\ e \in Nat
    BY <1>3, <1>4, <1>8, <1>9, <1>11, <1>13, SMTT(30)
<1>15. CASE Addr(g) % align = 0
    BY <1>4, <1>10, <1>12, <1>14, <1>15, Zenon DEF Fits
<1>16. CASE Addr(g) % align # 0
    <2>1. p >= g + 12
        BY <1>7, <1>9, <1>11, <1>16, Zenon
    <2>2. size # hdr[g].size
        BY <1>8, <1>9, <1>11, <1>13, <2>1, SMTT(30)
    <2>3. Addr(g) + 8 <= p /\ p + size <= e /\ e < 2^W /\ e - Addr(g) <= kSizeMax
        <3>1. Addr(g) + 8 <= p
            BY <1>8, <1>9, <1>11, <2>1, SMTT(30)
        <3>. QED  BY <1>1, <1>4, <1>11, <1>13, <1>14, <3>1, Zenon
    <2>4. align \in Nat /\ align >= 4 /\ 2^W % align = 0 /\ align <= 2^(W - 1)
        BY Zenon DEF IsAlign
    <2>5. Word(Place(g, align) + size) <= e /\ Word(e - Place(g, align)) \in 1 .. kSizeMax
        BY <1>7, <1>8, <1>9, <1>14, <1>16, <2>3, <2>4, PlaceFits
    <2>. QED  BY <1>1, <1>4, <1>10, <1>12, <1>14, <2>2, <2>5, Zenon DEF Fits
<1>. QED  BY <1>15, <1>16, Zenon

(* MallocImpl returns a block if one fits. *)
LEMMA ImplFinds ==
    ASSUME SizesDoNotWrap, NEW list, Apart(list), NEW h, Tiled(list, h),
           NEW size0 \in Sizes, size0 # 0, NEW align0, IsPowerOf2(align0),
           NEW size, size = Rounded(size0), NEW align, align = Larger(align0, kMinSize),
           size <= kSizeMax, size <= GetAvailMemory(h), GetAvailMemory(h) \in Nat,
           NEW g \in DOMAIN h, Fits(h, g, size, align)
    PROVE  MallocImpl(list, h, size0, align0).ptr # NULL
<1>1. PICK fit, first, at, r :
        /\ fit = {m \in DOMAIN h : Fits(h, m, size, align)}
        /\ first = CHOOSE m \in fit : \A n \in fit : n = m \/ Before(list, m, n)
        /\ at = Place(first, align)
        /\ r = MallocImpl(list, h, size0, align0)
    BY Zenon
<1>2. size \in Nat /\ size > 0 /\ size % 4 = 0
    BY RoundedIs
<1>3. ~(size > kSizeMax) /\ ~(size > GetAvailMemory(h)) /\ size # 0
    <2>1. kSizeMax \in Int
        BY Words
    <2>2. PICK v : v = GetAvailMemory(h)
        BY Zenon
    <2>3. v \in Nat /\ size <= v
        BY <2>2, Zenon
    <2>4. ~(size > v)
        BY <1>2, <2>3
    <2>5. ~(size > kSizeMax) /\ size # 0
        BY <1>2, <2>1
    <2>. QED  BY <2>2, <2>4, <2>5, Zenon
<1>4. \A m \in fit : m \in DOMAIN h /\ Fits(h, m, size, align)
    BY <1>1, Zenon
<1>5. g \in fit /\ fit # {} /\ fit \subseteq DOMAIN h
    BY <1>1, Zenon
<1>6. r = [hdr |-> MergeMallocHeaders(list, Partition(h, first, size, at)),
           ptr |-> at, trap |-> FALSE]
    BY <1>1, <1>3, <1>5, Zenon DEF MallocImpl
<1>7. first \in fit
    BY <1>1, <1>5, FirstIs, Zenon
<1>8. first \in DOMAIN h /\ Fits(h, first, size, align)
    BY <1>4, <1>7, Zenon
<1>9. align \in Nat /\ align >= 4 /\ align % 4 = 0 /\ 2^W % align = 0 /\ align <= 2^(W - 1)
    <2>1. IsAlign(align0, align)
        BY AlignIs, Zenon
    <2>. QED  BY <2>1, Zenon DEF IsAlign
<1>10. at \in Nat /\ at > 0
    BY <1>1, <1>2, <1>8, <1>9, FitIsInside, SMTT(30)
<1>11. r.ptr = at
    BY <1>6
<1>12. at # NULL
    BY <1>10 DEF NULL
<1>. QED  BY <1>1, <1>11, <1>12, Zenon

(* MallocImpl does not fail while there is room. *)
LEMMA InvFull == ASSUME SizesDoNotWrap, MallocInv PROVE FailsOnlyWhenFull
<1>1. SUFFICES ASSUME NEW size0 \in Sizes \cap (1 .. kSizeMax), NEW align0 \in Aligns,
                      Len(allocs) = 1, IsPowerOf2(align0),
                      NEW g \in Gaps, Room(g, Rounded(size0), Larger(align0, kMinSize))
               PROVE  MallocImpl(allocs, hdr, size0, align0).ptr # NULL
    BY Zenon DEF FailsOnlyWhenFull
<1>2. PICK size, align, M : size = Rounded(size0) /\ align = Larger(align0, kMinSize) /\ M = 2^W
    BY Zenon
<1>3. size0 \in Sizes /\ size0 # 0
    BY Words
<1>4. size \in Nat /\ size > 0
    BY <1>2, <1>3, RoundedIs
<1>5. IsAlign(align0, align)
    BY <1>1, <1>2, AlignIs, Zenon
<1>6. g \in DOMAIN hdr /\ Fits(hdr, g, size, align) /\ size <= kSizeMax
    BY <1>1, <1>2, <1>4, <1>5, RoomFits
<1>7. /\ Apart(allocs) /\ Tiled(allocs, hdr) /\ Joined(hdr) /\ Held(hdr, live)
      /\ IsHeap(allocs, hdr, allocs[1])
    BY <1>1, HeapIs
<1>8. hdr \in [DOMAIN hdr -> Blocks] /\ DOMAIN hdr \subseteq 0 .. M - 1 /\ M \in Nat
    <2>1. M \in Nat
        BY <1>2, PowersOfTwo
    <2>2. PICK a : a = allocs[1] /\ a \in Nat /\ a + 2 * AllocSize <= M /\ AllocSize \in Nat
        BY <1>2, <1>7, Zenon DEF IsHeap
    <2>3. ASSUME NEW m \in DOMAIN hdr PROVE m \in 0 .. M - 1
        <3>1. /\ m \in Nat /\ hdr[m].size \in Nat
              /\ End(hdr, m) = m + 4 + hdr[m].size /\ End(hdr, m) <= a + AllocSize
            BY <1>7, <2>2, Zenon DEF IsHeap
        <3>. QED  BY <2>1, <2>2, <3>1
    <2>. QED  BY <1>7, <2>1, <2>3, Zenon DEF Tiled
<1>9. /\ GetAvailMemory(hdr) \in Nat
      /\ \A m \in DOMAIN hdr : ~hdr[m].used => hdr[m].size <= GetAvailMemory(hdr)
    BY <1>8, FreeIsAvail
<1>10. size <= GetAvailMemory(hdr)
    <2>1. PICK v, s : v = GetAvailMemory(hdr) /\ s = hdr[g].size
        BY Zenon
    <2>2. ~hdr[g].used /\ size <= s /\ s \in Nat
        <3>1. ~hdr[g].used /\ size <= s
            BY <1>6, <2>1, Zenon DEF Fits
        <3>2. s \in Nat
            BY <1>6, <1>7, <2>1, BlockIs, Zenon
        <3>. QED  BY <3>1, <3>2, Zenon
    <2>3. s <= v /\ v \in Nat
        BY <1>6, <1>9, <2>1, <2>2, Zenon
    <2>4. size <= v
        BY <1>4, <2>2, <2>3
    <2>. QED  BY <2>1, <2>4, Zenon
<1>. QED  BY <1>1, <1>2, <1>3, <1>6, <1>7, <1>9, <1>10, ImplFinds, Zenon

(* When everything is freed all memory of a program's heap is available again. *)
THEOREM FreedIsAvailable == ASSUME SizesDoNotWrap PROVE Spec => []AllIsAvailable
<1>1. Spec => []MallocInv
    BY MallocInvariance
<1>2. MallocInv => AllIsAvailable
    BY InvAvail
<1>. QED  BY <1>1, <1>2, PTL

(* In a program's heap malloc fails only when no place between the blocks in use
   can hold the block: free space is never lost to a search that looks at one
   header at a time. *)
THEOREM FailsOnlyWhenNoRoom == ASSUME SizesDoNotWrap PROVE Spec => []FailsOnlyWhenFull
<1>1. Spec => []MallocInv
    BY MallocInvariance
<1>2. MallocInv => FailsOnlyWhenFull
    BY InvFull
<1>. QED  BY <1>1, <1>2, PTL

=============================================================================
