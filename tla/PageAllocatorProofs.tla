------------------------- MODULE PageAllocatorProofs -------------------------
(* What the page allocator keeps for every memory size, region list and    *)
(* content of the fresh bitmap.                                            *)
EXTENDS PageAllocator, Sequences, FiniteSetTheorems, TLAPS

(* The bitmap covers memory that exists, and is set up before it is used. *)
Layout ==
  /\ stage \in {"reset", "boot", "run"}
  /\ bitmap_entry_count \in Nat
  /\ held \in [Page -> Nat]
  /\ stage = "reset" => marked = {}
  /\ stage # "run" => \A p \in Page : held[p] = 0
  /\ stage # "reset" =>
       /\ phys_base_address = RamBase
       /\ memory_size \in MemorySizes
       /\ bitmap_entry_count * BitsPerEntry <= memory_size \div PageSize

(* The bit of a page that is out is set, save for the first page of a      *)
(* later entry: there the code sets bit 0 of the bitmap instead.           *)
HeldBits ==
  \A p \in Page : held[p] > 0 /\ ~EntryHead(p) => held[p] = 1 /\ p \in page_bitmap

MarkedBits == marked \subseteq page_bitmap

IInv ==
  /\ Layout /\ HeldBits /\ MarkedBits
  /\ ReservedNeverHeld /\ NoLeak /\ HeldInsideRam

-----------------------------------------------------------------------------

(* Sums over a finite set are recursions over its subsets, each less an   *)
(* element that is chosen.                                                 *)
Pick(s) == CHOOSE x \in s : TRUE

SumRule(f, h, D) ==
  f = [s \in D |-> IF s = {} THEN 0 ELSE h[Pick(s)] + f[s \ {Pick(s)}]]

LEMMA Unfold ==
  ASSUME NEW h, NEW S
  PROVE  MapThenSumSet(LAMBDA p : h[p], S) = (CHOOSE f : SumRule(f, h, SUBSET S))[S]
BY Zenon DEF MapThenSumSet, MapThenFoldSet, SumRule, Pick

(* Induction, for the elements of a set instead of a predicate.            *)
LEMMA NatSetInduction ==
  ASSUME NEW G, 0 \in G, \A n \in Nat : n \in G => n + 1 \in G
  PROVE  Nat \subseteq G
<1> SUFFICES ASSUME Nat \ G # {} PROVE FALSE
  OBVIOUS
<1>1. PICK n \in Nat \ G : \A m \in Nat \ G : ~(<<m, n>> \in OpToRel(<, Nat))
  BY NatLessThanWellFounded, WFMin, Nat \ G \subseteq Nat
<1>2. n # 0 /\ n - 1 \in Nat
  OBVIOUS
<1>3. n - 1 \notin G
  BY <1>2
<1>4. <<n - 1, n>> \in OpToRel(<, Nat)
  BY <1>2 DEF OpToRel
<1> QED
  BY <1>1, <1>2, <1>3, <1>4

LEMMA SubsetInduction ==
  ASSUME NEW S, IsFiniteSet(S), NEW G, {} \in G,
         \A s \in SUBSET S : s # {} /\ s \ {Pick(s)} \in G => s \in G
  PROVE  SUBSET S \subseteq G
<1> SUFFICES ASSUME (SUBSET S) \ G # {} PROVE FALSE
  OBVIOUS
<1> DEFINE T == (SUBSET S) \ G
<1>1. IsWellFoundedOn(StrictSubsetOrdering(S), SUBSET S)
  BY FS_StrictSubsetOrderingWellFounded, FS_FiniteSubsetsOfFinite
<1>2. T \subseteq SUBSET S /\ T # {}
  OBVIOUS
<1> HIDE DEF T
<1>3. PICK s \in T : \A t \in T : ~(<<t, s>> \in StrictSubsetOrdering(S))
  BY <1>1, <1>2, WFMin
<1>4. s \in SUBSET S /\ s \notin G /\ s # {}
  BY DEF T
<1>5. Pick(s) \in s
  BY <1>4 DEF Pick
<1>6. s \ {Pick(s)} \in T
  BY <1>4 DEF T
<1>7. <<s \ {Pick(s)}, s>> \in StrictSubsetOrdering(S)
  BY <1>4, <1>5 DEF StrictSubsetOrdering
<1> QED
  BY <1>3, <1>6, <1>7

Below(S, n) == {s \in SUBSET S : Cardinality(s) <= n}

LEMMA PickIn == ASSUME NEW s, s # {} PROVE Pick(s) \in s
  BY DEF Pick

(* The recursion has a solution: up to any number of elements, hence at all. *)
LEMMA SumTo ==
  ASSUME NEW S, IsFiniteSet(S), NEW h \in [S -> Int]
  PROVE  \A n \in Nat : \E f : SumRule(f, h, Below(S, n))
<1> DEFINE Good == {n \in Nat : \E f : SumRule(f, h, Below(S, n))}
<1>1. 0 \in Good
  <2>1. \A s \in Below(S, 0) : s = {}
    BY FS_Subset, FS_EmptySet, FS_CardinalityType DEF Below
  <2>2. SumRule([s \in Below(S, 0) |-> 0], h, Below(S, 0))
    BY <2>1, Zenon DEF SumRule
  <2> QED
    BY <2>2
<1>2. ASSUME NEW n \in Nat, n \in Good PROVE n + 1 \in Good
  <2>1. PICK f : SumRule(f, h, Below(S, n))
    BY <1>2
  <2> DEFINE Value(s) == IF s = {} THEN 0 ELSE h[Pick(s)] + f[s \ {Pick(s)}]
             g == [s \in Below(S, n + 1) |-> Value(s)]
  <2>2. \A s \in Below(S, n) : f[s] = Value(s)
    BY <2>1 DEF SumRule
  <2>3. Below(S, n) \subseteq Below(S, n + 1)
    BY FS_Subset, FS_CardinalityType DEF Below
  <2>4. \A s \in Below(S, n) : g[s] = f[s]
    BY <2>2, <2>3
  <2>5. ASSUME NEW s \in Below(S, n + 1), s # {}
        PROVE  s \ {Pick(s)} \in Below(S, n)
    <3>1. s \in SUBSET S /\ IsFiniteSet(s) /\ Pick(s) \in s /\ Cardinality(s) <= n + 1
      BY <2>5, PickIn, FS_Subset DEF Below
    <3>2. Cardinality(s) \in Nat /\ Cardinality(s \ {Pick(s)}) = Cardinality(s) - 1
      BY <3>1, FS_RemoveElement, FS_CardinalityType
    <3> QED
      BY <3>1, <3>2 DEF Below
  <2>6. \A s \in Below(S, n + 1) :
          g[s] = IF s = {} THEN 0 ELSE h[Pick(s)] + g[s \ {Pick(s)}]
    BY <2>4, <2>5
  <2> HIDE DEF g
  <2>7. SumRule(g, h, Below(S, n + 1))
    BY <2>6, Zenon DEF SumRule, g
  <2> QED
    BY <1>2, <2>7
<1> HIDE DEF Good
<1>3. Nat \subseteq Good
  BY <1>1, <1>2, NatSetInduction
<1> QED
  BY <1>3 DEF Good

(* The sum over a finite set is what its recursion says. *)
LEMMA SumUnfolds ==
  ASSUME NEW S, IsFiniteSet(S), NEW h \in [S -> Int]
  PROVE  \E f \in [SUBSET S -> Int] :
           /\ SumRule(f, h, SUBSET S)
           /\ MapThenSumSet(LAMBDA p : h[p], S) = f[S]
<1>1. PICK n \in Nat : n = Cardinality(S)
  BY FS_CardinalityType
<1>2. Below(S, n) = SUBSET S
  BY <1>1, FS_Subset DEF Below
<1>3. \E f : SumRule(f, h, SUBSET S)
  <2>1. \E f : SumRule(f, h, Below(S, n))
    BY SumTo
  <2> QED
    BY <1>2, <2>1
<1> DEFINE f == CHOOSE f : SumRule(f, h, SUBSET S)
<1>4. SumRule(f, h, SUBSET S)
  BY <1>3
<1> HIDE DEF f
<1> DEFINE Good == {s \in SUBSET S : f[s] \in Int}
<1>5. \A s \in SUBSET S : f[s] = IF s = {} THEN 0 ELSE h[Pick(s)] + f[s \ {Pick(s)}]
  BY <1>4 DEF SumRule
<1>6. {} \in Good
  <2>1. {} \in SUBSET S
    OBVIOUS
  <2>2. f[{}] = 0
    BY <1>5, <2>1
  <2> QED
    BY <2>1, <2>2
<1>7. ASSUME NEW s \in SUBSET S, s # {}, s \ {Pick(s)} \in Good PROVE s \in Good
  BY <1>5, <1>7, PickIn
<1> HIDE DEF Good
<1>8. SUBSET S \subseteq Good
  BY <1>6, <1>7, SubsetInduction
<1>9. f \in [SUBSET S -> Int]
  <2>1. f = [s \in SUBSET S |-> f[s]]
    BY <1>4, Zenon DEF SumRule
  <2>2. \A s \in SUBSET S : f[s] \in Int
    BY <1>8 DEF Good
  <2> QED
    BY <2>1, <2>2
<1> QED
  BY <1>4, <1>9, Unfold DEF f

LEMMA SumInt ==
  ASSUME NEW S, IsFiniteSet(S), NEW h \in [S -> Int]
  PROVE  MapThenSumSet(LAMBDA p : h[p], S) \in Int
<1>1. PICK f \in [SUBSET S -> Int] :
         SumRule(f, h, SUBSET S) /\ MapThenSumSet(LAMBDA p : h[p], S) = f[S]
  BY SumUnfolds
<1> QED
  BY <1>1

LEMMA SumOfZeros ==
  ASSUME NEW S, IsFiniteSet(S), NEW h \in [S -> Int], \A p \in S : h[p] = 0
  PROVE  MapThenSumSet(LAMBDA p : h[p], S) = 0
<1>1. PICK f \in [SUBSET S -> Int] :
         SumRule(f, h, SUBSET S) /\ MapThenSumSet(LAMBDA p : h[p], S) = f[S]
  BY SumUnfolds
<1> DEFINE Good == {s \in SUBSET S : f[s] = 0}
<1>2. \A s \in SUBSET S : f[s] = IF s = {} THEN 0 ELSE h[Pick(s)] + f[s \ {Pick(s)}]
  BY <1>1 DEF SumRule
<1>3. {} \in Good
  BY <1>2
<1>4. ASSUME NEW s \in SUBSET S, s # {}, s \ {Pick(s)} \in Good PROVE s \in Good
  BY <1>2, <1>4, PickIn
<1> HIDE DEF Good
<1>5. SUBSET S \subseteq Good
  BY <1>3, <1>4, SubsetInduction
<1> QED
  BY <1>1, <1>5 DEF Good

(* Changing one summand changes the sum by as much. *)
LEMMA SumOfChanged ==
  ASSUME NEW S, IsFiniteSet(S), NEW h \in [S -> Int], NEW g \in [S -> Int],
         NEW p \in S, \A q \in S \ {p} : g[q] = h[q]
  PROVE  MapThenSumSet(LAMBDA q : g[q], S)
           = MapThenSumSet(LAMBDA q : h[q], S) + g[p] - h[p]
<1>1. PICK f \in [SUBSET S -> Int] :
         SumRule(f, h, SUBSET S) /\ MapThenSumSet(LAMBDA q : h[q], S) = f[S]
  BY SumUnfolds
<1>2. PICK e \in [SUBSET S -> Int] :
         SumRule(e, g, SUBSET S) /\ MapThenSumSet(LAMBDA q : g[q], S) = e[S]
  BY SumUnfolds
<1> DEFINE Good == {s \in SUBSET S : e[s] = f[s] + (IF p \in s THEN g[p] - h[p] ELSE 0)}
<1>3. \A s \in SUBSET S :
        /\ f[s] = IF s = {} THEN 0 ELSE h[Pick(s)] + f[s \ {Pick(s)}]
        /\ e[s] = IF s = {} THEN 0 ELSE g[Pick(s)] + e[s \ {Pick(s)}]
  BY <1>1, <1>2 DEF SumRule
<1>4. {} \in Good
  <2>1. {} \in SUBSET S
    OBVIOUS
  <2>2. e[{}] = 0 /\ f[{}] = 0
    BY <1>3, <2>1
  <2> QED
    BY <2>1, <2>2
<1>5. ASSUME NEW s \in SUBSET S, s # {}, s \ {Pick(s)} \in Good PROVE s \in Good
  <2>1. Pick(s) \in s /\ s \ {Pick(s)} \in SUBSET S
    BY <1>5, PickIn
  <2>2. /\ f[s] = h[Pick(s)] + f[s \ {Pick(s)}] /\ e[s] = g[Pick(s)] + e[s \ {Pick(s)}]
        /\ e[s \ {Pick(s)}]
             = f[s \ {Pick(s)}] + (IF p \in s \ {Pick(s)} THEN g[p] - h[p] ELSE 0)
    BY <1>3, <1>5
  <2>3. {f[s], f[s \ {Pick(s)}], e[s], g[p], h[p], g[Pick(s)], h[Pick(s)]} \subseteq Int
    BY <2>1
  <2>4. CASE Pick(s) = p
    BY <2>1, <2>2, <2>3, <2>4
  <2>5. CASE Pick(s) # p
    <3>1. g[Pick(s)] = h[Pick(s)] /\ (p \in s \ {Pick(s)} <=> p \in s)
      BY <2>1, <2>5
    <3> QED
      BY <2>2, <2>3, <3>1
  <2> QED
    BY <2>4, <2>5
<1> HIDE DEF Good
<1>6. SUBSET S \subseteq Good
  BY <1>4, <1>5, SubsetInduction
<1>7. e[S] = f[S] + (g[p] - h[p])
  BY <1>6 DEF Good
<1>8. {e[S], f[S], g[p], h[p]} \subseteq Int
  OBVIOUS
<1> QED
  BY <1>1, <1>2, <1>7, <1>8

-----------------------------------------------------------------------------

LEMMA DivMul ==
  ASSUME NEW a \in Nat, NEW b \in Nat \ {0}
  PROVE  a \div b \in Nat /\ (a \div b) * b <= a
  OBVIOUS

LEMMA MulMono ==
  ASSUME NEW x \in Nat, NEW y \in Nat, x <= y, NEW c \in Nat
  PROVE  x * c <= y * c
  OBVIOUS

(* A byte of page p is p pages up. *)
LEMMA DivPage ==
  ASSUME NEW p \in Nat, NEW n \in Nat \ {0}, NEW offset \in 0 .. n - 1
  PROVE  (p * n + offset) \div n = p
  OBVIOUS

(* The first page of entry e has index 0 within its entry. *)
LEMMA HeadOfEntry ==
  ASSUME NEW e \in Nat, e > 0
  PROVE  EntryHead(e * BitsPerEntry)
<1>1. BitsPerEntry \in Nat \ {0}
  BY PageAllocatorAssumption
<1>2. (e * BitsPerEntry) % BitsPerEntry = 0
  BY <1>1
<1>3. 1 * BitsPerEntry <= e * BitsPerEntry
  BY <1>1, MulMono
<1> QED
  BY <1>1, <1>2, <1>3 DEF EntryHead

(* Every bit of the bitmap is a page of the memory. *)
LEMMA BitIsPage ==
  ASSUME Layout, stage # "reset", NEW e \in Entry, NEW b \in 0 .. BitsPerEntry - 1
  PROVE  /\ e * BitsPerEntry + b \in Page
         /\ e * BitsPerEntry + b \in Nat
         /\ (e * BitsPerEntry + b + 1) * PageSize <= memory_size
<1> DEFINE bit == e * BitsPerEntry + b
           pages == memory_size \div PageSize
<1>1. /\ BitsPerEntry \in Nat \ {0} /\ PageSize \in Nat \ {0}
      /\ memory_size \in MemorySizes /\ memory_size \in Nat
      /\ bitmap_entry_count \in Nat /\ bitmap_entry_count * BitsPerEntry <= pages
      /\ e \in Nat /\ e + 1 <= bitmap_entry_count /\ b \in Nat /\ b + 1 <= BitsPerEntry
  <2>1. /\ memory_size \in MemorySizes /\ bitmap_entry_count \in Nat
        /\ bitmap_entry_count * BitsPerEntry <= pages
    BY Zenon DEF Layout
  <2>2. BitsPerEntry \in Nat \ {0} /\ PageSize \in Nat \ {0} /\ MemorySizes \subseteq Nat
    BY PageAllocatorAssumption
  <2>3. e \in 0 .. bitmap_entry_count - 1
    BY DEF Entry
  <2> QED
    BY <2>1, <2>2, <2>3
<1>2. pages \in Nat /\ pages * PageSize <= memory_size
  BY <1>1, DivMul
<1>3. (e + 1) * BitsPerEntry <= bitmap_entry_count * BitsPerEntry
  BY <1>1, MulMono
<1>4. e * BitsPerEntry \in Nat /\ (e + 1) * BitsPerEntry = e * BitsPerEntry + BitsPerEntry
  BY <1>1
<1>5. bitmap_entry_count * BitsPerEntry \in Nat
  BY <1>1
<1>6. bit \in Nat /\ bit + 1 <= pages
  BY <1>1, <1>2, <1>3, <1>4, <1>5
<1>7. bit \in 0 .. memory_size \div PageSize + BitsPerEntry - 1
  BY <1>1, <1>2, <1>6
<1>8. bit \in Page
  BY <1>1, <1>7 DEF Page
<1>9. (bit + 1) * PageSize <= pages * PageSize
  BY <1>1, <1>2, <1>6, MulMono
<1>10. (bit + 1) * PageSize \in Nat /\ pages * PageSize \in Nat
  BY <1>1, <1>2, <1>6
<1> QED
  BY <1>1, <1>2, <1>6, <1>8, <1>9, <1>10

LEMMA PageNat == Page \subseteq Nat
  BY PageAllocatorAssumption DEF Page

(* A pointer into a page that is out leads back to the bit of that page. *)
LEMMA AddressRoundTrip ==
  ASSUME Layout, stage # "reset", HeldInsideRam,
         NEW p \in Page, held[p] > 0, NEW offset \in 0 .. PageSize - 1
  PROVE  AddressToBitIndex(BitIndexToPageAddress(p) + offset) = p
<1>1. /\ PageSize \in Nat \ {0} /\ RamBase \in Nat /\ WordSize \in Nat \ {0}
      /\ phys_base_address = RamBase
      /\ memory_size \in Nat /\ RamBase + memory_size < WordSize
      /\ p \in Nat /\ offset \in Nat /\ offset < PageSize
  <2>1. /\ phys_base_address = RamBase /\ memory_size \in MemorySizes
    BY Zenon DEF Layout
  <2>2. /\ PageSize \in Nat \ {0} /\ RamBase \in Nat /\ WordSize \in Nat \ {0}
        /\ MemorySizes \subseteq Nat
        /\ \A size \in MemorySizes : RamBase + size < WordSize
    BY PageAllocatorAssumption
  <2> QED
    BY <2>1, <2>2, PageNat
<1>2. (p + 1) * PageSize <= memory_size
  BY DEF HeldInsideRam
<1>3. p * PageSize \in Nat /\ (p + 1) * PageSize = p * PageSize + PageSize
  BY <1>1
<1>4. p * PageSize + offset \in 0 .. WordSize - 1
  BY <1>1, <1>2, <1>3
<1>5. (p * PageSize + offset) % WordSize = p * PageSize + offset
  BY <1>1, <1>4
<1>6. RamBase + p * PageSize + offset - RamBase = p * PageSize + offset
  BY <1>1, <1>3
<1>7. (p * PageSize + offset) \div PageSize = p
  BY <1>1, DivPage
<1> QED
  BY <1>1, <1>5, <1>6, <1>7 DEF AddressToBitIndex, BitIndexToPageAddress

-----------------------------------------------------------------------------

LEMMA InitIInv == Init => IInv
<1> SUFFICES ASSUME Init PROVE IInv
  OBVIOUS
<1>1. held = [p \in Page |-> 0] /\ \A p \in Page : held[p] = 0
  BY DEF Init
<1>2. Layout
  BY <1>1 DEF Init, Layout
<1> QED
  BY <1>1, <1>2
     DEF Init, IInv, HeldBits, MarkedBits, ReservedNeverHeld, NoLeak, HeldInsideRam

LEMMA InitPageAllocatorStep ==
  ASSUME IInv, NEW size \in MemorySizes, InitPageAllocator(RamBase, size)
  PROVE  IInv'
<1>1. /\ stage = "reset" /\ stage' = "boot" /\ phys_base_address' = RamBase
      /\ bitmap_entry_count' = (size \div PageSize) \div BitsPerEntry
      /\ memory_size' = size /\ page_bitmap' = found' /\ held' = held /\ marked' = marked
  BY DEF InitPageAllocator, EntryCount
<1>2. held \in [Page -> Nat] /\ marked = {} /\ \A p \in Page : held[p] = 0
  BY <1>1 DEF IInv, Layout
<1>3. /\ bitmap_entry_count' \in Nat
      /\ bitmap_entry_count' * BitsPerEntry <= memory_size' \div PageSize
  <2>1. size \in Nat /\ PageSize \in Nat \ {0} /\ BitsPerEntry \in Nat \ {0}
    BY PageAllocatorAssumption
  <2>2. size \div PageSize \in Nat
    BY <2>1, DivMul
  <2> QED
    BY <1>1, <2>1, <2>2, DivMul
<1>4. Layout'
  BY <1>1, <1>2, <1>3 DEF Layout
<1> QED
  BY <1>1, <1>2, <1>4
     DEF IInv, HeldBits, MarkedBits, ReservedNeverHeld, NoLeak, HeldInsideRam

LEMMA MarkRegionUnusableStep ==
  ASSUME IInv, NEW base_address, NEW length,
         MarkRegionUnusable(base_address, length)
  PROVE  IInv'
<1> DEFINE bits == RegionBits(base_address, length)
<1>1. /\ stage = "boot" /\ stage' = stage /\ phys_base_address' = phys_base_address
      /\ bitmap_entry_count' = bitmap_entry_count /\ memory_size' = memory_size
      /\ found' = found /\ held' = held
      /\ page_bitmap' = page_bitmap \cup bits /\ marked' = marked \cup bits
  BY DEF MarkRegionUnusable, bitmapVars
<1>2. \A p \in Page : held[p] = 0
  BY <1>1 DEF IInv, Layout
<1>3. Layout'
  BY <1>1, <1>2 DEF IInv, Layout
<1>4. MarkedBits' /\ NoLeak'
  BY <1>1, <1>2 DEF IInv, MarkedBits, NoLeak
<1> QED
  BY <1>1, <1>2, <1>3, <1>4 DEF IInv, HeldBits, ReservedNeverHeld, HeldInsideRam

(* Handing out the page of a clear bit keeps the invariant when the bit is *)
(* then set, or when it is the first page of an entry and the set bits are *)
(* left as they were.                                                      *)
LEMMA ReturnStep ==
  ASSUME IInv, stage # "reset", stage' = "run",
         UNCHANGED <<bitmapVars, marked>>,
         NEW e \in Entry, NEW b \in 0 .. BitsPerEntry - 1,
         e * BitsPerEntry + b \notin page_bitmap,
         Return(e * BitsPerEntry + b),
         \/ page_bitmap' = page_bitmap \cup {e * BitsPerEntry + b}
         \/ page_bitmap' = page_bitmap /\ EntryHead(e * BitsPerEntry + b)
  PROVE  IInv'
<1> DEFINE bit == e * BitsPerEntry + b
<1>1. /\ bit \in Page /\ bit \in Nat /\ (bit + 1) * PageSize <= memory_size
  BY BitIsPage DEF IInv
<1>2. /\ phys_base_address' = phys_base_address /\ memory_size' = memory_size
      /\ bitmap_entry_count' = bitmap_entry_count /\ found' = found /\ marked' = marked
  BY DEF bitmapVars
<1>3. held \in [Page -> Nat] /\ held' = [held EXCEPT ![bit] = @ + 1]
  BY DEF Return, IInv, Layout
<1>4. /\ held' \in [Page -> Nat] /\ held'[bit] = held[bit] + 1
      /\ \A p \in Page : p # bit => held'[p] = held[p]
  BY <1>1, <1>3
<1>5. Layout'
  BY <1>2, <1>4 DEF IInv, Layout
<1>6. ReservedNeverHeld' /\ MarkedBits'
  BY <1>1, <1>2, <1>4 DEF IInv, ReservedNeverHeld, MarkedBits
<1>7. HeldInsideRam'
  BY <1>1, <1>2, <1>4 DEF IInv, HeldInsideRam
<1>8. HeldBits'
  <2> SUFFICES ASSUME NEW p \in Page, held'[p] > 0, ~EntryHead(p)
               PROVE  held'[p] = 1 /\ p \in page_bitmap'
    BY DEF HeldBits, EntryHead
  <2>1. CASE p = bit
    <3>1. held[bit] = 0
      BY <1>1, <1>3, <2>1 DEF IInv, HeldBits
    <3> QED
      BY <1>4, <2>1, <3>1
  <2>2. CASE p # bit
    BY <1>4, <2>2 DEF IInv, HeldBits
  <2> QED
    BY <2>1, <2>2
<1>9. NoLeak'
  BY <1>1, <1>2, <1>3, <1>4 DEF IInv, NoLeak
<1> QED
  BY <1>5, <1>6, <1>7, <1>8, <1>9 DEF IInv

LEMMA AllocPageStep ==
  ASSUME IInv, AllocPage
  PROVE  IInv'
<1>1. /\ stage # "reset" /\ stage' = "run" /\ UNCHANGED <<bitmapVars, marked>>
  BY DEF AllocPage
<1>2. CASE \E e \in Entry : FirstOpen(e) /\ TakeFrom(e)
  <2> PICK e \in Entry : FirstOpen(e) /\ TakeFrom(e)
    BY <1>2
  <2>1. BitsPerEntry \in Nat \ {0} /\ e \in Nat /\ 0 \in 0 .. BitsPerEntry - 1
    <3>1. bitmap_entry_count \in Nat /\ e \in 0 .. bitmap_entry_count - 1
      BY DEF IInv, Layout, Entry
    <3> QED
      BY <3>1, PageAllocatorAssumption
  <2>2. CASE Empty(e) /\ SetBit(0) /\ Return(e * BitsPerEntry)
    <3>1. /\ e * BitsPerEntry + 0 = e * BitsPerEntry
      BY <2>1
    <3>2. e * BitsPerEntry + 0 \notin page_bitmap
      BY <2>1, <2>2, Zenon DEF Empty
    <3>3. page_bitmap' = page_bitmap \cup {0}
      BY <2>2 DEF SetBit
    <3>4. CASE e = 0
      <4>1. e * BitsPerEntry = 0
        BY <2>1, <3>4
      <4>2. page_bitmap' = page_bitmap \cup {e * BitsPerEntry + 0}
        BY <3>1, <3>3, <4>1
      <4>3. Return(e * BitsPerEntry + 0)
        BY <2>2, <3>1
      <4> QED
        BY <1>1, <2>1, <3>2, <4>2, <4>3, ReturnStep
    <3>5. CASE e > 0
      <4>1. Full(0)
        BY <2>1, <3>5 DEF FirstOpen
      <4>2. 0 * BitsPerEntry + 0 \in page_bitmap
        BY <2>1, <4>1, Zenon DEF Full
      <4>3. page_bitmap' = page_bitmap
        BY <2>1, <3>3, <4>2
      <4>4. EntryHead(e * BitsPerEntry + 0) /\ Return(e * BitsPerEntry + 0)
        BY <2>1, <2>2, <3>1, <3>5, HeadOfEntry
      <4> QED
        BY <1>1, <2>1, <3>2, <4>3, <4>4, ReturnStep
    <3> QED
      BY <2>1, <3>4, <3>5
  <2>3. ASSUME NEW b \in 0 .. BitsPerEntry - 1, FirstFree(e, b),
               SetBit(e * BitsPerEntry + b), Return(e * BitsPerEntry + b)
        PROVE  IInv'
    BY <1>1, <2>3, ReturnStep DEF FirstFree, SetBit
  <2> QED
    BY <2>2, <2>3 DEF TakeFrom
<1>3. CASE UNCHANGED <<free_pages, page_bitmap, held>>
  BY <1>1, <1>3 DEF IInv, Layout, HeldBits, MarkedBits, ReservedNeverHeld, NoLeak,
                    HeldInsideRam, bitmapVars
<1> QED
  BY <1>2, <1>3 DEF AllocPage

LEMMA FreePageStep ==
  ASSUME IInv, NEW p \in Page, NEW offset \in 0 .. PageSize - 1,
         FreePage(p, BitIndexToPageAddress(p) + offset)
  PROVE  IInv'
<1> DEFINE ptr == BitIndexToPageAddress(p) + offset
<1>1. /\ held[p] > 0 /\ stage' = stage /\ UNCHANGED <<bitmapVars, marked>>
  BY DEF FreePage
<1>2. stage = "run"
  BY <1>1 DEF IInv, Layout
<1>3. CASE UNCHANGED <<page_bitmap, held>>
  BY <1>1, <1>3 DEF IInv, Layout, HeldBits, MarkedBits, ReservedNeverHeld, NoLeak,
                    HeldInsideRam, bitmapVars
<1>4. CASE UnsetBit(AddressToBitIndex(ptr)) /\ held' = [held EXCEPT ![p] = @ - 1]
  <2>1. AddressToBitIndex(ptr) = p
    BY <1>1, <1>2, AddressRoundTrip DEF IInv
  <2>2. page_bitmap' = page_bitmap \ {p}
    BY <1>4, <2>1 DEF UnsetBit
  <2>3. /\ phys_base_address' = phys_base_address /\ memory_size' = memory_size
        /\ bitmap_entry_count' = bitmap_entry_count /\ found' = found /\ marked' = marked
    BY <1>1 DEF bitmapVars
  <2>4. held \in [Page -> Nat]
    BY DEF IInv, Layout
  <2>5. /\ held' \in [Page -> Nat] /\ held'[p] = held[p] - 1
        /\ \A q \in Page : q # p => held'[q] = held[q]
    BY <1>1, <1>4, <2>4
  <2>6. Layout'
    BY <1>1, <1>2, <2>3, <2>5 DEF IInv, Layout
  <2>7. ReservedNeverHeld' /\ MarkedBits'
    BY <1>1, <2>2, <2>3, <2>4, <2>5 DEF IInv, ReservedNeverHeld, MarkedBits
  <2>8. HeldInsideRam'
    BY <1>1, <2>3, <2>4, <2>5 DEF IInv, HeldInsideRam
  <2>9. HeldBits'
    <3> SUFFICES ASSUME NEW q \in Page, held'[q] > 0, ~EntryHead(q)
                 PROVE  held'[q] = 1 /\ q \in page_bitmap'
      BY DEF HeldBits, EntryHead
    <3>1. q # p
      BY <1>1, <2>4, <2>5 DEF IInv, HeldBits
    <3> QED
      BY <2>2, <2>5, <3>1 DEF IInv, HeldBits
  <2>10. NoLeak'
    BY <2>2, <2>3, <2>5 DEF IInv, NoLeak
  <2> QED
    BY <2>6, <2>7, <2>8, <2>9, <2>10 DEF IInv
<1> QED
  BY <1>3, <1>4 DEF FreePage

LEMMA StutterStep ==
  ASSUME IInv, UNCHANGED vars
  PROVE  IInv'
BY DEF vars, pmmVars, bitmapVars, IInv, Layout, HeldBits, MarkedBits, ReservedNeverHeld,
       NoLeak, HeldInsideRam

LEMMA Invariance == Spec => []IInv
<1>1. IInv /\ [Next]_vars => IInv'
  <2> SUFFICES ASSUME IInv, [Next]_vars PROVE IInv'
    OBVIOUS
  <2>1. CASE \E size \in MemorySizes : InitPageAllocator(RamBase, size)
    BY <2>1, InitPageAllocatorStep
  <2>2. CASE \E region \in Regions : MarkRegionUnusable(region[1], region[2])
    BY <2>2, MarkRegionUnusableStep
  <2>3. CASE AllocPage
    BY <2>3, AllocPageStep
  <2>4. CASE \E p \in Page, offset \in 0 .. PageSize - 1 :
               FreePage(p, BitIndexToPageAddress(p) + offset)
    BY <2>4, FreePageStep
  <2>5. CASE Hang \/ UNCHANGED vars
    BY <2>5, StutterStep DEF Hang
  <2> QED
    BY <2>1, <2>2, <2>3, <2>4, <2>5 DEF Next
<1> QED
  BY <1>1, InitIInv, PTL DEF Spec

-----------------------------------------------------------------------------

LEMMA NextCases ==
  ASSUME [Next]_vars
  PROVE  \/ ~panicked /\ \E size \in MemorySizes : InitPageAllocator(RamBase, size)
         \/ \E region \in Regions : MarkRegionUnusable(region[1], region[2])
         \/ AllocPage
         \/ \E p \in Page, offset \in 0 .. PageSize - 1 :
              FreePage(p, BitIndexToPageAddress(p) + offset)
         \/ UNCHANGED vars
BY DEF Next, Hang

LEMMA HeapTypeStep ==
  ASSUME Heap!TypeOK, ~panicked, NEW size \in Nat, Heap!EternalAlloc(size)
  PROVE  Heap!TypeOK'
<1>1. CASE Heap!Fits(curr, size)
  <2>1. /\ curr' = curr + size /\ curr + size < HeapEnd /\ panicked' = panicked
        /\ blocks' = Append(blocks, [ptr |-> curr, size |-> size,
                                     alignment |-> 1])
    BY <1>1 DEF Heap!EternalAlloc, Heap!AllocFrom, Heap!Fits, Heap!Bumped
  <2> QED
    BY <2>1 DEF Heap!TypeOK, Heap!Block
<1>2. CASE ~Heap!Fits(curr, size)
  BY <1>2 DEF Heap!EternalAlloc, Heap!AllocFrom, Heap!TypeOK
<1> QED
  BY <1>1, <1>2

LEMMA BitIndexNat ==
  ASSUME Layout, stage # "reset", NEW address \in Nat
  PROVE  AddressToBitIndex(address) \in Nat
<1>1. /\ PageSize \in Nat \ {0} /\ WordSize \in Nat \ {0} /\ RamBase \in Nat
      /\ phys_base_address = RamBase
  BY PageAllocatorAssumption DEF Layout
<1>2. (address - phys_base_address) % WordSize \in Nat
  BY <1>1
<1> QED
  BY <1>1, <1>2, DivMul DEF AddressToBitIndex

LEMMA ReturnTypes ==
  ASSUME IInv, TypeOK, stage # "reset", NEW e \in Entry, NEW b \in 0 .. BitsPerEntry - 1,
         Return(e * BitsPerEntry + b)
  PROVE  /\ page_ptr' \in Nat /\ free_pages' \in 0 .. WordSize - 1
         /\ held' \in [Page -> Nat]
<1> DEFINE bit == e * BitsPerEntry + b
<1>1. bit \in Nat /\ bit \in Page
  BY BitIsPage DEF IInv
<1>2. /\ phys_base_address \in Nat /\ PageSize \in Nat /\ WordSize \in Nat \ {0}
  BY PageAllocatorAssumption DEF TypeOK
<1> HIDE DEF bit
<1>3. bit * PageSize \in Nat
  BY <1>1, <1>2
<1> USE DEF bit
<1>4. page_ptr' \in Nat
  BY <1>2, <1>3 DEF Return, BitIndexToPageAddress
<1>5. free_pages' \in 0 .. WordSize - 1
  BY <1>2 DEF Return, FreePages, TypeOK
<1>6. held' = [held EXCEPT ![bit] = @ + 1] /\ held \in [Page -> Nat]
  BY DEF Return, TypeOK
<1> HIDE DEF bit
<1> QED
  BY <1>1, <1>4, <1>5, <1>6

LEMMA TypeStep ==
  ASSUME IInv, TypeOK, [Next]_vars
  PROVE  TypeOK'
<1> USE DEF bitmapVars
<1>1. CASE ~panicked /\ \E size \in MemorySizes : InitPageAllocator(RamBase, size)
  <2> PICK size \in MemorySizes : InitPageAllocator(RamBase, size)
    BY <1>1
  <2> DEFINE pages == size \div PageSize
             entries == pages \div BitsPerEntry
  <2>1. /\ size \in Nat /\ size < WordSize /\ RamBase \in Nat /\ WordSize \in Nat
        /\ PageSize \in Nat \ {0} /\ BitsPerEntry \in Nat \ {0} /\ BytesPerEntry \in Nat
    BY PageAllocatorAssumption
  <2>2. pages \in Nat /\ pages <= size
    BY <2>1
  <2>3. entries \in Nat
    BY <2>1, <2>2, DivMul
  <2>4. entries * BytesPerEntry \in Nat
    BY <2>1, <2>3
  <2>5. Heap!TypeOK'
    <3>1. Heap!TypeOK /\ Heap!EternalAlloc(entries * BytesPerEntry)
      BY DEF TypeOK, InitPageAllocator, EntryCount
    <3> QED
      BY <1>1, <2>4, <3>1, HeapTypeStep
  <2>6. found' \subseteq Nat /\ page_bitmap' = found'
    <3>1. PICK content \in RamContents :
            found' = content \cap 0 .. EntryCount(pages) * BitsPerEntry - 1
      BY DEF InitPageAllocator
    <3> QED
      BY <3>1, PageAllocatorAssumption DEF InitPageAllocator
  <2>7. /\ phys_base_address' = RamBase /\ bitmap_entry_count' = entries
        /\ free_pages' = pages /\ stage' = "boot" /\ memory_size' = size
        /\ page_ptr' = page_ptr /\ marked' = marked /\ held' = held
    BY DEF InitPageAllocator, EntryCount
  <2> HIDE DEF pages, entries
  <2> QED
    BY <2>1, <2>2, <2>3, <2>5, <2>6, <2>7 DEF TypeOK
<1>2. CASE \E region \in Regions : MarkRegionUnusable(region[1], region[2])
  <2> PICK region \in Regions : MarkRegionUnusable(region[1], region[2])
    BY <1>2
  <2>1. region[1] \in Nat /\ region[2] \in Nat
    BY PageAllocatorAssumption
  <2>2. AddressToBitIndex(region[1]) \in Nat
    BY <2>1, BitIndexNat DEF IInv, MarkRegionUnusable
  <2>3. RegionBits(region[1], region[2]) \subseteq Nat
    BY <2>2 DEF RegionBits
  <2> QED
    BY <2>3 DEF MarkRegionUnusable, TypeOK, heap, Heap!TypeOK
<1>3. CASE AllocPage
  <2>1. /\ stage # "reset" /\ stage' = "run" /\ UNCHANGED <<bitmapVars, marked, heap>>
    BY <1>3 DEF AllocPage
  <2>2. Heap!TypeOK'
    BY <2>1 DEF TypeOK, heap, Heap!TypeOK
  <2>3. CASE \E e \in Entry : FirstOpen(e) /\ TakeFrom(e)
    <3> PICK e \in Entry : FirstOpen(e) /\ TakeFrom(e)
      BY <2>3
    <3>1. BitsPerEntry \in Nat \ {0} /\ e \in Nat /\ 0 \in 0 .. BitsPerEntry - 1
      <4>1. bitmap_entry_count \in Nat /\ e \in 0 .. bitmap_entry_count - 1
        BY DEF IInv, Layout, Entry
      <4> QED
        BY <4>1, PageAllocatorAssumption
    <3>2. PICK b \in 0 .. BitsPerEntry - 1 :
            Return(e * BitsPerEntry + b) /\ (SetBit(0) \/ SetBit(e * BitsPerEntry + b))
      <4>1. e * BitsPerEntry + 0 = e * BitsPerEntry
        BY <3>1
      <4>2. CASE SetBit(0) /\ Return(e * BitsPerEntry)
        BY <3>1, <4>1, <4>2
      <4> QED
        BY <4>2 DEF TakeFrom
    <3>3. e * BitsPerEntry + b \in Nat
      BY <2>1, BitIsPage DEF IInv
    <3>4. page_bitmap' \subseteq Nat
      <4>1. page_bitmap \subseteq Nat
        BY DEF TypeOK
      <4>2. page_bitmap' = page_bitmap \cup {0} \/ page_bitmap' = page_bitmap \cup {e * BitsPerEntry + b}
        BY <3>2, Zenon DEF SetBit
      <4>3. \A n \in Nat : page_bitmap \cup {n} \subseteq Nat
        BY <4>1
      <4> QED
        BY <3>3, <4>2, <4>3, 0 \in Nat, Zenon
    <3>5. /\ page_ptr' \in Nat /\ free_pages' \in 0 .. WordSize - 1
          /\ held' \in [Page -> Nat]
      BY <2>1, <3>2, ReturnTypes
    <3> QED
      BY <2>1, <2>2, <3>4, <3>5 DEF TypeOK
  <2>4. CASE page_ptr' = NULL /\ UNCHANGED <<free_pages, page_bitmap, held>>
    BY <2>1, <2>2, <2>4 DEF TypeOK
  <2> QED
    BY <1>3, <2>3, <2>4 DEF AllocPage
<1>4. CASE \E p \in Page, offset \in 0 .. PageSize - 1 :
             FreePage(p, BitIndexToPageAddress(p) + offset)
  <2> PICK p \in Page, offset \in 0 .. PageSize - 1 :
             FreePage(p, BitIndexToPageAddress(p) + offset)
    BY <1>4
  <2> DEFINE bit == AddressToBitIndex(BitIndexToPageAddress(p) + offset)
  <2>1. held[p] > 0 /\ UNCHANGED <<bitmapVars, stage, marked>>
    BY DEF FreePage
  <2>2. CASE /\ panicked' = TRUE
             /\ UNCHANGED <<free_pages, page_bitmap, held, page_ptr, curr, blocks>>
    BY <2>1, <2>2 DEF TypeOK, Heap!TypeOK
  <2>3. CASE /\ UnsetBit(bit) /\ free_pages' = FreePages(free_pages + 1)
             /\ held' = [held EXCEPT ![p] = @ - 1] /\ page_ptr' = NoResult
             /\ UNCHANGED heap
    <3>1. free_pages' \in 0 .. WordSize - 1
      BY <2>3, PageAllocatorAssumption DEF FreePages, TypeOK
    <3>2. held' \in [Page -> Nat]
      BY <2>1, <2>3 DEF TypeOK
    <3>3. page_bitmap' \subseteq Nat
      BY <2>3 DEF UnsetBit, TypeOK
    <3> QED
      BY <2>1, <2>3, <3>1, <3>2, <3>3 DEF TypeOK, heap, Heap!TypeOK
  <2> QED
    BY <2>2, <2>3 DEF FreePage
<1>5. CASE UNCHANGED vars
  BY <1>5 DEF vars, pmmVars, heap, TypeOK, Heap!TypeOK
<1> QED
  BY <1>1, <1>2, <1>3, <1>4, <1>5, NextCases

LEMMA TypeInvariance == Spec => []TypeOK
<1>1. Init => TypeOK
  <2> SUFFICES ASSUME Init PROVE TypeOK
    OBVIOUS
  <2>1. WordSize \in Nat \ {0} /\ HeapStart \in Nat /\ HeapEnd \in Nat /\ HeapStart < HeapEnd
    BY PageAllocatorAssumption
  <2>2. held \in [Page -> Nat]
    BY DEF Init
  <2>3. blocks = << >> /\ curr = HeapStart /\ panicked = FALSE
    BY DEF Init, Heap!Init
  <2>4. blocks \in Seq(Heap!Block)
    BY <2>3
  <2>5. Heap!TypeOK
    BY <2>1, <2>3, <2>4 DEF Heap!TypeOK
  <2> QED
    BY <2>1, <2>2, <2>5 DEF Init, TypeOK
<1> QED
  BY <1>1, TypeStep, Invariance, PTL DEF Spec

-----------------------------------------------------------------------------

(* free_pages wraps, which does not disturb the count. *)
LEMMA Remainder ==
  ASSUME NEW n \in Nat \ {0}, NEW q \in Int, NEW r \in 0 .. n - 1
  PROVE  (q * n + r) % n = r
  OBVIOUS

LEMMA Quotient ==
  ASSUME NEW n \in Nat \ {0}, NEW x \in Int
  PROVE  x \div n \in Int /\ x % n \in 0 .. n - 1 /\ x = (x \div n) * n + (x % n)
  OBVIOUS

LEMMA WrappedSum ==
  ASSUME NEW n \in Nat \ {0}, NEW x \in Int, NEW d \in Int
  PROVE  ((x % n) + d) % n = (x + d) % n
<1>1. PICK q \in Int, r \in 0 .. n - 1 : x = q * n + r /\ x % n = r
  BY Quotient
<1>2. PICK k \in Int, t \in 0 .. n - 1 : r + d = k * n + t /\ (r + d) % n = t
  <2>1. r + d \in Int
    OBVIOUS
  <2> HIDE <1>1
  <2> QED
    BY <2>1, Quotient
<1>3. q * n \in Int /\ k * n \in Int /\ (q + k) * n = q * n + k * n /\ q + k \in Int
  OBVIOUS
<1>4. x + d = (q + k) * n + t
  BY <1>1, <1>2, <1>3
<1>5. ((q + k) * n + t) % n = t
  BY ONLY <1>3, Remainder, n \in Nat \ {0}, t \in 0 .. n - 1
<1> QED
  BY <1>1, <1>2, <1>4, <1>5

LEMMA PageFinite == IsFiniteSet(Page)
<1>1. /\ PageSize \in Nat \ {0} /\ BitsPerEntry \in Nat \ {0} /\ WordSize \in Nat
      /\ \A size \in MemorySizes : size \in Nat /\ size < WordSize
  BY PageAllocatorAssumption
<1>2. \A size \in MemorySizes : size \div PageSize <= size /\ size \div PageSize \in Nat
  BY <1>1
<1>3. Page \subseteq 0 .. WordSize + BitsPerEntry
  BY <1>1, <1>2 DEF Page
<1>4. IsFiniteSet(0 .. WordSize + BitsPerEntry)
  BY <1>1, FS_Interval
<1> QED
  BY <1>3, <1>4, FS_Subset

Total(h) == MapThenSumSet(LAMBDA p : h[p], Page)

LEMMA TotalInt == ASSUME NEW h \in [Page -> Nat] PROVE Total(h) \in Int
<1>1. h \in [Page -> Int]
  OBVIOUS
<1> QED
  BY <1>1, PageFinite, SumInt DEF Total

(* A page more or less that is out. *)
LEMMA TotalChanged ==
  ASSUME NEW h \in [Page -> Nat], NEW p \in Page, NEW n \in Nat
  PROVE  Total([h EXCEPT ![p] = n]) = Total(h) + n - h[p]
<1> DEFINE g == [h EXCEPT ![p] = n]
<1>1. /\ h \in [Page -> Int] /\ g \in [Page -> Int] /\ g[p] = n
      /\ \A q \in Page \ {p} : g[q] = h[q]
  OBVIOUS
<1> HIDE DEF g
<1>2. Total(g) = Total(h) + g[p] - h[p]
  BY <1>1, PageFinite, SumOfChanged DEF Total
<1> QED
  BY <1>1, <1>2 DEF g

Managed == memory_size \div PageSize

Counted == stage # "reset" => free_pages = (Managed - Total(held)) % WordSize

LEMMA CountedNow == FreeCountExact <=> Counted
  BY Zenon DEF FreeCountExact, Counted, Total, Managed

LEMMA CountedNext == FreeCountExact' <=> Counted'
  BY Zenon DEF FreeCountExact, Counted, Total, Managed

LEMMA ManagedInt == ASSUME IInv, stage # "reset" PROVE Managed \in Int /\ WordSize \in Nat \ {0}
<1>1. memory_size \in MemorySizes
  BY DEF IInv, Layout
<1> QED
  BY <1>1, PageAllocatorAssumption DEF Managed

LEMMA CountFollows ==
  ASSUME IInv, FreeCountExact, stage # "reset", stage' # "reset", UNCHANGED bitmapVars,
         NEW p \in Page, NEW d \in {-1, 1}, held[p] + d \in Nat,
         held' = [held EXCEPT ![p] = @ + d],
         free_pages' = FreePages(free_pages - d)
  PROVE  FreeCountExact'
<1>1. held \in [Page -> Nat] /\ held[p] \in Nat
  BY DEF IInv, Layout
<1>2. held' = [held EXCEPT ![p] = held[p] + d]
  OBVIOUS
<1>3. Total(held') = Total(held) + (held[p] + d) - held[p]
  BY <1>1, <1>2, TotalChanged
<1>4. Total(held) \in Int
  BY <1>1, TotalInt
<1>5. Total(held') = Total(held) + d
  BY <1>1, <1>3, <1>4
<1>6. Managed \in Int /\ Managed' = Managed /\ WordSize \in Nat \ {0}
  BY ManagedInt DEF Managed, bitmapVars
<1>7. free_pages = (Managed - Total(held)) % WordSize
  BY CountedNow DEF Counted
<1>8. free_pages' = (((Managed - Total(held)) % WordSize) + (-d)) % WordSize
  BY <1>4, <1>6, <1>7 DEF FreePages
<1>9. free_pages' = (Managed - Total(held) + (-d)) % WordSize
  <2>1. Managed - Total(held) \in Int /\ -d \in Int
    BY <1>4, <1>6
  <2> QED
    BY <1>6, <1>8, <2>1, WrappedSum
<1>10. Managed - Total(held) + (-d) = Managed' - Total(held')
  BY <1>4, <1>5, <1>6
<1> QED
  BY <1>9, <1>10, CountedNext DEF Counted

LEMMA CountStays ==
  ASSUME FreeCountExact, UNCHANGED <<memory_size, free_pages, held, stage>>
  PROVE  FreeCountExact'
BY CountedNow, CountedNext DEF Counted, Managed

LEMMA CountStep ==
  ASSUME IInv, FreeCountExact, [Next]_vars
  PROVE  FreeCountExact'
<1>1. CASE ~panicked /\ \E size \in MemorySizes : InitPageAllocator(RamBase, size)
  <2> PICK size \in MemorySizes : InitPageAllocator(RamBase, size)
    BY <1>1
  <2>1. /\ held' = held /\ held \in [Page -> Nat] /\ \A p \in Page : held[p] = 0
        /\ free_pages' = size \div PageSize /\ memory_size' = size
    BY DEF InitPageAllocator, IInv, Layout
  <2>2. Total(held') = 0
    <3>1. held' \in [Page -> Int] /\ \A p \in Page : held'[p] = 0
      BY <2>1
    <3> QED
      BY <3>1, PageFinite, SumOfZeros DEF Total
  <2>3. /\ PageSize \in Nat \ {0} /\ WordSize \in Nat \ {0} /\ size \in Nat /\ size < WordSize
    BY PageAllocatorAssumption
  <2>4. size \div PageSize \in 0 .. WordSize - 1
    BY <2>3
  <2>5. (size \div PageSize - 0) % WordSize = size \div PageSize
    BY <2>3, <2>4
  <2> QED
    BY <2>1, <2>2, <2>5, CountedNext DEF Counted, Managed
<1>2. CASE \E region \in Regions : MarkRegionUnusable(region[1], region[2])
  BY <1>2, CountStays DEF MarkRegionUnusable, bitmapVars
<1>3. CASE AllocPage
  <2>1. stage # "reset" /\ stage' = "run" /\ UNCHANGED bitmapVars
    BY <1>3 DEF AllocPage
  <2>2. CASE \E e \in Entry : FirstOpen(e) /\ TakeFrom(e)
    <3> PICK e \in Entry : FirstOpen(e) /\ TakeFrom(e)
      BY <2>2
    <3>1. \E b \in 0 .. BitsPerEntry - 1 : Return(e * BitsPerEntry + b)
      <4>1. BitsPerEntry \in Nat \ {0} /\ e \in Nat
        BY PageAllocatorAssumption DEF IInv, Layout, Entry
      <4>2. e * BitsPerEntry + 0 = e * BitsPerEntry /\ 0 \in 0 .. BitsPerEntry - 1
        BY <4>1
      <4>3. CASE Return(e * BitsPerEntry)
        BY <4>2, <4>3
      <4> QED
        BY <4>3 DEF TakeFrom
    <3>2. PICK p \in Page : Return(p)
      BY <2>1, <3>1, BitIsPage DEF IInv
    <3>3. /\ held' = [held EXCEPT ![p] = @ + 1] /\ held[p] + 1 \in Nat
          /\ free_pages' = FreePages(free_pages - 1)
      BY <3>2 DEF Return, IInv, Layout
    <3> QED
      BY <2>1, <3>3, CountFollows
  <2>3. CASE UNCHANGED <<free_pages, page_bitmap, held>>
    BY <2>1, <2>3, CountedNow, CountedNext DEF Counted, Managed, bitmapVars
  <2> QED
    BY <1>3, <2>2, <2>3 DEF AllocPage
<1>4. CASE \E p \in Page, offset \in 0 .. PageSize - 1 :
             FreePage(p, BitIndexToPageAddress(p) + offset)
  <2> PICK p \in Page, offset \in 0 .. PageSize - 1 :
             FreePage(p, BitIndexToPageAddress(p) + offset)
    BY <1>4
  <2>1. held[p] > 0 /\ UNCHANGED <<bitmapVars, stage, marked>>
    BY DEF FreePage
  <2>2. CASE UNCHANGED <<free_pages, held>>
    BY <2>1, <2>2, CountStays DEF bitmapVars
  <2>3. CASE free_pages' = FreePages(free_pages + 1) /\ held' = [held EXCEPT ![p] = @ - 1]
    <3>1. stage = "run" /\ held \in [Page -> Nat]
      BY <2>1 DEF IInv, Layout
    <3>2. held' = [held EXCEPT ![p] = @ + (-1)] /\ held[p] + (-1) \in Nat
      <4>1. held[p] \in Nat
        BY <3>1
      <4>2. held[p] - 1 = held[p] + (-1)
        BY <4>1
      <4>3. held' = [held EXCEPT ![p] = held[p] - 1]
        BY <2>3
      <4>4. held' = [held EXCEPT ![p] = held[p] + (-1)]
        BY <4>2, <4>3, Zenon
      <4>5. held[p] + (-1) \in Nat
        BY <2>1, <4>1
      <4> QED
        BY <4>4, <4>5, Zenon
    <3>3. free_pages + 1 = free_pages - (-1)
      <4>1. free_pages = (Managed - Total(held)) % WordSize
        BY <3>1, CountedNow DEF Counted
      <4>2. Managed \in Int /\ Total(held) \in Int /\ WordSize \in Nat \ {0}
        BY <3>1, TotalInt, ManagedInt
      <4>3. free_pages \in Int
        BY <4>1, <4>2
      <4> QED
        BY <4>3
    <3> QED
      BY <2>1, <2>3, <3>1, <3>2, <3>3, CountFollows
  <2> QED
    BY <2>2, <2>3 DEF FreePage
<1>5. CASE UNCHANGED vars
  BY <1>5, CountStays DEF vars, pmmVars, bitmapVars
<1> QED
  BY <1>1, <1>2, <1>3, <1>4, <1>5, NextCases

-----------------------------------------------------------------------------

(* For every memory size, region list and content of the fresh bitmap no   *)
(* page marked unusable is handed out.                                     *)
THEOREM ReservedSafe == Spec => []ReservedNeverHeld
<1>1. IInv => ReservedNeverHeld
  BY DEF IInv
<1> QED
  BY <1>1, Invariance, PTL

(* And none is handed out twice unless it is the first page of an entry    *)
(* other than the first.                                                   *)
THEOREM SharedOnlyFirst == Spec => []SharedOnlyAtEntryHead
<1>1. IInv => SharedOnlyAtEntryHead
  <2> SUFFICES ASSUME IInv, NEW p \in Page, held[p] > 1, ~EntryHead(p)
               PROVE  FALSE
    BY DEF IInv, SharedOnlyAtEntryHead
  <2>1. held[p] \in Nat
    BY DEF IInv, Layout
  <2> QED
    BY <2>1 DEF IInv, HeldBits
<1> QED
  BY <1>1, Invariance, PTL

(* No page is lost, whatever is allocated and freed. *)
THEOREM NothingLost == Spec => []NoLeak
<1>1. IInv => NoLeak
  BY DEF IInv
<1> QED
  BY <1>1, Invariance, PTL

(* Every page handed out lies inside the memory, at any memory size. *)
THEOREM PagesExist == Spec => []HeldInsideRam
<1>1. IInv => HeldInsideRam
  BY DEF IInv
<1> QED
  BY <1>1, Invariance, PTL

(* Every variable keeps its type, for every memory size and region list.   *)
THEOREM TypeCorrect == Spec => []TypeOK
  BY TypeInvariance

(* free_pages never drifts: after any sequence of calls it is the number   *)
(* of pages less those out, modulo the word.                               *)
THEOREM CountExact == Spec => []FreeCountExact
<1>1. Init => FreeCountExact
  BY DEF Init, FreeCountExact
<1> QED
  BY <1>1, CountStep, Invariance, PTL DEF Spec

(* A bit lies in an entry. *)
LEMMA BitInEntry ==
  ASSUME Layout, NEW p \in Bit
  PROVE  \E e \in Entry, b \in 0 .. BitsPerEntry - 1 : p = e * BitsPerEntry + b
<1> DEFINE e == p \div BitsPerEntry
           b == p % BitsPerEntry
<1>1. BitsPerEntry \in Nat \ {0} /\ bitmap_entry_count \in Nat
  BY PageAllocatorAssumption DEF Layout
<1>2. bitmap_entry_count * BitsPerEntry \in Nat
  BY <1>1
<1>3. p \in Nat /\ p < bitmap_entry_count * BitsPerEntry
  BY <1>2 DEF Bit
<1>4. e \in Nat /\ b \in 0 .. BitsPerEntry - 1 /\ p = e * BitsPerEntry + b
  <2>1. e \in Nat
    BY <1>1, <1>3, DivMul
  <2> QED
    BY <1>1, <1>3, <2>1, Quotient
<1> HIDE DEF e, b
<1>5. e < bitmap_entry_count
  <2> SUFFICES ASSUME bitmap_entry_count <= e PROVE FALSE
    BY <1>1, <1>4
  <2>1. bitmap_entry_count * BitsPerEntry <= e * BitsPerEntry
    BY <1>1, <1>4, MulMono
  <2>2. e * BitsPerEntry \in Nat
    BY <1>1, <1>4
  <2> QED
    BY <1>1, <1>2, <1>3, <1>4, <2>1, <2>2
<1>6. e \in Entry
  BY <1>1, <1>4, <1>5 DEF Entry
<1> QED
  BY <1>4, <1>6

(* A call returns NULL only when every page that has a bit is reserved,    *)
(* out, or had its bit set from the start, whatever calls came before.     *)
THEOREM NullMeansExhausted == Spec => NullOnlyWhenExhausted
<1> DEFINE Exhausted == \A p \in Bit : p \in found \cup marked \/ held[p] > 0
<1>1. IInv /\ TypeOK /\ [Next]_vars => [page_ptr' = NULL /\ page_ptr # NULL => Exhausted]_vars
  <2> SUFFICES ASSUME IInv, TypeOK, [Next]_vars, page_ptr' = NULL, page_ptr # NULL
               PROVE  Exhausted
    OBVIOUS
  <2>1. NULL \notin Nat /\ NULL # NoResult
    BY PageAllocatorAssumption
  <2>2. ASSUME NEW e \in Entry, TakeFrom(e), stage # "reset" PROVE FALSE
    <3>1. BitsPerEntry \in Nat \ {0} /\ e \in Nat
      BY PageAllocatorAssumption DEF IInv, Layout, Entry
    <3>2. e * BitsPerEntry + 0 = e * BitsPerEntry /\ 0 \in 0 .. BitsPerEntry - 1
      BY <3>1
    <3>3. PICK b \in 0 .. BitsPerEntry - 1 : Return(e * BitsPerEntry + b)
      <4>1. CASE Return(e * BitsPerEntry)
        BY <3>2, <4>1
      <4> QED
        BY <2>2, <4>1 DEF TakeFrom
    <3> QED
      BY <2>1, <2>2, <3>3, ReturnTypes
  <2>3. CASE AllocPage
    <3>1. NoneOpen
      BY <2>2, <2>3 DEF AllocPage
    <3>2. ASSUME NEW p \in Bit PROVE p \in found \cup marked \/ held[p] > 0
      <4>1. PICK e \in Entry, b \in 0 .. BitsPerEntry - 1 : p = e * BitsPerEntry + b
        BY BitInEntry DEF IInv
      <4>2. p \in page_bitmap
        BY <3>1, <4>1 DEF NoneOpen, Full
      <4> QED
        BY <4>2 DEF IInv, NoLeak
    <3> QED
      BY <3>2
  <2>4. CASE \E size \in MemorySizes : InitPageAllocator(RamBase, size)
    BY <2>4 DEF InitPageAllocator
  <2>5. CASE \E region \in Regions : MarkRegionUnusable(region[1], region[2])
    BY <2>5 DEF MarkRegionUnusable
  <2>6. CASE \E p \in Page, offset \in 0 .. PageSize - 1 :
               FreePage(p, BitIndexToPageAddress(p) + offset)
    BY <2>1, <2>6 DEF FreePage
  <2>7. CASE UNCHANGED vars
    BY <2>7 DEF vars, pmmVars
  <2> QED
    BY <2>3, <2>4, <2>5, <2>6, <2>7, NextCases
<1>2. Spec => [][page_ptr' = NULL /\ page_ptr # NULL => Exhausted]_vars
  BY <1>1, Invariance, TypeInvariance, PTL DEF Spec
<1> QED
  BY <1>2 DEF NullOnlyWhenExhausted
=============================================================================
