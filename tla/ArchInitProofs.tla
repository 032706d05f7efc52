---------------------------- MODULE ArchInitProofs ----------------------------
(* What the boot reserves, for every layout of the image and of memory and *)
(* every device tree.                                                      *)
EXTENDS ArchInit, Sequences, TLAPS

FdtPages == PagesOf(fdt.ptr, fdt.totalsize)

KernelPhysEnd == KernelVirtualEnd - RegionBase

KernelPages == PagesOf(KernelPhysStart, KernelRegionLength)

(* Who handed over what, and how far the boot is. *)
Progress ==
  /\ pc \in {"_start", "parked", "fdt_init", "init_pmm", "mark_fdt", "mark_kernel",
             "read_null", "returned"}
  /\ pc = "returned" <=> result = "DEVICE_TREE_INVALID"
  /\ result \in {NULL, "DEVICE_TREE_INVALID"}
  /\ fdt \in DeviceTrees
  /\ pc \in {"mark_fdt", "mark_kernel", "read_null"} =>
       panicked \/ phys_base_address = RamBase

HeapSound == Heap!TypeOK /\ HeapStart <= curr /\ Heap!BlocksInHeap

(* The device tree is in use, but for its last page if it starts off one.  *)
FdtMarked ==
  \A p \in FdtPages :
    p \in page_bitmap \/ (fdt.ptr % PageSize # 0 /\ p + 1 \notin FdtPages)

(* Each mark is made by the time the boot is past it, and nothing else is. *)
Marks ==
  /\ pc \in {"mark_kernel", "read_null"} => FdtMarked
  /\ pc = "read_null" => KernelPages \subseteq page_bitmap
  /\ page_bitmap \subseteq found \cup FdtPages \cup KernelPages
  /\ found \subseteq Pmm!Bit /\ bitmap_entry_count \in Nat

IInv == Progress /\ HeapSound /\ Marks

-----------------------------------------------------------------------------

LEMMA DivMod ==
  ASSUME NEW x \in Nat, NEW n \in Nat \ {0}
  PROVE  /\ x \div n \in Nat /\ (x % n) \in 0 .. n - 1
         /\ x = (x \div n) * n + (x % n)
  OBVIOUS

LEMMA DivOf ==
  ASSUME NEW q \in Nat, NEW n \in Nat \ {0}, NEW r \in 0 .. n - 1
  PROVE  (q * n + r) \div n = q /\ (q * n + r) % n = r
  OBVIOUS

LEMMA DivAtLeast ==
  ASSUME NEW x \in Nat, NEW k \in Nat, NEW n \in Nat \ {0}, k * n <= x
  PROVE  k <= x \div n
  OBVIOUS

LEMMA DivBelow ==
  ASSUME NEW x \in Nat, NEW m \in Nat, NEW n \in Nat \ {0}, x < m * n
  PROVE  x \div n < m
  OBVIOUS

(* The quotient of a sum is the sum of the quotients, or one more when     *)
(* neither remainder is 0.                                                 *)
LEMMA DivSum ==
  ASSUME NEW x \in Nat, NEW y \in Nat, NEW n \in Nat \ {0}
  PROVE  \/ (x + y) \div n = x \div n + y \div n
         \/ (x + y) \div n = x \div n + y \div n + 1 /\ x % n # 0
<1> DEFINE q == x \div n
           s == y \div n
           r == x % n
           t == y % n
<1>1. /\ q \in Nat /\ r \in 0 .. n - 1 /\ x = q * n + r
      /\ s \in Nat /\ t \in 0 .. n - 1 /\ y = s * n + t
  BY DivMod
<1> HIDE DEF q, s, r, t
<1>2. x + y = (q + s) * n + (r + t)
  BY <1>1
<1>3. CASE r + t < n
  <2>1. r + t \in 0 .. n - 1 /\ q + s \in Nat
    BY <1>1, <1>3
  <2>2. ((q + s) * n + (r + t)) \div n = q + s
    BY <2>1, DivOf
  <2> QED
    BY <1>2, <2>2 DEF q, s
<1>4. CASE r + t >= n
  <2>1. r + t - n \in 0 .. n - 1 /\ q + s + 1 \in Nat /\ r # 0
    BY <1>1, <1>4
  <2>2. ((q + s + 1) * n + (r + t - n)) \div n = q + s + 1
    BY <2>1, DivOf
  <2>3. (q + s) * n + (r + t) = (q + s + 1) * n + (r + t - n)
    BY <1>1
  <2> QED
    BY <1>2, <2>1, <2>2, <2>3 DEF q, s, r
<1> QED
  BY <1>1, <1>3, <1>4

LEMMA RoundUp ==
  ASSUME NEW t \in Nat \ {0}, NEW n \in Nat \ {0}
  PROVE  (t + n - 1) \div n = (t - 1) \div n + 1
<1> DEFINE q == (t - 1) \div n
           r == (t - 1) % n
<1>1. q \in Nat /\ r \in 0 .. n - 1 /\ t - 1 = q * n + r
  <2>1. t - 1 \in Nat
    OBVIOUS
  <2> QED
    BY <2>1, DivMod
<1> HIDE DEF q, r
<1>2. t + n - 1 = (q + 1) * n + r
  BY <1>1
<1>3. ((q + 1) * n + r) \div n = q + 1
  BY <1>1, DivOf
<1> QED
  BY <1>2, <1>3 DEF q

LEMMA DivMono ==
  ASSUME NEW x \in Nat, NEW y \in Nat, x <= y, NEW n \in Nat \ {0}
  PROVE  x \div n <= y \div n
  OBVIOUS

LEMMA MultipleLess ==
  ASSUME NEW x \in Nat, NEW y \in Nat, NEW n \in Nat \ {0}, x <= y,
         x % n = 0, y % n = 0
  PROVE  (y - x) % n = 0
<1> DEFINE k == x \div n
           m == y \div n
<1>1. k \in Nat /\ x = k * n
  BY DivMod
<1>2. m \in Nat /\ y = m * n
  BY DivMod
<1>3. k <= m
  <2>1. k * n <= y
    BY <1>1
  <2> QED
    BY <1>1, <2>1, DivAtLeast
<1> HIDE DEF k, m
<1>4. m - k \in Nat /\ y - x = (m - k) * n + 0
  BY <1>1, <1>2, <1>3
<1>5. ((m - k) * n + 0) % n = 0
  BY <1>4, DivOf
<1> QED
  BY <1>4, <1>5

-----------------------------------------------------------------------------

LEMMA Sizes ==
  /\ PageSize \in Nat \ {0} /\ BitsPerEntry \in Nat \ {0} /\ BytesPerEntry \in Nat
  /\ WordSize \in Nat /\ RamBase \in Nat
BY ArchInitAssumption

(* A region that ends at or before a page holds no byte of it. *)
LEMMA PagesBelow ==
  ASSUME NEW start \in Nat, RamBase <= start, NEW length \in Nat, NEW pages \in Nat,
         start + length <= RamBase + pages * PageSize
  PROVE  PagesOf(start, length) \subseteq 0 .. pages - 1
<1> SUFFICES ASSUME length # 0 PROVE PagesOf(start, length) \subseteq 0 .. pages - 1
  BY DEF PagesOf
<1> DEFINE a == start - RamBase
<1>1. PageSize \in Nat \ {0} /\ RamBase \in Nat /\ pages * PageSize \in Nat
  BY Sizes
<1>2. a \in Nat /\ a + length - 1 \in Nat /\ a + length - 1 < pages * PageSize
  BY <1>1
<1>3. a \div PageSize \in Nat /\ (a + length - 1) \div PageSize \in Nat
  BY <1>1, <1>2, DivMod
<1>4. (a + length - 1) \div PageSize < pages
  BY <1>1, <1>2, DivBelow
<1>5. PagesOf(start, length) = a \div PageSize .. (a + length - 1) \div PageSize
  BY DEF PagesOf
<1> HIDE DEF a
<1> QED
  BY <1>3, <1>4, <1>5

(* The marks of a region of whole pages from a page on are its pages.      *)
LEMMA KernelMarks ==
  ASSUME phys_base_address = RamBase
  PROVE  Pmm!RegionBits(KernelPhysStart, KernelRegionLength) = KernelPages
<1> DEFINE a == KernelPhysStart - RamBase
           n == KernelRegionLength
<1>1. /\ PageSize \in Nat \ {0} /\ a \in Nat /\ a < WordSize /\ WordSize \in Nat
      /\ n \in Nat \ {0}
  BY ArchInitAssumption DEF KernelPhysStart, KernelRegionLength
<1>2. n % PageSize = 0
  <2>1. /\ KernelPhysStart \in Nat /\ KernelPhysEnd \in Nat /\ KernelPhysStart <= KernelPhysEnd
        /\ KernelPhysStart % PageSize = 0 /\ KernelPhysEnd % PageSize = 0
        /\ n = KernelPhysEnd - KernelPhysStart
    BY ArchInitAssumption DEF KernelPhysStart, KernelPhysEnd, KernelRegionLength
  <2> QED
    BY <1>1, <2>1, MultipleLess
<1>3. Pmm!AddressToBitIndex(KernelPhysStart) = a \div PageSize
  BY <1>1 DEF Pmm!AddressToBitIndex
<1>4. KernelPages = a \div PageSize .. (a + n - 1) \div PageSize
  BY <1>1 DEF KernelPages, PagesOf
<1>5. Pmm!RegionBits(KernelPhysStart, KernelRegionLength)
        = a \div PageSize .. a \div PageSize + n \div PageSize - 1
  BY <1>3 DEF Pmm!RegionBits
<1>6. a % PageSize = 0
  <2>1. KernelPhysStart % PageSize = 0 /\ RamBase % PageSize = 0
        /\ KernelPhysStart \in Nat /\ RamBase \in Nat /\ RamBase <= KernelPhysStart
    BY ArchInitAssumption DEF KernelPhysStart
  <2> QED
    BY <1>1, <2>1, MultipleLess
<1> HIDE DEF a, n
<1>7. (a + n - 1) \div PageSize = a \div PageSize + n \div PageSize - 1
  <2>1. n + PageSize - 1 = (n \div PageSize) * PageSize + (PageSize - 1)
    BY <1>1, <1>2, DivMod
  <2>2. (n + PageSize - 1) \div PageSize = n \div PageSize
    <3>1. n \div PageSize \in Nat /\ PageSize - 1 \in 0 .. PageSize - 1
      BY <1>1, DivMod
    <3>2. ((n \div PageSize) * PageSize + (PageSize - 1)) \div PageSize = n \div PageSize
      BY <1>1, <3>1, DivOf
    <3> QED
      BY <2>1, <3>2
  <2>3. (n - 1) \div PageSize = n \div PageSize - 1
    <3>1. (n + PageSize - 1) \div PageSize = (n - 1) \div PageSize + 1
      BY <1>1, RoundUp
    <3>2. (n - 1) \div PageSize \in Nat
      BY <1>1, DivMod
    <3> QED
      BY <2>2, <3>1, <3>2
  <2>4. (a + (n - 1)) \div PageSize = a \div PageSize + (n - 1) \div PageSize
    <3>1. n - 1 \in Nat
      BY <1>1
    <3> QED
      BY <1>1, <1>6, <3>1, DivSum
  <2>5. a + (n - 1) = a + n - 1
    BY <1>1
  <2>6. a \div PageSize \in Nat /\ n \div PageSize \in Nat
    BY <1>1, DivMod
  <2> QED
    BY <2>3, <2>4, <2>5, <2>6
<1> QED
  BY <1>4, <1>5, <1>7

(* The marks of the device tree are pages of it; they are all of them if   *)
(* it starts on a page, and all but the last at most if it does not.       *)
LEMMA TreeMarks ==
  ASSUME phys_base_address = RamBase, fdt \in DeviceTrees
  PROVE  /\ Pmm!RegionBits(fdt.ptr, FdtSize(fdt.totalsize)) \subseteq FdtPages
         /\ \A p \in FdtPages :
              \/ p \in Pmm!RegionBits(fdt.ptr, FdtSize(fdt.totalsize))
              \/ fdt.ptr % PageSize # 0 /\ p + 1 \notin FdtPages
<1> DEFINE a == fdt.ptr - RamBase
           n == fdt.totalsize
           first == a \div PageSize
           marked_pages == (n + PageSize - 1) \div PageSize
<1>1. /\ PageSize \in Nat \ {0} /\ RamBase \in Nat /\ RamBase % PageSize = 0
      /\ fdt.ptr \in Nat /\ RamBase <= fdt.ptr /\ WordSize \in Nat
      /\ a \in Nat /\ a < WordSize /\ n \in Nat
  <2>1. fdt.ptr \in FdtPointers /\ fdt.totalsize \in FdtLengths
    BY DEF DeviceTrees
  <2>2. fdt.ptr \in RamBase .. WordSize - 1 /\ n \in Nat
    BY <2>1, ArchInitAssumption
  <2> QED
    BY <2>2, ArchInitAssumption
<1>2. first \in Nat /\ marked_pages \in Nat
  <2>1. n + PageSize - 1 \in Nat
    BY <1>1
  <2> QED
    BY <1>1, <2>1, DivMod
<1>3. Pmm!RegionBits(fdt.ptr, FdtSize(n)) = first .. first + marked_pages - 1
  <2>1. Pmm!AddressToBitIndex(fdt.ptr) = first
    BY <1>1 DEF Pmm!AddressToBitIndex
  <2>2. FdtSize(n) = marked_pages * PageSize + 0
    BY <1>1, <1>2 DEF FdtSize
  <2> HIDE DEF marked_pages
  <2>3. FdtSize(n) \div PageSize = marked_pages
    BY <1>1, <1>2, <2>2, DivOf
  <2> QED
    BY <2>1, <2>3 DEF Pmm!RegionBits
<1>4. CASE n = 0
  <2>1. FdtPages = {}
    BY <1>4 DEF FdtPages, PagesOf
  <2>2. marked_pages = 0
    BY <1>1, <1>4
  <2> QED
    BY <1>2, <1>3, <2>1, <2>2
<1>5. CASE n # 0
  <2> DEFINE last == (a + n - 1) \div PageSize
  <2>1. FdtPages = first .. last
    BY <1>5 DEF FdtPages, PagesOf
  <2>2. marked_pages = (n - 1) \div PageSize + 1
    BY <1>1, <1>5, RoundUp
  <2>3. n - 1 \in Nat /\ a + (n - 1) = a + n - 1 /\ (n - 1) \div PageSize \in Nat
    <3>1. n - 1 \in Nat /\ a + (n - 1) = a + n - 1
      BY <1>1, <1>5
    <3> QED
      BY <1>1, <3>1, DivMod
  <2>4. \/ last = first + marked_pages - 1
        \/ last = first + marked_pages /\ a % PageSize # 0
    <3> HIDE DEF a, n
    <3>1. \/ (a + (n - 1)) \div PageSize = first + (n - 1) \div PageSize
          \/ /\ (a + (n - 1)) \div PageSize = first + (n - 1) \div PageSize + 1
             /\ a % PageSize # 0
      <4>1. a \in Nat /\ n - 1 \in Nat /\ PageSize \in Nat \ {0}
        BY <1>1, <2>3
      <4> QED
        BY ONLY <4>1, DivSum
    <3> HIDE DEF first, last, marked_pages
    <3> QED
      BY <1>2, <2>2, <2>3, <3>1 DEF last
  <2>5. a % PageSize # 0 => fdt.ptr % PageSize # 0
    BY <1>1, MultipleLess
  <2> HIDE DEF a, n, first, last, marked_pages
  <2> QED
    BY <1>2, <1>3, <2>1, <2>4, <2>5 DEF n
<1> QED
  BY <1>4, <1>5

-----------------------------------------------------------------------------

LEMMA HeapBase == HeapStart \in Nat /\ HeapEnd \in Nat /\ HeapStart < HeapEnd
  BY ArchInitAssumption

LEMMA HeapAlloc ==
  ASSUME HeapSound, ~panicked, NEW size \in Nat, Heap!EternalAlloc(size)
  PROVE  HeapSound'
<1> USE HeapBase DEF HeapSound, Heap!TypeOK, Heap!BlocksInHeap
<1>1. CASE Heap!Fits(curr, size)
  <2> DEFINE new == [ptr |-> curr, size |-> size, alignment |-> 1]
  <2>1. /\ curr' = curr + size /\ curr + size < HeapEnd /\ panicked' = panicked
        /\ blocks' = Append(blocks, new)
    BY <1>1 DEF Heap!EternalAlloc, Heap!AllocFrom, Heap!Fits, Heap!Bumped
  <2>2. blocks \in Seq(Heap!Block) /\ curr \in Nat
    OBVIOUS
  <2>3. new \in Heap!Block
    BY <2>2 DEF Heap!Block
  <2> HIDE DEF new
  <2>4. blocks' \in Seq(Heap!Block)
    BY <2>1, <2>2, <2>3
  <2>5. \A i \in DOMAIN blocks' :
          HeapStart <= blocks'[i].ptr /\ blocks'[i].ptr + blocks'[i].size <= HeapEnd
    <3> SUFFICES ASSUME NEW i \in DOMAIN blocks'
                 PROVE  HeapStart <= blocks'[i].ptr
                        /\ blocks'[i].ptr + blocks'[i].size <= HeapEnd
      OBVIOUS
    <3>1. CASE i = Len(blocks) + 1
      <4>1. blocks'[i] = new
        BY <2>1, <2>2, <3>1
      <4> QED
        BY <2>1, <2>2, <4>1 DEF new
    <3>2. CASE i # Len(blocks) + 1
      BY <2>1, <2>2, <3>2
    <3> QED
      BY <3>1, <3>2
  <2> QED
    BY <2>1, <2>2, <2>4, <2>5
<1>2. CASE ~Heap!Fits(curr, size)
  BY <1>2 DEF Heap!EternalAlloc, Heap!AllocFrom
<1> QED
  BY <1>1, <1>2

LEMMA HeapKept ==
  ASSUME HeapSound, UNCHANGED heap \/ Panic
  PROVE  HeapSound'
BY DEF HeapSound, Heap!TypeOK, Heap!BlocksInHeap, heap, Panic

LEMMA InitIInv == Init => IInv
<1> SUFFICES ASSUME Init PROVE IInv
  OBVIOUS
<1>1. Progress
  BY ArchInitAssumption DEF Init, Progress
<1>2. HeapSound
  <2>1. curr = HeapStart /\ panicked = FALSE /\ blocks = << >>
    BY DEF Init, Pmm!Init, Pmm!Heap!Init
  <2>2. blocks \in Seq(Heap!Block) /\ DOMAIN blocks = {}
    BY <2>1
  <2>3. Heap!BlocksInHeap
    BY <2>2 DEF Heap!BlocksInHeap
  <2>4. curr \in Nat /\ HeapStart <= curr /\ curr < HeapEnd
    BY <2>1, HeapBase
  <2>5. Heap!TypeOK
    BY <2>1, <2>2, <2>4 DEF Heap!TypeOK
  <2> QED
    BY <2>3, <2>4, <2>5 DEF HeapSound
<1>3. Marks
  BY DEF Init, Pmm!Init, Marks
<1> QED
  BY <1>1, <1>2, <1>3 DEF IInv

LEMMA FdtInitStep == ASSUME IInv, ~panicked, FdtInit PROVE IInv'
<1> USE DEF IInv
<1>1. Marks'
  BY DEF FdtInit, Marks, pmm, FdtPages, KernelPages, Pmm!Bit, PagesOf
<1>2. Progress'
  BY DEF FdtInit, Progress, InvalidResult
<1>3. HeapSound'
  <2>1. fdt.nodes \in Nat
    <3>1. fdt.nodes \in FdtHeapUse
      BY DEF Progress, DeviceTrees
    <3> QED
      BY <3>1, ArchInitAssumption
  <2> QED
    BY <2>1, HeapAlloc, HeapKept DEF FdtInit
<1> QED
  BY <1>1, <1>2, <1>3

LEMMA InitPmmStep == ASSUME IInv, ~panicked, InitPmm PROVE IInv'
<1> USE DEF IInv
<1>1. pc = "init_pmm" /\ pc' = "mark_fdt" /\ UNCHANGED bootVars
  BY DEF InitPmm
<1>2. CASE fdt.memory = Fault
  <2>1. Panic /\ UNCHANGED pmm
    <3>1. Fault \notin Nat
      BY ArchInitAssumption
    <3> QED
      BY <1>2 DEF InitPmm
  <2>2. HeapSound'
    BY <2>1, HeapKept
  <2>3. Progress'
    BY <1>1, <2>1 DEF Progress, bootVars, Panic
  <2>4. Marks'
    BY <1>1, <2>1 DEF Marks, bootVars, pmm, FdtPages, KernelPages, Pmm!Bit, PagesOf
  <2> QED
    BY <2>2, <2>3, <2>4
<1>3. CASE fdt.memory # Fault
  <2>1. Pmm!InitPageAllocator(RamBase, fdt.memory)
    BY <1>3 DEF InitPmm
  <2>2. fdt.memory \in Nat
    <3>1. fdt.memory \in MemorySizes
      BY <1>3 DEF Progress, DeviceTrees
    <3> QED
      BY <3>1, ArchInitAssumption
  <2> DEFINE pages == fdt.memory \div PageSize
             entries == Pmm!EntryCount(pages)
  <2>3. pages \in Nat /\ entries \in Nat
    <3>1. pages \in Nat
      BY <2>2, Sizes, DivMod
    <3> HIDE DEF pages
    <3> QED
      BY <3>1, Sizes, DivMod DEF Pmm!EntryCount
  <2>4. /\ phys_base_address' = RamBase /\ bitmap_entry_count' = entries
        /\ Pmm!Heap!EternalAlloc(entries * BytesPerEntry)
        /\ found' \subseteq 0 .. entries * BitsPerEntry - 1 /\ page_bitmap' = found'
    BY <2>1 DEF Pmm!InitPageAllocator
  <2> HIDE DEF pages, entries
  <2>5. Heap!EternalAlloc(entries * BytesPerEntry)
    BY <2>4 DEF Pmm!Heap!EternalAlloc, Heap!EternalAlloc, Pmm!Heap!AllocFrom, Heap!AllocFrom,
                Pmm!Heap!Fits, Heap!Fits, Pmm!Heap!Bumped, Heap!Bumped
  <2>6. HeapSound'
    <3>1. entries * BytesPerEntry \in Nat
      BY <2>3, Sizes
    <3> QED
      BY <2>5, <3>1, HeapAlloc
  <2>7. Progress'
    BY <1>1, <2>4 DEF Progress, bootVars
  <2>8. Marks'
    BY <1>1, <2>3, <2>4 DEF Marks, Pmm!Bit
  <2> QED
    BY <2>6, <2>7, <2>8
<1> QED
  BY <1>2, <1>3

LEMMA MarkFdtStep == ASSUME IInv, ~panicked, MarkFdt PROVE IInv'
<1> USE DEF IInv
<1> DEFINE new == Pmm!RegionBits(fdt.ptr, FdtSize(fdt.totalsize))
<1>1. /\ pc = "mark_fdt" /\ pc' = "mark_kernel" /\ UNCHANGED <<bootVars, heap>>
      /\ page_bitmap' = page_bitmap \cup new
      /\ UNCHANGED <<found, bitmap_entry_count, phys_base_address>>
  BY DEF MarkFdt, Pmm!MarkRegionUnusable, heap, Pmm!heap, Pmm!bitmapVars
<1>2. phys_base_address = RamBase /\ fdt \in DeviceTrees
  BY <1>1 DEF Progress
<1>3. HeapSound'
  BY <1>1, HeapKept
<1>4. Progress'
  BY <1>1 DEF Progress, bootVars, heap
<1>5. /\ new \subseteq FdtPages
      /\ \A p \in FdtPages : p \in new \/ (fdt.ptr % PageSize # 0 /\ p + 1 \notin FdtPages)
  BY <1>2, TreeMarks
<1>6. FdtPages' = FdtPages /\ KernelPages' = KernelPages /\ fdt' = fdt
  BY <1>1 DEF FdtPages, KernelPages, bootVars, PagesOf
<1> HIDE DEF new
<1>7. Marks'
  BY <1>1, <1>5, <1>6 DEF Marks, FdtMarked, Pmm!Bit
<1> QED
  BY <1>3, <1>4, <1>7

LEMMA MarkKernelStep == ASSUME IInv, ~panicked, MarkKernel PROVE IInv'
<1> USE DEF IInv
<1> DEFINE new == Pmm!RegionBits(KernelPhysStart, KernelRegionLength)
<1>1. /\ pc = "mark_kernel" /\ pc' = "read_null" /\ UNCHANGED <<bootVars, heap>>
      /\ page_bitmap' = page_bitmap \cup new
      /\ UNCHANGED <<found, bitmap_entry_count, phys_base_address>>
  BY DEF MarkKernel, Pmm!MarkRegionUnusable, heap, Pmm!heap, Pmm!bitmapVars
<1>2. new = KernelPages
  BY <1>1, KernelMarks DEF Progress
<1>3. HeapSound'
  BY <1>1, HeapKept
<1>4. Progress'
  BY <1>1 DEF Progress, bootVars, heap
<1>5. FdtPages' = FdtPages /\ KernelPages' = KernelPages /\ fdt' = fdt
  BY <1>1 DEF FdtPages, KernelPages, bootVars, PagesOf
<1> HIDE DEF new
<1>6. Marks'
  BY <1>1, <1>2, <1>5 DEF Marks, FdtMarked, Pmm!Bit
<1> QED
  BY <1>3, <1>4, <1>6

(* The steps that neither mark nor allocate. *)
LEMMA OtherStep ==
  ASSUME IInv, Start \/ (~panicked /\ ReadNull) \/ UNCHANGED vars
  PROVE  IInv'
<1> USE DEF IInv
<1>1. /\ UNCHANGED heap \/ Panic
      /\ UNCHANGED bootVars
      /\ UNCHANGED <<page_bitmap, found, bitmap_entry_count, phys_base_address>>
      /\ pc' = pc \/ (pc' \in {"fdt_init", "parked"} /\ pc = "_start")
  BY DEF Start, ReadNull, vars, pmm, heap
<1>2. HeapSound'
  BY <1>1, HeapKept
<1>3. panicked => panicked'
  BY <1>1 DEF heap, Panic
<1>4. Progress'
  BY <1>1, <1>3 DEF Progress, bootVars
<1>5. FdtPages' = FdtPages /\ KernelPages' = KernelPages /\ fdt' = fdt
  BY <1>1 DEF FdtPages, KernelPages, bootVars, PagesOf
<1>6. Marks'
  BY <1>1, <1>5 DEF Marks, FdtMarked, Pmm!Bit
<1> QED
  BY <1>2, <1>4, <1>6

LEMMA Invariance == Spec => []IInv
<1>1. IInv /\ [Next]_vars => IInv'
  BY FdtInitStep, InitPmmStep, MarkFdtStep, MarkKernelStep, OtherStep
     DEF Next, Boot, Spin
<1> QED
  BY <1>1, InitIInv, PTL DEF Spec

-----------------------------------------------------------------------------

(* srv_arch_Init returns only to say that the tree is invalid, and the     *)
(* heap's state is of its types throughout the boot.                       *)
THEOREM TypeCorrect == Spec => []TypeOK
<1>1. IInv => TypeOK
  BY DEF IInv, Progress, HeapSound, TypeOK
<1> QED
  BY <1>1, Invariance, PTL

(* At the end of the boot no page under a block of the heap is free: the   *)
(* blocks lie in the kernel's region, whose pages are all marked.          *)
THEOREM HeapIsReserved == Spec => []HeapReserved
<1>1. ASSUME IInv, BootDone, NEW i \in DOMAIN blocks
      PROVE  PagesOf(blocks[i].ptr, blocks[i].size) \subseteq KernelPages
  <2> DEFINE from == KernelPhysStart - RamBase
             a == blocks[i].ptr - RamBase
             n == blocks[i].size
             length == KernelRegionLength
  <2>1. blocks[i] \in Heap!Block
    BY <1>1 DEF IInv, HeapSound, Heap!TypeOK
  <2>2. blocks[i].ptr \in Nat /\ n \in Nat
    BY <2>1 DEF Heap!Block
  <2>3. HeapStart <= blocks[i].ptr /\ blocks[i].ptr + n <= HeapEnd
    BY <1>1 DEF IInv, HeapSound, Heap!BlocksInHeap
  <2>4. /\ PageSize \in Nat \ {0} /\ from \in Nat /\ a \in Nat /\ length \in Nat \ {0}
        /\ from <= a /\ a + n <= from + length
    BY <2>2, <2>3, ArchInitAssumption DEF KernelPhysStart, KernelRegionLength
  <2>5. CASE n = 0
    BY <2>5 DEF PagesOf
  <2>6. CASE n # 0
    <3>1. /\ PagesOf(blocks[i].ptr, blocks[i].size) = a \div PageSize .. (a + n - 1) \div PageSize
          /\ KernelPages = from \div PageSize .. (from + length - 1) \div PageSize
      BY <2>4, <2>6 DEF PagesOf, KernelPages
    <3>2. /\ a + n - 1 \in Nat /\ from + length - 1 \in Nat
          /\ a + n - 1 <= from + length - 1
      BY <2>2, <2>4, <2>6
    <3> HIDE DEF from, a, n, length
    <3>3. /\ from \div PageSize <= a \div PageSize
          /\ (a + n - 1) \div PageSize <= (from + length - 1) \div PageSize
      BY ONLY <2>4, <3>2, DivMono
    <3>4. /\ from \div PageSize \in Nat /\ a \div PageSize \in Nat
          /\ (a + n - 1) \div PageSize \in Nat /\ (from + length - 1) \div PageSize \in Nat
      BY ONLY <2>4, <3>2, DivMod
    <3> QED
      BY <3>1, <3>3, <3>4
  <2> QED
    BY <2>5, <2>6
<1>2. IInv => HeapReserved
  BY <1>1 DEF IInv, Marks, HeapReserved, BootDone
<1> QED
  BY <1>2, Invariance, PTL

(* A device tree that starts on a page is in use to its last byte after    *)
(* the boot, whatever its length.                                          *)
THEOREM FdtIsReserved == Spec => []FdtReservedFromPage
<1>1. IInv => FdtReservedFromPage
  BY DEF IInv, Marks, FdtMarked, FdtPages, FdtReservedFromPage, BootDone
<1> QED
  BY <1>1, Invariance, PTL

(* In a bitmap that was clear only pages of the device tree and of the     *)
(* kernel are in use after the boot.                                       *)
THEOREM NothingElseMarked == Spec => []OnlyInUseMarked
<1>1. IInv => OnlyInUseMarked
  BY DEF IInv, Marks, FdtPages, KernelPages, OnlyInUseMarked
<1> QED
  BY <1>1, Invariance, PTL

(* No mark falls past the last entry of the bitmap when the memory with    *)
(* bits holds the device tree and the kernel.                              *)
THEOREM NoMarkPastEnd == Spec => []MarksInsideBitmap
<1>1. ASSUME IInv, fdt.ptr + fdt.totalsize <= RamBase + bitmap_entry_count * BitsPerEntry * PageSize,
             KernelPhysStart + KernelRegionLength
               <= RamBase + bitmap_entry_count * BitsPerEntry * PageSize
      PROVE  page_bitmap \subseteq Pmm!Bit
  <2> DEFINE bits == bitmap_entry_count * BitsPerEntry
  <2>1. bits \in Nat
    BY <1>1, Sizes DEF IInv, Marks
  <2>2. fdt.ptr \in Nat /\ RamBase <= fdt.ptr /\ fdt.totalsize \in Nat
    <3>1. fdt.ptr \in FdtPointers /\ fdt.totalsize \in FdtLengths
      BY <1>1 DEF IInv, Progress, DeviceTrees
    <3>2. fdt.ptr \in RamBase .. WordSize - 1 /\ fdt.totalsize \in Nat
      BY <3>1, ArchInitAssumption
    <3> QED
      BY <3>2, Sizes
  <2>3. KernelPhysStart \in Nat /\ RamBase <= KernelPhysStart /\ KernelRegionLength \in Nat
    BY ArchInitAssumption DEF KernelPhysStart, KernelRegionLength
  <2> HIDE DEF bits
  <2>4. FdtPages \subseteq 0 .. bits - 1
    BY <1>1, <2>1, <2>2, PagesBelow DEF bits, FdtPages
  <2>5. KernelPages \subseteq 0 .. bits - 1
    BY <1>1, <2>1, <2>3, PagesBelow DEF bits, KernelPages
  <2> QED
    BY <1>1, <2>4, <2>5 DEF IInv, Marks, Pmm!Bit, bits
<1>2. IInv => MarksInsideBitmap
  BY <1>1 DEF MarksInsideBitmap
<1> QED
  BY <1>2, Invariance, PTL

=============================================================================
