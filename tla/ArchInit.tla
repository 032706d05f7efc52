------------------------------- MODULE ArchInit -------------------------------
(***************************************************************************)
(* kernel/boot/rv64/start.s and kernel/arch/rv64/init.c: from the reset of *)
(* a hart to the end of the boot, over the eternal heap and the page       *)
(* allocator.  The device tree (FdtParser) is what its driver answers: it  *)
(* is valid or not, its nodes take some of the heap, it has a length, and  *)
(* the memory size is found or its lookup faults.                          *)
(*                                                                         *)
(* Heap addresses are physical here: the virtual ones less the base of the *)
(* kernel's region.                                                        *)
(***************************************************************************)
EXTENDS Integers, FiniteSets

CONSTANTS
  PageSize, BitsPerEntry, BytesPerEntry, WordSize,
  RamBase,              (* __PHYSICAL_MEMORY_START *)
  ImageStart,           (* __KERNEL_PHYSICAL_START: the .boot section *)
  RegionBase,           (* SRV_PAGING_KERNEL_REGION_BASE *)
  KernelVirtualStart,   (* __kernel_virtual_start: the end of .boot *)
  KernelVirtualEnd,     (* __kernel_virtual_end *)
  HeapStart, HeapEnd,
  FdtPointers, FdtLengths, FdtHeapUse,  (* what the firmware may hand over *)
  MemorySizes,          (* what srv_fdt_GetMemorySize may return *)
  RamContents,          (* what a fresh bitmap may hold *)
  Harts,
  NULL, NoResult, Fault

(* The table that ends .boot ends on a page and linker.ld aligns the end of *)
(* the kernel, which holds the heap; the device tree lies in memory.       *)
ASSUME ArchInitAssumption ==
  /\ PageSize \in Nat \ {0} /\ BitsPerEntry \in Nat \ {0} /\ BytesPerEntry \in Nat
  /\ WordSize \in Nat /\ RamBase \in Nat /\ RegionBase \in Nat
  /\ {KernelVirtualStart, KernelVirtualEnd, HeapStart, HeapEnd} \subseteq Nat
  /\ RamBase % PageSize = 0
  /\ (KernelVirtualStart - RegionBase) % PageSize = 0
  /\ (KernelVirtualEnd - RegionBase) % PageSize = 0
  /\ RamBase <= KernelVirtualStart - RegionBase
  /\ KernelVirtualStart - RegionBase <= HeapStart /\ HeapStart < HeapEnd
  /\ HeapEnd <= KernelVirtualEnd - RegionBase
  /\ KernelVirtualEnd - RegionBase < WordSize
  /\ FdtPointers \subseteq RamBase .. WordSize - 1
  /\ FdtLengths \subseteq Nat /\ FdtHeapUse \subseteq Nat
  /\ MemorySizes \subseteq Nat /\ Fault \notin Nat
  /\ NULL # "DEVICE_TREE_INVALID"
  /\ RamContents \subseteq SUBSET Nat

VARIABLES
  pc,          (* where the hart is *)
  result,      (* what srv_arch_Init returned *)
  hart, fdt,   (* the boot hart and the device tree the firmware passes *)
  phys_base_address, bitmap_entry_count, free_pages, page_bitmap, page_ptr,
  stage, memory_size, found, marked, held, curr, panicked, blocks

Pmm == INSTANCE PageAllocator WITH MaxHolders <- 0, Regions <- {}
Heap == INSTANCE EternalHeap WITH Sizes <- {}, Alignments <- {}, MaxBlocks <- 0

heap == <<curr, panicked, blocks>>
pmm == <<phys_base_address, bitmap_entry_count, free_pages, page_bitmap, page_ptr,
         stage, memory_size, found, marked, held>>
bootVars == <<result, hart, fdt>>
vars == <<pc, bootVars, pmm, heap>>

DeviceTrees ==
  [valid : BOOLEAN, ptr : FdtPointers, totalsize : FdtLengths, nodes : FdtHeapUse,
   memory : MemorySizes \cup {Fault}]

Init ==
  /\ pc = "_start"
  /\ result = NULL
  /\ hart \in Harts /\ fdt \in DeviceTrees
  /\ Pmm!Init

Start_AnyHart ==
  /\ pc = "_start"
  /\ pc' = "fdt_init"
  /\ UNCHANGED <<bootVars, pmm, heap>>

(* start.s: hart 0 goes on to srv_arch_Init, the others spin. *)
Start ==
  /\ pc = "_start"
  /\ pc' = IF hart = 0 THEN "fdt_init" ELSE "parked"
  /\ UNCHANGED <<bootVars, pmm, heap>>

InvalidResult_Unset == UNCHANGED result

InvalidResult == result' = "DEVICE_TREE_INVALID"

(* The trap handler is installed before; start.s spins after the return. *)
FdtInit ==
  /\ pc = "fdt_init"
  /\ \/ /\ ~fdt.valid
        /\ pc' = "returned"
        /\ InvalidResult
        /\ UNCHANGED heap
     \/ /\ fdt.valid
        /\ pc' = "init_pmm"
        /\ Heap!EternalAlloc(fdt.nodes)
        /\ UNCHANGED result
  /\ UNCHANGED <<hart, fdt, pmm>>

(* A fault is taken by the trap handler, which panics. *)
Panic == panicked' = TRUE /\ UNCHANGED <<curr, blocks>>

InitPmm ==
  /\ pc = "init_pmm"
  /\ \/ /\ fdt.memory = Fault
        /\ Panic
        /\ UNCHANGED pmm
     \/ /\ fdt.memory # Fault
        /\ Pmm!InitPageAllocator(RamBase, fdt.memory)
  /\ pc' = "mark_fdt"
  /\ UNCHANGED bootVars

FdtSize_NotRounded(totalsize) == totalsize

FdtSize_PlusPage(totalsize) == (totalsize \div PageSize + 2) * PageSize

FdtSize(totalsize) == ((totalsize + PageSize - 1) \div PageSize) * PageSize

MarkFdt ==
  /\ pc = "mark_fdt"
  /\ Pmm!MarkRegionUnusable(fdt.ptr, FdtSize(fdt.totalsize))
  /\ pc' = "mark_kernel"
  /\ UNCHANGED bootVars

KernelPhysStart == KernelVirtualStart - RegionBase

KernelRegionLength_ToHeap == HeapStart - KernelPhysStart

KernelRegionLength == KernelVirtualEnd - KernelVirtualStart

MarkKernel ==
  /\ pc = "mark_kernel"
  /\ Pmm!MarkRegionUnusable(KernelPhysStart, KernelRegionLength)
  /\ pc' = "read_null"
  /\ UNCHANGED bootVars

(* init.c reads a word at NULL, which the boot page table does not map;    *)
(* what follows, the call of kmain, is not reached.                        *)
ReadNull ==
  /\ pc = "read_null"
  /\ Panic
  /\ UNCHANGED <<pc, bootVars, pmm>>

(* for (;;) of srv_KernelPanic, and the "j ." of start.s. *)
Spin == (panicked \/ pc \in {"parked", "returned"}) /\ UNCHANGED vars

Boot ==
  ~panicked /\ (Start \/ FdtInit \/ InitPmm \/ MarkFdt \/ MarkKernel \/ ReadNull)

Next == Boot \/ Spin

Spec == Init /\ [][Next]_vars

(* A hart executes its next instruction some time. *)
FairSpec == Spec /\ WF_vars(Boot)

-----------------------------------------------------------------------------

(* Type invariant; srv_arch_Init returns only to say that the tree is      *)
(* invalid.                                                                *)
TypeOK ==
  /\ pc \in {"_start", "parked", "fdt_init", "init_pmm", "mark_fdt", "mark_kernel",
             "read_null", "returned"}
  /\ pc = "returned" <=> result = "DEVICE_TREE_INVALID"
  /\ result \in {NULL, "DEVICE_TREE_INVALID"}
  /\ Heap!TypeOK

(* The pages, numbered from the base of RAM, that hold a byte of the       *)
(* region of length bytes at start.                                        *)
PagesOf(start, length) ==
  IF length = 0 THEN {}
  ELSE (start - RamBase) \div PageSize .. (start - RamBase + length - 1) \div PageSize

BootDone == pc = "read_null"

(* At the end of the boot no page under a block of the eternal heap is     *)
(* free: neither the nodes of the device tree nor the bitmap itself, which *)
(* is allocated before the kernel's region is marked.                      *)
HeapReserved ==
  BootDone =>
    \A i \in DOMAIN blocks : PagesOf(blocks[i].ptr, blocks[i].size) \subseteq page_bitmap

(* A device tree that starts on a page is in use to its last byte.         *)
FdtReservedFromPage ==
  BootDone /\ fdt.ptr % PageSize = 0 => PagesOf(fdt.ptr, fdt.totalsize) \subseteq page_bitmap

(* No more than the device tree and the kernel is taken out of use: in a   *)
(* bitmap that was clear, every set bit is of a page that holds a byte of  *)
(* one of them, whatever the rounding of the lengths and addresses.        *)
OnlyInUseMarked ==
  BootDone /\ found = {} =>
    page_bitmap \subseteq PagesOf(fdt.ptr, fdt.totalsize)
                            \cup PagesOf(KernelPhysStart, KernelRegionLength)

(* When the device tree and the kernel lie in memory that has bits, no mark *)
(* falls past the last entry of the bitmap, into whatever the heap gives   *)
(* out next: nothing in kpalloc.c stops at the end.                        *)
MarksInsideBitmap ==
  LET ManagedEnd == RamBase + bitmap_entry_count * BitsPerEntry * PageSize
  IN  /\ fdt.ptr + fdt.totalsize <= ManagedEnd
      /\ KernelPhysStart + KernelRegionLength <= ManagedEnd
      => page_bitmap \subseteq Pmm!Bit

(* Every boot comes to rest, and where it does: the other harts in the     *)
(* loop of start.s, an invalid tree in the return of srv_arch_Init, and    *)
(* hart 0 with a valid one always in a panic (of the heap, of the memory   *)
(* query, or else of the null pointer that init.c reads), before kmain.    *)
BootEnds ==
  <>(CASE hart # 0 -> pc = "parked"
       [] hart = 0 /\ ~fdt.valid -> pc = "returned"
       [] hart = 0 /\ fdt.valid -> panicked)

ImagePages == PagesOf(ImageStart, KernelVirtualEnd - RegionBase - ImageStart)

(* init.c: "We need to mark a few regions as unusable, namely: 1. The FDT  *)
(* 2. The eternal heap (part of the Kernel image in the linker map) 3. The *)
(* Kernel image itself".  The FDT starts where the firmware put it, and    *)
(* linker.ld starts the image with .boot and the page table of satp.       *)
RegionsReserved ==
  BootDone => /\ PagesOf(fdt.ptr, fdt.totalsize) \subseteq page_bitmap
              /\ PagesOf(HeapStart, HeapEnd - HeapStart) \subseteq page_bitmap
              /\ ImagePages \subseteq page_bitmap

=============================================================================
