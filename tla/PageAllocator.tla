---------------------------- MODULE PageAllocator ----------------------------
(***************************************************************************)
(* kernel/mm/phys/kpalloc.c: the physical page allocator.  A bit per page, *)
(* kept in uint64_t entries on the eternal heap (EternalHeap), is set when *)
(* the page is in use.                                                     *)
(*                                                                         *)
(* page_bitmap is the set of bit indices that are set: bit 64*e + b of the *)
(* code is bit b of entry e.  An index past the last entry stands for a    *)
(* write past the end of the array.  Addresses are bytes.                  *)
(*                                                                         *)
(* The kernel calls the four functions in the order init.c gives them:     *)
(* initialisation, then the regions that are in use, then allocations and  *)
(* frees.  A client frees only pages it holds, although it may pass a      *)
(* pointer into the page instead of the page's address.                    *)
(***************************************************************************)
EXTENDS Integers, FiniteSetsExt

CONSTANTS
  PageSize,        (* SRV_PAGE_SIZE *)
  BitsPerEntry,    (* PHYSALLOC_BITS_PER_ENTRY *)
  BytesPerEntry,   (* sizeof(uint64_t) *)
  WordSize,        (* 2^64, where size_t and uintptr_t wrap *)
  RamBase,         (* boot_info->physical_memory_base *)
  MemorySizes,     (* what srv_fdt_GetMemorySize may return *)
  Regions,         (* the <<address, length>> pairs to mark unusable *)
  RamContents,     (* sets of bits a fresh bitmap may have: heap memory is
                      not cleared by the kernel *)
  HeapStart, HeapEnd,
  MaxHolders,      (* bound: times one page is handed out and not freed *)
  NULL, NoResult   (* page_ptr: the null pointer; no call has returned *)

ASSUME PageAllocatorAssumption ==
  /\ PageSize \in Nat \ {0} /\ BitsPerEntry \in Nat \ {0} /\ BytesPerEntry \in Nat
  /\ RamBase \in Nat /\ MemorySizes \subseteq Nat
  /\ RamBase % PageSize = 0
  /\ WordSize \in Nat \ {0}
  /\ \A size \in MemorySizes : RamBase + size < WordSize
  /\ Regions \subseteq Nat \X Nat
  /\ RamContents \subseteq SUBSET Nat
  /\ HeapStart \in Nat /\ HeapEnd \in Nat /\ HeapStart < HeapEnd
  /\ MaxHolders \in Nat
  /\ NULL \notin Nat /\ NoResult \notin Nat /\ NULL # NoResult

VARIABLES
  phys_base_address, bitmap_entry_count, free_pages, page_bitmap,
  page_ptr,        (* what the last srv_kpalloc_AllocPage returned *)
  stage,           (* "reset", then "boot" while regions are marked, then "run" *)
  memory_size,     (* history: the argument of the initialisation *)
  found,           (* history: the bits the fresh bitmap had *)
  marked,          (* history: the bits of the regions marked unusable *)
  held,            (* history: how often each page is out *)
  curr, panicked, blocks

Heap == INSTANCE EternalHeap WITH Sizes <- {}, Alignments <- {}, MaxBlocks <- 0

bitmapVars == <<phys_base_address, bitmap_entry_count, memory_size, found>>
pmmVars == <<bitmapVars, free_pages, page_bitmap, page_ptr, stage, marked, held>>
heap == <<curr, panicked, blocks>>
vars == <<pmmVars, heap>>

Entry == 0 .. bitmap_entry_count - 1
Bit == 0 .. bitmap_entry_count * BitsPerEntry - 1

(* The page numbers whose holders are counted: those of the memory and of  *)
(* one entry beyond its end.                                               *)
Page == UNION {0 .. size \div PageSize + BitsPerEntry - 1 : size \in MemorySizes}

Init ==
  /\ phys_base_address = 0 /\ bitmap_entry_count = 0 /\ free_pages = 0
  /\ page_bitmap = {}
  /\ page_ptr = NoResult
  /\ stage = "reset"
  /\ memory_size = 0 /\ found = {} /\ marked = {}
  /\ held = [p \in Page |-> 0]
  /\ Heap!Init

AddressToBitIndex(address) ==
  ((address - phys_base_address) % WordSize) \div PageSize

BitIndexToPageAddress(bit) == phys_base_address + bit * PageSize

SetBit_Never(bit) == UNCHANGED page_bitmap

SetBit(bit) == page_bitmap' = page_bitmap \cup {bit}

UnsetBit_Never(bit) == UNCHANGED page_bitmap

UnsetBit(bit) == page_bitmap' = page_bitmap \ {bit}

EntryCount_RoundedUp(pages) == (pages + BitsPerEntry - 1) \div BitsPerEntry

(* Pages beyond the last whole entry get no bit. *)
EntryCount(pages) == pages \div BitsPerEntry

InitPageAllocator(base_address, size) ==
  LET pages == size \div PageSize
  IN  /\ stage = "reset"
      /\ stage' = "boot"
      /\ phys_base_address' = base_address
      /\ free_pages' = pages
      /\ bitmap_entry_count' = EntryCount(pages)
      /\ memory_size' = size
      /\ Heap!EternalAlloc(EntryCount(pages) * BytesPerEntry)
      /\ \E content \in RamContents :
           found' = content \cap 0 .. EntryCount(pages) * BitsPerEntry - 1
      /\ page_bitmap' = found'
      /\ UNCHANGED <<page_ptr, marked, held>>

Full(e) == \A b \in 0 .. BitsPerEntry - 1 : e * BitsPerEntry + b \in page_bitmap

Empty(e) == \A b \in 0 .. BitsPerEntry - 1 : e * BitsPerEntry + b \notin page_bitmap

(* The first entry that is not PHYSALLOC_NO_FREE_PAGES. *)
FirstOpen(e) == ~Full(e) /\ \A d \in 0 .. e - 1 : Full(d)

FirstFree_NotComplemented(e, b) ==
  /\ e * BitsPerEntry + b \in page_bitmap
  /\ \A a \in 0 .. b - 1 : e * BitsPerEntry + a \notin page_bitmap

(* __builtin_ctzl of the complement of the entry. *)
FirstFree(e, b) ==
  /\ e * BitsPerEntry + b \notin page_bitmap
  /\ \A a \in 0 .. b - 1 : e * BitsPerEntry + a \in page_bitmap

FreePages_Unwrapped(n) == n

FreePages(n) == n % WordSize

Return(bit) ==
  /\ held[bit] < MaxHolders
  /\ page_ptr' = BitIndexToPageAddress(bit)
  /\ free_pages' = FreePages(free_pages - 1)
  /\ held' = [held EXCEPT ![bit] = @ + 1]

TakeFrom_NoCount(e) ==
  \/ /\ Empty(e)
     /\ SetBit(0)
     /\ page_ptr' = BitIndexToPageAddress(e * BitsPerEntry)
     /\ held[e * BitsPerEntry] < MaxHolders
     /\ held' = [held EXCEPT ![e * BitsPerEntry] = @ + 1]
     /\ UNCHANGED free_pages
  \/ /\ ~Empty(e)
     /\ \E b \in 0 .. BitsPerEntry - 1 :
          /\ FirstFree(e, b)
          /\ SetBit(e * BitsPerEntry + b)
          /\ Return(e * BitsPerEntry + b)

(* An empty entry gives its first page, but the bit that is set is bit 0   *)
(* of the whole bitmap.                                                    *)
TakeFrom(e) ==
  \/ /\ Empty(e)
     /\ SetBit(0)
     /\ Return(e * BitsPerEntry)
  \/ /\ ~Empty(e)
     /\ \E b \in 0 .. BitsPerEntry - 1 :
          /\ FirstFree(e, b)
          /\ SetBit(e * BitsPerEntry + b)
          /\ Return(e * BitsPerEntry + b)

NoneOpen_LastOnly == Full(bitmap_entry_count - 1)

NoneOpen == \A e \in Entry : Full(e)

AllocPage ==
  /\ stage \in {"boot", "run"}
  /\ stage' = "run"
  /\ \/ \E e \in Entry : FirstOpen(e) /\ TakeFrom(e)
     \/ /\ NoneOpen
        /\ page_ptr' = NULL
        /\ UNCHANGED <<free_pages, page_bitmap, held>>
  /\ UNCHANGED <<bitmapVars, marked, heap>>

(* srv_kpalloc_FreePage by a client that holds page p. *)
FreePage(p, ptr) ==
  /\ held[p] > 0
  /\ \/ /\ ptr % PageSize # 0
        /\ panicked' = TRUE
        /\ UNCHANGED <<free_pages, page_bitmap, held, page_ptr, curr, blocks>>
     \/ /\ ptr % PageSize = 0
        /\ UnsetBit(AddressToBitIndex(ptr))
        /\ free_pages' = FreePages(free_pages + 1)
        /\ held' = [held EXCEPT ![p] = @ - 1]
        /\ page_ptr' = NoResult
        /\ UNCHANGED heap
  /\ UNCHANGED <<bitmapVars, stage, marked>>

RegionBits(base_address, length) ==
  LET first == AddressToBitIndex(base_address)
  IN  first .. first + length \div PageSize - 1

MarkRegionUnusable(base_address, length) ==
  /\ stage = "boot"
  /\ page_bitmap' = page_bitmap \cup RegionBits(base_address, length)
  /\ marked' = marked \cup RegionBits(base_address, length)
  /\ UNCHANGED <<bitmapVars, free_pages, page_ptr, stage, held, heap>>

(* for (;;) of srv_KernelPanic. *)
Hang == panicked /\ UNCHANGED vars

Next ==
  \/ /\ ~panicked
     /\ \/ \E size \in MemorySizes : InitPageAllocator(RamBase, size)
        \/ \E region \in Regions : MarkRegionUnusable(region[1], region[2])
        \/ AllocPage
        \/ \E p \in Page, offset \in 0 .. PageSize - 1 :
             FreePage(p, BitIndexToPageAddress(p) + offset)
  \/ Hang

Spec == Init /\ [][Next]_vars

-----------------------------------------------------------------------------

(* Type invariant; free_pages is a machine word. *)
TypeOK ==
  /\ phys_base_address \in {0, RamBase}
  /\ bitmap_entry_count \in Nat
  /\ free_pages \in 0 .. WordSize - 1
  /\ page_bitmap \subseteq Nat /\ found \subseteq Nat /\ marked \subseteq Nat
  /\ page_ptr \in Nat \cup {NULL, NoResult}
  /\ stage \in {"reset", "boot", "run"}
  /\ memory_size \in MemorySizes \cup {0}
  /\ held \in [Page -> Nat]
  /\ Heap!TypeOK

(* A page marked unusable is never handed out, after any sequence of       *)
(* allocations and frees.                                                  *)
ReservedNeverHeld == \A p \in Page : held[p] > 0 => p \notin marked

(* The first page of an entry other than the first. *)
EntryHead(p) == p >= BitsPerEntry /\ p % BitsPerEntry = 0

(* A page is out at most once, unless it is the first page of a later      *)
(* entry: those are the only pages srv_kpalloc_AllocPage can hand out      *)
(* twice.                                                                  *)
SharedOnlyAtEntryHead == \A p \in Page : held[p] > 1 => EntryHead(p)

(* A set bit has a reason: it was set in the fresh bitmap, its page was    *)
(* marked unusable or it is out.  No page is ever lost.                    *)
NoLeak ==
  \A p \in page_bitmap : p \in found \cup marked \/ (p \in Page /\ held[p] > 0)

(* Every page handed out lies inside the memory the allocator was given,   *)
(* whose size need not be a multiple of a page or of an entry.             *)
HeldInsideRam ==
  \A p \in Page : held[p] > 0 => (p + 1) * PageSize <= memory_size

(* free_pages is the number of pages less those out, counting a page that  *)
(* is out twice twice.                                                     *)
FreeCountExact ==
  stage # "reset" =>
    free_pages = (memory_size \div PageSize - MapThenSumSet(LAMBDA p : held[p], Page))
                   % WordSize

(* srv_kpalloc_AllocPage returns NULL only when every page that has a bit  *)
(* is reserved, out, or had its bit set from the start.                    *)
NullOnlyWhenExhausted ==
  [][page_ptr' = NULL /\ page_ptr # NULL =>
       \A p \in Bit : p \in found \cup marked \/ held[p] > 0]_vars

(* kpalloc.c: "This entry is completely free! Take bit0", the page is then *)
(* in use: no page is handed out while it is out.                          *)
HeldOnce == \A p \in Page : held[p] <= 1

=============================================================================
