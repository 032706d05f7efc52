----------------------------- MODULE EternalHeap -----------------------------
(***************************************************************************)
(* kernel/mm/kalloc.c: the bump allocator whose blocks are never freed.    *)
(*                                                                         *)
(* Addresses are integers.  The heap lies far below 2^64 and the largest   *)
(* request of the kernel is the page bitmap, so the pointer arithmetic     *)
(* does not wrap.                                                          *)
(***************************************************************************)
EXTENDS Integers, Sequences

CONSTANTS
  HeapStart,    (* &__kalloc_eternal_start *)
  HeapEnd,      (* &__kalloc_eternal_end *)
  Sizes,        (* the sizes callers ask for *)
  Alignments,   (* the alignments callers ask for *)
  MaxBlocks     (* bound: allocations in one behaviour *)

PowerOfTwo(n) == \E k \in 0 .. n : n = 2 ^ k

ASSUME HeapAssumption ==
  /\ HeapStart \in Nat /\ HeapEnd \in Nat /\ HeapStart < HeapEnd
  /\ Sizes \subseteq Nat
  /\ Alignments \subseteq Nat \ {0}
  /\ \A a \in Alignments : PowerOfTwo(a)   (* "must be a power of 2!" *)
  /\ MaxBlocks \in Nat

VARIABLES
  curr,         (* curr_kalloc_eternal_address *)
  panicked,     (* srv_KernelPanic was entered: the hart spins forever *)
  blocks        (* history: every block handed out, in order *)

heapVars == <<curr, panicked, blocks>>

Init ==
  /\ curr = HeapStart
  /\ panicked = FALSE
  /\ blocks = << >>

Fits_NonStrict(start, size) == start + size <= HeapEnd

(* The bound test of srv_kalloc_EternalAlloc. *)
Fits(start, size) == start + size < HeapEnd

Bumped_ByOneLess(start, size) == IF size = 0 THEN start ELSE start + size - 1

Bumped(start, size) == start + size

(* srv_kalloc_EternalAlloc with the pointer already moved to start. *)
AllocFrom(start, size, alignment) ==
  \/ /\ Fits(start, size)
     /\ curr' = Bumped(start, size)
     /\ blocks' = Append(blocks, [ptr |-> start, size |-> size, alignment |-> alignment])
     /\ UNCHANGED panicked
  \/ /\ ~Fits(start, size)
     /\ curr' = start
     /\ panicked' = TRUE
     /\ UNCHANGED blocks

EternalAlloc(size) == AllocFrom(curr, size, 1)

Aligned_Truncated(address, alignment) == address - (address % alignment)

(* The alignment step adds the misalignment, not what is missing to the    *)
(* next multiple.  The mask alignment - 1 takes the remainder, because an  *)
(* alignment is a power of two.                                            *)
Aligned(address, alignment) == address + (address % alignment)

EternalAllocAligned(size, alignment) ==
  AllocFrom(Aligned(curr, alignment), size, alignment)

(* for (;;) of srv_KernelPanic. *)
Hang == panicked /\ UNCHANGED heapVars

Next ==
  \/ /\ ~panicked /\ Len(blocks) < MaxBlocks
     /\ \E size \in Sizes :
          \/ EternalAlloc(size)
          \/ \E alignment \in Alignments : EternalAllocAligned(size, alignment)
  \/ Hang

Spec == Init /\ [][Next]_heapVars

-----------------------------------------------------------------------------

Block == [ptr : Nat, size : Nat, alignment : Nat]

(* Type invariant; the pointer passes the end only in the bump that panics. *)
TypeOK ==
  /\ curr \in Nat
  /\ panicked \in BOOLEAN
  /\ blocks \in Seq(Block)
  /\ ~panicked => curr < HeapEnd

(* Two blocks the heap ever handed out share no byte, whatever mix of      *)
(* plain and aligned requests came between them.                           *)
BlocksDisjoint ==
  \A i, j \in DOMAIN blocks :
    i < j => blocks[i].ptr + blocks[i].size <= blocks[j].ptr

(* Every block lies inside the 1 MiB that linker.ld sets aside. *)
BlocksInHeap ==
  \A i \in DOMAIN blocks :
    HeapStart <= blocks[i].ptr /\ blocks[i].ptr + blocks[i].size <= HeapEnd

(* Whoever writes within the size it asked for harms nobody else.          *)
BlocksSeparate == BlocksDisjoint /\ BlocksInHeap

(* kalloc.h: srv_kalloc_EternalAllocAligned "performs an aligned version"  *)
(* of the allocation: the block it returns lies on a multiple of the       *)
(* alignment, whatever was allocated before.                               *)
AlignedRequestAligned ==
  \A i \in DOMAIN blocks : blocks[i].ptr % blocks[i].alignment = 0

=============================================================================
