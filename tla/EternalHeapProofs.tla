-------------------------- MODULE EternalHeapProofs --------------------------
(***************************************************************************)
(* Proofs about EternalHeap for any heap bounds, sizes and alignments.     *)
(***************************************************************************)
EXTENDS EternalHeap, TLAPS

(* Everything handed out lies between the start of the heap and the        *)
(* pointer, below the end.                                                 *)
BlocksBelowPointer ==
  /\ HeapStart <= curr
  /\ \A i \in DOMAIN blocks :
       /\ HeapStart <= blocks[i].ptr
       /\ blocks[i].ptr + blocks[i].size <= curr
       /\ blocks[i].ptr + blocks[i].size < HeapEnd

IInv == TypeOK /\ BlocksBelowPointer /\ BlocksDisjoint

(* The alignment step of srv_kalloc_EternalAllocAligned never moves the    *)
(* pointer back, whatever the alignment.                                   *)
LEMMA AlignedMovesUp ==
  ASSUME NEW address \in Nat, NEW alignment \in Nat \ {0}
  PROVE  Aligned(address, alignment) \in Nat /\ address <= Aligned(address, alignment)
<1>1. address % alignment \in Nat
  OBVIOUS
<1>2. QED
  BY <1>1 DEF Aligned

(* An allocation from the pointer upwards keeps the invariant: the body    *)
(* both allocation functions share.                                        *)
LEMMA AllocFromStep ==
  ASSUME IInv, ~panicked, NEW start \in Nat, curr <= start,
         NEW size \in Nat, NEW alignment \in Nat,
         AllocFrom(start, size, alignment)
  PROVE  IInv'
<1> USE HeapAssumption DEF IInv, TypeOK
<1>1. CASE ~Fits(start, size)
  <2>1. curr' = start /\ panicked' = TRUE /\ blocks' = blocks
    BY <1>1 DEF AllocFrom
  <2>2. \A i \in DOMAIN blocks : blocks[i] \in Block
    OBVIOUS
  <2>3. BlocksBelowPointer'
    BY <2>1, <2>2 DEF BlocksBelowPointer, Block
  <2>4. QED
    BY <2>1, <2>3 DEF BlocksDisjoint
<1>2. CASE Fits(start, size)
  <2> DEFINE b == [ptr |-> start, size |-> size, alignment |-> alignment]
  <2>1. /\ curr' = start + size /\ start + size < HeapEnd
        /\ blocks' = Append(blocks, b) /\ panicked' = panicked
    BY <1>2 DEF AllocFrom, Fits, Bumped
  <2>2. b \in Block
    BY DEF Block
  <2>3. TypeOK'
    BY <2>1, <2>2
  <2>4. /\ Len(blocks') = Len(blocks) + 1
        /\ DOMAIN blocks = 1..Len(blocks) /\ DOMAIN blocks' = 1..(Len(blocks) + 1)
        /\ \A i \in DOMAIN blocks : blocks'[i] = blocks[i] /\ blocks[i] \in Block
        /\ blocks'[Len(blocks) + 1] = b
    BY <2>1, <2>2
  <2>5. BlocksBelowPointer'
    <3>1. HeapStart <= curr'
      BY <2>1 DEF BlocksBelowPointer
    <3>2. ASSUME NEW i \in DOMAIN blocks'
          PROVE  /\ HeapStart <= blocks'[i].ptr
                 /\ blocks'[i].ptr + blocks'[i].size <= curr'
                 /\ blocks'[i].ptr + blocks'[i].size < HeapEnd
      <4>1. CASE i \in DOMAIN blocks
        <5>1. blocks'[i] = blocks[i] /\ blocks[i].ptr \in Nat /\ blocks[i].size \in Nat
          BY <2>4, <4>1 DEF Block
        <5> QED
          BY <2>1, <4>1, <5>1 DEF BlocksBelowPointer
      <4>2. CASE i = Len(blocks) + 1
        <5>1. blocks'[i].ptr = start /\ blocks'[i].size = size
          BY <2>4, <4>2
        <5> QED
          BY <2>1, <5>1 DEF BlocksBelowPointer
      <4> QED
        BY <2>4, <4>1, <4>2
    <3> QED
      BY <3>1, <3>2 DEF BlocksBelowPointer
  <2>6. BlocksDisjoint'
    <3> SUFFICES ASSUME NEW i \in DOMAIN blocks', NEW j \in DOMAIN blocks', i < j
                 PROVE  blocks'[i].ptr + blocks'[i].size <= blocks'[j].ptr
      BY DEF BlocksDisjoint
    <3>1. CASE j \in DOMAIN blocks
      BY <3>1, <2>4 DEF BlocksDisjoint
    <3>2. CASE j = Len(blocks) + 1
      <4>1. i \in DOMAIN blocks /\ blocks'[j].ptr = start
        BY <3>2, <2>4
      <4>2. blocks[i].ptr + blocks[i].size <= curr /\ blocks[i] \in Block
        BY <4>1, <2>4 DEF BlocksBelowPointer
      <4>3. QED
        BY <4>1, <4>2, <2>4 DEF Block
    <3>3. QED
      BY <3>1, <3>2, <2>4
  <2>7. QED
    BY <2>3, <2>5, <2>6
<1>3. QED
  BY <1>1, <1>2

(* kalloc.c keeps the invariant in every behaviour. *)
LEMMA Invariance == Spec => []IInv
<1>1. Init => IInv
  <2> SUFFICES ASSUME Init PROVE IInv
    OBVIOUS
  <2>1. blocks \in Seq(Block) /\ DOMAIN blocks = {}
    BY DEF Init
  <2>2. TypeOK
    BY <2>1, HeapAssumption DEF Init, TypeOK
  <2>3. BlocksBelowPointer /\ BlocksDisjoint
    BY <2>1, HeapAssumption DEF Init, BlocksBelowPointer, BlocksDisjoint
  <2>4. QED
    BY <2>2, <2>3 DEF IInv
<1>2. IInv /\ [Next]_heapVars => IInv'
  <2> SUFFICES ASSUME IInv, [Next]_heapVars PROVE IInv'
    OBVIOUS
  <2>0. curr \in Nat
    BY DEF IInv, TypeOK
  <2>1. ASSUME ~panicked, NEW size \in Sizes, EternalAlloc(size) PROVE IInv'
    BY <2>0, <2>1, AllocFromStep, HeapAssumption DEF EternalAlloc
  <2>2. ASSUME ~panicked, NEW size \in Sizes, NEW alignment \in Alignments,
               EternalAllocAligned(size, alignment)
        PROVE  IInv'
    <3>1. size \in Nat /\ alignment \in Nat \ {0}
      BY HeapAssumption
    <3>2. Aligned(curr, alignment) \in Nat /\ curr <= Aligned(curr, alignment)
      BY <2>0, <3>1, AlignedMovesUp
    <3>3. QED
      BY <2>2, <3>1, <3>2, AllocFromStep DEF EternalAllocAligned
  <2>3. CASE UNCHANGED heapVars
    BY <2>3 DEF heapVars, IInv, TypeOK, BlocksBelowPointer, BlocksDisjoint
  <2>4. QED
    BY <2>1, <2>2, <2>3 DEF Next, Hang
<1>3. QED
  BY <1>1, <1>2, PTL DEF Spec

(* For any heap and any requests the blocks handed out are pairwise        *)
(* disjoint and inside the heap.                                           *)
THEOREM BlocksSafe == Spec => []BlocksSeparate
<1>1. IInv => BlocksSeparate
  <2> SUFFICES ASSUME IInv PROVE BlocksInHeap
    BY DEF IInv, BlocksSeparate
  <2>1. \A i \in DOMAIN blocks : blocks[i] \in Block
    BY DEF IInv, TypeOK
  <2>2. QED
    BY <2>1, HeapAssumption DEF IInv, BlocksBelowPointer, BlocksInHeap, Block
<1>2. QED
  BY Invariance, <1>1, PTL

(* Type correctness; the pointer stays below the end until a panic. *)
THEOREM TypeCorrect == Spec => []TypeOK
<1>1. IInv => TypeOK
  BY DEF IInv
<1>2. QED
  BY Invariance, <1>1, PTL

=============================================================================
