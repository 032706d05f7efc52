----------------------------- MODULE MCFdtParser -----------------------------
(* Model-checking instances of FdtParser: see the .cfg files.              *)
EXTENDS FdtParser

CONSTANTS memory, soc, reg, compatible

(* "soc" ends within its first word; the name of the memory node fills its *)
(* last word, so that a word of zeros follows it.                          *)
MCNodeNames == {memory, soc}
MCNameLength == memory :> 4 @@ soc :> 3

(* A region of 64-bit address and size, and a text of five bytes whose     *)
(* words have the values of tokens.                                        *)
RegOf(high, low) == [name |-> reg, length |-> 16, cells |-> <<0, 2, high, low>>]
Compatible == [name |-> compatible, length |-> 5, cells |-> <<FDT_END_NODE, FDT_END>>]
MCProps == {RegOf(0, 3), RegOf(1, 2), Compatible}
MCOneWordRegs == {RegOf(0, 3)}
MCTwoWordRegs == {RegOf(1, 2)}

MCHeapContents == {{}, {2}}
MCClearHeap == {{}}
=============================================================================
