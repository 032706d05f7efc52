------------------------------- MODULE MCSv39 --------------------------------
(* Tables of three entries.  The kernel's gigapage is 1, mapped high at 2; *)
(* it holds the boot root and two more tables.  One frame lies outside it. *)
EXTENDS Sv39

MCIndex == 0 .. 2
MCRoot == <<1, 0, 1>>
MCStart == <<0, 0, 1>>
MCTable1 == <<2, 0, 1>>
MCTable0 == <<0, 2, 1>>
MCFar == <<0, 0, 0>>
MCFrames == {MCRoot, MCStart, MCTable1, MCTable0, MCFar}
MCEntries == {<<MCRoot, 0>>, <<MCRoot, 1>>, <<MCTable1, 1>>, <<MCTable0, 2>>}

===============================================================================
