------------------------------ MODULE MCArchInit ------------------------------
(* Model-checking instances of ArchInit: see the .cfg files.               *)
EXTENDS ArchInit

(* Pages of four bytes from address 16: page 0 is the firmware's, 1 and 2  *)
(* the .boot section, 3 to 6 the kernel, the last two of them its heap.    *)
(* Memory: none reported, 18 pages of which 16 have bits, 20 pages.        *)
MCMemorySizes == {0, 72, 80}

(* On a page, off one, up to the end of the memory that has bits, after it. *)
MCFdtPointers == {44, 50, 74, 84}
MCFdtLengths == 1 .. 9

(* The nodes leave room for the bitmap, or do not, or do not fit.          *)
MCFdtHeapUse == {0, 3, 4, 8}
MCRamContents == {{}, {0, 9}}

(* A tree off its page that holds bytes of one page more than its length.  *)
MCUnalignedFdt == {50}
MCUnalignedLengths == 7 .. 8
MCClearRam == {{}}
=============================================================================
