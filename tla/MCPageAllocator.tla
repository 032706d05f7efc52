--------------------------- MODULE MCPageAllocator ---------------------------
(* Model-checking instances of PageAllocator: see the .cfg files.          *)
EXTENDS PageAllocator

(* Two bytes a page, two pages an entry: six pages in whole entries, six   *)
(* pages and a page and a half that no entry covers, and ten pages, whose  *)
(* bitmap the heap cannot hold.                                            *)
MCMemorySizes == {12, 15, 20}

(* Pages 1 and 4, and an unaligned region of three bytes from page 2. *)
MCRegions == {<<10, 2>>, <<16, 2>>, <<13, 3>>}

(* A cleared heap, and one with stray bits in every entry but the third. *)
MCRamContents == {{}, {0, 3, 6}}
=============================================================================
