--------------------------- MODULE MCKernelLibrary ---------------------------
(* Model-checking instance of three parts of the kernel that share no      *)
(* state: Spinlock, EternalHeap and Kprintf (with CString).  A behaviour   *)
(* is one of the part that it starts with; the others stay as they began.  *)
EXTENDS MCKprintf, Spinlock, EternalHeap

VARIABLE part

libraryVars == <<part, lockVars, heapVars, kprintfVars>>

LibraryInit ==
  /\ part \in {"lock", "heap", "print"}
  /\ LockInit /\ Init /\ PrintInit
  /\ part # "lock" => lock = FALSE /\ cpu = NoCPU

(* The bound on the number of blocks is reached; the call has returned or  *)
(* is reading through a wild pointer.                                      *)
HeapRest == Len(blocks) = MaxBlocks /\ UNCHANGED heapVars
PrintRest == at \in {"done", "wild"} /\ UNCHANGED kprintfVars

LibraryNext ==
  /\ UNCHANGED part
  /\ \/ part = "lock" /\ LockNext /\ UNCHANGED <<heapVars, kprintfVars>>
     \/ part = "heap" /\ (Next \/ HeapRest) /\ UNCHANGED <<lockVars, kprintfVars>>
     \/ part = "print" /\ (PrintNext \/ PrintRest) /\ UNCHANGED <<lockVars, heapVars>>

LibrarySpec == LibraryInit /\ [][LibraryNext]_libraryVars /\ LockFairness

===============================================================================
