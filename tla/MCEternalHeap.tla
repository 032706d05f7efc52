---------------------------- MODULE MCEternalHeap ----------------------------
(* Model-checking instances of EternalHeap: see the .cfg files.            *)
EXTENDS EternalHeap
=============================================================================
