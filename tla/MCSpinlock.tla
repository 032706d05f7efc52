----------------------------- MODULE MCSpinlock -----------------------------
(* Model-checking instances of Spinlock: see the .cfg files.               *)
EXTENDS Spinlock, TLC

(* The CPUs are interchangeable; used by the safety runs only. *)
Symmetry == Permutations(CPU)

=============================================================================
