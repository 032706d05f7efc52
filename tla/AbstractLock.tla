---------------------------- MODULE AbstractLock ----------------------------
(***************************************************************************)
(* What a spinlock promises its callers: at any time at most one CPU holds *)
(* it, a CPU gets it only when nobody holds it, and only the holder gives  *)
(* it back.  Spinlock.tla is shown to implement this module.               *)
(***************************************************************************)

CONSTANTS
  CPU,      (* the processors that share the lock *)
  NoCPU     (* "nobody": the value -1 of spinlock_t.cpu *)

VARIABLE holder

Init == holder = NoCPU

Acquire(c) == holder = NoCPU /\ holder' = c

Release(c) == holder = c /\ holder' = NoCPU

Next == \E c \in CPU : Acquire(c) \/ Release(c)

Spec == Init /\ [][Next]_holder

=============================================================================
