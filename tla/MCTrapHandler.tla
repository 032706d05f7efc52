---------------------------- MODULE MCTrapHandler -----------------------------
(* Two harts, three traps between them, of two exceptions and a timer.     *)
EXTENDS TrapHandler

MCProgram ==
  [h \in Harts |-> [ra |-> "ra", sp |-> 0, tp |-> h, t |-> "t", s |-> "s", a |-> "a"]]

===============================================================================
