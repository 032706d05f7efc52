------------------------------ MODULE MCMachine ------------------------------
(* Model-checking instance of three parts of the kernel that share no      *)
(* state: TrapHandler, Sv39 and PageAllocator.  A behaviour is one of the  *)
(* part that it starts with; the others stay as they began.                *)
EXTENDS MCTrapHandler, MCSv39, MCPageAllocator

VARIABLE part

machineVars == <<part, trapVars, tableVars, vars>>

MachineInit ==
  /\ part \in {"traps", "tables", "pages"}
  /\ TrapInit /\ TablesInit /\ Init

MachineNext ==
  /\ UNCHANGED part
  /\ \/ part = "traps" /\ TrapNext /\ UNCHANGED <<tableVars, vars>>
     \/ part = "tables" /\ TablesNext /\ UNCHANGED <<trapVars, vars>>
     \/ part = "pages" /\ Next /\ UNCHANGED <<trapVars, tableVars>>

MachineSpec == MachineInit /\ [][MachineNext]_machineVars /\ TrapFairness

===============================================================================
