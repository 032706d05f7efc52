----------------------------- MODULE TrapHandler ------------------------------
(***************************************************************************)
(* The traps of each hart: trap.s, context.s, cpu.c, exception.c and the   *)
(* interrupt mask of irq.c.  A step is one assembly sequence up to a call  *)
(* or return, or one C function; a trap may come between any two of them.  *)
(*                                                                         *)
(* A return address is the place that execution goes on from, so control   *)
(* follows the value that is in ra or sepc.  Registers that all share one  *)
(* fate are one field: t stands for t0-t6, s for gp and s0-s11, a for      *)
(* a0-a7.  The stack pointer counts contexts (288 bytes).  The mode "U" is *)
(* the case that exception.c returns for; nothing in the kernel enters it  *)
(* yet (EnterUser is external).                                            *)
(***************************************************************************)
EXTENDS Integers, FiniteSets

CONSTANTS
  MaxCpus,     (* SYSRV_MAX_CPUS *)
  Harts,
  Program,     (* the registers of each hart's program *)
  Exceptions, Interrupts,  (* codes of scause, with the interrupt bit clear and set *)
  MaxTraps,    (* bound: traps of all harts together *)
  Scratch,     (* what a C function leaves in the registers it need not keep *)
  NoContext    (* a control block as .bss starts it *)

Bits == {0, 1, 5, 8}
SIE == 1   (* sstatus: interrupts are enabled in supervisor mode *)
SPIE == 5  (* sstatus: SIE before the trap *)
SPP == 8   (* sstatus: the trap came from supervisor mode *)

ASSUME HartsAssumption == Harts \subseteq 0 .. MaxCpus - 1 /\ MaxCpus \in Nat
ASSUME ProgramAssumption ==
  \A h \in Harts :
    Program[h] = [ra |-> Program[h].ra, sp |-> 0, tp |-> h, t |-> Program[h].t,
                  s |-> Program[h].s, a |-> Program[h].a]
ASSUME TrapsAssumption == MaxTraps \in Nat

VARIABLES
  pc, mode,    (* where each hart is, and in "S" or "U" mode *)
  reg,         (* ra, sp, tp, t, s and a *)
  sepc, scause, sstatus, stvec,
  stack,       (* the contexts stored below the program's stack pointer *)
  cpus,        (* the control blocks: cpus[n].registers *)
  report,      (* what a panic printed *)
  interrupted, (* history: the context of the hart at its last trap *)
  traps        (* history: the number of traps *)

csrs == <<sepc, scause, sstatus, stvec>>
trapVars == <<pc, mode, reg, csrs, stack, cpus, report, interrupted, traps>>

Causes == [interrupt : {FALSE}, code : Exceptions]
          \cup [interrupt : {TRUE}, code : Interrupts]

Context(r, epc, cause, status) ==
  [ra |-> r.ra, sp |-> r.sp, tp |-> r.tp, t |-> r.t, s |-> r.s, a |-> r.a,
   sepc |-> epc, scause |-> cause, sstatus |-> status]

TrapInit ==
  /\ pc = [h \in Harts |-> "srv_arch_Init"]
  /\ mode = [h \in Harts |-> "S"]
  /\ reg = [h \in Harts |-> Program[h]]
  /\ sepc = [h \in Harts |-> "program"]
  /\ scause = [h \in Harts |-> NoContext]
  /\ sstatus = [h \in Harts |-> {}]
  /\ stvec = [h \in Harts |-> NoContext]
  /\ stack = [h \in Harts |-> [i \in -MaxTraps .. -1 |-> NoContext]]
  /\ cpus = [n \in 0 .. MaxCpus - 1 |-> NoContext]
  /\ report = [h \in Harts |-> NoContext]
  /\ interrupted = [h \in Harts |-> NoContext]
  /\ traps = 0

(* srv_hal_InstallTrapHandler, as srv_arch_Init calls it.  A trap before   *)
(* goes to what the firmware left in stvec and is not modelled.            *)
InstallTrapHandler(h) ==
  /\ pc[h] = "srv_arch_Init"
  /\ stvec' = [stvec EXCEPT ![h] = "trap_handler"]
  /\ pc' = [pc EXCEPT ![h] = "program"]
  /\ UNCHANGED <<mode, reg, sepc, scause, sstatus, stack, cpus, report, interrupted, traps>>

EnterUser(h) ==
  /\ pc[h] = "program"
  /\ mode[h] = "S"
  /\ mode' = [mode EXCEPT ![h] = "U"]
  /\ UNCHANGED <<pc, reg, csrs, stack, cpus, report, interrupted, traps>>

(* csrrsi and csrrci with the immediate 1 reach bit 0 of sstatus, which    *)
(* supervisor mode may implement or not; SIE is bit 1.                     *)
Mask == {0}

EnableInterrupts(h) ==
  /\ pc[h] = "program" /\ mode[h] = "S"
  /\ \E set \in {Mask, Mask \ {0}} : sstatus' = [sstatus EXCEPT ![h] = @ \cup set]
  /\ UNCHANGED <<pc, mode, reg, sepc, scause, stvec, stack, cpus, report, interrupted, traps>>

DisableInterrupts(h) ==
  /\ pc[h] = "program" /\ mode[h] = "S"
  /\ sstatus' = [sstatus EXCEPT ![h] = @ \ Mask]
  /\ UNCHANGED <<pc, mode, reg, sepc, scause, stvec, stack, cpus, report, interrupted, traps>>

(* The hardware takes a trap: an exception anywhere, an interrupt in user  *)
(* mode or while SIE is set.                                               *)
Trap(h) ==
  /\ pc[h] \notin {"srv_arch_Init", "panicked"}
  /\ traps < MaxTraps
  /\ \E cause \in Causes :
       LET status == (IF mode[h] = "S" THEN {SPP} ELSE {})
                     \cup (IF SIE \in sstatus[h] THEN {SPIE} ELSE {})
                     \cup (sstatus[h] \cap {0})
       IN  /\ cause.interrupt => mode[h] = "U" \/ SIE \in sstatus[h]
           /\ scause' = [scause EXCEPT ![h] = cause]
           /\ sstatus' = [sstatus EXCEPT ![h] = status]
           /\ interrupted' = [interrupted EXCEPT ![h] = Context(reg[h], pc[h], cause, status)]
  /\ sepc' = [sepc EXCEPT ![h] = pc[h]]
  /\ pc' = [pc EXCEPT ![h] = stvec[h]]
  /\ mode' = [mode EXCEPT ![h] = "S"]
  /\ traps' = traps + 1
  /\ UNCHANGED <<reg, stvec, stack, cpus, report>>

(* A call overwrites ra, here before anything has been saved.              *)
CallSave(h) ==
  /\ pc[h] = "trap_handler"
  /\ reg' = [reg EXCEPT ![h].ra = "call_handler"]
  /\ pc' = [pc EXCEPT ![h] = "srv_hal_SaveCPUContext"]
  /\ UNCHANGED <<mode, csrs, stack, cpus, report, interrupted, traps>>

(* Saved while sp already points at the new context: 288 is added back.    *)
SavedSp_AsItIs(r) == r.sp - 1

SavedSp(r) == r.sp

SaveCPUContext(h) ==
  LET slot == reg[h].sp - 1 IN
  /\ pc[h] = "srv_hal_SaveCPUContext"
  /\ stack' = [stack EXCEPT ![h][slot] =
       Context([reg[h] EXCEPT !.sp = SavedSp(reg[h])], sepc[h], scause[h], sstatus[h])]
  /\ reg' = [reg EXCEPT ![h].sp = slot, ![h].t = Scratch, ![h].a = slot, ![h].ra = "restore"]
  /\ pc' = [pc EXCEPT ![h] = "hal_SaveContextToProcControlBlock"]
  /\ UNCHANGED <<mode, csrs, cpus, report, interrupted, traps>>

GetExecutingCPU_Boot(h) == 0

GetExecutingCPU(h) == reg[h].tp

(* A C function keeps ra, sp, tp and s, and returns to ra.                 *)
CReturn(h) ==
  /\ reg' = [reg EXCEPT ![h].t = Scratch, ![h].a = Scratch]
  /\ pc' = [pc EXCEPT ![h] = reg[h].ra]

SaveContextToProcControlBlock(h) ==
  /\ pc[h] = "hal_SaveContextToProcControlBlock"
  /\ cpus' = [cpus EXCEPT ![GetExecutingCPU(h)] = stack[h][reg[h].a]]
  /\ CReturn(h)
  /\ UNCHANGED <<mode, csrs, stack, report, interrupted, traps>>

Unwound_RaOnly(h) == [reg[h] EXCEPT !.ra = stack[h][reg[h].sp].ra]

Unwound(h) == [reg[h] EXCEPT !.ra = stack[h][reg[h].sp].ra, !.sp = @ + 1]

Restore(h) ==
  /\ pc[h] = "restore"
  /\ reg' = [reg EXCEPT ![h] = Unwound(h)]
  /\ pc' = [pc EXCEPT ![h] = Unwound(h).ra]
  /\ UNCHANGED <<mode, csrs, stack, cpus, report, interrupted, traps>>

CallHandler_Jumps(h) ==
  /\ pc[h] = "call_handler"
  /\ pc' = [pc EXCEPT ![h] = "srv_arch_ExceptionHandler"]
  /\ UNCHANGED <<reg, mode, csrs, stack, cpus, report, interrupted, traps>>

CallHandler(h) ==
  /\ pc[h] = "call_handler"
  /\ reg' = [reg EXCEPT ![h].ra = "sret"]
  /\ pc' = [pc EXCEPT ![h] = "srv_arch_ExceptionHandler"]
  /\ UNCHANGED <<mode, csrs, stack, cpus, report, interrupted, traps>>

(* srv_hal_GetExceptionCause and srv_hal_GetExceptionString: the interrupt *)
(* bit is masked off, and the stores (6 and 7) fall in with the loads.     *)
ExceptionString(cause) ==
  CASE cause.code = 0 -> "Instruction address misaligned"
    [] cause.code = 1 -> "Instruction access fault"
    [] cause.code = 2 -> "Illegal instruction"
    [] cause.code = 3 -> "Breakpoint"
    [] cause.code \in {4, 6} -> "Load address misaligned"
    [] cause.code \in {5, 7} -> "Load access fault"
    [] cause.code \in {12, 13, 15} -> "Page fault"
    [] OTHER -> "Unknown"

(* The cause a caller of srv_KernelPanic gives that is not the handler.    *)
OwnCause == "Own"

InKernelMode_Never(h) == FALSE

InKernelMode(h) == SPP \in cpus[GetExecutingCPU(h)].sstatus

(* srv_KernelPanic: the message, the dump of the control block, the loop.  *)
KernelPanic(h, message) ==
  /\ report' = [report EXCEPT ![h] =
       [message |-> message, context |-> cpus[GetExecutingCPU(h)]]]
  /\ pc' = [pc EXCEPT ![h] = "panicked"]
  /\ UNCHANGED reg

(* The kernel gives up by itself, in the heap, the lock or the device      *)
(* tree's driver: the same function, with a cause that is no exception.    *)
OwnPanic(h) ==
  /\ pc[h] = "program" /\ mode[h] = "S"
  /\ KernelPanic(h, OwnCause)
  /\ UNCHANGED <<mode, csrs, stack, cpus, interrupted, traps>>

ExceptionHandler(h) ==
  /\ pc[h] = "srv_arch_ExceptionHandler"
  /\ \/ /\ InKernelMode(h)
        /\ KernelPanic(h, ExceptionString(cpus[GetExecutingCPU(h)].scause))
     \/ /\ ~InKernelMode(h)
        /\ CReturn(h)
        /\ UNCHANGED report
  /\ UNCHANGED <<mode, csrs, stack, cpus, interrupted, traps>>

(* No register is restored; sepc and sstatus are what the last trap left.  *)
Sret(h) ==
  LET left == IF SPIE \in sstatus[h] THEN {SIE, SPIE} ELSE {SPIE} IN
  /\ pc[h] = "sret"
  /\ pc' = [pc EXCEPT ![h] = sepc[h]]
  /\ mode' = [mode EXCEPT ![h] = IF SPP \in sstatus[h] THEN "S" ELSE "U"]
  /\ sstatus' = [sstatus EXCEPT ![h] = left \cup (@ \cap {0})]
  /\ UNCHANGED <<reg, sepc, scause, stvec, stack, cpus, report, interrupted, traps>>

Handle(h) ==
  \/ CallSave(h) \/ SaveCPUContext(h) \/ SaveContextToProcControlBlock(h)
  \/ Restore(h) \/ CallHandler(h) \/ ExceptionHandler(h) \/ Sret(h)

TrapNext ==
  \E h \in Harts :
    \/ InstallTrapHandler(h) \/ EnterUser(h) \/ EnableInterrupts(h) \/ DisableInterrupts(h)
    \/ OwnPanic(h) \/ Trap(h) \/ Handle(h)

TrapSpec == TrapInit /\ [][TrapNext]_trapVars

(* A hart executes its trap handler: nothing in it waits.                  *)
TrapFairness == \A h \in Harts : WF_trapVars(Handle(h))

TrapFairSpec == TrapSpec /\ TrapFairness

-----------------------------------------------------------------------------

Places ==
  {"srv_arch_Init", "program", "trap_handler", "srv_hal_SaveCPUContext",
   "hal_SaveContextToProcControlBlock", "restore", "call_handler",
   "srv_arch_ExceptionHandler", "sret", "panicked"}

(* Type invariant; the stack pointer goes down a context per trap at most, *)
(* and is its own again when the program goes on.                          *)
TrapTypeOK ==
  /\ pc \in [Harts -> Places] /\ mode \in [Harts -> {"S", "U"}]
  /\ sepc \in [Harts -> Places]
  /\ sstatus \in [Harts -> SUBSET Bits]
  /\ scause \in [Harts -> Causes \cup {NoContext}]
  /\ stvec \in [Harts -> {NoContext, "trap_handler"}]
  /\ traps \in 0 .. MaxTraps
  /\ \A h \in Harts :
       /\ reg[h].sp \in -traps .. 0 /\ reg[h].tp = h
       /\ pc[h] = "program" => reg[h].sp = 0

(* The registers of a context that the entry of the handler has not lost.  *)
Kept(context) == [f \in DOMAIN context \ {"ra"} |-> context[f]]

(* When the exception handler decodes a hart's control block, the block is *)
(* the context of that hart's last trap, in every register but ra: there   *)
(* it is the address in trap.s that the save returned to.  Other harts'    *)
(* traps, and traps inside the save of an earlier one, do not mix in.      *)
SavedContextIsInterrupted ==
  \A h \in Harts :
    pc[h] \in {"restore", "call_handler", "srv_arch_ExceptionHandler"} =>
      /\ Kept(cpus[h]) = Kept(interrupted[h])
      /\ cpus[h].ra = "call_handler"

(* Whenever sret runs, it goes back to the user program that was trapped   *)
(* first, on the stack it had: a trap that hit the handler itself, and     *)
(* overwrote sepc, sstatus and the control block, never gets that far.     *)
ReturnsToUserProgram ==
  \A h \in Harts :
    pc[h] = "sret" =>
      /\ sepc[h] = "program" /\ SPP \notin sstatus[h]
      /\ reg[h].sp = interrupted[h].sp /\ reg[h].s = interrupted[h].s

(* The panic of a trap dumps the trap that caused it, the hart's last one, *)
(* which came from the kernel, and names it if it was an exception; of an  *)
(* interrupt nothing is said, because srv_hal_GetExceptionCause has no     *)
(* name for one.  A panic of the kernel by itself dumps an empty control   *)
(* block, never the context of an old trap: kernel code that was trapped   *)
(* does not go on.                                                         *)
PanicIsOfTheLastException ==
  \A h \in Harts :
    pc[h] = "panicked" =>
      IF report[h].message = OwnCause
        THEN report[h].context = NoContext
        ELSE /\ Kept(report[h].context) = Kept(interrupted[h])
             /\ SPP \in interrupted[h].sstatus
             /\ ~interrupted[h].scause.interrupt =>
                  report[h].message = ExceptionString(interrupted[h].scause)

(* irq.c: "Set SSTATUS.SIE to 1", hal.h: "Unmask interrupts".  When        *)
(* srv_hal_EnableInterrupts returns, supervisor mode takes interrupts.     *)
InterruptsUnmasked ==
  [][\A h \in Harts : EnableInterrupts(h) => SIE \in sstatus'[h]]_trapVars

(* Every trap is over some time: a trap taken in the kernel ends in a      *)
(* panic, however many more traps hit the handler on the way, and a trap   *)
(* taken in user mode in a return to the program or in a panic.            *)
TrapsEnd ==
  \A h \in Harts :
    /\ (pc[h] = "trap_handler" /\ SPP \in sstatus[h]) ~> pc[h] = "panicked"
    /\ pc[h] = "trap_handler" ~> pc[h] \in {"program", "panicked"}

===============================================================================
