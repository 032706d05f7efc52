--------------------------- MODULE TrapHandlerProofs --------------------------
(***************************************************************************)
(* Theorems about TrapHandler, for any harts, causes and number of traps.  *)
(* The invariant follows the context of a hart's last trap, place by       *)
(* place, through its registers, its stack and its control block.          *)
(***************************************************************************)
EXTENDS TrapHandler, TLAPS

Entered == {"trap_handler", "srv_hal_SaveCPUContext"}
Copying == {"hal_SaveContextToProcControlBlock", "restore"}
Saved == {"restore", "call_handler", "srv_arch_ExceptionHandler", "sret"}
InHandler == Entered \cup Copying \cup Saved

IsRegisters(r) == r = [ra |-> r.ra, sp |-> r.sp, tp |-> r.tp, t |-> r.t, s |-> r.s, a |-> r.a]
IsContext(c) == c = Context(c, c.sepc, c.scause, c.sstatus)

(* Where a hart may be, and its stack pointer and modes there.             *)
Control(h) ==
  /\ IsRegisters(reg[h]) /\ reg[h].tp = h
  /\ reg[h].sp \in -traps .. 0
  /\ mode[h] = "U" => pc[h] = "program"
  /\ pc[h] \in {"srv_arch_Init", "program"} => reg[h].sp = 0
  /\ pc[h] \in Entered => -traps < reg[h].sp
  /\ pc[h] # "srv_arch_Init" => stvec[h] = "trap_handler"
  /\ SIE \notin sstatus[h]

(* What the handler has of the trap from the entry to the return.          *)
Trapped(h) ==
  pc[h] \in InHandler =>
    /\ IsContext(interrupted[h])
    /\ interrupted[h].sepc = sepc[h]
    /\ interrupted[h].scause = scause[h]
    /\ interrupted[h].sstatus = sstatus[h]
    /\ interrupted[h].s = reg[h].s
    /\ SPIE \notin sstatus[h]
    /\ SPP \notin sstatus[h] => sepc[h] = "program" /\ interrupted[h].sp = 0
    /\ SPP \in sstatus[h] => ~scause[h].interrupt

(* The trapped context, but for ra.                                        *)
Seen(h) ==
  [ra |-> "call_handler", sp |-> interrupted[h].sp, tp |-> interrupted[h].tp,
   t |-> interrupted[h].t, s |-> interrupted[h].s, a |-> interrupted[h].a,
   sepc |-> interrupted[h].sepc, scause |-> interrupted[h].scause,
   sstatus |-> interrupted[h].sstatus]

Flow(h) ==
  /\ pc[h] \in Entered =>
       /\ interrupted[h].sp = reg[h].sp /\ interrupted[h].tp = reg[h].tp
       /\ interrupted[h].t = reg[h].t /\ interrupted[h].a = reg[h].a
  /\ pc[h] = "srv_hal_SaveCPUContext" => reg[h].ra = "call_handler"
  /\ pc[h] \in Copying =>
       /\ reg[h].ra = "restore"
       /\ stack[h][reg[h].sp] = Seen(h)
       /\ reg[h].sp < 0
       /\ interrupted[h].sp = reg[h].sp + 1
  /\ pc[h] = "hal_SaveContextToProcControlBlock" => reg[h].a = reg[h].sp
  /\ pc[h] \in Saved => cpus[h] = Seen(h)
  /\ pc[h] \in Saved \ {"restore"} => interrupted[h].sp = reg[h].sp
  /\ pc[h] = "srv_arch_ExceptionHandler" => reg[h].ra = "sret"
  /\ pc[h] = "sret" => SPP \notin sstatus[h]

(* Kernel code outside the handler has never been trapped.                 *)
Untrapped(h) ==
  pc[h] \in {"srv_arch_Init", "program"} /\ mode[h] = "S" => cpus[h] = NoContext

Panicked(h) ==
  pc[h] = "panicked" =>
    \/ report[h].message = OwnCause /\ report[h].context = NoContext
    \/ /\ report[h].message = ExceptionString(interrupted[h].scause)
       /\ IsContext(interrupted[h])
       /\ report[h].context = Seen(h)
       /\ SPP \in interrupted[h].sstatus
       /\ ~interrupted[h].scause.interrupt

HartInv(h) == Control(h) /\ Trapped(h) /\ Flow(h) /\ Untrapped(h) /\ Panicked(h)

Types ==
  /\ pc \in [Harts -> Places] /\ mode \in [Harts -> {"S", "U"}]
  /\ sepc \in [Harts -> Places]
  /\ sstatus \in [Harts -> SUBSET Bits]
  /\ scause \in [Harts -> Causes \cup {NoContext}]
  /\ stvec \in [Harts -> {NoContext, "trap_handler"}]
  /\ traps \in 0 .. MaxTraps

Shapes ==
  /\ reg = [h \in Harts |-> reg[h]]
  /\ interrupted = [h \in Harts |-> interrupted[h]]
  /\ report = [h \in Harts |-> report[h]]
  /\ cpus = [n \in 0 .. MaxCpus - 1 |-> cpus[n]]
  /\ stack = [h \in Harts |-> [i \in -MaxTraps .. -1 |-> stack[h][i]]]

IInv == Types /\ Shapes /\ \A h \in Harts : HartInv(h)

HartState(h) ==
  <<pc[h], mode[h], reg[h], sepc[h], scause[h], sstatus[h], stvec[h], stack[h],
    cpus[h], report[h], interrupted[h]>>

(* A step that leaves a hart alone keeps the hart's part of the invariant. *)
LEMMA HartUnchanged ==
  ASSUME NEW h \in Harts, HartInv(h), traps \in Nat, traps' \in Nat, traps <= traps',
         HartState(h)' = HartState(h)
  PROVE  HartInv(h)'
<1>1. /\ pc'[h] = pc[h] /\ mode'[h] = mode[h] /\ reg'[h] = reg[h]
      /\ sepc'[h] = sepc[h] /\ scause'[h] = scause[h] /\ sstatus'[h] = sstatus[h]
      /\ stvec'[h] = stvec[h] /\ stack'[h] = stack[h] /\ cpus'[h] = cpus[h]
      /\ report'[h] = report[h] /\ interrupted'[h] = interrupted[h]
  BY DEF HartState
<1>2. /\ reg[h].sp \in -traps .. 0 => reg[h].sp \in -traps' .. 0
      /\ reg[h].sp \in -traps .. 0 /\ -traps < reg[h].sp => -traps' < reg[h].sp
  OBVIOUS
<1>3. Control(h)'
  BY <1>1, <1>2 DEF HartInv, Control, IsRegisters, SIE
<1>4. Trapped(h)'
  BY <1>1 DEF HartInv, Trapped, IsContext, Context, SIE, SPIE, SPP
<1>5. Seen(h)' = Seen(h)
  BY <1>1 DEF Seen
<1>6. Flow(h)' /\ Untrapped(h)' /\ Panicked(h)'
  BY <1>1, <1>5 DEF HartInv, Flow, Untrapped, Panicked, IsContext, Context, SPP,
                    ExceptionString, OwnCause
<1> QED
  BY <1>3, <1>4, <1>6 DEF HartInv

LEMMA InitIInv == TrapInit => IInv
<1> SUFFICES ASSUME TrapInit PROVE IInv
  OBVIOUS
<1>1. Types
  BY TrapsAssumption DEF TrapInit, Types, Places, Bits
<1>2. Shapes
  BY DEF TrapInit, Shapes
<1>3. ASSUME NEW h \in Harts PROVE HartInv(h)
  <2>1. /\ pc[h] = "srv_arch_Init" /\ mode[h] = "S" /\ reg[h] = Program[h]
        /\ sstatus[h] = {} /\ traps = 0 /\ cpus[h] = NoContext
    BY HartsAssumption DEF TrapInit
  <2>2. IsRegisters(Program[h]) /\ Program[h].tp = h /\ Program[h].sp = 0
    <3> DEFINE p == Program[h]
    <3>1. p = [ra |-> p.ra, sp |-> 0, tp |-> h, t |-> p.t, s |-> p.s, a |-> p.a]
      BY ProgramAssumption
    <3> HIDE DEF p
    <3>2. p.tp = h /\ p.sp = 0
      BY <3>1
    <3>3. IsRegisters(p)
      BY <3>1, <3>2 DEF IsRegisters
    <3> QED
      BY <3>2, <3>3 DEF p
  <2> QED
    BY <2>1, <2>2 DEF HartInv, Control, Trapped, Flow, Untrapped, Panicked, IsRegisters,
                      InHandler, Entered, Copying, Saved
<1> QED
  BY <1>1, <1>2, <1>3 DEF IInv

-----------------------------------------------------------------------------

(* A step of one hart.                                                     *)
LEMMA OneHart ==
  ASSUME IInv, NEW g \in Harts, Types', Shapes', traps <= traps', HartInv(g)',
         \A h \in Harts \ {g} : HartState(h)' = HartState(h)
  PROVE  IInv'
<1>1. traps \in Nat /\ traps' \in Nat
  BY TrapsAssumption DEF IInv, Types
<1>2. ASSUME NEW h \in Harts PROVE HartInv(h)'
  <2>1. CASE h = g
    BY <2>1
  <2>2. CASE h # g
    <3>1. HartInv(h)
      BY DEF IInv
    <3> QED
      BY <1>1, <2>2, <3>1, HartUnchanged
  <2> QED
    BY <2>1, <2>2
<1> QED
  BY <1>2 DEF IInv

LEMMA InstallIInv == ASSUME IInv, NEW g \in Harts, InstallTrapHandler(g) PROVE IInv'
<1> USE DEF InstallTrapHandler
<1>1. Types' /\ traps' = traps /\ traps \in Nat
  BY TrapsAssumption DEF IInv, Types, Places
<1>2. Shapes'
  BY DEF IInv, Shapes
<1>3. \A h \in Harts \ {g} : HartState(h)' = HartState(h)
  BY DEF HartState, IInv, Types
<1>4. HartInv(g)'
  <2>1. HartInv(g) /\ pc'[g] = "program" /\ stvec'[g] = "trap_handler"
    BY DEF IInv, Types
  <2> QED
    BY <2>1 DEF HartInv, Control, Trapped, Flow, Untrapped, Panicked, IsRegisters,
                InHandler, Entered, Copying, Saved
<1> QED
  BY <1>1, <1>2, <1>3, <1>4, OneHart

LEMMA EnterUserIInv == ASSUME IInv, NEW g \in Harts, EnterUser(g) PROVE IInv'
<1> USE DEF EnterUser, csrs
<1>1. Types' /\ traps' = traps /\ traps \in Nat
  BY TrapsAssumption DEF IInv, Types
<1>2. Shapes'
  BY DEF IInv, Shapes
<1>3. \A h \in Harts \ {g} : HartState(h)' = HartState(h)
  BY DEF HartState, IInv, Types
<1>4. HartInv(g)'
  <2>1. HartInv(g) /\ pc'[g] = "program" /\ pc[g] = "program"
    BY DEF IInv
  <2> QED
    BY <2>1 DEF HartInv, Control, Trapped, Flow, Untrapped, Panicked, IsRegisters,
                InHandler, Entered, Copying, Saved
<1> QED
  BY <1>1, <1>2, <1>3, <1>4, OneHart

(* Enabling and disabling interrupts: SIE stays clear.                     *)
LEMMA MaskIInv ==
  ASSUME IInv, NEW g \in Harts, EnableInterrupts(g) \/ DisableInterrupts(g)
  PROVE  IInv'
<1>1. PICK status \in SUBSET Bits :
        /\ sstatus' = [sstatus EXCEPT ![g] = status] /\ SIE \notin status
        /\ pc[g] = "program"
        /\ UNCHANGED <<pc, mode, reg, sepc, scause, stvec, stack, cpus, report,
                       interrupted, traps>>
  <2>1. sstatus[g] \in SUBSET Bits /\ SIE \notin sstatus[g]
    BY DEF IInv, Types, HartInv, Control
  <2>2. sstatus[g] \cup {0} \in SUBSET Bits /\ SIE \notin sstatus[g] \cup {0}
        /\ sstatus[g] \ {0} \in SUBSET Bits /\ SIE \notin sstatus[g] \ {0}
    BY <2>1 DEF Bits, SIE
  <2>3. CASE EnableInterrupts(g)
    <3>1. PICK set \in {Mask, Mask \ {0}} : sstatus' = [sstatus EXCEPT ![g] = @ \cup set]
      BY <2>3 DEF EnableInterrupts
    <3>2. sstatus[g] \cup set = sstatus[g] \cup {0} \/ sstatus[g] \cup set = sstatus[g]
      BY DEF Mask
    <3> QED
      BY <2>1, <2>2, <2>3, <3>1, <3>2 DEF EnableInterrupts
  <2>4. CASE DisableInterrupts(g)
    BY <2>2, <2>4 DEF DisableInterrupts, Mask
  <2> QED
    BY <2>3, <2>4
<1>2. Types' /\ traps' = traps /\ traps \in Nat
  BY <1>1, TrapsAssumption DEF IInv, Types
<1>3. Shapes'
  BY <1>1 DEF IInv, Shapes
<1>4. \A h \in Harts \ {g} : HartState(h)' = HartState(h)
  BY <1>1 DEF HartState, IInv, Types
<1>5. HartInv(g)'
  <2>1. HartInv(g) /\ SIE \notin sstatus'[g] /\ SIE' = SIE
    BY <1>1 DEF IInv, Types, SIE
  <2> QED
    BY <1>1, <2>1 DEF HartInv, Control, Trapped, Flow, Untrapped, Panicked, IsRegisters,
                      InHandler, Entered, Copying, Saved
<1> QED
  BY <1>2, <1>3, <1>4, <1>5, OneHart

(* No trap of this hart has filled the block that the panic dumps.         *)
LEMMA OwnPanicIInv == ASSUME IInv, NEW g \in Harts, OwnPanic(g) PROVE IInv'
<1>1. HartInv(g)
  BY DEF IInv
<1>2. /\ pc[g] = "program" /\ mode[g] = "S"
      /\ pc' = [pc EXCEPT ![g] = "panicked"]
      /\ UNCHANGED <<mode, reg, sepc, scause, sstatus, stvec, stack, cpus, interrupted, traps>>
  BY DEF OwnPanic, KernelPanic, csrs
<1>3. report' = [report EXCEPT ![g] = [message |-> OwnCause, context |-> NoContext]]
  BY <1>1, <1>2 DEF OwnPanic, KernelPanic, HartInv, Control, Untrapped, GetExecutingCPU
<1>4. Types' /\ traps' = traps /\ traps \in Nat
  BY <1>2, TrapsAssumption DEF IInv, Types, Places
<1>5. Shapes'
  BY <1>2, <1>3 DEF IInv, Shapes
<1>6. \A h \in Harts \ {g} : HartState(h)' = HartState(h)
  BY <1>2, <1>3 DEF HartState, IInv, Types, Shapes
<1>7. HartInv(g)'
  <2>1. /\ pc'[g] = "panicked"
        /\ report'[g].message = OwnCause /\ report'[g].context = NoContext
    BY <1>2, <1>3 DEF IInv, Types, Shapes
  <2>2. Control(g)'
    BY <1>1, <1>2, <2>1 DEF HartInv, Control, IsRegisters, Entered, SIE
  <2>3. Trapped(g)' /\ Flow(g)' /\ Untrapped(g)'
    BY <2>1 DEF Trapped, Flow, Untrapped, InHandler, Entered, Copying, Saved
  <2>4. Panicked(g)'
    BY <2>1 DEF Panicked, OwnCause
  <2> QED
    BY <2>2, <2>3, <2>4 DEF HartInv
<1> QED
  BY <1>4, <1>5, <1>6, <1>7, OneHart

(* The hardware's step: the history becomes what the registers hold.       *)
LEMMA TrapIInv == ASSUME IInv, NEW g \in Harts, Trap(g) PROVE IInv'
<1>1. PICK cause \in Causes :
        LET status == (IF mode[g] = "S" THEN {SPP} ELSE {})
                      \cup (IF SIE \in sstatus[g] THEN {SPIE} ELSE {})
                      \cup (sstatus[g] \cap {0})
        IN  /\ cause.interrupt => mode[g] = "U" \/ SIE \in sstatus[g]
            /\ scause' = [scause EXCEPT ![g] = cause]
            /\ sstatus' = [sstatus EXCEPT ![g] = status]
            /\ interrupted' = [interrupted EXCEPT ![g] = Context(reg[g], pc[g], cause, status)]
  BY DEF Trap
<1> DEFINE status == (IF mode[g] = "S" THEN {SPP} ELSE {}) \cup (sstatus[g] \cap {0})
<1>2. HartInv(g) /\ SIE \notin sstatus[g]
  BY DEF IInv, HartInv, Control
<1>3. /\ cause.interrupt => mode[g] = "U"
      /\ scause' = [scause EXCEPT ![g] = cause]
      /\ sstatus' = [sstatus EXCEPT ![g] = status]
      /\ interrupted' = [interrupted EXCEPT ![g] = Context(reg[g], pc[g], cause, status)]
  BY <1>1, <1>2
<1>4. /\ status \in SUBSET Bits /\ SIE \notin status /\ SPIE \notin status
      /\ SPP \in status <=> mode[g] = "S"
  BY DEF Bits, SIE, SPIE, SPP
<1> HIDE DEF status
<1>5. /\ pc[g] \notin {"srv_arch_Init", "panicked"} /\ traps < MaxTraps
      /\ sepc' = [sepc EXCEPT ![g] = pc[g]] /\ pc' = [pc EXCEPT ![g] = stvec[g]]
      /\ mode' = [mode EXCEPT ![g] = "S"] /\ traps' = traps + 1
      /\ UNCHANGED <<reg, stvec, stack, cpus, report>>
  BY DEF Trap
<1>6. stvec[g] = "trap_handler"
  BY <1>2, <1>5 DEF HartInv, Control
<1>7. Types' /\ traps \in Nat /\ traps <= traps'
  <2>1. traps \in Nat /\ traps + 1 \in 0 .. MaxTraps /\ traps <= traps + 1
    BY <1>5, TrapsAssumption DEF IInv, Types
  <2> QED
    BY <1>3, <1>4, <1>5, <1>6, <2>1 DEF IInv, Types, Places
<1>8. Shapes'
  BY <1>3, <1>5 DEF IInv, Shapes
<1>9. \A h \in Harts \ {g} : HartState(h)' = HartState(h)
  BY <1>3, <1>5 DEF HartState, IInv, Types
<1>10. HartInv(g)'
  <2>1. /\ pc'[g] = "trap_handler" /\ mode'[g] = "S" /\ reg'[g] = reg[g]
        /\ sepc'[g] = pc[g] /\ scause'[g] = cause /\ sstatus'[g] = status
        /\ stvec'[g] = "trap_handler"
        /\ interrupted'[g] = Context(reg[g], pc[g], cause, status)
    BY <1>3, <1>5, <1>6 DEF IInv, Types, Shapes
  <2>2. mode[g] \in {"S", "U"}
    BY DEF IInv, Types
  <2>3. Control(g)'
    <3>1. reg[g].sp \in -traps .. 0 => reg[g].sp \in -(traps + 1) .. 0 /\ -(traps + 1) < reg[g].sp
      BY <1>7
    <3>2. IsRegisters(reg[g]) /\ reg[g].tp = g /\ reg[g].sp \in -traps .. 0
      BY <1>2 DEF HartInv, Control
    <3> QED
      BY <1>4, <1>5, <2>1, <3>1, <3>2 DEF Control, IsRegisters, SIE
  <2>4. Trapped(g)'
    <3>1. mode[g] = "U" => pc[g] = "program" /\ reg[g].sp = 0
      BY <1>2 DEF HartInv, Control
    <3> QED
      BY <1>3, <1>4, <2>1, <2>2, <3>1 DEF Trapped, IsContext, Context, SPIE, SPP
  <2>5. Flow(g)' /\ Untrapped(g)' /\ Panicked(g)'
    BY <2>1 DEF Flow, Untrapped, Panicked, Context, Entered, Copying, Saved
  <2> QED
    BY <2>3, <2>4, <2>5 DEF HartInv
<1> QED
  BY <1>7, <1>8, <1>9, <1>10, OneHart

-----------------------------------------------------------------------------

(* The steps of the handler, in their order.                               *)

LEMMA CallSaveIInv == ASSUME IInv, NEW g \in Harts, CallSave(g) PROVE IInv'
<1> USE DEF CallSave, csrs
<1>1. Types' /\ traps' = traps /\ traps \in Nat
  BY TrapsAssumption DEF IInv, Types, Places
<1>2. Shapes'
  BY DEF IInv, Shapes
<1>3. \A h \in Harts \ {g} : HartState(h)' = HartState(h)
  BY DEF HartState, IInv, Types, Shapes
<1>4. HartInv(g)'
  <2>1. /\ pc[g] = "trap_handler" /\ pc'[g] = "srv_hal_SaveCPUContext"
        /\ reg'[g] = [reg[g] EXCEPT !.ra = "call_handler"]
    BY DEF IInv, Types, Shapes
  <2>2. HartInv(g)
    BY DEF IInv
  <2>3. /\ reg'[g] = [ra |-> "call_handler", sp |-> reg[g].sp, tp |-> reg[g].tp,
                      t |-> reg[g].t, s |-> reg[g].s, a |-> reg[g].a]
    BY <2>1, <2>2 DEF HartInv, Control, IsRegisters
  <2>4. Control(g)'
    BY <2>1, <2>2, <2>3 DEF HartInv, Control, IsRegisters, Entered, SIE
  <2>5. Trapped(g)'
    BY <2>1, <2>2, <2>3 DEF HartInv, Trapped, IsContext, Context, InHandler, Entered,
                            SPIE, SPP
  <2>6. Flow(g)' /\ Untrapped(g)' /\ Panicked(g)'
    BY <2>1, <2>2, <2>3 DEF HartInv, Flow, Untrapped, Panicked, Entered, Copying, Saved
  <2> QED
    BY <2>4, <2>5, <2>6 DEF HartInv
<1> QED
  BY <1>1, <1>2, <1>3, <1>4, OneHart

(* A register at a time.                                                   *)
LEMMA SetRegister ==
  ASSUME NEW r, IsRegisters(r), NEW n
  PROVE  /\ [r EXCEPT !.ra = n] = [ra |-> n, sp |-> r.sp, tp |-> r.tp, t |-> r.t,
                                   s |-> r.s, a |-> r.a]
         /\ [r EXCEPT !.sp = n] = [ra |-> r.ra, sp |-> n, tp |-> r.tp, t |-> r.t,
                                   s |-> r.s, a |-> r.a]
         /\ [r EXCEPT !.t = n] = [ra |-> r.ra, sp |-> r.sp, tp |-> r.tp, t |-> n,
                                  s |-> r.s, a |-> r.a]
         /\ [r EXCEPT !.a = n] = [ra |-> r.ra, sp |-> r.sp, tp |-> r.tp, t |-> r.t,
                                  s |-> r.s, a |-> n]
BY DEF IsRegisters

LEMMA StoredRegisters ==
  ASSUME NEW r, IsRegisters(r), NEW n
  PROVE  [r EXCEPT !.sp = n, !.t = Scratch, !.a = n, !.ra = "restore"]
           = [ra |-> "restore", sp |-> n, tp |-> r.tp, t |-> Scratch, s |-> r.s, a |-> n]
<1> DEFINE r1 == [r EXCEPT !.sp = n]
           r2 == [r1 EXCEPT !.t = Scratch]
           r3 == [r2 EXCEPT !.a = n]
           r4 == [r3 EXCEPT !.ra = "restore"]
<1>1. r1 = [ra |-> r.ra, sp |-> n, tp |-> r.tp, t |-> r.t, s |-> r.s, a |-> r.a]
  BY SetRegister
<1> HIDE DEF r1
<1>2. r2 = [ra |-> r.ra, sp |-> n, tp |-> r.tp, t |-> Scratch, s |-> r.s, a |-> r.a]
  BY <1>1
<1> HIDE DEF r2
<1>3. r3 = [ra |-> r.ra, sp |-> n, tp |-> r.tp, t |-> Scratch, s |-> r.s, a |-> n]
  BY <1>2
<1> HIDE DEF r3
<1>4. r4 = [ra |-> "restore", sp |-> n, tp |-> r.tp, t |-> Scratch, s |-> r.s, a |-> n]
  BY <1>3
<1> QED
  BY <1>4 DEF r3, r2, r1

(* The context that is stored is the trapped one, but for ra.              *)
LEMMA SaveIInv == ASSUME IInv, NEW g \in Harts, SaveCPUContext(g) PROVE IInv'
<1> DEFINE slot == reg[g].sp - 1
           context == Context([reg[g] EXCEPT !.sp = SavedSp(reg[g])],
                              sepc[g], scause[g], sstatus[g])
           r == [ra |-> "restore", sp |-> slot, tp |-> g, t |-> Scratch,
                 s |-> reg[g].s, a |-> slot]
<1>1. HartInv(g) /\ IsRegisters(reg[g]) /\ reg[g].tp = g
  BY DEF IInv, HartInv, Control
<1>2. /\ pc[g] = "srv_hal_SaveCPUContext"
      /\ stack' = [stack EXCEPT ![g][slot] = context]
      /\ pc' = [pc EXCEPT ![g] = "hal_SaveContextToProcControlBlock"]
      /\ UNCHANGED <<mode, sepc, scause, sstatus, stvec, cpus, report, interrupted, traps>>
  BY DEF SaveCPUContext, csrs
<1>3. reg' = [reg EXCEPT ![g] = r]
  <2>1. reg' = [reg EXCEPT ![g] = [reg[g] EXCEPT !.sp = slot, !.t = Scratch, !.a = slot,
                                                !.ra = "restore"]]
    BY DEF SaveCPUContext, IInv, Shapes
  <2>2. [reg[g] EXCEPT !.sp = slot, !.t = Scratch, !.a = slot, !.ra = "restore"] = r
    BY <1>1, StoredRegisters
  <2> QED
    BY <2>1, <2>2
<1>4. slot \in -traps .. -1 /\ slot + 1 = reg[g].sp /\ slot \in -MaxTraps .. -1
  <2>1. reg[g].sp \in -traps .. 0 /\ -traps < reg[g].sp
    BY <1>1, <1>2 DEF HartInv, Control, Entered
  <2>2. traps \in 0 .. MaxTraps /\ MaxTraps \in Nat
    BY TrapsAssumption DEF IInv, Types
  <2> QED
    BY <2>1, <2>2
<1>5. context = Seen(g)
  <2>1. /\ reg[g].ra = "call_handler"
        /\ interrupted[g].sp = reg[g].sp /\ interrupted[g].tp = reg[g].tp
        /\ interrupted[g].t = reg[g].t /\ interrupted[g].a = reg[g].a
        /\ interrupted[g].s = reg[g].s /\ interrupted[g].sepc = sepc[g]
        /\ interrupted[g].scause = scause[g] /\ interrupted[g].sstatus = sstatus[g]
    BY <1>1, <1>2 DEF HartInv, Flow, Trapped, InHandler, Entered
  <2>2. [reg[g] EXCEPT !.sp = SavedSp(reg[g])] = reg[g]
    BY <1>1 DEF SavedSp, IsRegisters
  <2> QED
    BY <2>1, <2>2 DEF Context, Seen
<1> HIDE DEF slot, context
<1>6. Types' /\ traps' = traps /\ traps \in Nat
  BY <1>2, TrapsAssumption DEF IInv, Types, Places
<1>7. Shapes'
  BY <1>2, <1>3 DEF IInv, Shapes
<1>8. \A h \in Harts \ {g} : HartState(h)' = HartState(h)
  BY <1>2, <1>3 DEF HartState, IInv, Types, Shapes
<1>9. HartInv(g)'
  <2>1. /\ pc'[g] = "hal_SaveContextToProcControlBlock" /\ reg'[g] = r
        /\ stack'[g][slot] = Seen(g) /\ Seen(g)' = Seen(g)
    BY <1>2, <1>3, <1>4, <1>5 DEF IInv, Types, Shapes, Seen
  <2>2. r.sp = slot /\ r.a = slot /\ r.ra = "restore" /\ r.tp = g /\ r.s = reg[g].s
        /\ IsRegisters(r)
    BY DEF IsRegisters
  <2> HIDE DEF r
  <2>3. Control(g)'
    BY <1>1, <1>2, <1>4, <2>1, <2>2 DEF HartInv, Control, IsRegisters, Entered, SIE
  <2>4. Trapped(g)'
    BY <1>1, <1>2, <2>1, <2>2 DEF HartInv, Trapped, IsContext, Context, InHandler,
                                  Entered, SPIE, SPP
  <2>5. slot < 0 /\ interrupted[g].sp = slot + 1
    BY <1>1, <1>2, <1>4 DEF HartInv, Flow, Entered
  <2>6. Flow(g)' /\ Untrapped(g)' /\ Panicked(g)'
    BY <1>2, <2>1, <2>2, <2>5 DEF Flow, Untrapped, Panicked, Entered, Copying, Saved
  <2> QED
    BY <2>3, <2>4, <2>6 DEF HartInv
<1> QED
  BY <1>6, <1>7, <1>8, <1>9, OneHart

(* A C function that returns.                                              *)
LEMMA ClobberedRegisters ==
  ASSUME IInv, NEW g \in Harts, CReturn(g)
  PROVE  /\ reg' = [reg EXCEPT ![g] = [ra |-> reg[g].ra, sp |-> reg[g].sp, tp |-> g,
                                       t |-> Scratch, s |-> reg[g].s, a |-> Scratch]]
         /\ pc' = [pc EXCEPT ![g] = reg[g].ra]
<1> DEFINE r == reg[g]
           r1 == [r EXCEPT !.t = Scratch]
           r2 == [r1 EXCEPT !.a = Scratch]
<1>1. IsRegisters(r) /\ r.tp = g
  BY DEF IInv, HartInv, Control
<1>2. reg' = [reg EXCEPT ![g] = r2] /\ pc' = [pc EXCEPT ![g] = reg[g].ra]
  BY DEF CReturn, IInv, Shapes
<1> HIDE DEF r
<1>3. r1 = [ra |-> r.ra, sp |-> r.sp, tp |-> g, t |-> Scratch, s |-> r.s, a |-> r.a]
  BY <1>1, SetRegister
<1> HIDE DEF r1
<1>4. r2 = [ra |-> r.ra, sp |-> r.sp, tp |-> g, t |-> Scratch, s |-> r.s, a |-> Scratch]
  BY <1>3
<1> QED
  BY <1>2, <1>4 DEF r

LEMMA CopyIInv ==
  ASSUME IInv, NEW g \in Harts, SaveContextToProcControlBlock(g)
  PROVE  IInv'
<1> DEFINE r == [ra |-> reg[g].ra, sp |-> reg[g].sp, tp |-> g, t |-> Scratch,
                 s |-> reg[g].s, a |-> Scratch]
<1>1. HartInv(g)
  BY DEF IInv
<1>2. /\ pc[g] = "hal_SaveContextToProcControlBlock"
      /\ UNCHANGED <<mode, sepc, scause, sstatus, stvec, stack, report, interrupted, traps>>
  BY DEF SaveContextToProcControlBlock, csrs
<1>3. reg[g].ra = "restore" /\ reg[g].tp = g /\ stack[g][reg[g].a] = Seen(g)
  BY <1>1, <1>2 DEF HartInv, Flow, Control, Copying
<1>4. cpus' = [cpus EXCEPT ![g] = Seen(g)]
  BY <1>3 DEF SaveContextToProcControlBlock, GetExecutingCPU
<1>5. reg' = [reg EXCEPT ![g] = r] /\ pc' = [pc EXCEPT ![g] = "restore"]
  BY <1>3, ClobberedRegisters DEF SaveContextToProcControlBlock
<1> HIDE DEF r
<1>6. Types' /\ traps' = traps /\ traps \in Nat
  BY <1>2, <1>5, TrapsAssumption DEF IInv, Types, Places
<1>7. Shapes'
  BY <1>2, <1>4, <1>5 DEF IInv, Shapes
<1>8. \A h \in Harts \ {g} : HartState(h)' = HartState(h)
  BY <1>2, <1>4, <1>5 DEF HartState, IInv, Types, Shapes
<1>9. HartInv(g)'
  <2>1. /\ pc'[g] = "restore" /\ reg'[g] = r /\ cpus'[g] = Seen(g) /\ Seen(g)' = Seen(g)
    BY <1>2, <1>4, <1>5, HartsAssumption DEF IInv, Types, Shapes, Seen
  <2>2. r.sp = reg[g].sp /\ r.ra = "restore" /\ r.tp = g /\ r.s = reg[g].s /\ IsRegisters(r)
    BY <1>3 DEF IsRegisters, r
  <2>3. Control(g)'
    BY <1>1, <1>2, <2>1, <2>2 DEF HartInv, Control, IsRegisters, Entered, SIE
  <2>4. Trapped(g)'
    BY <1>1, <1>2, <2>1, <2>2 DEF HartInv, Trapped, IsContext, Context, InHandler,
                                  Copying, SPIE, SPP
  <2>5. Flow(g)' /\ Untrapped(g)' /\ Panicked(g)'
    BY <1>1, <1>2, <2>1, <2>2 DEF HartInv, Flow, Untrapped, Panicked, Entered, Copying, Saved
  <2> QED
    BY <2>3, <2>4, <2>5 DEF HartInv
<1> QED
  BY <1>6, <1>7, <1>8, <1>9, OneHart

LEMMA RestoreIInv == ASSUME IInv, NEW g \in Harts, Restore(g) PROVE IInv'
<1> DEFINE r == [ra |-> "call_handler", sp |-> reg[g].sp + 1, tp |-> g, t |-> reg[g].t,
                 s |-> reg[g].s, a |-> reg[g].a]
<1>1. HartInv(g)
  BY DEF IInv
<1>2. /\ pc[g] = "restore"
      /\ reg' = [reg EXCEPT ![g] = Unwound(g)] /\ pc' = [pc EXCEPT ![g] = Unwound(g).ra]
      /\ UNCHANGED <<mode, sepc, scause, sstatus, stvec, stack, cpus, report,
                     interrupted, traps>>
  BY DEF Restore, csrs
<1>3. Unwound(g) = r
  <2> DEFINE q == reg[g]
             next == reg[g].sp + 1
             q1 == [q EXCEPT !.ra = "call_handler"]
             q2 == [q1 EXCEPT !.sp = next]
  <2>1. IsRegisters(q) /\ q.tp = g /\ stack[g][reg[g].sp].ra = "call_handler"
    BY <1>1, <1>2 DEF HartInv, Control, Flow, Copying, Seen
  <2>2. Unwound(g) = [q EXCEPT !.ra = "call_handler", !.sp = next]
    BY <2>1 DEF Unwound
  <2>3. r = [ra |-> "call_handler", sp |-> next, tp |-> g, t |-> q.t, s |-> q.s, a |-> q.a]
    OBVIOUS
  <2> HIDE DEF q, next, r
  <2>4. q1 = [ra |-> "call_handler", sp |-> q.sp, tp |-> g, t |-> q.t, s |-> q.s, a |-> q.a]
    <3>1. IsRegisters(q) /\ q.tp = g
      BY <2>1
    <3> QED
      BY ONLY <3>1, SetRegister
  <2>5. Unwound(g) = q2
    BY <2>2
  <2> HIDE DEF q1
  <2>6. q2 = [ra |-> "call_handler", sp |-> next, tp |-> g, t |-> q.t, s |-> q.s, a |-> q.a]
    BY <2>4
  <2> QED
    BY <2>3, <2>5, <2>6
<1>4. reg' = [reg EXCEPT ![g] = r] /\ pc' = [pc EXCEPT ![g] = "call_handler"]
  BY <1>2, <1>3
<1>5. Types' /\ traps' = traps /\ traps \in Nat
  BY <1>2, <1>4, TrapsAssumption DEF IInv, Types, Places
<1>6. Shapes'
  BY <1>2, <1>4 DEF IInv, Shapes
<1>7. \A h \in Harts \ {g} : HartState(h)' = HartState(h)
  BY <1>2, <1>4 DEF HartState, IInv, Types, Shapes
<1>8. HartInv(g)'
  <2>1. /\ pc'[g] = "call_handler" /\ reg'[g] = r /\ Seen(g)' = Seen(g)
    BY <1>2, <1>4 DEF IInv, Types, Shapes, Seen
  <2>2. r.sp = reg[g].sp + 1 /\ r.tp = g /\ r.s = reg[g].s /\ IsRegisters(r)
    BY DEF IsRegisters
  <2> HIDE DEF r
  <2>3. reg[g].sp \in -traps .. 0 /\ reg[g].sp < 0
    BY <1>1, <1>2 DEF HartInv, Control, Flow, Copying
  <2>4. reg[g].sp + 1 \in -traps .. 0
    BY <1>5, <2>3
  <2>5. Control(g)'
    BY <1>1, <1>2, <2>1, <2>2, <2>4 DEF HartInv, Control, IsRegisters, Entered, SIE
  <2>6. Trapped(g)'
    BY <1>1, <1>2, <2>1, <2>2 DEF HartInv, Trapped, IsContext, Context, InHandler,
                                  Saved, SPIE, SPP
  <2>7. Flow(g)' /\ Untrapped(g)' /\ Panicked(g)'
    BY <1>1, <1>2, <2>1, <2>2 DEF HartInv, Flow, Untrapped, Panicked, Entered, Copying, Saved
  <2> QED
    BY <2>5, <2>6, <2>7 DEF HartInv
<1> QED
  BY <1>5, <1>6, <1>7, <1>8, OneHart

LEMMA CallHandlerIInv == ASSUME IInv, NEW g \in Harts, CallHandler(g) PROVE IInv'
<1> DEFINE r == [ra |-> "sret", sp |-> reg[g].sp, tp |-> reg[g].tp, t |-> reg[g].t,
                 s |-> reg[g].s, a |-> reg[g].a]
<1>1. HartInv(g) /\ IsRegisters(reg[g])
  BY DEF IInv, HartInv, Control
<1>2. /\ pc[g] = "call_handler"
      /\ pc' = [pc EXCEPT ![g] = "srv_arch_ExceptionHandler"]
      /\ UNCHANGED <<mode, sepc, scause, sstatus, stvec, stack, cpus, report,
                     interrupted, traps>>
  BY DEF CallHandler, csrs
<1>3. reg' = [reg EXCEPT ![g] = r]
  <2>1. reg' = [reg EXCEPT ![g] = [reg[g] EXCEPT !.ra = "sret"]]
    BY DEF CallHandler, IInv, Shapes
  <2>2. IsRegisters(reg[g])
    BY <1>1
  <2>3. [reg[g] EXCEPT !.ra = "sret"] = r
    BY ONLY <2>2, SetRegister
  <2> QED
    BY <2>1, <2>3
<1>4. Types' /\ traps' = traps /\ traps \in Nat
  BY <1>2, TrapsAssumption DEF IInv, Types, Places
<1>5. Shapes'
  BY <1>2, <1>3 DEF IInv, Shapes
<1>6. \A h \in Harts \ {g} : HartState(h)' = HartState(h)
  BY <1>2, <1>3 DEF HartState, IInv, Types, Shapes
<1>7. HartInv(g)'
  <2>1. /\ pc'[g] = "srv_arch_ExceptionHandler" /\ reg'[g] = r /\ Seen(g)' = Seen(g)
    BY <1>2, <1>3 DEF IInv, Types, Shapes, Seen
  <2>2. /\ r.ra = "sret" /\ r.sp = reg[g].sp /\ r.tp = reg[g].tp /\ r.s = reg[g].s
        /\ IsRegisters(r)
    BY DEF IsRegisters
  <2> HIDE DEF r
  <2>3. Control(g)'
    BY <1>1, <1>2, <2>1, <2>2 DEF HartInv, Control, IsRegisters, Entered, SIE
  <2>4. Trapped(g)'
    BY <1>1, <1>2, <2>1, <2>2 DEF HartInv, Trapped, IsContext, Context, InHandler,
                                  Saved, SPIE, SPP
  <2>5. Flow(g)' /\ Untrapped(g)' /\ Panicked(g)'
    BY <1>1, <1>2, <2>1, <2>2 DEF HartInv, Flow, Untrapped, Panicked, Entered, Copying, Saved
  <2> QED
    BY <2>3, <2>4, <2>5 DEF HartInv
<1> QED
  BY <1>4, <1>5, <1>6, <1>7, OneHart

(* The block that is decoded is the hart's own and of its last trap, so    *)
(* SPP is that trap's: set means a panic, clear that sepc is the program's.*)
LEMMA ExceptionHandlerIInv ==
  ASSUME IInv, NEW g \in Harts, ExceptionHandler(g)
  PROVE  IInv'
<1>1. HartInv(g)
  BY DEF IInv
<1>2. /\ pc[g] = "srv_arch_ExceptionHandler"
      /\ UNCHANGED <<mode, sepc, scause, sstatus, stvec, stack, cpus, interrupted, traps>>
  BY DEF ExceptionHandler, csrs
<1>3. /\ reg[g].ra = "sret" /\ GetExecutingCPU(g) = g /\ cpus[g] = Seen(g)
      /\ interrupted[g].sstatus = sstatus[g] /\ interrupted[g].scause = scause[g]
      /\ IsContext(interrupted[g])
  BY <1>1, <1>2 DEF HartInv, Flow, Control, Trapped, Saved, InHandler, GetExecutingCPU
<1>4. InKernelMode(g) <=> SPP \in sstatus[g]
  BY <1>3 DEF InKernelMode, Seen
<1>5. Seen(g)' = Seen(g)
  BY <1>2 DEF Seen
<1>6. CASE SPP \in sstatus[g]
  <2> DEFINE message == ExceptionString(interrupted[g].scause)
  <2>1. /\ report' = [report EXCEPT ![g] = [message |-> message, context |-> Seen(g)]]
        /\ pc' = [pc EXCEPT ![g] = "panicked"] /\ UNCHANGED reg
    <3>1. cpus[g].scause = interrupted[g].scause
      BY <1>3 DEF Seen
    <3> QED
      BY <1>3, <1>4, <1>6, <3>1 DEF ExceptionHandler, KernelPanic
  <2>0. message' = message
    BY <1>2 DEF ExceptionString
  <2> HIDE DEF message
  <2>2. Types' /\ traps' = traps /\ traps \in Nat
    BY <1>2, <2>1, TrapsAssumption DEF IInv, Types, Places
  <2>3. Shapes'
    BY <1>2, <2>1 DEF IInv, Shapes
  <2>4. \A h \in Harts \ {g} : HartState(h)' = HartState(h)
    BY <1>2, <2>1 DEF HartState, IInv, Types, Shapes
  <2>5. /\ pc'[g] = "panicked"
        /\ report'[g].message = message /\ report'[g].context = Seen(g)
    BY <2>1 DEF IInv, Types, Shapes
  <2>6. Control(g)'
    BY <1>1, <1>2, <2>1, <2>5 DEF HartInv, Control, IsRegisters, Entered, SIE
  <2>7. Trapped(g)' /\ Flow(g)' /\ Untrapped(g)'
    BY <2>5 DEF Trapped, Flow, Untrapped, InHandler, Entered, Copying, Saved
  <2>8. Panicked(g)'
    <3>1. SPP \in interrupted[g].sstatus /\ ~interrupted[g].scause.interrupt
      BY <1>1, <1>2, <1>3, <1>6 DEF HartInv, Trapped, InHandler, Saved
    <3>2. (SPP \in interrupted[g].sstatus)' /\ (~interrupted[g].scause.interrupt)'
          /\ IsContext(interrupted[g])'
      BY <1>2, <1>3, <3>1 DEF IsContext, Context, SPP
    <3>3. (report[g].message = ExceptionString(interrupted[g].scause))'
      BY <2>0, <2>5 DEF message
    <3> QED
      BY <1>5, <2>5, <3>2, <3>3 DEF Panicked
  <2>9. HartInv(g)'
    BY <2>6, <2>7, <2>8 DEF HartInv
  <2> QED
    BY <2>2, <2>3, <2>4, <2>9, OneHart
<1>7. CASE SPP \notin sstatus[g]
  <2> DEFINE r == [ra |-> reg[g].ra, sp |-> reg[g].sp, tp |-> g, t |-> Scratch,
                   s |-> reg[g].s, a |-> Scratch]
  <2>1. CReturn(g) /\ UNCHANGED report
    BY <1>4, <1>7 DEF ExceptionHandler
  <2>2. reg' = [reg EXCEPT ![g] = r] /\ pc' = [pc EXCEPT ![g] = "sret"]
    BY <1>3, <2>1, ClobberedRegisters
  <2>3. r.sp = reg[g].sp /\ r.tp = g /\ r.s = reg[g].s /\ IsRegisters(r)
    BY DEF IsRegisters
  <2> HIDE DEF r
  <2>4. Types' /\ traps' = traps /\ traps \in Nat
    BY <1>2, <2>2, TrapsAssumption DEF IInv, Types, Places
  <2>5. Shapes'
    BY <1>2, <2>1, <2>2 DEF IInv, Shapes
  <2>6. \A h \in Harts \ {g} : HartState(h)' = HartState(h)
    BY <1>2, <2>1, <2>2 DEF HartState, IInv, Types, Shapes
  <2>7. pc'[g] = "sret" /\ reg'[g] = r
    BY <2>2 DEF IInv, Types, Shapes
  <2>8. Control(g)'
    BY <1>1, <1>2, <2>3, <2>7 DEF HartInv, Control, IsRegisters, Entered, SIE
  <2>9. Trapped(g)'
    BY <1>1, <1>2, <2>3, <2>7 DEF HartInv, Trapped, IsContext, Context, InHandler,
                                  Saved, SPIE, SPP
  <2>10. Flow(g)' /\ Untrapped(g)' /\ Panicked(g)'
    BY <1>1, <1>2, <1>5, <1>7, <2>3, <2>7 DEF HartInv, Flow, Untrapped, Panicked, Entered, Copying,
                                         Saved, SPP
  <2>11. HartInv(g)'
    BY <2>8, <2>9, <2>10 DEF HartInv
  <2> QED
    BY <2>4, <2>5, <2>6, <2>11, OneHart
<1> QED
  BY <1>6, <1>7

LEMMA SretIInv == ASSUME IInv, NEW g \in Harts, Sret(g) PROVE IInv'
<1>1. HartInv(g)
  BY DEF IInv
<1>2. pc[g] = "sret"
  BY DEF Sret
<1>3. /\ SPP \notin sstatus[g] /\ SPIE \notin sstatus[g] /\ sepc[g] = "program"
      /\ reg[g].sp = 0
  BY <1>1, <1>2 DEF HartInv, Flow, Trapped, Saved, InHandler
<1> DEFINE status == {SPIE} \cup (sstatus[g] \cap {0})
<1>4. /\ pc' = [pc EXCEPT ![g] = "program"] /\ mode' = [mode EXCEPT ![g] = "U"]
      /\ sstatus' = [sstatus EXCEPT ![g] = status]
      /\ UNCHANGED <<reg, sepc, scause, stvec, stack, cpus, report, interrupted, traps>>
  BY <1>3 DEF Sret
<1>5. status \in SUBSET Bits /\ SIE \notin status
  BY DEF Bits, SIE, SPIE
<1> HIDE DEF status
<1>6. Types' /\ traps' = traps /\ traps \in Nat
  BY <1>4, <1>5, TrapsAssumption DEF IInv, Types, Places
<1>7. Shapes'
  BY <1>4 DEF IInv, Shapes
<1>8. \A h \in Harts \ {g} : HartState(h)' = HartState(h)
  BY <1>4 DEF HartState, IInv, Types, Shapes
<1>9. HartInv(g)'
  <2>1. pc'[g] = "program" /\ sstatus'[g] = status /\ reg'[g] = reg[g]
    BY <1>4 DEF IInv, Types
  <2>2. Control(g)'
    BY <1>1, <1>2, <1>3, <1>4, <1>5, <2>1 DEF HartInv, Control, IsRegisters, Entered, SIE
  <2>3. Trapped(g)' /\ Flow(g)' /\ Panicked(g)'
    BY <2>1 DEF Trapped, Flow, Panicked, InHandler, Entered, Copying, Saved
  <2>4. Untrapped(g)'
    BY <1>4 DEF IInv, Types, Untrapped
  <2> QED
    BY <2>2, <2>3, <2>4 DEF HartInv
<1> QED
  BY <1>6, <1>7, <1>8, <1>9, OneHart

-----------------------------------------------------------------------------

LEMMA NextIInv == IInv /\ [TrapNext]_trapVars => IInv'
<1> SUFFICES ASSUME IInv, [TrapNext]_trapVars PROVE IInv'
  OBVIOUS
<1>1. ASSUME NEW g \in Harts,
             \/ InstallTrapHandler(g) \/ EnterUser(g) \/ EnableInterrupts(g)
             \/ DisableInterrupts(g) \/ OwnPanic(g) \/ Trap(g)
      PROVE  IInv'
  BY <1>1, InstallIInv, EnterUserIInv, MaskIInv, OwnPanicIInv, TrapIInv
<1>2. ASSUME NEW g \in Harts, Handle(g)
      PROVE  IInv'
  BY <1>2, CallSaveIInv, SaveIInv, CopyIInv, RestoreIInv, CallHandlerIInv,
     ExceptionHandlerIInv, SretIInv DEF Handle
<1>3. CASE UNCHANGED trapVars
  <2>1. Types' /\ Shapes' /\ traps' = traps /\ traps \in Nat
    BY <1>3, TrapsAssumption DEF trapVars, csrs, IInv, Types, Shapes
  <2>2. ASSUME NEW h \in Harts PROVE HartInv(h)'
    <3>1. HartInv(h) /\ HartState(h)' = HartState(h)
      BY <1>3 DEF trapVars, csrs, IInv, HartState
    <3> QED
      BY <2>1, <3>1, HartUnchanged
  <2> QED
    BY <2>1, <2>2 DEF IInv
<1> QED
  BY <1>1, <1>2, <1>3 DEF TrapNext

(* Every place, mode and bit is of its type, the stack pointer never goes  *)
(* down more than a context a trap, and is the program's when it runs.     *)
THEOREM TypeCorrect == TrapSpec => []TrapTypeOK
<1>1. IInv => TrapTypeOK
  BY DEF IInv, Types, HartInv, Control, TrapTypeOK
<1> QED
  BY <1>1, InitIInv, NextIInv, PTL DEF TrapSpec

(* Seen is a context that keeps what the trapped one has but ra.           *)
LEMMA SeenKeeps ==
  ASSUME NEW h \in Harts, IsContext(interrupted[h])
  PROVE  Kept(Seen(h)) = Kept(interrupted[h]) /\ Seen(h).ra = "call_handler"
<1> DEFINE c == interrupted[h]
           fields == {"ra", "sp", "tp", "t", "s", "a", "sepc", "scause", "sstatus"}
<1>1. c = [ra |-> c.ra, sp |-> c.sp, tp |-> c.tp, t |-> c.t, s |-> c.s, a |-> c.a,
           sepc |-> c.sepc, scause |-> c.scause, sstatus |-> c.sstatus]
  BY DEF IsContext, Context
<1>2. DOMAIN Seen(h) = fields
  BY DEF Seen
<1> HIDE DEF c
<1>3. DOMAIN c = fields
  BY <1>1
<1>4. \A f \in fields \ {"ra"} : Seen(h)[f] = c[f]
  BY <1>1 DEF Seen, c
<1> QED
  BY <1>2, <1>3, <1>4 DEF Kept, Seen, c

(* However traps of a hart nest and those of other harts interleave, what  *)
(* the handler decodes is the last trap of its own hart.                   *)
THEOREM SavedIsInterrupted == TrapSpec => []SavedContextIsInterrupted
<1>1. ASSUME IInv, NEW h \in Harts,
             pc[h] \in {"restore", "call_handler", "srv_arch_ExceptionHandler"}
      PROVE  /\ Kept(cpus[h]) = Kept(interrupted[h])
             /\ cpus[h].ra = "call_handler"
  <2>1. cpus[h] = Seen(h) /\ IsContext(interrupted[h])
    BY <1>1 DEF IInv, HartInv, Flow, Trapped, Saved, InHandler
  <2> QED
    BY <2>1, SeenKeeps
<1>2. IInv => SavedContextIsInterrupted
  BY <1>1 DEF SavedContextIsInterrupted
<1> QED
  BY <1>2, InitIInv, NextIInv, PTL DEF TrapSpec

(* sret only ever runs for a trap from user mode and resumes that program. *)
THEOREM ReturnsOnlyToUser == TrapSpec => []ReturnsToUserProgram
<1>1. IInv => ReturnsToUserProgram
  BY DEF IInv, HartInv, Flow, Trapped, Saved, InHandler, ReturnsToUserProgram
<1> QED
  BY <1>1, InitIInv, NextIInv, PTL DEF TrapSpec

(* The causes of other callers differ from the names of the exceptions.    *)
LEMMA OwnCauseIsNoException == ASSUME NEW cause PROVE ExceptionString(cause) # OwnCause
BY DEF ExceptionString, OwnCause

(* However traps nest, a panic of a trap dumps the hart's last trap, which *)
(* came from the kernel, and names it if it was an exception; a panic of   *)
(* the kernel by itself dumps an empty block.                              *)
THEOREM PanicReport == TrapSpec => []PanicIsOfTheLastException
<1>1. ASSUME IInv, NEW h \in Harts, pc[h] = "panicked"
      PROVE  IF report[h].message = OwnCause
               THEN report[h].context = NoContext
               ELSE /\ Kept(report[h].context) = Kept(interrupted[h])
                    /\ SPP \in interrupted[h].sstatus
                    /\ ~interrupted[h].scause.interrupt =>
                         report[h].message = ExceptionString(interrupted[h].scause)
  <2>1. Panicked(h)
    BY <1>1 DEF IInv, HartInv
  <2>2. CASE report[h].message = OwnCause
    <3>1. report[h].message # ExceptionString(interrupted[h].scause)
      BY <2>2, OwnCauseIsNoException
    <3> QED
      BY <1>1, <2>1, <2>2, <3>1 DEF Panicked
  <2>3. CASE report[h].message # OwnCause
    BY <1>1, <2>1, <2>3, SeenKeeps DEF Panicked
  <2> QED
    BY <2>2, <2>3
<1>2. IInv => PanicIsOfTheLastException
  BY <1>1 DEF PanicIsOfTheLastException
<1> QED
  BY <1>2, InitIInv, NextIInv, PTL DEF TrapSpec

===============================================================================
