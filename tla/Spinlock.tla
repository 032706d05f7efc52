------------------------------ MODULE Spinlock ------------------------------
(***************************************************************************)
(* kernel/lock/spinlock.c: one spinlock_t shared by the CPUs in CPU.       *)
(*                                                                         *)
(* The lock is an atomic flag and a plain int32_t that names its owner.    *)
(* Release checks the owner, clears the flag with release order and then   *)
(* writes -1 to the owner field.  The second store follows a release store *)
(* to another address, which neither C11 nor RVWMO orders: the two become  *)
(* visible in either order, and any time after the call has returned.      *)
(* pending[c] holds those stores of CPU c that the other CPUs cannot see   *)
(* yet.  A CPU sees its own pending store (store forwarding), and its      *)
(* stores to one address keep their program order.                         *)
(*                                                                         *)
(* Delaying the owner store of spinlock_Acquire as well would add nothing: *)
(* the release fence of the next spinlock_Release orders it before the     *)
(* flag is cleared, and until then only its own CPU depends on it.         *)
(***************************************************************************)

CONSTANTS
  CPU,      (* the processors that share the lock *)
  NoCPU,    (* the value -1 of spinlock_t.cpu *)
  Junk      (* any other int32_t a spinlock_t holds before its initialisation *)

ASSUME CPUAssumption == NoCPU \notin CPU /\ Junk \notin CPU /\ NoCPU # Junk

VARIABLES
  lock,     (* spinlock_t.lock *)
  cpu,      (* spinlock_t.cpu as memory has it *)
  pc,       (* where each CPU is in its use of the lock *)
  pending   (* the stores of each CPU's last release not yet visible *)

lockVars == <<lock, cpu, pc, pending>>

(* "boot": the lock does not exist yet.  "owning": the flag is taken, the   *)
(* owner not recorded.  A CPU in srv_KernelPanic is "stuck" when it panicked *)
(* with the lock taken and "panicked" when it did not hold it.               *)
Place == {"boot", "idle", "acquiring", "owning", "critical", "stuck", "panicked"}

Holding == {"owning", "critical", "stuck"}

(* The CPU has taken the flag and its clearing store is not visible yet. *)
Holds(c) == pc[c] \in Holding \/ "clear" \in pending[c]

(* What CPU c reads from spinlock_t.cpu. *)
View(c) == IF "disown" \in pending[c] THEN NoCPU ELSE cpu

LockInit ==
  /\ lock \in BOOLEAN
  /\ cpu \in CPU \cup {NoCPU, Junk}
  /\ pc = [c \in CPU |-> "boot"]
  /\ pending = [c \in CPU |-> {}]

InitAnonymous_KeepsCpu ==
  /\ \A c \in CPU : pc[c] = "boot"
  /\ lock' = FALSE
  /\ pc' = [c \in CPU |-> "idle"]
  /\ UNCHANGED <<cpu, pending>>

(* spinlock_InitAnonymous runs before the lock is shared, so nobody sees   *)
(* its stores one by one.                                                  *)
InitAnonymous ==
  /\ \A c \in CPU : pc[c] = "boot"
  /\ lock' = FALSE
  /\ cpu' = NoCPU
  /\ pc' = [c \in CPU |-> "idle"]
  /\ UNCHANGED pending

CallAcquire(c) ==
  /\ pc[c] = "idle"
  /\ pc' = [pc EXCEPT ![c] = "acquiring"]
  /\ UNCHANGED <<lock, cpu, pending>>

TestAndSet_IgnoresOld(c) ==
  /\ pc[c] = "acquiring"
  /\ "clear" \notin pending[c]
  /\ lock' = TRUE
  /\ pc' = [pc EXCEPT ![c] = "owning"]
  /\ UNCHANGED <<cpu, pending>>

(* One turn of the while loop.  The swap waits for this CPU's own earlier  *)
(* store to the flag.                                                      *)
TestAndSet(c) ==
  /\ pc[c] = "acquiring"
  /\ "clear" \notin pending[c]
  /\ \/ lock /\ UNCHANGED pc
     \/ ~lock /\ pc' = [pc EXCEPT ![c] = "owning"]
  /\ lock' = TRUE
  /\ UNCHANGED <<cpu, pending>>

(* The owner store.  A "disown" of this CPU still pending is older and to  *)
(* the same address, so it is overtaken.                                   *)
StoreOwner(c) ==
  /\ pc[c] = "owning"
  /\ cpu' = c
  /\ pc' = [pc EXCEPT ![c] = "critical"]
  /\ pending' = [pending EXCEPT ![c] = @ \ {"disown"}]
  /\ UNCHANGED lock

ReleaseStores_NoDisown(c) ==
  pending' = [pending EXCEPT ![c] = @ \cup {"clear"}]

ReleaseStores_NoClear(c) ==
  pending' = [pending EXCEPT ![c] = @ \cup {"disown"}]

ReleaseStores(c) ==
  pending' = [pending EXCEPT ![c] = @ \cup {"clear", "disown"}]

OwnerCheck_Dropped(c) == TRUE

(* this_cpu = spinlock->cpu *)
OwnerCheck(c) == View(c) = c

(* spinlock_Release by a CPU that is in its critical section, or by one    *)
(* that calls it without having the lock.  A failed check never returns.   *)
Release(c) ==
  /\ pc[c] \in {"critical", "idle"}
  /\ \/ /\ OwnerCheck(c)
        /\ pc' = [pc EXCEPT ![c] = "idle"]
        /\ ReleaseStores(c)
     \/ /\ ~OwnerCheck(c)
        /\ pc' = [pc EXCEPT ![c] = IF @ = "critical" THEN "stuck" ELSE "panicked"]
        /\ UNCHANGED pending
  /\ UNCHANGED <<lock, cpu>>

(* The release's clearing of the flag becomes visible. *)
ClearVisible(c) ==
  /\ "clear" \in pending[c]
  /\ lock' = FALSE
  /\ pending' = [pending EXCEPT ![c] = @ \ {"clear"}]
  /\ UNCHANGED <<cpu, pc>>

(* The release's -1 in the owner field becomes visible. *)
DisownVisible(c) ==
  /\ "disown" \in pending[c]
  /\ cpu' = NoCPU
  /\ pending' = [pending EXCEPT ![c] = @ \ {"disown"}]
  /\ UNCHANGED <<lock, pc>>

(* for (;;) of srv_KernelPanic. *)
LockHang(c) == pc[c] \in {"stuck", "panicked"} /\ UNCHANGED lockVars

LockNext ==
  \/ InitAnonymous
  \/ \E c \in CPU :
       \/ CallAcquire(c) \/ TestAndSet(c) \/ StoreOwner(c) \/ Release(c)
       \/ ClearVisible(c) \/ DisownVisible(c) \/ LockHang(c)

(* Every CPU keeps executing, critical sections end and stores reach       *)
(* memory.  Nothing makes a CPU ask for the lock, or release one it does   *)
(* not have.                                                               *)
LockFairness ==
  \A c \in CPU :
    /\ WF_lockVars(TestAndSet(c)) /\ WF_lockVars(StoreOwner(c))
    /\ WF_lockVars(pc[c] = "critical" /\ Release(c))
    /\ WF_lockVars(ClearVisible(c)) /\ WF_lockVars(DisownVisible(c))

LockSpec == LockInit /\ [][LockNext]_lockVars

LockFairSpec == LockSpec /\ LockFairness

-----------------------------------------------------------------------------

(* Type invariant: once initialised the owner field names a CPU or nobody. *)
LockTypeOK ==
  /\ lock \in BOOLEAN
  /\ cpu \in CPU \cup {NoCPU, Junk}
  /\ pc \in [CPU -> Place]
  /\ pending \in [CPU -> SUBSET {"clear", "disown"}]
  /\ \A c \in CPU : pc[c] # "boot" => cpu # Junk

(* spinlock_Acquire and spinlock_Release exclude each other's critical     *)
(* sections, a CPU that dies with the lock included, although any CPU may  *)
(* call spinlock_Release without having the lock.                          *)
MutualExclusion ==
  \A c, d \in CPU : Holds(c) /\ Holds(d) => c = d

(* spinlock_t.cpu never keeps naming a CPU that has let the lock go: that  *)
(* CPU is still in its critical section, or its -1 is on its way.  This is *)
(* what makes the owner check of spinlock_Release stop a stray call.       *)
NoStaleOwner ==
  \A c \in CPU : cpu = c /\ pc[c] # "boot" =>
                   pc[c] \in {"critical", "stuck"} \/ "disown" \in pending[c]

(* While a CPU is in its critical section the owner field may have lost    *)
(* its name to a late -1, but it never names another CPU.                  *)
RecordNeverNamesAnother ==
  \A c \in CPU : pc[c] \in {"critical", "stuck"} => cpu \in {c, NoCPU}

(* What the owner field may say, although its store of -1 comes too late.  *)
OwnerRecordSound == NoStaleOwner /\ RecordNeverNamesAnother

(* spinlock.h says that spinlock_Release panics if its caller is not the   *)
(* owner: the owner's own release therefore never panics.                  *)
OwnerNeverPanics == \A c \in CPU : pc[c] # "stuck"

(* As long as some CPU spins in spinlock_Acquire, CPUs keep getting into   *)
(* the critical section, unless one has panicked with the lock.            *)
AcquireProgress ==
  (\E c \in CPU : pc[c] = "acquiring")
    ~> (\E c \in CPU : pc[c] \in {"critical", "stuck"})

-----------------------------------------------------------------------------

holder == IF \E c \in CPU : Holds(c)
            THEN CHOOSE c \in CPU : Holds(c)
            ELSE NoCPU

Abs == INSTANCE AbstractLock

(* The spinlock implements the abstract lock: the holder is the CPU that   *)
(* has taken the flag and whose clearing store is not visible yet.         *)
ImplementsLock == Abs!Spec

=============================================================================
