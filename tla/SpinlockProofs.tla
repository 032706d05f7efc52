--------------------------- MODULE SpinlockProofs ---------------------------
(***************************************************************************)
(* Proofs about Spinlock for any set of CPUs: type correctness, mutual     *)
(* exclusion, the owner record, the refinement of AbstractLock, and the    *)
(* absence of the owner panic on a machine with one CPU.                   *)
(***************************************************************************)
EXTENDS Spinlock, TLAPS

(* Before the initialisation nobody has touched the lock. *)
BootUntouched ==
  \A c \in CPU : pc[c] = "boot" =>
    \A d \in CPU : pc[d] = "boot" /\ pending[d] = {}

(* A taken flag is set in memory until its clearing store is visible. *)
HolderSetsFlag == \A c \in CPU : Holds(c) => lock

(* A CPU that has taken the flag again has no older clearing store left,   *)
(* and one that has recorded itself has no older -1 left.                  *)
NoOldStores ==
  \A c \in CPU :
    /\ pc[c] \in Holding => "clear" \notin pending[c]
    /\ pc[c] \in {"critical", "stuck"} => "disown" \notin pending[c]

IInv ==
  /\ LockTypeOK
  /\ BootUntouched
  /\ HolderSetsFlag
  /\ NoOldStores
  /\ MutualExclusion
  /\ NoStaleOwner
  /\ RecordNeverNamesAnother

(* spinlock_InitAnonymous, or the arbitrary memory before it, gives the    *)
(* invariant a start.                                                      *)
LEMMA InitIInv == LockInit => IInv
  BY CPUAssumption DEF LockInit, IInv, LockTypeOK, Place, BootUntouched,
     HolderSetsFlag, NoOldStores, MutualExclusion, NoStaleOwner,
     RecordNeverNamesAnother, Holds, Holding

(* Every step of the code in spinlock.c keeps the types. *)
LEMMA TypeStep == IInv /\ [LockNext]_lockVars => LockTypeOK'
<1> SUFFICES ASSUME IInv, [LockNext]_lockVars PROVE LockTypeOK'
  OBVIOUS
<1> USE CPUAssumption DEF IInv, LockTypeOK, Place
<1>1. CASE InitAnonymous
  BY <1>1 DEF InitAnonymous
<1>2. ASSUME NEW c \in CPU, CallAcquire(c) PROVE LockTypeOK'
  BY <1>2 DEF CallAcquire
<1>3. ASSUME NEW c \in CPU, TestAndSet(c) PROVE LockTypeOK'
  BY <1>3 DEF TestAndSet
<1>4. ASSUME NEW c \in CPU, StoreOwner(c) PROVE LockTypeOK'
  BY <1>4 DEF StoreOwner
<1>5. ASSUME NEW c \in CPU, Release(c) PROVE LockTypeOK'
  BY <1>5 DEF Release, ReleaseStores
<1>6. ASSUME NEW c \in CPU, ClearVisible(c) PROVE LockTypeOK'
  BY <1>6 DEF ClearVisible
<1>7. ASSUME NEW c \in CPU, DisownVisible(c) PROVE LockTypeOK'
  BY <1>7 DEF DisownVisible
<1>8. CASE UNCHANGED lockVars
  BY <1>8 DEF lockVars
<1>9. QED
  BY <1>1, <1>2, <1>3, <1>4, <1>5, <1>6, <1>7, <1>8 DEF LockNext, LockHang

(* Every step of the code keeps the rest of the invariant. *)
LEMMA StepIInv == IInv /\ [LockNext]_lockVars => IInv'
<1> SUFFICES ASSUME IInv, [LockNext]_lockVars PROVE IInv'
  OBVIOUS
<1>0. LockTypeOK'
  BY TypeStep
<1> DEFINE Rest == /\ BootUntouched /\ HolderSetsFlag /\ NoOldStores
                   /\ MutualExclusion /\ NoStaleOwner
                   /\ RecordNeverNamesAnother
<1> USE CPUAssumption DEF IInv, LockTypeOK, Place, BootUntouched, HolderSetsFlag,
        NoOldStores, MutualExclusion, NoStaleOwner,
        RecordNeverNamesAnother, Holds, Holding
<1>1. CASE InitAnonymous
  BY <1>1 DEF InitAnonymous
<1>2. ASSUME NEW c \in CPU, CallAcquire(c) PROVE Rest'
  BY <1>2 DEF CallAcquire
<1>3. ASSUME NEW c \in CPU, TestAndSet(c) PROVE Rest'
  BY <1>3 DEF TestAndSet
<1>4. ASSUME NEW c \in CPU, StoreOwner(c) PROVE Rest'
  BY <1>4 DEF StoreOwner
<1>5. ASSUME NEW c \in CPU, Release(c) PROVE Rest'
  <2>1. CASE OwnerCheck(c)
    (* Only the CPU in its critical section can read its own name. *)
    <3>1. pc[c] = "critical"
      BY <1>5, <2>1 DEF Release, OwnerCheck, View
    <3>2. QED
      BY <1>5, <2>1, <3>1 DEF Release, ReleaseStores
  <2>2. CASE ~OwnerCheck(c)
    BY <1>5, <2>2 DEF Release
  <2>3. QED
    BY <2>1, <2>2
<1>6. ASSUME NEW c \in CPU, ClearVisible(c) PROVE Rest'
  BY <1>6 DEF ClearVisible
<1>7. ASSUME NEW c \in CPU, DisownVisible(c) PROVE Rest'
  BY <1>7 DEF DisownVisible
<1>8. CASE UNCHANGED lockVars
  BY <1>8 DEF lockVars
<1>9. QED
  BY <1>0, <1>1, <1>2, <1>3, <1>4, <1>5, <1>6, <1>7, <1>8 DEF LockNext, LockHang

(* The inductive invariant holds in every behaviour of spinlock.c. *)
LEMMA Invariance == LockSpec => []IInv
  BY InitIInv, StepIInv, PTL DEF LockSpec

(* Type correctness. *)
THEOREM TypeCorrect == LockSpec => []LockTypeOK
<1>1. IInv => LockTypeOK
  BY DEF IInv
<1>2. QED
  BY Invariance, <1>1, PTL

(* spinlock_Acquire and spinlock_Release exclude each other for any number *)
(* of CPUs, whatever order a release's two stores become visible in, and   *)
(* whoever calls spinlock_Release out of turn.                             *)
THEOREM Exclusion == LockSpec => []MutualExclusion
<1>1. IInv => MutualExclusion
  BY DEF IInv
<1>2. QED
  BY Invariance, <1>1, PTL

(* The owner field is never left naming a CPU that let go, and never names *)
(* another CPU than the one in its critical section.                       *)
THEOREM OwnerRecord == LockSpec => []OwnerRecordSound
<1>1. IInv => OwnerRecordSound
  BY DEF IInv, OwnerRecordSound
<1>2. QED
  BY Invariance, <1>1, PTL

-----------------------------------------------------------------------------

(* The refinement mapping of Spinlock is well defined: holder is the one   *)
(* CPU that holds the flag.                                                *)
LEMMA HolderUnique ==
  ASSUME MutualExclusion, NEW c \in CPU, Holds(c)
  PROVE  holder = c
  BY DEF holder, MutualExclusion

(* Without a holding CPU the abstract lock is free. *)
LEMMA HolderNone == (\A c \in CPU : ~Holds(c)) => holder = NoCPU
  BY DEF holder

(* Every step of spinlock.c is a step of the abstract lock or changes      *)
(* nothing there: taking the flag acquires, the visible clear releases.    *)
LEMMA StepRefines ==
  IInv /\ IInv' /\ [LockNext]_lockVars => [Abs!Next]_holder
<1> SUFFICES ASSUME IInv, IInv', [LockNext]_lockVars PROVE [Abs!Next]_holder
  OBVIOUS
<1> DEFINE SameHolds == \A d \in CPU : Holds(d)' <=> Holds(d)
<1>0. MutualExclusion /\ MutualExclusion'
  BY DEF IInv
<1>1. SameHolds => UNCHANGED holder
  <2> SUFFICES ASSUME SameHolds PROVE holder' = holder
    OBVIOUS
  <2>1. CASE \A d \in CPU : ~Holds(d)
    BY <2>1 DEF holder
  <2>2. ASSUME NEW d \in CPU, Holds(d) PROVE holder' = holder
    <3>1. holder = d
      BY <1>0, <2>2, HolderUnique
    <3>2. holder' = d
      BY <1>0, <2>2 DEF holder, MutualExclusion
    <3>3. QED
      BY <3>1, <3>2
  <2>3. QED
    BY <2>1, <2>2
<1>2. CASE InitAnonymous
  <2>1. SameHolds
    BY <1>2 DEF InitAnonymous, Holds, Holding, IInv, BootUntouched, LockTypeOK
  <2>2. QED
    BY <1>1, <2>1
<1>3. ASSUME NEW c \in CPU, CallAcquire(c) PROVE [Abs!Next]_holder
  <2>1. SameHolds
    BY <1>3 DEF CallAcquire, Holds, Holding, IInv, LockTypeOK
  <2>2. QED
    BY <1>1, <2>1
<1>4. ASSUME NEW c \in CPU, TestAndSet(c) PROVE [Abs!Next]_holder
  <2>1. CASE lock
    <3>1. SameHolds
      BY <1>4, <2>1 DEF TestAndSet, Holds, Holding
    <3>2. QED
      BY <1>1, <3>1
  <2>2. CASE ~lock
    <3>1. holder = NoCPU
      BY <2>2, HolderNone DEF IInv, HolderSetsFlag
    <3>2. Holds(c)'
      BY <1>4, <2>2 DEF TestAndSet, Holds, Holding, IInv, LockTypeOK
    <3>3. holder' = c
      BY <1>0, <3>2 DEF holder, MutualExclusion
    <3>4. QED
      BY <3>1, <3>3 DEF Abs!Next, Abs!Acquire
  <2>3. QED
    BY <2>1, <2>2
<1>5. ASSUME NEW c \in CPU, StoreOwner(c) PROVE [Abs!Next]_holder
  <2>1. SameHolds
    BY <1>5 DEF StoreOwner, Holds, Holding, IInv, LockTypeOK
  <2>2. QED
    BY <1>1, <2>1
<1>6. ASSUME NEW c \in CPU, Release(c) PROVE [Abs!Next]_holder
  <2>1. SameHolds
    <3>1. CASE OwnerCheck(c)
      <4>1. pc[c] = "critical"
        BY <1>6, <3>1, CPUAssumption
           DEF Release, OwnerCheck, View, IInv, NoStaleOwner, LockTypeOK
      <4>2. QED
        BY <1>6, <3>1, <4>1
           DEF Release, ReleaseStores, Holds, Holding, IInv, LockTypeOK
    <3>2. CASE ~OwnerCheck(c)
      BY <1>6, <3>2 DEF Release, Holds, Holding, IInv, LockTypeOK
    <3>3. QED
      BY <3>1, <3>2
  <2>2. QED
    BY <1>1, <2>1
<1>7. ASSUME NEW c \in CPU, ClearVisible(c) PROVE [Abs!Next]_holder
  <2>1. Holds(c)
    BY <1>7 DEF ClearVisible, Holds
  <2>2. holder = c
    BY <1>0, <2>1, HolderUnique
  <2>3. \A d \in CPU : ~Holds(d)'
    BY <1>7, <1>0, <2>1
       DEF ClearVisible, Holds, Holding, IInv, LockTypeOK, NoOldStores, MutualExclusion
  <2>4. holder' = NoCPU
    BY <2>3 DEF holder
  <2>5. QED
    BY <2>2, <2>4 DEF Abs!Next, Abs!Release
<1>8. ASSUME NEW c \in CPU, DisownVisible(c) PROVE [Abs!Next]_holder
  <2>1. SameHolds
    BY <1>8 DEF DisownVisible, Holds, Holding, IInv, LockTypeOK
  <2>2. QED
    BY <1>1, <2>1
<1>9. CASE UNCHANGED lockVars
  <2>1. SameHolds
    BY <1>9 DEF lockVars, Holds, Holding
  <2>2. QED
    BY <1>1, <2>1
<1>10. QED
  BY <1>2, <1>3, <1>4, <1>5, <1>6, <1>7, <1>8, <1>9 DEF LockNext, LockHang

(* The spinlock of spinlock.c implements the abstract lock. *)
THEOREM Refinement == LockSpec => ImplementsLock
<1>1. LockInit => Abs!Init
  <2> SUFFICES ASSUME LockInit PROVE holder = NoCPU
    BY DEF Abs!Init
  <2>1. \A c \in CPU : ~Holds(c)
    BY DEF LockInit, Holds, Holding
  <2>2. QED
    BY <2>1, HolderNone
<1>2. QED
  BY <1>1, Invariance, StepRefines, PTL DEF LockSpec, ImplementsLock, Abs!Spec

-----------------------------------------------------------------------------

(* On one CPU nobody else's -1 can arrive late. *)
OneCpuInv ==
  /\ OwnerNeverPanics
  /\ \A c \in CPU : pc[c] = "critical" => cpu = c

(* start.s parks every hart but the first: on that machine the owner's     *)
(* spinlock_Release never panics, as spinlock.h says.                      *)
THEOREM OneHart ==
  ASSUME \A c, d \in CPU : c = d
  PROVE  LockSpec => []OwnerNeverPanics
<1>1. LockInit => OneCpuInv
  BY DEF LockInit, OneCpuInv, OwnerNeverPanics
<1>2. IInv /\ OneCpuInv /\ [LockNext]_lockVars => OneCpuInv'
  <2> SUFFICES ASSUME IInv, OneCpuInv, [LockNext]_lockVars PROVE OneCpuInv'
    OBVIOUS
  <2> USE DEF OneCpuInv, OwnerNeverPanics, IInv, LockTypeOK, Place
  <2>1. CASE InitAnonymous
    BY <2>1 DEF InitAnonymous
  <2>2. ASSUME NEW c \in CPU, CallAcquire(c) PROVE OneCpuInv'
    BY <2>2 DEF CallAcquire
  <2>3. ASSUME NEW c \in CPU, TestAndSet(c) PROVE OneCpuInv'
    BY <2>3 DEF TestAndSet
  <2>4. ASSUME NEW c \in CPU, StoreOwner(c) PROVE OneCpuInv'
    BY <2>4 DEF StoreOwner
  <2>5. ASSUME NEW c \in CPU, Release(c) PROVE OneCpuInv'
    BY <2>5 DEF Release, OwnerCheck, View, NoOldStores
  <2>6. ASSUME NEW c \in CPU, ClearVisible(c) PROVE OneCpuInv'
    BY <2>6 DEF ClearVisible
  <2>7. ASSUME NEW c \in CPU, DisownVisible(c) PROVE OneCpuInv'
    BY <2>7 DEF DisownVisible, NoOldStores
  <2>8. CASE UNCHANGED lockVars
    BY <2>8 DEF lockVars
  <2>9. QED
    BY <2>1, <2>2, <2>3, <2>4, <2>5, <2>6, <2>7, <2>8 DEF LockNext, LockHang
<1>3. OneCpuInv => OwnerNeverPanics
  BY DEF OneCpuInv
<1>4. QED
  BY Invariance, <1>1, <1>2, <1>3, PTL DEF LockSpec

=============================================================================
