--------------------------- MODULE SpinlockProofs ---------------------------
(***************************************************************************)
(* Proofs about Spinlock for every set of CPUs.                            *)
(***************************************************************************)
EXTENDS Spinlock, TLAPS

\* Init of kern/spinlock.c's kernel_lock establishes the inductive invariant.
LEMMA InitInv == Init => Inv
  BY NullIsNoCpu
     DEF Init, Inv, TypeOK, MutualExclusion, NoFalsePanic, Owning, PcValues

\* Every memory access of spin_lock and spin_unlock preserves the invariant.
LEMMA NextInv == Inv /\ [Next]_vars => Inv'
  <1> SUFFICES ASSUME Inv, [Next]_vars
               PROVE  Inv'
    OBVIOUS
  <1> USE NullIsNoCpu
      DEF Inv, TypeOK, MutualExclusion, NoFalsePanic, PcValues, Locking,
          Owning, Goto
  <1>1. ASSUME NEW c \in CPU, CallLock(c)
        PROVE  Inv'
    BY <1>1 DEF CallLock
  <1>2. ASSUME NEW c \in CPU, LockHoldingLocked(c)
        PROVE  Inv'
    BY <1>2 DEF LockHoldingLocked
  <1>3. ASSUME NEW c \in CPU, LockHoldingCpu(c)
        PROVE  Inv'
    BY <1>3 DEF LockHoldingCpu
  <1>4. ASSUME NEW c \in CPU, XchgAcquire(c)
        PROVE  Inv'
    BY <1>4 DEF XchgAcquire
  <1>5. ASSUME NEW c \in CPU, XchgBusy(c)
        PROVE  Inv'
    BY <1>5 DEF XchgBusy
  <1>6. ASSUME NEW c \in CPU, RecordCpu(c)
        PROVE  Inv'
    BY <1>6 DEF RecordCpu
  <1>7. ASSUME NEW c \in CPU, CallUnlock(c)
        PROVE  Inv'
    BY <1>7 DEF CallUnlock
  <1>8. ASSUME NEW c \in CPU, UnlockHoldingLocked(c)
        PROVE  Inv'
    BY <1>8 DEF UnlockHoldingLocked
  <1>9. ASSUME NEW c \in CPU, UnlockHoldingCpu(c)
        PROVE  Inv'
    BY <1>9 DEF UnlockHoldingCpu
  <1>10. ASSUME NEW c \in CPU, ClearCpu(c)
         PROVE  Inv'
    BY <1>10 DEF ClearCpu
  <1>11. ASSUME NEW c \in CPU, XchgRelease(c)
         PROVE  Inv'
    BY <1>11 DEF XchgRelease
  <1>12. CASE UNCHANGED vars
    BY <1>12 DEF vars
  <1>13. QED
    BY <1>1, <1>2, <1>3, <1>4, <1>5, <1>6, <1>7, <1>8, <1>9, <1>10, <1>11,
       <1>12 DEF Next, LockStep, UnlockStep

\* The lock structure of kern/spinlock.c always satisfies the invariant that
\* ties the lock word, lk->cpu and the owner together.
THEOREM SpinlockInv == Spec => []Inv
  BY InitInv, NextInv, PTL DEF Spec

\* spin_lock/spin_unlock give mutual exclusion on any number of CPUs.
THEOREM SpinlockMutex == Spec => []MutualExclusion
  <1>1. Inv => MutualExclusion
    BY DEF Inv
  <1>2. QED
    BY <1>1, SpinlockInv, PTL

\* The racy holding() checks of DEBUG_SPINLOCK never panic, whatever the
\* number of CPUs and the interleaving of their reads and writes.
THEOREM SpinlockNoPanic == Spec => []NoFalsePanic
  <1>1. Inv => NoFalsePanic
    BY DEF Inv
  <1>2. QED
    BY <1>1, SpinlockInv, PTL

\* Every step of the lock's code is a step of the abstract lock or leaves it
\* unchanged.
LEMMA StepRefines ==
  Inv /\ Inv' /\ [Next]_vars => [Abstract!Next]_(Abstract!lockVars)
  <1> SUFFICES ASSUME Inv, Inv', [Next]_vars
               PROVE  [Abstract!Next]_(Abstract!lockVars)
    OBVIOUS
  <1> DEFINE W == {d \in CPU : pc[d] \in Locking}
             O == {d \in CPU : pc[d] \in Owning}
  <1> USE DEF Inv, TypeOK, MutualExclusion, NoFalsePanic, PcValues, Locking,
          Owning, Goto
  <1>1. ASSUME NEW c \in CPU, CallLock(c)
        PROVE  Abstract!Request(c)
    <2>1. W' = W \cup {c} /\ O' = O /\ c \notin W \cup O
      BY <1>1 DEF CallLock
    <2>2. QED
      BY <2>1 DEF Abstract!Request
  <1>2. ASSUME NEW c \in CPU, XchgAcquire(c)
        PROVE  Abstract!Acquire(c)
    <2>1. W' = W \ {c} /\ c \in W /\ O = {} /\ O' = {c}
      BY <1>2 DEF XchgAcquire
    <2>2. QED
      BY <2>1 DEF Abstract!Acquire
  <1>3. ASSUME NEW c \in CPU, XchgRelease(c)
        PROVE  Abstract!Release(c)
    <2>1. W' = W /\ O = {c} /\ O' = {}
      BY <1>3 DEF XchgRelease
    <2>2. QED
      BY <2>1 DEF Abstract!Release
  <1>4. ASSUME NEW c \in CPU,
               \/ LockHoldingLocked(c) \/ LockHoldingCpu(c)
               \/ XchgBusy(c) \/ RecordCpu(c)
               \/ CallUnlock(c) \/ UnlockHoldingLocked(c)
               \/ UnlockHoldingCpu(c) \/ ClearCpu(c)
        PROVE  UNCHANGED Abstract!lockVars
    <2>1. W' = W /\ O' = O
      BY <1>4 DEF LockHoldingLocked, LockHoldingCpu, XchgBusy, RecordCpu,
                  CallUnlock, UnlockHoldingLocked, UnlockHoldingCpu, ClearCpu
    <2>2. QED
      BY <2>1 DEF Abstract!lockVars
  <1>5. CASE UNCHANGED vars
    BY <1>5 DEF vars, Abstract!lockVars
  <1>6. QED
    BY <1>1, <1>2, <1>3, <1>4, <1>5
       DEF Next, LockStep, UnlockStep, Abstract!Next

\* The exchanges of kern/spinlock.c implement the atomic lock of KernelLock.
THEOREM SpinlockRefinement == Spec => Refinement
  <1>1. Init => Abstract!Init
    BY DEF Init, Abstract!Init, Locking, Owning
  <1>2. QED
    BY <1>1, StepRefines, SpinlockInv, PTL DEF Spec, Refinement, Abstract!Spec
=============================================================================
