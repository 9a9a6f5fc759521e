------------------------------ MODULE Spinlock ------------------------------
(***************************************************************************)
(* The big kernel lock, kern/spinlock.c, one step per shared-memory        *)
(* access, built with DEBUG_SPINLOCK as kern/spinlock.h defines it: the    *)
(* checks with holding() are part of the code, and each of them panics the *)
(* machine if it ever fires.                                               *)
(*                                                                         *)
(* The lock word and the debugging field lk->cpu are not changed together: *)
(* a CPU owns the lock before lk->cpu names it, and lk->cpu stops naming   *)
(* it before the lock is free.  holding() reads the two fields in two      *)
(* loads while other CPUs write them.                                      *)
(***************************************************************************)
EXTENDS Naturals

CONSTANTS
    CPU,            \* the processors of the machine
    NULL            \* lk->cpu == 0

ASSUME NullIsNoCpu == NULL \notin CPU

VARIABLES
    locked,         \* lk->locked
    lkcpu,          \* lk->cpu
    pc              \* where each CPU stands in spin_lock/spin_unlock

vars == <<locked, lkcpu, pc>>

\* "out": outside; "crit": between lock_kernel() and unlock_kernel().
Locking   == {"lockHoldingLocked", "lockHoldingCpu", "xchg"}
Owning    == {"record", "crit", "unlockHoldingLocked", "unlockHoldingCpu",
              "clear", "release"}
PcValues  == {"out", "panic"} \cup Locking \cup Owning

Init ==
    /\ locked = 0
    /\ lkcpu = NULL
    /\ pc = [c \in CPU |-> "out"]

Goto(c, from, to) ==
    /\ pc[c] = from
    /\ pc' = [pc EXCEPT ![c] = to]

-----------------------------------------------------------------------------
(* spin_lock *)

CallLock(c) ==
    /\ Goto(c, "out", "lockHoldingLocked")
    /\ UNCHANGED <<locked, lkcpu>>

\* holding(): lock->locked is read first and the && stops at 0.
LockHoldingLocked(c) ==
    /\ Goto(c, "lockHoldingLocked",
            IF locked = 0 THEN "xchg" ELSE "lockHoldingCpu")
    /\ UNCHANGED <<locked, lkcpu>>

\* holding(): lock->cpu == thiscpu, and the panic "already holding".
LockHoldingCpu(c) ==
    /\ Goto(c, "lockHoldingCpu", IF lkcpu = c THEN "panic" ELSE "xchg")
    /\ UNCHANGED <<locked, lkcpu>>

\* Mutant: the old value of the lock word is not looked at.
XchgAcquireBlind(c) ==
    /\ Goto(c, "xchg", "record")
    /\ locked' = 1
    /\ UNCHANGED lkcpu

\* while (xchg(&lk->locked, 1) != 0) pause: the exchange that finds 0 ends the
\* loop; one that finds 1 writes 1 over 1 and tries again.
XchgAcquire(c) ==
    /\ locked = 0
    /\ Goto(c, "xchg", "record")
    /\ locked' = 1
    /\ UNCHANGED lkcpu

XchgBusy(c) ==
    /\ pc[c] = "xchg"
    /\ locked # 0
    /\ locked' = 1
    /\ UNCHANGED <<lkcpu, pc>>

\* Mutant: the owner is not recorded.
RecordCpuNot(c) ==
    /\ Goto(c, "record", "crit")
    /\ UNCHANGED <<locked, lkcpu>>

\* lk->cpu = thiscpu
RecordCpu(c) ==
    /\ Goto(c, "record", "crit")
    /\ lkcpu' = c
    /\ UNCHANGED locked

-----------------------------------------------------------------------------
(* spin_unlock *)

CallUnlock(c) ==
    /\ Goto(c, "crit", "unlockHoldingLocked")
    /\ UNCHANGED <<locked, lkcpu>>

UnlockHoldingLocked(c) ==
    /\ Goto(c, "unlockHoldingLocked",
            IF locked = 0 THEN "panic" ELSE "unlockHoldingCpu")
    /\ UNCHANGED <<locked, lkcpu>>

UnlockHoldingCpu(c) ==
    /\ Goto(c, "unlockHoldingCpu", IF lkcpu = c THEN "clear" ELSE "panic")
    /\ UNCHANGED <<locked, lkcpu>>

\* Mutant: the last owner stays recorded.
ClearCpuNot(c) ==
    /\ Goto(c, "clear", "release")
    /\ UNCHANGED <<locked, lkcpu>>

\* lk->cpu = 0, before the lock word is released
ClearCpu(c) ==
    /\ Goto(c, "clear", "release")
    /\ lkcpu' = NULL
    /\ UNCHANGED locked

\* Mutant: the release is lost.
XchgReleaseLost(c) ==
    /\ Goto(c, "release", "out")
    /\ UNCHANGED <<locked, lkcpu>>

XchgRelease(c) ==
    /\ Goto(c, "release", "out")
    /\ locked' = 0
    /\ UNCHANGED lkcpu

-----------------------------------------------------------------------------
LockStep(c) ==
    \/ LockHoldingLocked(c)
    \/ LockHoldingCpu(c)
    \/ XchgAcquire(c)
    \/ XchgBusy(c)
    \/ RecordCpu(c)

UnlockStep(c) ==
    \/ UnlockHoldingLocked(c)
    \/ UnlockHoldingCpu(c)
    \/ ClearCpu(c)
    \/ XchgRelease(c)

Next == \E c \in CPU :
    CallLock(c) \/ LockStep(c) \/ CallUnlock(c) \/ UnlockStep(c)

Spec == Init /\ [][Next]_vars

(***************************************************************************)
(* A CPU keeps executing instructions inside the two functions, and every  *)
(* kernel path that took the lock gives it back (env_run, sched_halt); it  *)
(* need not call lock_kernel() again.  Nothing makes an individual CPU win *)
(* the exchange: xchg is only weakly fair.                                 *)
(***************************************************************************)
FairSpec ==
    /\ Spec
    /\ \A c \in CPU : /\ WF_vars(LockStep(c))
                      /\ WF_vars(CallUnlock(c))
                      /\ WF_vars(UnlockStep(c))

(***************************************************************************)
(* A fair arbiter: a CPU whose exchange finds the lock free again and      *)
(* again wins it in the end.  The `pause` of unlock_kernel()               *)
(* (kern/spinlock.h) is there to make this true on QEMU.                   *)
(***************************************************************************)
Arbiter == \A c \in CPU : SF_vars(XchgAcquire(c))

-----------------------------------------------------------------------------
(* Properties *)

\* Type correctness of the lock structure and of the program counters.
TypeOK ==
    /\ locked \in {0, 1}
    /\ lkcpu \in CPU \cup {NULL}
    /\ pc \in [CPU -> PcValues]

\* spin_lock/spin_unlock: two CPUs are never both past the exchange that takes
\* the lock and before the one that releases it.
MutualExclusion ==
    \A c, d \in CPU : pc[c] \in Owning /\ pc[d] \in Owning => c = d

\* spin_lock/spin_unlock: the debugging checks with holding(), made of two
\* racy reads, never panic a correct caller.
NoFalsePanic == \A c \in CPU : pc[c] # "panic"

\* The inductive invariant: the lock word is 1 exactly while somebody owns it,
\* and lk->cpu names the owner from "record" to "clear" and nobody otherwise.
Inv ==
    /\ TypeOK
    /\ MutualExclusion
    /\ NoFalsePanic
    /\ locked = 1 <=> \E c \in CPU : pc[c] \in Owning
    /\ \A c \in CPU : lkcpu = c <=> pc[c] \in Owning \ {"record", "release"}

\* spin_lock is free of deadlock: once a CPU waits, the lock is taken by
\* somebody in the end, even with no arbiter (a lost release would stop it).
LockIsUsed ==
    (\E c \in CPU : pc[c] \in Locking) ~> (\E c \in CPU : pc[c] \in Owning)

\* spin_lock: with the arbiter every waiting CPU gets the lock.
EveryWaiterServed ==
    Arbiter => \A c \in CPU : pc[c] \in Locking ~> pc[c] = "crit"

\* spin_lock, spin_unlock: the lock is always used again, and by everybody in
\* turn if the hardware arbitrates fairly.
LockProgress == LockIsUsed /\ EveryWaiterServed

\* The exchanges implement the lock the kernel relies on.
Abstract == INSTANCE KernelLock WITH
    waiting <- {c \in CPU : pc[c] \in Locking},
    owner   <- {c \in CPU : pc[c] \in Owning}

Refinement == Abstract!Spec
=============================================================================
