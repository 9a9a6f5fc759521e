----------------------------- MODULE KernelLock -----------------------------
(***************************************************************************)
(* What kern/spinlock.h promises to the rest of the kernel: lock_kernel()  *)
(* returns only while no other CPU owns the big kernel lock, and           *)
(* unlock_kernel() gives it up.  Each of the two is one atomic step here;  *)
(* Spinlock.tla is the code.                                               *)
(***************************************************************************)
CONSTANT CPU        \* the processors of the machine, cpus[0 .. ncpu-1]

VARIABLES
    waiting,        \* CPUs that called lock_kernel() and have not returned
    owner           \* CPUs between lock_kernel() and unlock_kernel()

lockVars == <<waiting, owner>>

Init ==
    /\ waiting = {}
    /\ owner = {}

\* A CPU calls lock_kernel().
Request(c) ==
    /\ c \notin waiting \cup owner
    /\ waiting' = waiting \cup {c}
    /\ UNCHANGED owner

\* lock_kernel() returns: only when nobody owns the lock.
Acquire(c) ==
    /\ c \in waiting
    /\ owner = {}
    /\ owner' = {c}
    /\ waiting' = waiting \ {c}

\* unlock_kernel() by the owner.
Release(c) ==
    /\ owner = {c}
    /\ owner' = {}
    /\ UNCHANGED waiting

Next == \E c \in CPU : Request(c) \/ Acquire(c) \/ Release(c)

Spec == Init /\ [][Next]_lockVars
=============================================================================
