----------------------------- MODULE ForkMemory -----------------------------
(***************************************************************************)
(* What fork() promises to the programs that use it (lib/fork.c, "User-    *)
(* level fork with copy-on-write"): each program has a memory of its own,  *)
(* the child starts with a copy of its parent's at one instant, and only   *)
(* the pages marked PTE_SHARE are seen by all.  There are no pages and no  *)
(* faults here.                                                            *)
(***************************************************************************)
CONSTANTS Env, Va, Shared, Values, ZERO

VARIABLES
    live,   \* the environments that run
    mem     \* per environment and address: the value there

Blank == [va \in Va |-> ZERO]

Init ==
    /\ \E e \in Env : live = {e}
    /\ mem = [e \in Env |-> Blank]

Write(e, va, v) ==
    /\ e \in live
    /\ mem' = [f \in Env |->
            IF f = e \/ (va \in Shared /\ f \in live)
            THEN [mem[f] EXCEPT ![va] = v]
            ELSE mem[f]]
    /\ UNCHANGED live

Fork(e, child) ==
    /\ e \in live /\ child \notin live
    /\ live' = live \cup {child}
    /\ mem' = [mem EXCEPT ![child] = mem[e]]

Exit(e) ==
    /\ e \in live
    /\ live' = live \ {e}
    /\ mem' = [mem EXCEPT ![e] = Blank]

Next ==
    \E e \in Env :
        \/ \E va \in Va, v \in Values : Write(e, va, v)
        \/ \E child \in Env : Fork(e, child)
        \/ Exit(e)

Spec == Init /\ [][Next]_<<live, mem>>
=============================================================================
