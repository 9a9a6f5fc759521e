----------------------------- MODULE MCCowFork ------------------------------
(* CowFork on a small instance. *)
EXTENDS CowFork

\* A read-only page, a shared one and the stack.
ThreeKinds == <<"r", "share", "w">>
=============================================================================
