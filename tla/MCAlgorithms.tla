---------------------------- MODULE MCAlgorithms ----------------------------
(***************************************************************************)
(* Algorithms for TLC: two commands, one of which begins with the other.   *)
(***************************************************************************)
EXTENDS Algorithms

MCCommands == <<<<97>>, <<97, 98>>>>
=============================================================================
