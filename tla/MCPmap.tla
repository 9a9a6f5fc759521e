------------------------------- MODULE MCPmap -------------------------------
(* Pmap for TLC: pages are interchangeable. *)
EXTENDS Pmap, TLC

OnePage == {CHOOSE va \in Va : TRUE}

PageSymmetry == Permutations(Page)
=============================================================================
