----------------------------- MODULE MCConsole -----------------------------
(***************************************************************************)
(* Console with the keys a, backspace, enter, shift, Alt and, with codes   *)
(* of two bytes, the right control key and Del.                            *)
(***************************************************************************)
EXTENDS Console

MCKeys == {<<30>>, <<14>>, <<28>>, <<42>>, <<56>>, <<224, 29>>, <<224, 83>>}
=============================================================================
