----------------------------- MODULE InputQueue -----------------------------
(***************************************************************************)
(* What the input buffer of src/kern/console.c promises: a queue of at     *)
(* most SIZE - 1 characters, none of them 0.  A character that arrives     *)
(* when the queue is full empties it.                                      *)
(***************************************************************************)
EXTENDS Naturals, Sequences

CONSTANTS Chars, SIZE

VARIABLE queue

Init == queue = <<>>

Put(c) == queue' = IF Len(queue) = SIZE - 1 THEN <<>> ELSE Append(queue, c)

Get == queue # <<>> /\ queue' = Tail(queue)

Next == Get \/ \E c \in Chars \ {0} : Put(c)

Spec == Init /\ [][Next]_queue
=============================================================================
