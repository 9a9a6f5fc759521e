----------------------------- MODULE Rendezvous -----------------------------
(***************************************************************************)
(* What src/lib/ipc.c promises its callers: an offer to send stays until   *)
(* it moves, once and whole, into the empty mailbox of the receiver that   *)
(* waits; the receiver takes it from there.                                *)
(***************************************************************************)
CONSTANTS Env, Values, NONE

VARIABLES
    offer,    \* [to, value] of the environment in ipc_send, or NONE
    waiting,  \* the environments that wait in ipc_recv
    mailbox   \* [from, value] delivered and not yet taken, or NONE

vars == <<offer, waiting, mailbox>>

Init == offer = [e \in Env |-> NONE] /\ waiting = {} /\ mailbox = [e \in Env |-> NONE]

Offer(e, r, v) ==
    /\ offer[e] = NONE
    /\ offer' = [offer EXCEPT ![e] = [to |-> r, value |-> v]]
    /\ UNCHANGED <<waiting, mailbox>>

Wait(e) ==
    /\ offer[e] = NONE /\ mailbox[e] = NONE /\ e \notin waiting
    /\ waiting' = waiting \cup {e}
    /\ UNCHANGED <<offer, mailbox>>

Transfer(e, r) ==
    /\ offer[e] # NONE /\ offer[e].to = r /\ r \in waiting
    /\ offer' = [offer EXCEPT ![e] = NONE]
    /\ waiting' = waiting \ {r}
    /\ mailbox' = [mailbox EXCEPT ![r] = [from |-> e, value |-> offer[e].value]]

Take(e) ==
    /\ mailbox[e] # NONE
    /\ mailbox' = [mailbox EXCEPT ![e] = NONE]
    /\ UNCHANGED <<offer, waiting>>

Next ==
    \E e, r \in Env :
       \/ Transfer(e, r) \/ Wait(e) \/ Take(e)
       \/ \E v \in Values : Offer(e, r, v)

Spec == Init /\ [][Next]_vars
=============================================================================
