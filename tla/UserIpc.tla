------------------------------ MODULE UserIpc ------------------------------
(***************************************************************************)
(* The message library of src/lib/ipc.c over the system calls that         *)
(* Kernel.tla models, and three of the programs that use it:               *)
(* src/user/primes.c (a sieve: a chain of processes), src/user/pingpong.c  *)
(* (two processes) and src/user/fairness.c (two senders, one receiver).    *)
(* A step is one system call or what an environment does between two.      *)
(* fork is one step here; CowFork.tla has its steps.                       *)
(*                                                                         *)
(* Two kernels run them.  The syscall() of this commit answers -E_INVAL to *)
(* the calls of fork and of ipc.c and 0 to sys_getenvid ("linked").        *)
(* "dispatching" calls the functions that kern/syscall.c has for them.     *)
(***************************************************************************)
EXTENDS Integers, FiniteSets, FiniteSetsExt

CONSTANTS
    NENV,   \* size of the environment table
    LIMIT,  \* bound: the last number the sieve is fed
    LAST,   \* the count at which ping-pong ends (10 in the source)
    NONE

ASSUME UserIpcAssumption ==
    /\ NENV \in Nat \ 0..3 /\ LIMIT \in Nat \ 0..1 /\ LAST \in Nat \ {0}
    /\ NONE \notin [to : Nat, value : Nat] \cup [from : Nat, value : Nat]

Env == 0..NENV - 1
Values == 0..LIMIT + LAST

VARIABLES
    program,                       \* which of the programs runs
    kernel,                        \* and on which of the kernels
    env_ipc_recving, env_ipc_from, env_ipc_value,  \* of struct Env
    lib,     \* where in the library an environment is; "user": in none
    at,      \* where in its program it goes on then
    to, val, \* the arguments of ipc_send
    who, i,  \* *from_env_store and the result of ipc_recv; the loop counter
    id, p    \* primes: the right neighbour and the prime

kern == <<env_ipc_recving, env_ipc_from, env_ipc_value>>
locals == <<at, to, val, who, i, id, p>>
vars == <<program, kernel, kern, lib, locals>>

Programs == {"primes", "pingpong", "fairness"}
Kernels == {"linked", "dispatching"}

Dispatched == kernel = "dispatching"
E_INVAL == 3

\* The slot that thisenv points to in e: libmain, and fork in the child, set it
\* from the answer of sys_getenvid.
ThisEnv(e) == IF Dispatched THEN e ELSE 0

Alive(e) == lib[e] # "free"

\* A user panic, in fork or in ipc_send, traps into the kernel monitor, and
\* nothing runs from then on.
Panicked == \E e \in Env : lib[e] \in {"panic", "sendpanic"}

Init ==
    /\ program \in Programs /\ kernel \in Kernels
    /\ env_ipc_recving = [e \in Env |-> FALSE]
    /\ env_ipc_from = [e \in Env |-> 0] /\ env_ipc_value = [e \in Env |-> 0]
    /\ lib = [e \in Env |-> CASE program = "fairness" /\ e \in 1..3 -> "user"
                              [] program # "fairness" /\ e = 0 -> "user"
                              [] OTHER -> "free"]
    /\ at = [e \in Env |-> IF program # "fairness" THEN "umain"
                           ELSE IF ThisEnv(e) = 1 THEN "receiver" ELSE "sender"]
    /\ to = [e \in Env |-> 0] /\ val = [e \in Env |-> 0] /\ who = [e \in Env |-> 0]
    /\ i = [e \in Env |-> 2] /\ id = [e \in Env |-> 0] /\ p = [e \in Env |-> 0]

(***************************************************************************)
(* The library.  In ipc_send: "send" is before sys_ipc_try_send, "yield"   *)
(* before sys_yield.  In ipc_recv: "recv" is before sys_ipc_recv,          *)
(* "blocked" in it, "woken" behind it and "sender" between the two loads   *)
(* from thisenv.                                                           *)
(***************************************************************************)
IpcSend(e, label, t, v) ==
    /\ lib' = [lib EXCEPT ![e] = "send"] /\ at' = [at EXCEPT ![e] = label]
    /\ to' = [to EXCEPT ![e] = t] /\ val' = [val EXCEPT ![e] = v]
    /\ UNCHANGED kern

IpcRecv(e, label) ==
    /\ lib' = [lib EXCEPT ![e] = "recv"] /\ at' = [at EXCEPT ![e] = label]
    /\ UNCHANGED <<to, val, kern>>

At(e, l) == lib[e] = l /\ ~Panicked /\ UNCHANGED <<program, kernel>>

\* Mutant: the receiver still seems to wait.
RecvingForEver(rcv) == UNCHANGED env_ipc_recving

RecvEnds(rcv) == env_ipc_recving' = [env_ipc_recving EXCEPT ![rcv] = FALSE]

Deliver(e, rcv) ==
    /\ RecvEnds(rcv)
    /\ env_ipc_from' = [env_ipc_from EXCEPT ![rcv] = e]
    /\ env_ipc_value' = [env_ipc_value EXCEPT ![rcv] = val[e]]
    /\ lib' = [lib EXCEPT ![rcv] = "woken", ![e] = "user"]

\* Mutant: -E_IPC_NOT_RECV is an error like the others.
NotRecvPanics == "sendpanic"

\* ipc_send's answer to -E_IPC_NOT_RECV.
NotRecv == "yield"

TrySend(e) ==
    /\ At(e, "send")
    /\ \/ Dispatched /\ Alive(to[e]) /\ env_ipc_recving[to[e]] /\ Deliver(e, to[e])
       \/ Dispatched /\ Alive(to[e]) /\ ~env_ipc_recving[to[e]]
            /\ lib' = [lib EXCEPT ![e] = NotRecv] /\ UNCHANGED kern
       \/ ~(Dispatched /\ Alive(to[e]))
            /\ lib' = [lib EXCEPT ![e] = "sendpanic"] /\ UNCHANGED kern
    /\ UNCHANGED locals

Yield(e) ==
    /\ At(e, "yield")
    /\ lib' = [lib EXCEPT ![e] = "send"]
    /\ UNCHANGED <<kern, locals>>

SysIpcRecv(e) ==
    /\ At(e, "recv")
    /\ IF Dispatched
       THEN /\ env_ipc_recving' = [env_ipc_recving EXCEPT ![e] = TRUE]
            /\ lib' = [lib EXCEPT ![e] = "blocked"]
            /\ UNCHANGED <<who, i>>
       ELSE /\ lib' = [lib EXCEPT ![e] = "user"]
            /\ who' = [who EXCEPT ![e] = 0] /\ i' = [i EXCEPT ![e] = -E_INVAL]
            /\ UNCHANGED env_ipc_recving
    /\ UNCHANGED <<env_ipc_from, env_ipc_value, at, to, val, id, p>>

LoadFrom(e) ==
    /\ At(e, "woken")
    /\ who' = [who EXCEPT ![e] = env_ipc_from[ThisEnv(e)]]
    /\ lib' = [lib EXCEPT ![e] = "sender"]
    /\ UNCHANGED <<kern, at, to, val, i, id, p>>

LoadValue(e) ==
    /\ At(e, "sender")
    /\ i' = [i EXCEPT ![e] = env_ipc_value[ThisEnv(e)]]
    /\ lib' = [lib EXCEPT ![e] = "user"]
    /\ UNCHANGED <<kern, at, to, val, who, id, p>>

Library(e) == TrySend(e) \/ Yield(e) \/ SysIpcRecv(e) \/ LoadFrom(e) \/ LoadValue(e)

(***************************************************************************)
(* fork: the child is a copy of its parent that goes on at childAt.  It    *)
(* panics if there is no free environment, or no call to make one.         *)
(***************************************************************************)
FreeEnvs == {e \in Env : ~Alive(e)}

Copied(f, e, child) == [f EXCEPT ![child] = f[e]]

ForkTo(e, child, childAt, label) ==
    /\ lib' = [lib EXCEPT ![child] = "user"]
    /\ at' = [at EXCEPT ![child] = childAt, ![e] = label]
    /\ to' = Copied(to, e, child) /\ val' = Copied(val, e, child)
    /\ who' = Copied(who, e, child) /\ i' = Copied(i, e, child)
    /\ p' = Copied(p, e, child)
    /\ id' = [id EXCEPT ![e] = child, ![child] = 0]
    /\ env_ipc_recving' = [env_ipc_recving EXCEPT ![child] = FALSE]
    /\ UNCHANGED <<env_ipc_from, env_ipc_value>>

Fork(e, childAt, label) ==
    IF Dispatched /\ FreeEnvs # {} THEN ForkTo(e, Min(FreeEnvs), childAt, label)
    ELSE lib' = [lib EXCEPT ![e] = "panic"] /\ UNCHANGED <<kern, locals>>

\* libmain's exit.
Exit(e) ==
    /\ lib' = [lib EXCEPT ![e] = "free"]
    /\ UNCHANGED <<kern, locals>>

In(e, prog, label) == program = prog /\ at[e] = label /\ At(e, "user")

(***************************************************************************)
(* primes.c.  umain forks the first process and feeds it; a process takes  *)
(* its prime, forks its right neighbour, and filters.                      *)
(***************************************************************************)
PrimesUmain(e) == In(e, "primes", "umain") /\ Fork(e, "top", "feed")

Feed(e) ==
    /\ In(e, "primes", "feed") /\ i[e] <= LIMIT
    /\ IpcSend(e, "feed", id[e], i[e])
    /\ i' = [i EXCEPT ![e] = @ + 1]
    /\ UNCHANGED <<who, id, p>>

Top(e) == In(e, "primes", "top") /\ IpcRecv(e, "prime") /\ UNCHANGED <<who, i, id, p>>

Prime(e) ==
    /\ In(e, "primes", "prime")
    /\ p' = [p EXCEPT ![e] = i[e]] /\ at' = [at EXCEPT ![e] = "fork"]
    /\ UNCHANGED <<kern, lib, to, val, who, i, id>>

ForkRight(e) == In(e, "primes", "fork") /\ Fork(e, "top", "next")

NextNumber(e) ==
    In(e, "primes", "next") /\ IpcRecv(e, "filter") /\ UNCHANGED <<who, i, id, p>>

\* Mutant: the test is the wrong way round.
PassesMultiples(e) == i[e] % p[e] = 0

Passes(e) == i[e] % p[e] # 0

Filter(e) ==
    /\ In(e, "primes", "filter")
    /\ IF Passes(e) THEN IpcSend(e, "next", id[e], i[e])
       ELSE at' = [at EXCEPT ![e] = "next"] /\ UNCHANGED <<lib, to, val, kern>>
    /\ UNCHANGED <<who, i, id, p>>

Primes(e) ==
    \/ PrimesUmain(e) \/ Feed(e) \/ Top(e) \/ Prime(e) \/ ForkRight(e)
    \/ NextNumber(e) \/ Filter(e)

(***************************************************************************)
(* pingpong.c.                                                             *)
(***************************************************************************)
PongUmain(e) == In(e, "pingpong", "umain") /\ Fork(e, "loop", "roll")

Roll(e) ==
    In(e, "pingpong", "roll") /\ IpcSend(e, "loop", id[e], 0) /\ UNCHANGED <<who, i, id, p>>

Loop(e) == In(e, "pingpong", "loop") /\ IpcRecv(e, "got") /\ UNCHANGED <<who, i, id, p>>

\* Mutant: the count has no end.
LastNever(e) == FALSE

IsLast(e) == i[e] = LAST

Got(e) ==
    /\ In(e, "pingpong", "got")
    /\ IF IsLast(e) THEN Exit(e)
       ELSE /\ IpcSend(e, "sent", who[e], i[e] + 1)
            /\ i' = [i EXCEPT ![e] = @ + 1]
            /\ UNCHANGED <<who, id, p>>

Sent(e) ==
    /\ In(e, "pingpong", "sent")
    /\ IF IsLast(e) THEN Exit(e)
       ELSE IpcRecv(e, "got") /\ UNCHANGED <<who, i, id, p>>

PingPong(e) == PongUmain(e) \/ Roll(e) \/ Loop(e) \/ Got(e) \/ Sent(e)

(***************************************************************************)
(* fairness.c.                                                             *)
(***************************************************************************)
Receiver(e) ==
    In(e, "fairness", "receiver") /\ IpcRecv(e, "receiver") /\ UNCHANGED <<who, i, id, p>>

Sender(e) ==
    In(e, "fairness", "sender") /\ IpcSend(e, "sender", 1, 0) /\ UNCHANGED <<who, i, id, p>>

Fairness(e) == Receiver(e) \/ Sender(e)

\* The sieve has been fed, ping-pong is over, or the monitor has taken over.
Over ==
    /\ \/ Panicked \/ \A e \in Env : ~Alive(e)
       \/ program = "primes" /\ i[0] > LIMIT
    /\ UNCHANGED vars

Step(e) == Library(e) \/ Primes(e) \/ PingPong(e) \/ Fairness(e)

Next == (\E e \in Env : Step(e)) \/ Over

\* The scheduler runs every runnable environment again and again.
Spec == Init /\ [][Next]_vars /\ \A e \in Env : WF_vars(Step(e))

-----------------------------------------------------------------------------
\* Types; the value that ping-pong passes never gets beyond the last one.
TypeOK ==
    /\ program \in Programs /\ kernel \in Kernels
    /\ env_ipc_recving \in [Env -> BOOLEAN]
    /\ env_ipc_from \in [Env -> Env] /\ env_ipc_value \in [Env -> Values]
    /\ lib \in [Env -> {"free", "user", "send", "yield", "recv", "blocked", "woken",
                        "sender", "panic", "sendpanic"}]
    /\ to \in [Env -> Env] /\ val \in [Env -> Values] /\ who \in [Env -> Env]
    /\ i \in [Env -> Values] /\ id \in [Env -> Env] /\ p \in [Env -> Values]

MessageIn(e) ==
    CASE lib[e] = "woken"  -> [from |-> env_ipc_from[e], value |-> env_ipc_value[e]]
      [] lib[e] = "sender" -> [from |-> who[e], value |-> env_ipc_value[e]]
      [] OTHER             -> NONE

Promise == INSTANCE Rendezvous WITH
    offer   <- [e \in Env |-> IF lib[e] \in {"send", "yield", "sendpanic"}
                              THEN [to |-> to[e], value |-> val[e]] ELSE NONE],
    waiting <- {e \in Env : lib[e] = "blocked"},
    mailbox <- [e \in Env |-> MessageIn(e)]

(***************************************************************************)
(* The library keeps its promise: the retry loop of ipc_send never sends   *)
(* twice nor gives up, and no second message overwrites one whose sender   *)
(* or value the receiver has not loaded yet.                               *)
(***************************************************************************)
IpcIsRendezvous == Promise!Spec

IsPrime(n) == n > 1 /\ \A d \in 2..n - 1 : n % d # 0
PrimesTo(n) == {q \in 2..n : IsPrime(q)}

(***************************************************************************)
(* Along the chain of the sieve every process holds the next prime: the    *)
(* numbers arrive in order, none lost and none twice.                      *)
(***************************************************************************)
SieveIsRight ==
    program = "primes" =>
       \A e \in Env : p[e] # 0 /\ at[e] # "top" /\ at[e] # "prime" =>
          IsPrime(p[e]) /\ Cardinality(PrimesTo(p[e])) = e

(***************************************************************************)
(* The sieve finds every prime that it has an environment for.             *)
(***************************************************************************)
SieveFinds ==
    program = "primes" =>
       \A q \in PrimesTo(LIMIT) :
          Cardinality(PrimesTo(q)) < NENV => <>(\E e \in Env : p[e] = q)

\* Ping-pong ends, with nobody left sending to a process that is gone.
PingPongEnds == program = "pingpong" => <>(\A e \in Env : ~Alive(e))

(***************************************************************************)
(* With several senders one of them gets through, again and again: the     *)
(* receiver is never left waiting for ever.  (Which one is not promised.)  *)
(***************************************************************************)
ReceiverServed == program = "fairness" => []<>(lib[1] = "woken")

\* What the programs compute over ipc_send and ipc_recv: the sieve's chain
\* holds the primes in order, ping-pong's number stays within its bound.
ProgramsRight == TypeOK /\ SieveIsRight

\* What grade-lab4 expects of the programs happens, however often ipc_send has
\* to retry.
ProgramsSucceed == SieveFinds /\ PingPongEnds /\ ReceiverServed

\* What comes of the programs: where syscall() dispatches the calls they make,
\* the sieve finds its primes, ping-pong ends and the receiver is served; on the
\* kernel as it is linked (syscall.c:386-407) each of them ends in a panic of
\* the library, against grade-lab4.
Outcome == IF Dispatched THEN ProgramsSucceed ELSE <>Panicked
=============================================================================
