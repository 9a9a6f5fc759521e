---------------------------- MODULE UserIpcProofs ----------------------------
(***************************************************************************)
(* The message library and its programs, for a table of any size, a sieve  *)
(* of any length and any number of exchanges: ipc_send and ipc_recv are a  *)
(* rendezvous, no program sends to a process that is gone, and the sieve   *)
(* finds the primes: all of them, in order, and nothing else.              *)
(***************************************************************************)
EXTENDS UserIpc, FiniteSetTheorems, TLAPS

Lib == {"free", "user", "send", "yield", "recv", "blocked", "woken", "sender", "panic",
        "sendpanic"}
Label == {"umain", "receiver", "sender", "feed", "top", "prime", "fork", "next",
          "filter", "roll", "loop", "got", "sent"}

\* On a kernel that dispatches the calls.
StateOK == TypeOK /\ at \in [Env -> Label] /\ Dispatched

\* The kernel's flag says where in the library the environment is.
RecvInv == \A e \in Env : env_ipc_recving[e] <=> lib[e] = "blocked"

Sends(e) == lib[e] \in {"send", "yield"}

(***************************************************************************)
(* The sieve: the processes are the first of the table, none of them ends, *)
(* and each sends to the neighbour that it has forked.                     *)
(***************************************************************************)
Prefix(n) == \A e \in Env : Alive(e) <=> e < n

PrimesInv ==
    program = "primes" =>
       /\ \E n \in 1 .. NENV : Prefix(n)
       /\ \A e \in Env : at[e] \in {"feed", "next", "filter"} /\ Alive(e) => Alive(id[e])
       /\ \A e \in Env : Sends(e) => Alive(to[e])

FairInv ==
    program = "fairness" => Alive(1) /\ \A e \in Env : Sends(e) => to[e] = 1

(***************************************************************************)
(* Ping-pong: one of the two has the number, in a message or received, and *)
(* the other is on its way to receive it; after the last one both end.     *)
(***************************************************************************)
Heading(e) ==
    \/ at[e] = "loop" /\ lib[e] = "user"
    \/ at[e] = "got" /\ lib[e] \in {"recv", "blocked"}
    \/ at[e] = "sent" /\ lib[e] = "user" /\ i[e] # LAST

Ended(e) == lib[e] = "free" \/ (at[e] = "sent" /\ lib[e] = "user" /\ i[e] = LAST)

Sending(x, y) ==
    /\ Sends(x) /\ to[x] = y /\ Heading(y) /\ val[x] \in 0 .. LAST
    /\ \/ at[x] = "loop" /\ val[x] = 0
       \/ at[x] = "sent" /\ val[x] = i[x]

Held(e) == IF lib[e] = "user" THEN i[e] ELSE env_ipc_value[e]
From(e) == IF lib[e] = "woken" THEN env_ipc_from[e] ELSE who[e]

Holds(x, y) ==
    /\ at[x] = "got" /\ lib[x] \in {"woken", "sender", "user"}
    /\ From(x) = y /\ Held(x) \in 0 .. LAST
    /\ IF Held(x) = LAST THEN Ended(y) ELSE Heading(y)

Turn ==
    \/ lib[0] = "user" /\ at[0] = "umain" /\ lib[1] = "free"
    \/ lib[0] = "user" /\ at[0] = "roll" /\ id[0] = 1 /\ Heading(1)
    \/ Sending(0, 1) \/ Sending(1, 0) \/ Holds(0, 1) \/ Holds(1, 0)
    \/ Ended(0) /\ Ended(1)

PongInv == program = "pingpong" => Turn /\ \A e \in Env \ {0, 1} : lib[e] = "free"

Inv == StateOK /\ RecvInv /\ PrimesInv /\ FairInv /\ PongInv

-----------------------------------------------------------------------------
(* What a step changes *)

\* Nothing of f changes.
Same(f) ==
    /\ env_ipc_recving'[f] = env_ipc_recving[f] /\ env_ipc_from'[f] = env_ipc_from[f]
    /\ env_ipc_value'[f] = env_ipc_value[f]
    /\ lib'[f] = lib[f] /\ at'[f] = at[f] /\ to'[f] = to[f] /\ val'[f] = val[f]
    /\ who'[f] = who[f] /\ i'[f] = i[f] /\ id'[f] = id[f]

\* e moves to l in the library and a in its program, and nobody else moves;
\* its variables become t, v, w, n and d.
Moves(e, l, a, t, v, w, n, d) ==
    /\ StateOK' /\ UNCHANGED <<program, kernel>>
    /\ lib'[e] = l /\ at'[e] = a /\ to'[e] = t /\ val'[e] = v /\ who'[e] = w
    /\ i'[e] = n /\ id'[e] = d
    /\ env_ipc_from'[e] = env_ipc_from[e] /\ env_ipc_value'[e] = env_ipc_value[e]
    /\ env_ipc_recving'[e] <=> l = "blocked"
    /\ \A f \in Env : f # e => Same(f)

\* The constants.
LEMMA Sizes ==
    /\ NENV \in Nat /\ NENV > 3 /\ LIMIT \in Nat /\ LIMIT > 1 /\ LAST \in Nat /\ LAST > 0
    /\ 0 \in Env /\ 1 \in Env /\ Env \subseteq Nat
    /\ Values \subseteq Nat /\ 0 \in Values /\ LAST \in Values
  BY UserIpcAssumption DEF Env, Values

\* The library calls in which only the caller moves.
LEMMA LibraryMoves ==
  ASSUME StateOK, RecvInv, NEW e \in Env
  PROVE  /\ Yield(e) => lib[e] = "yield"
               /\ Moves(e, "send", at[e], to[e], val[e], who[e], i[e], id[e])
         /\ SysIpcRecv(e) => lib[e] = "recv"
               /\ Moves(e, "blocked", at[e], to[e], val[e], who[e], i[e], id[e])
         /\ LoadFrom(e) => lib[e] = "woken"
               /\ Moves(e, "sender", at[e], to[e], val[e], env_ipc_from[e], i[e], id[e])
         /\ LoadValue(e) => lib[e] = "sender"
               /\ Moves(e, "user", at[e], to[e], val[e], who[e], env_ipc_value[e], id[e])
  <1> USE DEF StateOK, TypeOK, RecvInv, Moves, Same, At, kern, locals, Dispatched, ThisEnv
  <1>1. ASSUME Yield(e)
        PROVE  lib[e] = "yield" /\ Moves(e, "send", at[e], to[e], val[e], who[e], i[e], id[e])
    BY <1>1 DEF Yield
  <1>2. ASSUME SysIpcRecv(e)
        PROVE  lib[e] = "recv" /\ Moves(e, "blocked", at[e], to[e], val[e], who[e], i[e], id[e])
    <2>1. /\ lib[e] = "recv" /\ UNCHANGED <<program, kernel>>
          /\ env_ipc_recving' = [env_ipc_recving EXCEPT ![e] = TRUE]
          /\ lib' = [lib EXCEPT ![e] = "blocked"]
          /\ UNCHANGED <<env_ipc_from, env_ipc_value, at, to, val, who, i, id, p>>
      BY <1>2 DEF SysIpcRecv
    <2>2. StateOK'
      BY <2>1
    <2>3. \A f \in Env : f # e => Same(f)
      BY <2>1
    <2>4. QED
      BY <2>1, <2>2, <2>3
  <1>3. ASSUME LoadFrom(e)
        PROVE  lib[e] = "woken"
               /\ Moves(e, "sender", at[e], to[e], val[e], env_ipc_from[e], i[e], id[e])
    BY <1>3 DEF LoadFrom
  <1>4. ASSUME LoadValue(e)
        PROVE  lib[e] = "sender"
               /\ Moves(e, "user", at[e], to[e], val[e], who[e], env_ipc_value[e], id[e])
    BY <1>4 DEF LoadValue
  <1>5. QED
    BY <1>1, <1>2, <1>3, <1>4

\* A call of ipc_send leaves the caller inside the library with its message.
LEMMA SendMoves ==
  ASSUME StateOK, RecvInv, NEW e \in Env, lib[e] = "user", UNCHANGED <<program, kernel>>,
         NEW a \in Label, NEW t \in Env, NEW v \in Values, NEW n \in Values,
         IpcSend(e, a, t, v), i' = [i EXCEPT ![e] = n], UNCHANGED <<who, id, p>>
  PROVE  Moves(e, "send", a, t, v, who[e], n, id[e])
  BY DEF StateOK, TypeOK, RecvInv, Moves, Same, IpcSend, kern, Dispatched

\* A call of ipc_recv leaves the caller inside the library and nobody else.
LEMMA RecvMoves ==
  ASSUME StateOK, RecvInv, NEW e \in Env, lib[e] = "user", UNCHANGED <<program, kernel>>,
         NEW a \in Label, IpcRecv(e, a), UNCHANGED <<who, i, id, p>>
  PROVE  Moves(e, "recv", a, to[e], val[e], who[e], i[e], id[e])
  BY DEF StateOK, TypeOK, RecvInv, Moves, Same, IpcRecv, kern, Dispatched

\* An environment moves in its program only, or stops.
LEMMA StopMoves ==
  ASSUME StateOK, RecvInv, NEW e \in Env, lib[e] # "blocked", UNCHANGED <<program, kernel>>,
         NEW l \in {"free", "panic", "yield"}, lib' = [lib EXCEPT ![e] = l],
         UNCHANGED <<kern, locals>>
  PROVE  Moves(e, l, at[e], to[e], val[e], who[e], i[e], id[e])
  BY DEF StateOK, TypeOK, RecvInv, Moves, Same, kern, locals, Dispatched

-----------------------------------------------------------------------------
(* What keeps the invariant *)

\* After a move the flag still says who is blocked.
LEMMA MoveFlags ==
  ASSUME RecvInv, NEW e \in Env, NEW l, NEW a, NEW t, NEW v, NEW w, NEW n, NEW d,
         Moves(e, l, a, t, v, w, n, d)
  PROVE  RecvInv'
  BY DEF RecvInv, Moves, Same

\* The sieve: a move of a process that goes on, and sends to a living one.
LEMMA PrimesMove ==
  ASSUME Inv, program = "primes", NEW e \in Env, lib[e] # "free",
         NEW l, NEW a, NEW t, NEW v, NEW w, NEW n, NEW d,
         Moves(e, l, a, t, v, w, n, d), l # "free",
         a \in {"feed", "next", "filter"} => Alive(d),
         l \in {"send", "yield"} => Alive(t)
  PROVE  Inv'
  <1>0. StateOK /\ RecvInv /\ PrimesInv
    BY DEF Inv
  <1>1. RecvInv'
    BY <1>0, MoveFlags
  <1>2. StateOK' /\ program' = "primes"
    BY DEF Moves
  <1>3. \A f \in Env : Alive(f)' <=> Alive(f)
    BY DEF Moves, Same, Alive
  <1>4. \E m \in 1 .. NENV : Prefix(m)'
    <2>1. PICK m \in 1 .. NENV : Prefix(m)
      BY <1>0 DEF PrimesInv
    <2>2. Prefix(m)'
      BY <1>3, <2>1 DEF Prefix
    <2>3. QED
      BY <2>2
  <1>5. ASSUME NEW f \in Env, at'[f] \in {"feed", "next", "filter"}, Alive(f)'
        PROVE  lib'[id'[f]] # "free"
    <2>1. id'[f] \in Env
      BY <1>2 DEF StateOK, TypeOK
    <2>2. CASE f = e
      <3>1. Alive(id'[f])
        BY <1>5, <2>2 DEF Moves
      <3>2. QED
        BY <1>3, <2>1, <3>1 DEF Alive
    <2>3. CASE f # e
      <3>1. id'[f] = id[f] /\ at'[f] = at[f]
        BY <2>3 DEF Moves, Same
      <3>2. Alive(id[f])
        BY <1>0, <1>3, <1>5, <3>1 DEF PrimesInv
      <3>3. QED
        BY <1>3, <2>1, <3>1, <3>2 DEF Alive
    <2>4. QED
      BY <2>2, <2>3
  <1>6. ASSUME NEW f \in Env, Sends(f)'
        PROVE  lib'[to'[f]] # "free"
    <2>1. to'[f] \in Env
      BY <1>2 DEF StateOK, TypeOK
    <2>2. CASE f = e
      <3>1. Alive(to'[f])
        BY <1>6, <2>2 DEF Moves, Sends
      <3>2. QED
        BY <1>3, <2>1, <3>1 DEF Alive
    <2>3. CASE f # e
      <3>1. to'[f] = to[f] /\ lib'[f] = lib[f]
        BY <2>3 DEF Moves, Same
      <3>2. Alive(to[f])
        BY <1>0, <1>6, <3>1 DEF PrimesInv, Sends
      <3>3. QED
        BY <1>3, <2>1, <3>1, <3>2 DEF Alive
    <2>4. QED
      BY <2>2, <2>3
  <1>7. PrimesInv'
    BY <1>4, <1>5, <1>6 DEF PrimesInv, Alive
  <1>8. QED
    BY <1>1, <1>2, <1>7 DEF Inv, FairInv, PongInv

\* Two senders, one receiver: whoever sends, sends to 1, which does not end.
LEMMA FairMove ==
  ASSUME Inv, program = "fairness", NEW e \in Env,
         NEW l, NEW a, NEW t, NEW v, NEW w, NEW n, NEW d,
         Moves(e, l, a, t, v, w, n, d), l # "free",
         l \in {"send", "yield"} => t = 1
  PROVE  Inv'
  <1>0. StateOK /\ RecvInv /\ FairInv
    BY DEF Inv
  <1>1. RecvInv'
    BY <1>0, MoveFlags
  <1>2. StateOK' /\ program' = "fairness"
    BY DEF Moves
  <1>3. FairInv'
    BY <1>0, Sizes DEF FairInv, Moves, Same, Sends, Alive
  <1>4. QED
    BY <1>1, <1>2, <1>3 DEF Inv, PrimesInv, PongInv

\* Ping-pong: only the two move.
LEMMA PongMove ==
  ASSUME Inv, program = "pingpong", NEW e \in Env, lib[e] # "free",
         NEW l, NEW a, NEW t, NEW v, NEW w, NEW n, NEW d,
         Moves(e, l, a, t, v, w, n, d), Turn'
  PROVE  Inv'
  <1>0. StateOK /\ RecvInv /\ PongInv
    BY DEF Inv
  <1>1. RecvInv'
    BY <1>0, MoveFlags
  <1>2. StateOK' /\ program' = "pingpong"
    BY DEF Moves
  <1>3. PongInv'
    BY <1>0, <1>2 DEF PongInv, Moves, Same
  <1>4. QED
    BY <1>1, <1>2, <1>3 DEF Inv, PrimesInv, FairInv

\* Nobody sends to an environment that is gone.
LEMMA LiveTarget ==
  ASSUME Inv, NEW e \in Env, Sends(e)
  PROVE  Alive(to[e])
  <1>1. CASE program = "primes"
    BY <1>1 DEF Inv, PrimesInv
  <1>2. CASE program = "fairness"
    BY <1>2 DEF Inv, FairInv
  <1>3. CASE program = "pingpong"
    <2>1. Turn /\ e \in {0, 1} /\ lib[e] \in {"send", "yield"}
      BY <1>3 DEF Inv, PongInv, Sends
    <2>2. Heading(to[e])
      BY <2>1 DEF Turn, Sending, Holds, Heading, Ended, Sends
    <2>3. QED
      BY <2>2 DEF Heading, Alive
  <1>4. QED
    BY <1>1, <1>2, <1>3 DEF Inv, StateOK, TypeOK, Programs

\* Ping-pong: the steps of the library leave the turn with whom it is.
LEMMA PongLibrary ==
  ASSUME Turn, NEW x \in {0, 1}, NEW y \in {0, 1}, x # y,
         NEW l, NEW n, NEW w, Same(y),
         Moves(x, l, at[x], to[x], val[x], w, n, id[x]),
         \/ lib[x] = "yield" /\ l = "send" /\ w = who[x] /\ n = i[x]
         \/ lib[x] = "send" /\ l = "yield" /\ w = who[x] /\ n = i[x]
         \/ lib[x] = "recv" /\ l = "blocked" /\ w = who[x] /\ n = i[x]
         \/ lib[x] = "woken" /\ l = "sender" /\ w = env_ipc_from[x] /\ n = i[x]
         \/ lib[x] = "sender" /\ l = "user" /\ w = who[x] /\ n = env_ipc_value[x]
  PROVE  Turn'
  <1> USE DEF Moves, Same
  <1>1. Heading(y) => Heading(y)'
    BY DEF Heading
  <1>2. Ended(y) => Ended(y)'
    BY DEF Ended
  <1>3. Sending(x, y) => Sending(x, y)'
    BY <1>1 DEF Sending, Sends
  <1>4. Holds(x, y) => Holds(x, y)'
    BY <1>1, <1>2 DEF Holds, From, Held
  <1>5. Heading(x) => Heading(x)'
    BY DEF Heading
  <1>6. ~Ended(x)
    BY DEF Ended
  <1>7. Sending(y, x) => Sending(y, x)'
    BY <1>5 DEF Sending, Sends
  <1>8. Holds(y, x) => Holds(y, x)'
    BY <1>5, <1>6 DEF Holds, From, Held
  <1>9. CASE lib[0] = "user" /\ at[0] = "umain" /\ lib[1] = "free"
    BY <1>9
  <1>10. CASE lib[0] = "user" /\ at[0] = "roll" /\ id[0] = 1 /\ Heading(1)
    BY <1>5, <1>10 DEF Turn
  <1>11. QED
    BY <1>3, <1>4, <1>6, <1>7, <1>8, <1>9, <1>10 DEF Turn

\* A message is delivered: sys_ipc_try_send finds the receiver blocked.
Delivered(e, r) ==
    /\ StateOK' /\ UNCHANGED <<program, kernel>>
    /\ Sends(e) /\ r \in Env /\ r # e /\ to[e] = r /\ lib[r] = "blocked"
    /\ lib'[e] = "user" /\ lib'[r] = "woken"
    /\ env_ipc_from'[r] = e /\ env_ipc_value'[r] = val[e] /\ ~env_ipc_recving'[r]
    /\ env_ipc_from'[e] = env_ipc_from[e] /\ env_ipc_value'[e] = env_ipc_value[e]
    /\ env_ipc_recving'[e] = env_ipc_recving[e]
    /\ UNCHANGED <<at, to, val, who, i, id>>
    /\ \A f \in Env : f # e /\ f # r => Same(f)

\* sys_ipc_try_send, for a caller that sends to a living environment: the
\* message is delivered, or the caller yields to try again.
LEMMA TrySendEffect ==
  ASSUME Inv, NEW e \in Env, TrySend(e)
  PROVE  \/ Delivered(e, to[e])
         \/ /\ lib[e] = "send"
            /\ Moves(e, "yield", at[e], to[e], val[e], who[e], i[e], id[e])
  <1>0. StateOK /\ RecvInv /\ lib[e] = "send" /\ to[e] \in Env /\ UNCHANGED <<program, kernel>>
        /\ UNCHANGED locals
    BY DEF Inv, TrySend, At, StateOK, TypeOK
  <1>1. Alive(to[e])
    BY <1>0, LiveTarget DEF Sends
  <1>2. CASE env_ipc_recving[to[e]]
    <2>1. Deliver(e, to[e])
      BY <1>0, <1>1, <1>2 DEF TrySend, StateOK
    <2>2. lib[to[e]] = "blocked" /\ to[e] # e
      BY <1>0, <1>2 DEF RecvInv
    <2>3. Delivered(e, to[e])
      BY <1>0, <2>1, <2>2
         DEF Delivered, Deliver, RecvEnds, StateOK, TypeOK, Same, locals, Sends, Dispatched
    <2>4. QED
      BY <2>3
  <1>3. CASE ~env_ipc_recving[to[e]]
    <2>1. lib' = [lib EXCEPT ![e] = "yield"] /\ UNCHANGED kern
      BY <1>0, <1>1, <1>3 DEF TrySend, NotRecv, StateOK
    <2>2. QED
      BY <1>0, <2>1, StopMoves
  <1>4. QED
    BY <1>2, <1>3

\* The delivery keeps the invariant; in ping-pong the turn passes on.
LEMMA DeliveryKeeps ==
  ASSUME Inv, NEW e \in Env, NEW r, Delivered(e, r)
  PROVE  Inv'
  <1>0. StateOK /\ RecvInv /\ StateOK' /\ r \in Env
    BY DEF Inv, Delivered
  <1>1. RecvInv'
    BY <1>0 DEF RecvInv, Delivered, Same, Sends
  <1>2. \A f \in Env : Alive(f)' <=> Alive(f)
    BY DEF Delivered, Same, Alive, Sends
  <1>3. \A f \in Env : Sends(f)' => Sends(f)
    BY DEF Delivered, Same, Sends
  <1>4. PrimesInv'
    <2> SUFFICES ASSUME program = "primes"
                 PROVE  /\ \E n \in 1 .. NENV : Prefix(n)'
                        /\ \A f \in Env : at'[f] \in {"feed", "next", "filter"} /\ Alive(f)'
                              => lib'[id'[f]] # "free"
                        /\ \A f \in Env : Sends(f)' => lib'[to'[f]] # "free"
      BY DEF PrimesInv, Delivered, Alive
    <2>0. PrimesInv /\ at' = at /\ id' = id /\ to' = to
      BY DEF Inv, Delivered
    <2>1. \E n \in 1 .. NENV : Prefix(n)'
      <3>1. PICK m \in 1 .. NENV : Prefix(m)
        BY <2>0 DEF PrimesInv
      <3>2. Prefix(m)'
        BY <1>2, <3>1 DEF Prefix
      <3>3. QED
        BY <3>2
    <2>2. \A f \in Env : id[f] \in Env /\ to[f] \in Env
      BY <1>0 DEF StateOK, TypeOK
    <2>3. \A f \in Env : lib'[f] # "free" <=> Alive(f)
      BY <1>2 DEF Alive
    <2>4. QED
      BY <1>2, <1>3, <2>0, <2>1, <2>2, <2>3 DEF PrimesInv
  <1>5. FairInv'
    BY <1>2, <1>3, Sizes DEF Inv, FairInv, Delivered
  <1>6. PongInv'
    <2> SUFFICES ASSUME program = "pingpong"
                 PROVE  Turn' /\ \A f \in Env \ {0, 1} : lib'[f] = "free"
      BY DEF PongInv, Delivered
    <2>0. Turn /\ \A f \in Env \ {0, 1} : lib[f] = "free"
      BY DEF Inv, PongInv
    <2>1. e \in {0, 1} /\ r \in {0, 1} /\ e # r /\ lib[e] \in {"send", "yield"}
      BY <1>0, <2>0 DEF Delivered, Sends
    <2>2. Sending(e, r)
      BY <2>0, <2>1 DEF Turn, Sending, Holds, Heading, Ended, Sends
    <2>3. at[r] = "got"
      BY <2>2 DEF Sending, Heading, Delivered
    <2>4. Held(r)' = val[e] /\ From(r)' = e
      BY DEF Held, From, Delivered
    <2>5. IF val[e] = LAST THEN Ended(e)' ELSE Heading(e)'
      BY <2>2, Sizes DEF Sending, Ended, Heading, Delivered
    <2>6. Holds(r, e)'
      <3>1. at'[r] = "got" /\ lib'[r] = "woken" /\ val[e] \in 0 .. LAST
        BY <2>2, <2>3 DEF Delivered, Sending
      <3>2. QED
        BY <2>4, <2>5, <3>1 DEF Holds
    <2>7. Turn'
      BY <2>1, <2>6 DEF Turn
    <2>8. \A f \in Env \ {0, 1} : lib'[f] = "free"
      BY <2>0, <2>1 DEF Delivered, Same
    <2>9. QED
      BY <2>7, <2>8
  <1>7. QED
    BY <1>0, <1>1, <1>4, <1>5, <1>6 DEF Inv

\* Every step of the library keeps the invariant.
LEMMA LibraryKeeps ==
  ASSUME Inv, NEW e \in Env, Library(e)
  PROVE  Inv'
  <1>0. StateOK /\ RecvInv /\ program \in Programs
    BY DEF Inv, StateOK, TypeOK
  <1>1. ASSUME NEW l, NEW n, NEW w,
               Moves(e, l, at[e], to[e], val[e], w, n, id[e]),
               \/ lib[e] = "yield" /\ l = "send" /\ w = who[e] /\ n = i[e]
               \/ lib[e] = "send" /\ l = "yield" /\ w = who[e] /\ n = i[e]
               \/ lib[e] = "recv" /\ l = "blocked" /\ w = who[e] /\ n = i[e]
               \/ lib[e] = "woken" /\ l = "sender" /\ w = env_ipc_from[e] /\ n = i[e]
               \/ lib[e] = "sender" /\ l = "user" /\ w = who[e] /\ n = env_ipc_value[e]
        PROVE  Inv'
    <2>0. lib[e] # "free" /\ l # "free" /\ (l \in {"send", "yield"} => Sends(e))
      BY <1>1 DEF Sends
    <2>1. CASE program = "primes"
      <3>1. at[e] \in {"feed", "next", "filter"} => Alive(id[e])
        BY <2>0, <2>1 DEF Inv, PrimesInv, Alive
      <3>2. l \in {"send", "yield"} => Alive(to[e])
        BY <2>0, LiveTarget
      <3>3. QED
        BY <1>1, <2>0, <2>1, <3>1, <3>2, PrimesMove
    <2>2. CASE program = "fairness"
      <3>1. l \in {"send", "yield"} => to[e] = 1
        BY <2>0, <2>2 DEF Inv, FairInv
      <3>2. QED
        BY <1>1, <2>0, <2>2, <3>1, FairMove
    <2>3. CASE program = "pingpong"
      <3>1. Turn /\ e \in {0, 1}
        BY <2>0, <2>3 DEF Inv, PongInv
      <3>2. PICK y \in {0, 1} : y # e
        BY <3>1
      <3>3. Same(y)
        BY <1>1, <3>2, Sizes DEF Moves
      <3>4. Turn'
        BY <1>1, <3>1, <3>2, <3>3, PongLibrary
      <3>5. QED
        BY <1>1, <2>0, <2>3, <3>4, PongMove
    <2>4. QED
      BY <1>0, <2>1, <2>2, <2>3 DEF Programs
  <1>2. CASE TrySend(e)
    BY <1>1, <1>2, TrySendEffect, DeliveryKeeps
  <1>3. CASE Yield(e) \/ SysIpcRecv(e) \/ LoadFrom(e) \/ LoadValue(e)
    BY <1>0, <1>1, <1>3, LibraryMoves
  <1>4. QED
    BY <1>2, <1>3 DEF Library

-----------------------------------------------------------------------------
(* fork *)

\* The child c is a copy of e, as far as the programs read it.
Forked(e, c, childAt, label) ==
    /\ StateOK' /\ UNCHANGED <<program, kernel>>
    /\ c \in Env /\ c # e /\ lib[c] = "free"
    /\ lib'[c] = "user" /\ lib'[e] = lib[e] /\ at'[c] = childAt /\ at'[e] = label
    /\ id'[e] = c /\ i'[c] = i[e] /\ p' = [p EXCEPT ![c] = p[e]]
    /\ i'[e] = i[e] /\ to'[e] = to[e] /\ val'[e] = val[e] /\ who'[e] = who[e]
    /\ env_ipc_recving'[e] = env_ipc_recving[e] /\ ~env_ipc_recving'[c]
    /\ env_ipc_from'[e] = env_ipc_from[e] /\ env_ipc_value'[e] = env_ipc_value[e]
    /\ \A f \in Env : f # e /\ f # c => Same(f)

\* When the first n slots are taken, fork takes the next one, or there is none
\* and it panics.
LEMMA ForkEffect ==
  ASSUME StateOK, RecvInv, NEW e \in Env, lib[e] = "user", UNCHANGED <<program, kernel>>,
         NEW n \in 1 .. NENV, Prefix(n),
         NEW childAt \in Label, NEW label \in Label, Fork(e, childAt, label)
  PROVE  IF n < NENV THEN Forked(e, n, childAt, label)
         ELSE /\ Moves(e, "panic", at[e], to[e], val[e], who[e], i[e], id[e])
              /\ p' = p
  <1>0. NENV \in Nat /\ Env = 0 .. NENV - 1
    BY Sizes DEF Env
  <1>1. FreeEnvs = n .. NENV - 1
    BY <1>0 DEF FreeEnvs, Prefix
  <1>2. CASE n < NENV
    <2>1. n \in FreeEnvs /\ \A y \in FreeEnvs : n =< y
      BY <1>0, <1>1, <1>2
    <2>2. \A x \in FreeEnvs : (\A y \in FreeEnvs : x =< y) => x = n
      BY <1>0, <1>1, <2>1
    <2>3. Min(FreeEnvs) = n
      BY <2>1, <2>2 DEF Min
    <2>4. ForkTo(e, n, childAt, label)
      BY <2>1, <2>3 DEF Fork, StateOK
    <2>5. n \in Env /\ lib[n] = "free" /\ n # e
      BY <1>0, <1>2, <2>1 DEF FreeEnvs, Alive
    <2>6. Forked(e, n, childAt, label)
      BY <2>4, <2>5, Sizes DEF Forked, ForkTo, Copied, StateOK, TypeOK, Same, Dispatched
    <2>7. QED
      BY <1>2, <2>6
  <1>3. CASE ~(n < NENV)
    <2>1. FreeEnvs = {}
      BY <1>0, <1>1, <1>3
    <2>2. lib' = [lib EXCEPT ![e] = "panic"] /\ UNCHANGED <<kern, locals>>
      BY <2>1 DEF Fork
    <2>3. p' = p
      BY <2>2 DEF locals
    <2>4. QED
      BY <1>3, <2>2, <2>3, StopMoves
  <1>4. QED
    BY <1>2, <1>3

\* primes.c forks: the parent has a living neighbour, the child none yet.
LEMMA PrimesFork ==
  ASSUME Inv, program = "primes", NEW e \in Env, lib[e] = "user", UNCHANGED <<program, kernel>>,
         NEW label \in {"feed", "next"}, Fork(e, "top", label),
         at[e] \in {"umain", "fork"}
  PROVE  Inv'
  <1>0. StateOK /\ RecvInv /\ PrimesInv
    BY DEF Inv
  <1>1. PICK n \in 1 .. NENV : Prefix(n)
    BY <1>0 DEF PrimesInv
  <1>2. label \in Label /\ "top" \in Label
    BY DEF Label
  <1>3. CASE n < NENV
    <2>1. Forked(e, n, "top", label)
      BY <1>0, <1>1, <1>2, <1>3, ForkEffect
    <2>2. \A f \in Env : Alive(f)' <=> Alive(f) \/ f = n
      BY <2>1 DEF Forked, Same, Alive
    <2>3. Prefix(n + 1)' /\ n + 1 \in 1 .. NENV
      BY <1>1, <1>3, <2>2, Sizes DEF Prefix
    <2>4. RecvInv'
      BY <1>0, <2>1 DEF RecvInv, Forked, Same
    <2>5. StateOK' /\ program' = "primes"
      BY <2>1 DEF Forked
    <2>6. \A f \in Env : id[f] \in Env /\ to[f] \in Env
      BY <1>0 DEF StateOK, TypeOK
    <2>7. \A f \in Env : lib'[f] # "free" <=> Alive(f) \/ f = n
      BY <2>2 DEF Alive
    <2>8. ASSUME NEW f \in Env, at'[f] \in {"feed", "next", "filter"}, Alive(f)'
          PROVE  lib'[id'[f]] # "free"
      <3>1. CASE f = e
        BY <2>1, <2>7, <3>1 DEF Forked
      <3>2. CASE f = n
        BY <2>1, <2>8, <3>2 DEF Forked
      <3>3. CASE f # e /\ f # n
        <4>1. id'[f] = id[f] /\ at'[f] = at[f] /\ Alive(f)
          BY <2>1, <2>2, <2>8, <3>3 DEF Forked, Same
        <4>2. Alive(id[f])
          BY <1>0, <2>8, <4>1 DEF PrimesInv
        <4>3. QED
          BY <2>6, <2>7, <4>1, <4>2
      <3>4. QED
        BY <3>1, <3>2, <3>3
    <2>9. ASSUME NEW f \in Env, Sends(f)'
          PROVE  lib'[to'[f]] # "free"
      <3>1. f # e /\ f # n
        BY <2>1, <2>9 DEF Forked, Sends
      <3>2. to'[f] = to[f] /\ Sends(f)
        BY <2>1, <2>9, <3>1 DEF Forked, Same, Sends
      <3>3. Alive(to[f])
        BY <1>0, <3>2 DEF PrimesInv
      <3>4. QED
        BY <2>6, <2>7, <3>2, <3>3
    <2>10. PrimesInv'
      BY <2>3, <2>8, <2>9 DEF PrimesInv, Alive
    <2>11. QED
      BY <2>4, <2>5, <2>10 DEF Inv, FairInv, PongInv
  <1>4. CASE ~(n < NENV)
    <2>1. Moves(e, "panic", at[e], to[e], val[e], who[e], i[e], id[e])
      BY <1>0, <1>1, <1>2, <1>4, ForkEffect
    <2>2. QED
      BY <2>1, PrimesMove
  <1>5. QED
    BY <1>3, <1>4

\* pingpong.c forks: 0 has the turn, 1 is heading for its first message.
LEMMA PongFork ==
  ASSUME Inv, NEW e \in Env, PongUmain(e)
  PROVE  Inv'
  <1>0. /\ StateOK /\ RecvInv /\ PongInv /\ program = "pingpong" /\ UNCHANGED <<program, kernel>>
        /\ at[e] = "umain" /\ lib[e] = "user" /\ Fork(e, "loop", "roll")
    BY DEF Inv, PongUmain, In, At
  <1>1. e = 0 /\ \A f \in Env \ {0} : lib[f] = "free"
    BY <1>0, Sizes DEF PongInv, Turn, Sending, Holds, Heading, Ended, Sends
  <1>2. Prefix(1) /\ 1 \in 1 .. NENV /\ 1 < NENV
    BY <1>0, <1>1, Sizes DEF Prefix, Alive
  <1>3. Forked(0, 1, "loop", "roll")
    BY <1>0, <1>1, <1>2, ForkEffect DEF Label
  <1>4. RecvInv'
    BY <1>0, <1>3 DEF RecvInv, Forked, Same
  <1>5. Turn'
    BY <1>0, <1>1, <1>3 DEF Turn, Heading, Forked
  <1>6. \A f \in Env \ {0, 1} : lib'[f] = "free"
    BY <1>1, <1>3 DEF Forked, Same
  <1>7. QED
    BY <1>0, <1>3, <1>4, <1>5, <1>6 DEF Inv, PrimesInv, FairInv, PongInv, Forked

-----------------------------------------------------------------------------
(* The programs *)

\* Every step of primes.c keeps the invariant.
LEMMA PrimesKeeps ==
  ASSUME Inv, NEW e \in Env, Primes(e)
  PROVE  Inv'
  <1>0. /\ StateOK /\ RecvInv /\ PrimesInv /\ program = "primes" /\ UNCHANGED <<program, kernel>>
        /\ lib[e] = "user"
    BY DEF Inv, Primes, PrimesUmain, Feed, Top, Prime, ForkRight, NextNumber, Filter, In, At
  <1>1. id[e] \in Env /\ i[e] \in Values /\ at[e] \in Label /\ i = [i EXCEPT ![e] = i[e]]
    BY <1>0 DEF StateOK, TypeOK
  <1>2. at[e] \in {"feed", "next", "filter"} => Alive(id[e])
    BY <1>0 DEF PrimesInv, Alive
  <1>3. CASE PrimesUmain(e) \/ ForkRight(e)
    BY <1>0, <1>3, PrimesFork DEF PrimesUmain, ForkRight, In
  <1>4. CASE Feed(e)
    <2>1. i[e] + 1 \in Values /\ at[e] = "feed" /\ "feed" \in Label
      BY <1>1, <1>4, Sizes DEF Feed, In, Values, Label
    <2>2. Moves(e, "send", "feed", id[e], i[e], who[e], i[e] + 1, id[e])
      BY <1>0, <1>1, <1>4, <2>1, SendMoves DEF Feed
    <2>3. QED
      BY <1>0, <1>2, <2>1, <2>2, PrimesMove
  <1>5. CASE Top(e)
    <2>1. Moves(e, "recv", "prime", to[e], val[e], who[e], i[e], id[e])
      BY <1>0, <1>5, RecvMoves DEF Top, Label
    <2>2. QED
      BY <1>0, <2>1, PrimesMove
  <1>6. CASE NextNumber(e)
    <2>1. Moves(e, "recv", "filter", to[e], val[e], who[e], i[e], id[e]) /\ at[e] = "next"
      BY <1>0, <1>6, RecvMoves DEF NextNumber, Label, In
    <2>2. QED
      BY <1>0, <1>2, <2>1, PrimesMove
  <1>7. CASE Prime(e)
    <2>1. Moves(e, "user", "fork", to[e], val[e], who[e], i[e], id[e])
      BY <1>0, <1>1, <1>7
         DEF Prime, Moves, Same, StateOK, TypeOK, RecvInv, kern, Label, Dispatched
    <2>2. QED
      BY <1>0, <2>1, PrimesMove
  <1>8. CASE Filter(e)
    <2>0. at[e] = "filter" /\ "next" \in Label
      BY <1>8 DEF Filter, In, Label
    <2>1. CASE Passes(e)
      <3>1. IpcSend(e, "next", id[e], i[e]) /\ i' = [i EXCEPT ![e] = i[e]]
            /\ UNCHANGED <<who, id, p>>
        BY <1>1, <1>8, <2>1 DEF Filter
      <3>2. Moves(e, "send", "next", id[e], i[e], who[e], i[e], id[e])
        BY <1>0, <1>1, <2>0, <3>1, SendMoves
      <3>3. QED
        BY <1>0, <1>2, <2>0, <3>2, PrimesMove
    <2>2. CASE ~Passes(e)
      <3>1. Moves(e, "user", "next", to[e], val[e], who[e], i[e], id[e])
        BY <1>0, <1>1, <1>8, <2>2
           DEF Filter, Moves, Same, StateOK, TypeOK, RecvInv, kern, Label, Dispatched
      <3>2. QED
        BY <1>0, <1>2, <2>0, <3>1, PrimesMove
    <2>3. QED
      BY <2>1, <2>2
  <1>9. QED
    BY <1>3, <1>4, <1>5, <1>6, <1>7, <1>8 DEF Primes

\* Every step of fairness.c keeps the invariant.
LEMMA FairnessKeeps ==
  ASSUME Inv, NEW e \in Env, Fairness(e)
  PROVE  Inv'
  <1>0. /\ StateOK /\ RecvInv /\ program = "fairness" /\ UNCHANGED <<program, kernel>>
        /\ lib[e] = "user" /\ UNCHANGED <<who, i, id, p>>
    BY DEF Inv, Fairness, Receiver, Sender, In, At
  <1>1. i[e] \in Values /\ i' = [i EXCEPT ![e] = i[e]]
    BY <1>0 DEF StateOK, TypeOK
  <1>2. CASE Receiver(e)
    <2>1. Moves(e, "recv", "receiver", to[e], val[e], who[e], i[e], id[e])
      BY <1>0, <1>2, RecvMoves DEF Receiver, Label
    <2>2. QED
      BY <1>0, <2>1, FairMove
  <1>3. CASE Sender(e)
    <2>1. Moves(e, "send", "sender", 1, 0, who[e], i[e], id[e])
      BY <1>0, <1>1, <1>3, SendMoves, Sizes DEF Sender, Label
    <2>2. QED
      BY <1>0, <2>1, FairMove
  <1>4. QED
    BY <1>2, <1>3 DEF Fairness

\* Every step of pingpong.c keeps the invariant.
LEMMA PingPongKeeps ==
  ASSUME Inv, NEW x \in Env, PingPong(x)
  PROVE  Inv'
  <1>0. /\ StateOK /\ RecvInv /\ PongInv /\ program = "pingpong" /\ UNCHANGED <<program, kernel>>
        /\ lib[x] = "user" /\ Turn
    BY DEF Inv, PingPong, PongUmain, Roll, Loop, Got, Sent, In, At, PongInv
  <1>1. x \in {0, 1}
    BY <1>0 DEF PongInv
  <1>2. PICK y \in {0, 1} : y # x
    BY <1>1
  <1>3. /\ id[x] \in Env /\ i[x] \in Values /\ who[x] \in Env
        /\ i = [i EXCEPT ![x] = i[x]] /\ y \in Env
    BY <1>0, <1>2, Sizes DEF StateOK, TypeOK
  \* whoever the turn is with, a step of a process that heads for a message
  \* or has ended leaves it there
  <1>a. ASSUME NEW l, NEW a, NEW t, NEW v, NEW w, NEW n, NEW d,
               Moves(x, l, a, t, v, w, n, d),
               (Heading(x) /\ Heading(x)') \/ (Ended(x) /\ Ended(x)'),
               at[x] \in {"loop", "sent"}
        PROVE  Inv'
    <2>1. Same(y)
      BY <1>a, <1>2, <1>3 DEF Moves
    <2>2. /\ lib[y] = "user" /\ at[y] = "roll" /\ id[y] = x => lib'[y] = "user" /\ at'[y] = "roll" /\ id'[y] = x
          /\ Ended(y) => Ended(y)'
      BY <2>1 DEF Same, Ended
    <2>3. Heading(x) => ~Ended(x)
      BY DEF Heading, Ended
    <2>4. Sending(y, x) => Sending(y, x)'
      BY <1>a, <2>1, <2>3 DEF Sending, Sends, Same
    <2>5. Holds(y, x) => Holds(y, x)'
      BY <1>a, <2>1, <2>3 DEF Holds, Held, From, Same
    <2>6. ~Sending(x, y) /\ ~Holds(x, y)
      BY <1>0, <1>a DEF Sending, Sends, Holds
    <2>7. CASE lib[0] = "user" /\ at[0] = "umain" /\ lib[1] = "free"
      BY <1>0, <1>1, <1>a, <2>7
    <2>8. CASE lib[0] = "user" /\ at[0] = "roll" /\ id[0] = 1 /\ Heading(1)
      <3>1. x = 1 /\ y = 0
        BY <1>1, <1>2, <1>a, <2>8
      <3>2. Heading(1)'
        BY <1>a, <2>3, <2>8, <3>1
      <3>3. QED
        BY <1>0, <1>a, <2>2, <2>8, <3>1, <3>2, PongMove DEF Turn
    <2>9. CASE Ended(0) /\ Ended(1)
      <3>1. Ended(0)' /\ Ended(1)'
        BY <1>1, <1>2, <1>a, <2>2, <2>3, <2>9
      <3>2. Turn'
        BY <3>1 DEF Turn
      <3>3. QED
        BY <1>0, <1>a, <3>2, PongMove
    <2>10. CASE Sending(y, x) \/ Holds(y, x)
      <3>1. Turn'
        BY <1>1, <1>2, <2>4, <2>5, <2>10 DEF Turn
      <3>2. QED
        BY <1>0, <1>a, <3>1, PongMove
    <2>11. QED
      BY <1>0, <1>1, <1>2, <2>6, <2>7, <2>8, <2>9, <2>10 DEF Turn
  <1>4. CASE PongUmain(x)
    BY <1>4, PongFork
  <1>5. CASE Roll(x)
    <2>1. at[x] = "roll" /\ IpcSend(x, "loop", id[x], 0) /\ i' = [i EXCEPT ![x] = i[x]]
          /\ UNCHANGED <<who, id, p>>
      BY <1>3, <1>5 DEF Roll, In
    <2>2. x = 0 /\ id[0] = 1 /\ Heading(1) /\ y = 1
      BY <1>0, <1>1, <1>2, <2>1 DEF Turn, Sending, Holds, Heading, Ended, Sends
    <2>3. Moves(x, "send", "loop", id[x], 0, who[x], i[x], id[x])
      BY <1>0, <1>3, <2>1, SendMoves, Sizes DEF Label
    <2>4. Heading(1)'
      BY <1>3, <2>2, <2>3 DEF Moves, Same, Heading
    <2>5. Sending(0, 1)'
      BY <2>2, <2>3, <2>4, Sizes DEF Sending, Sends, Moves
    <2>6. QED
      BY <1>0, <2>3, <2>5, PongMove DEF Turn
  <1>6. CASE Loop(x)
    <2>1. at[x] = "loop" /\ Moves(x, "recv", "got", to[x], val[x], who[x], i[x], id[x])
      BY <1>0, <1>6, RecvMoves DEF Loop, In, Label
    <2>2. Heading(x) /\ Heading(x)'
      BY <1>0, <2>1 DEF Heading, Moves
    <2>3. QED
      BY <1>a, <2>1, <2>2
  <1>7. CASE Got(x)
    <2>1. at[x] = "got"
      BY <1>7 DEF Got, In
    <2>2. Holds(x, y)
      BY <1>0, <1>1, <1>2, <2>1 DEF Turn, Sending, Holds, Heading, Ended, Sends
    <2>3. who[x] = y /\ i[x] \in 0 .. LAST /\ IF i[x] = LAST THEN Ended(y) ELSE Heading(y)
      BY <1>0, <2>2 DEF Holds, From, Held
    <2>4. CASE i[x] = LAST
      <3>1. lib' = [lib EXCEPT ![x] = "free"] /\ UNCHANGED <<kern, locals>>
        BY <1>7, <2>4 DEF Got, IsLast, Exit
      <3>2. Moves(x, "free", at[x], to[x], val[x], who[x], i[x], id[x])
        BY <1>0, <3>1, StopMoves
      <3>3. Ended(x)' /\ Ended(y)'
        BY <1>2, <1>3, <2>3, <2>4, <3>2 DEF Moves, Same, Ended
      <3>4. Turn'
        BY <1>1, <1>2, <3>3 DEF Turn
      <3>5. QED
        BY <1>0, <3>2, <3>4, PongMove
    <2>5. CASE i[x] # LAST
      <3>1. /\ IpcSend(x, "sent", who[x], i[x] + 1) /\ i' = [i EXCEPT ![x] = i[x] + 1]
            /\ UNCHANGED <<who, id, p>>
        BY <1>7, <2>5 DEF Got, IsLast
      <3>2. i[x] + 1 \in Values /\ i[x] + 1 \in 0 .. LAST
        BY <2>3, <2>5, Sizes DEF Values
      <3>3. Moves(x, "send", "sent", who[x], i[x] + 1, who[x], i[x] + 1, id[x])
        BY <1>0, <1>3, <3>1, <3>2, SendMoves DEF Label
      <3>4. Heading(y)'
        BY <1>2, <1>3, <2>3, <2>5, <3>3 DEF Moves, Same, Heading
      <3>5. Sending(x, y)'
        BY <2>3, <3>2, <3>3, <3>4 DEF Sending, Sends, Moves
      <3>6. Turn'
        BY <1>1, <1>2, <3>5 DEF Turn
      <3>7. QED
        BY <1>0, <3>3, <3>6, PongMove
    <2>6. QED
      BY <2>4, <2>5
  <1>8. CASE Sent(x)
    <2>1. at[x] = "sent"
      BY <1>8 DEF Sent, In
    <2>2. CASE i[x] = LAST
      <3>1. lib' = [lib EXCEPT ![x] = "free"] /\ UNCHANGED <<kern, locals>>
        BY <1>8, <2>2 DEF Sent, IsLast, Exit
      <3>2. Moves(x, "free", at[x], to[x], val[x], who[x], i[x], id[x])
        BY <1>0, <3>1, StopMoves
      <3>3. Ended(x) /\ Ended(x)'
        BY <1>0, <2>1, <2>2, <3>2 DEF Ended, Moves
      <3>4. QED
        BY <1>a, <2>1, <3>2, <3>3
    <2>3. CASE i[x] # LAST
      <3>1. IpcRecv(x, "got") /\ UNCHANGED <<who, i, id, p>>
        BY <1>8, <2>3 DEF Sent, IsLast
      <3>2. Moves(x, "recv", "got", to[x], val[x], who[x], i[x], id[x])
        BY <1>0, <3>1, RecvMoves DEF Label
      <3>3. Heading(x) /\ Heading(x)'
        BY <1>0, <2>1, <2>3, <3>2 DEF Heading, Moves
      <3>4. QED
        BY <1>a, <2>1, <3>2, <3>3
    <2>4. QED
      BY <2>2, <2>3
  <1>9. QED
    BY <1>4, <1>5, <1>6, <1>7, <1>8 DEF PingPong

-----------------------------------------------------------------------------
(* The invariant *)

\* The invariant holds at first: one program has one process, or three.
LEMMA InitKeeps == Init /\ Dispatched => Inv
  <1> SUFFICES ASSUME Init, Dispatched PROVE Inv
    OBVIOUS
  <1>1. StateOK
    BY Sizes DEF Init, StateOK, TypeOK, Label, Values, ThisEnv
  <1>2. RecvInv
    BY DEF Init, RecvInv
  <1>3. PrimesInv
    <2> SUFFICES ASSUME program = "primes" PROVE PrimesInv
      BY DEF PrimesInv
    <2>1. \A e \in Env : lib[e] = IF e = 0 THEN "user" ELSE "free"
      BY DEF Init
    <2>2. Prefix(1) /\ 1 \in 1 .. NENV
      BY <2>1, Sizes DEF Prefix, Alive
    <2>3. \A e \in Env : at[e] = "umain" /\ ~Sends(e)
      BY <2>1 DEF Init, Sends
    <2>4. QED
      BY <2>2, <2>3 DEF PrimesInv
  <1>4. FairInv
    BY Sizes DEF Init, FairInv, Sends, Alive
  <1>5. PongInv
    <2> SUFFICES ASSUME program = "pingpong" PROVE PongInv
      BY DEF PongInv
    <2>1. \A e \in Env : lib[e] = IF e = 0 THEN "user" ELSE "free"
      BY DEF Init
    <2>2. at[0] = "umain"
      BY Sizes DEF Init
    <2>3. QED
      BY <2>1, <2>2, Sizes DEF PongInv, Turn
  <1>6. QED
    BY <1>1, <1>2, <1>3, <1>4, <1>5 DEF Inv

\* Nothing changes.
LEMMA StutterKeeps == Inv /\ UNCHANGED vars => Inv'
  <1> SUFFICES ASSUME Inv, UNCHANGED vars PROVE Inv'
    OBVIOUS
  <1> USE DEF vars, kern, locals
  <1>1. StateOK' /\ RecvInv'
    BY DEF Inv, StateOK, TypeOK, RecvInv, Dispatched
  <1>2. PrimesInv' /\ FairInv'
    BY DEF Inv, PrimesInv, FairInv, Prefix, Sends, Alive
  <1>3. Turn => Turn'
    BY DEF Turn, Sending, Holds, Heading, Ended, Sends, From, Held
  <1>4. PongInv'
    BY <1>3 DEF Inv, PongInv
  <1>5. QED
    BY <1>1, <1>2, <1>4 DEF Inv

\* Every step keeps the invariant.
LEMMA NextKeeps == Inv /\ [Next]_vars => Inv'
  <1> SUFFICES ASSUME Inv, [Next]_vars PROVE Inv'
    OBVIOUS
  <1>1. CASE UNCHANGED vars \/ Over
    BY <1>1, StutterKeeps DEF Over
  <1>2. ASSUME NEW e \in Env, Step(e)
        PROVE  Inv'
    BY <1>2, LibraryKeeps, PrimesKeeps, PingPongKeeps, FairnessKeeps DEF Step
  <1>3. QED
    BY <1>1, <1>2 DEF Next

-----------------------------------------------------------------------------
(* The kernel of this commit *)

\* The programs stop at the first call that it does not dispatch: nobody forks,
\* and of fairness.c everybody is a sender.
LinkedInv ==
    /\ TypeOK /\ kernel = "linked"
    /\ at \in [Env -> {"umain", "sender"}] /\ \A e \in Env : p[e] = 0
    /\ \A e \in Env : lib[e] \in {"free", "user", "send", "panic", "sendpanic"}
    /\ \A e \in Env : lib[e] = "send" => program = "fairness" /\ to[e] = 1
    /\ program = "fairness" => lib[1] # "free" /\ \A e \in Env : at[e] = "sender"

\* It starts so.
LEMMA LinkedInit == Init /\ ~Dispatched => LinkedInv
  BY Sizes DEF Init, Dispatched, Kernels, LinkedInv, TypeOK, Values, ThisEnv

\* What is left for a program to do.
LEMMA LinkedSteps ==
  ASSUME LinkedInv, NEW e \in Env, Step(e)
  PROVE  /\ UNCHANGED <<program, kernel, kern, at, who, i, id, p>>
         /\ \/ /\ lib[e] = "send" /\ lib' = [lib EXCEPT ![e] = "sendpanic"]
               /\ UNCHANGED <<to, val>>
            \/ /\ lib[e] = "user" /\ lib' = [lib EXCEPT ![e] = "panic"]
               /\ UNCHANGED <<to, val>>
            \/ /\ program = "fairness" /\ lib[e] = "user"
               /\ lib' = [lib EXCEPT ![e] = "send"]
               /\ to' = [to EXCEPT ![e] = 1] /\ val' = [val EXCEPT ![e] = 0]
  <1>0. /\ ~Dispatched /\ at[e] \in {"umain", "sender"}
        /\ lib[e] \in {"free", "user", "send", "panic", "sendpanic"}
    BY DEF LinkedInv, Dispatched
  <1>1. CASE Library(e)
    <2>1. TrySend(e)
      BY <1>0, <1>1 DEF Library, Yield, SysIpcRecv, LoadFrom, LoadValue, At
    <2>2. QED
      BY <1>0, <2>1 DEF TrySend, At, locals
  <1>2. CASE Primes(e) \/ PingPong(e)
    <2>1. PrimesUmain(e) \/ PongUmain(e)
      BY <1>0, <1>2 DEF Primes, Feed, Top, Prime, ForkRight, NextNumber, Filter,
                        PingPong, Roll, Loop, Got, Sent, In
    <2>2. QED
      BY <1>0, <2>1 DEF PrimesUmain, PongUmain, In, At, Fork, locals
  <1>3. CASE Fairness(e)
    <2>1. Sender(e) /\ at = [at EXCEPT ![e] = "sender"]
      BY <1>0, <1>3 DEF Fairness, Receiver, Sender, In, LinkedInv
    <2>2. QED
      BY <2>1 DEF Sender, In, At, IpcSend
  <1>4. QED
    BY <1>1, <1>2, <1>3 DEF Step

\* Every step keeps it.
LEMMA LinkedKeeps == LinkedInv /\ [Next]_vars => LinkedInv'
  <1> SUFFICES ASSUME LinkedInv, [Next]_vars PROVE LinkedInv'
    OBVIOUS
  <1>1. CASE UNCHANGED vars \/ Over
    BY <1>1 DEF Over, vars, kern, locals, LinkedInv, TypeOK
  <1>2. ASSUME NEW e \in Env, Step(e) PROVE LinkedInv'
    <2>1. UNCHANGED <<program, kernel, kern, at, who, i, id, p>>
      BY <1>2, LinkedSteps
    <2>2. PICK l \in {"sendpanic", "panic", "send"} :
             /\ lib[e] \in {"send", "user"} /\ lib' = [lib EXCEPT ![e] = l]
             /\ l = "send" => program = "fairness" /\ to' = [to EXCEPT ![e] = 1]
                              /\ val' = [val EXCEPT ![e] = 0]
             /\ l # "send" => UNCHANGED <<to, val>>
      BY <1>2, LinkedSteps
    <2>3. CASE l = "send"
      BY <2>1, <2>2, <2>3, Sizes DEF LinkedInv, TypeOK, kern
    <2>4. CASE l # "send"
      BY <2>1, <2>2, <2>4, Sizes DEF LinkedInv, TypeOK, kern
    <2>5. QED
      BY <2>3, <2>4
  <1>3. QED
    BY <1>1, <1>2 DEF Next

\* Whichever kernel.
Safe == Inv \/ LinkedInv

\* It holds at first and is kept.
LEMMA SafeKeeps == (Init => Safe) /\ (Safe /\ [Next]_vars => Safe')
  BY InitKeeps, NextKeeps, LinkedInit, LinkedKeeps DEF Safe

\* The variables keep their types, whatever is sent; ping-pong's number stays
\* within its bound and the sieve's within the last one fed.
THEOREM NumbersStayInBounds == Spec => []TypeOK
  <1>1. Safe => TypeOK
    BY DEF Safe, Inv, LinkedInv, StateOK
  <1>2. QED
    BY <1>1, SafeKeeps, PTL DEF Spec

\* A process that is in ipc_send sends to one that is there, so that ipc_send
\* panics only on a kernel that does not know the call.
TargetsLive == \A e \in Env : lib[e] \in {"send", "yield"} => Alive(to[e])

\* No program sends to a process that is gone: ping-pong's processes end only
\* when neither will send again.
THEOREM NobodySendsToTheDead == Spec => []TargetsLive
  <1>1. Inv => TargetsLive
    BY LiveTarget DEF TargetsLive, Sends
  <1>2. LinkedInv => TargetsLive
    BY DEF LinkedInv, TargetsLive, Alive
  <1>3. QED
    BY <1>1, <1>2, SafeKeeps, PTL DEF Spec, Safe

-----------------------------------------------------------------------------
(* The library is a rendezvous *)

\* ipc_send that has panicked never returns: its offer stays.
OfferOf(e) ==
    IF lib[e] \in {"send", "yield", "sendpanic"}
    THEN [to |-> to[e], value |-> val[e]] ELSE NONE

offers == [e \in Env |-> OfferOf(e)]
waits == {e \in Env : lib[e] = "blocked"}
boxes == [e \in Env |-> MessageIn(e)]

\* What is not NONE.
LEMMA NotNone ==
  ASSUME StateOK, NEW e \in Env
  PROVE  /\ Sends(e) => OfferOf(e) # NONE
         /\ lib[e] \in {"woken", "sender"} <=> MessageIn(e) # NONE
  <1>1. /\ to[e] \in Nat /\ val[e] \in Nat /\ env_ipc_from[e] \in Nat
        /\ env_ipc_value[e] \in Nat /\ who[e] \in Nat
    BY Sizes DEF StateOK, TypeOK
  <1>2. Sends(e) => OfferOf(e) # NONE
    BY <1>1, UserIpcAssumption DEF OfferOf, Sends
  <1>3. lib[e] = "woken" => MessageIn(e) # NONE
    BY <1>1, UserIpcAssumption DEF MessageIn
  <1>4. lib[e] = "sender" => MessageIn(e) # NONE
    BY <1>1, UserIpcAssumption DEF MessageIn
  <1>5. lib[e] \notin {"woken", "sender"} => MessageIn(e) = NONE
    BY DEF MessageIn
  <1>6. QED
    BY <1>2, <1>3, <1>4, <1>5

\* A step that leaves f's part of the rendezvous alone.
Quiet(f) ==
    /\ OfferOf(f)' = OfferOf(f) /\ MessageIn(f)' = MessageIn(f)
    /\ (lib'[f] = "blocked") <=> (lib[f] = "blocked")

\* An environment that does not move is quiet.
LEMMA SameIsQuiet ==
  ASSUME NEW f \in Env, Same(f)
  PROVE  Quiet(f)
  BY DEF Quiet, Same, OfferOf, MessageIn, Sends

\* If everybody is quiet, nothing happens.
LEMMA QuietStutters ==
  ASSUME \A f \in Env : Quiet(f)
  PROVE  UNCHANGED <<offers, waits, boxes>>
  BY DEF Quiet, offers, waits, boxes

\* The steps of the library: an attempt that fails, or the transfer; a receiver
\* waits, reads the sender, reads the value.
LEMMA LibraryRefines ==
  ASSUME Inv, NEW e \in Env, Library(e)
  PROVE  [Promise!Next]_(Promise!vars)
  <1>0. StateOK /\ RecvInv
    BY DEF Inv
  <1>1. ASSUME UNCHANGED <<offers, waits, boxes>> PROVE UNCHANGED Promise!vars
    BY <1>1 DEF Promise!vars, offers, waits, boxes, OfferOf, Sends
  <1>2. ASSUME NEW r, Delivered(e, r)
        PROVE  Promise!Transfer(e, r) /\ r \in Env
    <2>0. r \in Env /\ r # e /\ lib[r] = "blocked" /\ Sends(e)
      BY <1>2 DEF Delivered
    <2>1. \A f \in Env : f # e /\ f # r => Quiet(f)
      BY <1>2, SameIsQuiet DEF Delivered
    <2>2. OfferOf(e) # NONE /\ OfferOf(e).to = r /\ OfferOf(e).value = val[e]
      BY <1>0, <1>2, <2>0, NotNone DEF OfferOf, Delivered
    <2>3. OfferOf(e)' = NONE /\ OfferOf(r)' = OfferOf(r)
      BY <1>2, <2>0 DEF Delivered, OfferOf, Sends
    <2>4. MessageIn(e)' = MessageIn(e)
      BY <1>2, <2>0 DEF Delivered, MessageIn, Sends
    <2>5. MessageIn(r)' = [from |-> e, value |-> OfferOf(e).value]
      BY <1>2, <2>2 DEF Delivered, MessageIn
    <2>6. offers' = [offers EXCEPT ![e] = NONE]
      BY <2>0, <2>1, <2>3 DEF offers, Quiet
    <2>7. boxes' = [boxes EXCEPT ![r] = [from |-> e, value |-> offers[e].value]]
      BY <2>0, <2>1, <2>4, <2>5 DEF boxes, Quiet, offers
    <2>8. waits' = waits \ {r}
      BY <1>2, <2>0, <2>1 DEF waits, Quiet, Delivered, Sends
    <2>9. offers[e] # NONE /\ offers[e].to = r /\ r \in waits
      BY <2>0, <2>2 DEF offers, waits
    <2>10. QED
      BY <2>0, <2>6, <2>7, <2>8, <2>9
         DEF Promise!Transfer, offers, waits, boxes, OfferOf, Sends
  <1>3. ASSUME NEW l, NEW w, NEW n, Moves(e, l, at[e], to[e], val[e], w, n, id[e]),
               Quiet(e)
        PROVE  UNCHANGED <<offers, waits, boxes>>
    BY <1>3, SameIsQuiet, QuietStutters DEF Moves
  <1>4. CASE TrySend(e)
    <2>1. CASE Delivered(e, to[e])
      <3>1. PICK r : r = to[e]
        OBVIOUS
      <3>2. r \in Env /\ Promise!Transfer(e, r)
        BY <1>2, <2>1, <3>1
      <3>3. QED
        BY <3>2 DEF Promise!Next
    <2>2. CASE /\ lib[e] = "send"
               /\ Moves(e, "yield", at[e], to[e], val[e], who[e], i[e], id[e])
      <3>1. Quiet(e)
        BY <2>2 DEF Quiet, Moves, OfferOf, MessageIn, Sends
      <3>2. QED
        BY <1>1, <1>3, <2>2, <3>1
    <2>3. QED
      BY <1>4, <2>1, <2>2, TrySendEffect
  <1>5. CASE Yield(e)
    <2>1. lib[e] = "yield" /\ Moves(e, "send", at[e], to[e], val[e], who[e], i[e], id[e])
      BY <1>0, <1>5, LibraryMoves
    <2>2. Quiet(e)
      BY <2>1 DEF Quiet, Moves, OfferOf, MessageIn, Sends
    <2>3. QED
      BY <1>1, <1>3, <2>1, <2>2
  <1>6. CASE SysIpcRecv(e)
    <2>1. lib[e] = "recv" /\ Moves(e, "blocked", at[e], to[e], val[e], who[e], i[e], id[e])
      BY <1>0, <1>6, LibraryMoves
    <2>2. \A f \in Env : f # e => Quiet(f)
      BY <2>1, SameIsQuiet DEF Moves
    <2>3. OfferOf(e) = NONE /\ OfferOf(e)' = NONE /\ MessageIn(e) = NONE /\ MessageIn(e)' = NONE
      BY <2>1 DEF Moves, OfferOf, MessageIn, Sends
    <2>4. UNCHANGED <<offers, boxes>>
      BY <2>2, <2>3 DEF Quiet, offers, boxes
    <2>5. waits' = waits \cup {e} /\ e \notin waits
      BY <2>1, <2>2 DEF waits, Quiet, Moves
    <2>6. offers[e] = NONE /\ boxes[e] = NONE
      BY <2>3 DEF offers, boxes
    <2>7. Promise!Wait(e)
      BY <2>4, <2>5, <2>6 DEF Promise!Wait, offers, waits, boxes, OfferOf, Sends
    <2>8. QED
      BY <2>7 DEF Promise!Next
  <1>7. CASE LoadFrom(e)
    <2>1. lib[e] = "woken"
          /\ Moves(e, "sender", at[e], to[e], val[e], env_ipc_from[e], i[e], id[e])
      BY <1>0, <1>7, LibraryMoves
    <2>2. Quiet(e)
      BY <2>1 DEF Quiet, Moves, OfferOf, MessageIn, Sends
    <2>3. QED
      BY <1>1, <1>3, <2>1, <2>2
  <1>8. CASE LoadValue(e)
    <2>1. lib[e] = "sender"
          /\ Moves(e, "user", at[e], to[e], val[e], who[e], env_ipc_value[e], id[e])
      BY <1>0, <1>8, LibraryMoves
    <2>2. \A f \in Env : f # e => Quiet(f)
      BY <2>1, SameIsQuiet DEF Moves
    <2>3. OfferOf(e)' = OfferOf(e) /\ MessageIn(e)' = NONE /\ MessageIn(e) # NONE
      BY <1>0, <2>1, NotNone DEF Moves, OfferOf, MessageIn, Sends
    <2>4. boxes' = [boxes EXCEPT ![e] = NONE] /\ boxes[e] # NONE
      BY <2>2, <2>3 DEF boxes, Quiet
    <2>5. UNCHANGED <<offers, waits>>
      BY <2>1, <2>2, <2>3 DEF offers, waits, Quiet, Moves
    <2>6. Promise!Take(e)
      BY <2>4, <2>5 DEF Promise!Take, offers, waits, boxes, OfferOf, Sends
    <2>7. QED
      BY <2>6 DEF Promise!Next
  <1>9. QED
    BY <1>4, <1>5, <1>6, <1>7, <1>8 DEF Library

\* Outside the library only the process itself moves, and a child it forks.
UserMove(e) ==
    /\ lib[e] = "user" /\ lib'[e] \in {"send", "recv", "user", "free", "panic"}
    /\ \A f \in Env : f # e => Same(f) \/ (lib[f] = "free" /\ lib'[f] = "user")

\* What fork does is such a move.
LEMMA ForkUserMove ==
  ASSUME Inv, NEW e \in Env, lib[e] = "user", UNCHANGED <<program, kernel>>,
         NEW n \in 1 .. NENV, Prefix(n),
         NEW childAt \in Label, NEW label \in Label, Fork(e, childAt, label)
  PROVE  UserMove(e)
  <1>0. StateOK /\ RecvInv
    BY DEF Inv
  <1>1. CASE n < NENV
    <2>1. Forked(e, n, childAt, label)
      BY <1>0, <1>1, ForkEffect
    <2>2. QED
      BY <2>1 DEF Forked, UserMove
  <1>2. CASE ~(n < NENV)
    <2>1. Moves(e, "panic", at[e], to[e], val[e], who[e], i[e], id[e])
      BY <1>0, <1>2, ForkEffect
    <2>2. QED
      BY <2>1 DEF Moves, UserMove
  <1>3. QED
    BY <1>1, <1>2

\* The steps of the programs are such moves.
LEMMA ProgramsMove ==
  ASSUME Inv, NEW e \in Env, Primes(e) \/ PingPong(e) \/ Fairness(e)
  PROVE  UserMove(e)
  <1>0. /\ StateOK /\ lib[e] = "user" /\ UNCHANGED <<program, kernel>>
    BY DEF Inv, Primes, PrimesUmain, Feed, Top, Prime, ForkRight, NextNumber, Filter,
           PingPong, PongUmain, Roll, Loop, Got, Sent, Fairness, Receiver, Sender, In, At
  <1> USE DEF StateOK, TypeOK, UserMove, Same
  <1>1. ASSUME NEW a, NEW t, NEW v, IpcSend(e, a, t, v), UNCHANGED <<who, id>>,
               i' = i \/ \E n : i' = [i EXCEPT ![e] = n]
        PROVE  UserMove(e)
    BY <1>0, <1>1 DEF IpcSend, kern
  <1>2. ASSUME NEW a, IpcRecv(e, a), UNCHANGED <<who, i, id>>
        PROVE  UserMove(e)
    BY <1>0, <1>2 DEF IpcRecv, kern
  <1>3. ASSUME Exit(e) PROVE UserMove(e)
    BY <1>0, <1>3 DEF Exit, kern, locals
  <1>4. ASSUME UNCHANGED <<lib, kern, to, val, who, i, id>>,
               NEW a, at' = [at EXCEPT ![e] = a]
        PROVE  UserMove(e)
    BY <1>0, <1>4 DEF kern
  <1> HIDE DEF UserMove, Same, StateOK, TypeOK
  <1>5. CASE Primes(e)
    <2>1. CASE PrimesUmain(e) \/ ForkRight(e)
      <3>1. program = "primes"
        BY <2>1 DEF PrimesUmain, ForkRight, In
      <3>2. PICK n \in 1 .. NENV : Prefix(n)
        BY <3>1 DEF Inv, PrimesInv
      <3>3. \E a \in Label : Fork(e, "top", a)
        BY <2>1 DEF PrimesUmain, ForkRight, Label
      <3>4. QED
        BY <1>0, <3>2, <3>3, ForkUserMove DEF Label
    <2>2. CASE Feed(e)
      BY <1>1, <2>2 DEF Feed
    <2>3. CASE Top(e) \/ NextNumber(e)
      BY <1>2, <2>3 DEF Top, NextNumber
    <2>4. CASE Prime(e)
      BY <1>4, <2>4 DEF Prime
    <2>5. CASE Filter(e)
      BY <1>1, <1>4, <2>5 DEF Filter
    <2>6. QED
      BY <1>5, <2>1, <2>2, <2>3, <2>4, <2>5 DEF Primes
  <1>6. CASE PingPong(e)
    <2>1. CASE PongUmain(e)
      <3>1. program = "pingpong" /\ at[e] = "umain" /\ Fork(e, "loop", "roll")
        BY <2>1 DEF PongUmain, In
      <3>2. e = 0 /\ \A f \in Env \ {0} : lib[f] = "free"
        BY <1>0, <3>1, Sizes
           DEF Inv, PongInv, Turn, Sending, Holds, Heading, Ended, Sends
      <3>3. Prefix(1) /\ 1 \in 1 .. NENV
        BY <1>0, <3>2, Sizes DEF Prefix, Alive
      <3>4. QED
        BY <1>0, <3>1, <3>3, ForkUserMove DEF Label
    <2>2. CASE Roll(e)
      BY <1>1, <2>2 DEF Roll
    <2>3. CASE Loop(e)
      BY <1>2, <2>3 DEF Loop
    <2>4. CASE Got(e)
      BY <1>1, <1>3, <2>4 DEF Got
    <2>5. CASE Sent(e)
      BY <1>2, <1>3, <2>5 DEF Sent
    <2>6. QED
      BY <1>6, <2>1, <2>2, <2>3, <2>4, <2>5 DEF PingPong
  <1>7. CASE Fairness(e)
    BY <1>1, <1>2, <1>7 DEF Fairness, Receiver, Sender
  <1>8. QED
    BY <1>5, <1>6, <1>7

\* A program step makes an offer, or the rendezvous sees nothing of it.
LEMMA ProgramsRefine ==
  ASSUME TypeOK, TypeOK', NEW e \in Env, UserMove(e)
  PROVE  [Promise!Next]_(Promise!vars)
  <1>1. \A f \in Env : f # e => Quiet(f)
    <2> SUFFICES ASSUME NEW f \in Env, f # e PROVE Quiet(f)
      OBVIOUS
    <2>1. CASE Same(f)
      BY <2>1, SameIsQuiet
    <2>2. CASE lib[f] = "free" /\ lib'[f] = "user"
      BY <2>2 DEF Quiet, OfferOf, MessageIn, Sends
    <2>3. QED
      BY <2>1, <2>2 DEF UserMove
  <1>2. MessageIn(e) = NONE /\ MessageIn(e)' = NONE /\ OfferOf(e) = NONE
    BY DEF UserMove, MessageIn, OfferOf, Sends
  <1>3. lib[e] # "blocked" /\ lib'[e] # "blocked"
    BY DEF UserMove
  <1>4. CASE lib'[e] = "send"
    <2>1. PICK r \in Env, v \in Values : r = to'[e] /\ v = val'[e]
      BY DEF TypeOK
    <2>2. OfferOf(e)' = [to |-> r, value |-> v]
      BY <1>4, <2>1 DEF OfferOf, Sends
    <2>3. offers' = [offers EXCEPT ![e] = [to |-> r, value |-> v]] /\ offers[e] = NONE
      BY <1>1, <1>2, <2>2 DEF offers, Quiet
    <2>4. UNCHANGED <<waits, boxes>>
      BY <1>1, <1>2, <1>3 DEF waits, boxes, Quiet
    <2>5. Promise!Offer(e, r, v)
      BY <2>3, <2>4 DEF Promise!Offer, offers, waits, boxes, OfferOf, Sends
    <2>6. QED
      BY <2>1, <2>5 DEF Promise!Next
  <1>5. CASE lib'[e] # "send"
    <2>1. Quiet(e)
      BY <1>2, <1>3, <1>5 DEF UserMove, Quiet, OfferOf, Sends
    <2>2. UNCHANGED <<offers, waits, boxes>>
      BY <1>1, <2>1, QuietStutters
    <2>3. QED
      BY <2>2 DEF Promise!vars, offers, waits, boxes, OfferOf, Sends
  <1>6. QED
    BY <1>4, <1>5

\* On the kernel of this commit: an offer, or a panic.
LEMMA LinkedRefines ==
  ASSUME LinkedInv, LinkedInv', NEW e \in Env, Step(e)
  PROVE  [Promise!Next]_(Promise!vars)
  <1>0. TypeOK /\ TypeOK'
    BY DEF LinkedInv
  <1>1. UNCHANGED <<program, kernel, kern, at, who, i, id, p>>
    BY LinkedSteps
  <1>2. CASE lib[e] = "send" /\ lib' = [lib EXCEPT ![e] = "sendpanic"] /\ UNCHANGED <<to, val>>
    <2>1. \A f \in Env : Quiet(f)
      BY <1>0, <1>1, <1>2 DEF TypeOK, Quiet, OfferOf, MessageIn, kern
    <2>2. QED
      BY <2>1, QuietStutters DEF Promise!vars, offers, waits, boxes, OfferOf
  <1>3. CASE /\ lib[e] = "user" /\ lib' = [lib EXCEPT ![e] = "panic"]
             /\ UNCHANGED <<to, val>>
    <2>1. UserMove(e)
      BY <1>0, <1>1, <1>3 DEF TypeOK, UserMove, Same, kern
    <2>2. QED
      BY <1>0, <2>1, ProgramsRefine
  <1>4. CASE /\ lib[e] = "user" /\ lib' = [lib EXCEPT ![e] = "send"]
             /\ to' = [to EXCEPT ![e] = 1] /\ val' = [val EXCEPT ![e] = 0]
    <2>1. UserMove(e)
      BY <1>0, <1>1, <1>4 DEF TypeOK, UserMove, Same, kern
    <2>2. QED
      BY <1>0, <2>1, ProgramsRefine
  <1>5. QED
    BY <1>2, <1>3, <1>4, LinkedSteps

\* ipc_send and ipc_recv are a rendezvous, for any number of environments: a
\* message is delivered once and whole, to a receiver that waits and whose last
\* message has been read; the retries of ipc_send neither repeat nor drop it.
THEOREM LibraryIsRendezvous == Spec => IpcIsRendezvous
  <1>1. Init => Promise!Init
    BY DEF Init, Promise!Init, MessageIn
  <1>2. Safe /\ [Next]_vars => [Promise!Next]_(Promise!vars)
    <2> SUFFICES ASSUME Safe, [Next]_vars PROVE [Promise!Next]_(Promise!vars)
      OBVIOUS
    <2>0. ASSUME Inv, NEW e \in Env, Step(e)
          PROVE  [Promise!Next]_(Promise!vars)
      <3>1. CASE Library(e)
        BY <2>0, <3>1, LibraryRefines
      <3>2. CASE Primes(e) \/ PingPong(e) \/ Fairness(e)
        <4>1. TypeOK /\ TypeOK'
          BY <2>0, NextKeeps DEF Inv, StateOK
        <4>2. QED
          BY <2>0, <3>2, <4>1, ProgramsMove, ProgramsRefine
      <3>3. QED
        BY <2>0, <3>1, <3>2 DEF Step
    <2>1. ASSUME NEW e \in Env, Step(e)
          PROVE  [Promise!Next]_(Promise!vars)
      BY <2>0, <2>1, LinkedKeeps, LinkedRefines DEF Safe
    <2>2. CASE UNCHANGED vars \/ Over
      BY <2>2 DEF Over, vars, kern, locals, Promise!vars, MessageIn
    <2>3. QED
      BY <2>1, <2>2 DEF Next
  <1>3. QED
    BY <1>1, <1>2, SafeKeeps, PTL DEF Spec, IpcIsRendezvous, Promise!Spec

-----------------------------------------------------------------------------
(* The sieve of primes.c *)

\* x gets through the filters before e, which hold the primes f.
Survives(f, e, x) == x >= 2 /\ \A j \in 1 .. e - 1 : x % f[j] # 0

\* v is the first number that gets to e.
Least(f, e, v) ==
    Survives(f, e, v) /\ \A x \in Values : Survives(f, e, x) => v <= x

\* The number that e has received last (has fed last, for process 0); 1 before.
Latest(e) ==
    IF e = 0 THEN i[0] - 1
    ELSE IF at[e] = "top" \/ (at[e] = "prime" /\ lib[e] \in {"recv", "blocked"}) THEN 1
    ELSE IF lib[e] \in {"woken", "sender"} THEN env_ipc_value[e] ELSE i[e]

\* e may still pass its latest number on.
Busy(e) ==
    Sends(e) \/ lib[e] \in {"woken", "sender"} \/ (at[e] = "filter" /\ lib[e] = "user")

\* What e has passed on or dropped: the numbers up to this one.
Handled(e) == IF Busy(e) THEN Latest(e) - 1 ELSE Latest(e)

\* Nothing is lost between e and its right neighbour.
Link(e) == \A x \in Values : Survives(p, e + 1, x) /\ x <= Handled(e) => x <= Latest(e + 1)

\* The last process of the chain has no neighbour yet.
Tail(e) ==
    \/ at[e] = "umain" /\ e = 0 /\ lib[e] \in {"user", "panic"} /\ i[e] = 2
    \/ at[e] = "top" /\ e > 0 /\ lib[e] = "user"
    \/ at[e] = "prime" /\ e > 0 /\ lib[e] \in {"recv", "blocked"}
    \/ at[e] = "prime" /\ e > 0 /\ lib[e] \in {"woken", "sender", "user"}
          /\ Least(p, e, Latest(e))
    \/ at[e] = "fork" /\ e > 0 /\ lib[e] \in {"user", "panic"} /\ i[e] = p[e]
          /\ Least(p, e, p[e])

\* Every other one feeds or filters, and sends to the next slot.
Inner(e) ==
    /\ id[e] = e + 1
    /\ \/ at[e] = "feed" /\ e = 0 /\ lib[e] \in {"user", "send", "yield"} /\ i[e] >= 2
       \/ at[e] = "next" /\ e > 0 /\ lib[e] \in {"user", "send", "yield"} /\ Least(p, e, p[e])
       \/ at[e] = "filter" /\ e > 0 /\ Least(p, e, p[e])
             /\ lib[e] \in {"recv", "blocked", "woken", "sender", "user"}
    /\ Sends(e) => to[e] = e + 1 /\ val[e] = Latest(e) /\ Survives(p, e + 1, Latest(e))

Process(e, n) ==
    /\ IF e = n - 1 THEN Tail(e) ELSE Inner(e)
    /\ 0 < e /\ e < n - 1 => Survives(p, e, Latest(e))

(***************************************************************************)
(* The chain is the first n slots: process e passes on, in order, what the *)
(* primes before it do not divide.                                         *)
(***************************************************************************)
Chain(n) ==
    /\ Prefix(n) /\ p[0] = 0 /\ \A e \in Env : e >= n => p[e] = 0
    /\ \A e \in 0 .. n - 1 : Process(e, n)
    /\ \A e \in 0 .. n - 2 : Link(e)

SieveInv == program = "primes" => \E n \in 1 .. NENV : Chain(n)

\* Division with remainder, as primeproc uses it.
LEMMA DivMod ==
  ASSUME NEW n \in Nat \ {0}, NEW x \in Int
  PROVE  \E q \in Int, r \in 0 .. n - 1 : x % n = r /\ x = n * q + r
  <1>1. PICK q \in Int, r \in 0 .. n - 1 : q = x \div n /\ r = x % n
    OBVIOUS
  <1>2. x = n * q + r
    BY <1>1
  <1>3. QED
    BY <1>1, <1>2, Zenon

\* The remainder of a multiple of n and a smaller number is that number.
LEMMA ModOfSum ==
  ASSUME NEW n \in Nat \ {0}, NEW k \in Int, NEW e \in 0 .. n - 1
  PROVE  (n * k + e) % n = e
  <1>1. PICK q \in Int, r \in 0 .. n - 1 :
            r = (n * k + e) % n /\ q = (n * k + e) \div n
    OBVIOUS
  <1>2. n * k + e = n * q + r /\ n * k \in Int /\ n * q \in Int
    BY <1>1
  <1>3. ASSUME NEW u \in Int, NEW v \in Int, u < v PROVE n * u + n <= n * v
    <2>1. n * (u + 1) <= n * v
      BY <1>3
    <2>2. QED
      BY <2>1
  <1>4. k = q
    BY <1>2, <1>3
  <1>5. QED
    BY <1>1, <1>2, <1>4

\* Remainders of numbers next to the divisor.
LEMMA ModNear ==
  ASSUME NEW n \in Nat \ {0}, NEW x \in Int
  PROVE  /\ x \in 0 .. n - 1 => x % n = x
         /\ x \in n .. n + n - 1 => x % n = x - n
         /\ x \in -n .. -1 => x % n = x + n
  <1>1. ASSUME NEW k \in Int, x - n * k \in 0 .. n - 1
        PROVE  x % n = x - n * k
    <2>1. (n * k + (x - n * k)) % n = x - n * k
      BY <1>1, ModOfSum
    <2>2. QED
      BY <2>1
  <1>2. n * 0 = 0 /\ n * 1 = n /\ n * (-1) = -n
    OBVIOUS
  <1>3. QED
    BY <1>1, <1>2

\* Divisibility is transitive.
LEMMA DividesOn ==
  ASSUME NEW a \in Nat, NEW b \in Nat \ {0}, NEW c \in Nat \ {0}, a % b = 0, b % c = 0
  PROVE  a % c = 0
  <1>0. a \in Int /\ b \in Int
    OBVIOUS
  <1>1. PICK k \in Int : a = b * k
    <2>1. PICK k \in Int, r \in 0 .. b - 1 : a % b = r /\ a = b * k + r
      BY <1>0, DivMod
    <2>2. b * k \in Int /\ r = 0
      BY <2>1
    <2>3. QED
      BY <2>1, <2>2
  <1>2. PICK m \in Int : b = c * m
    BY DivMod
  <1>3. a = c * (m * k) + 0
    BY <1>1, <1>2
  <1>4. m * k \in Int
    OBVIOUS
  <1>5. QED
    BY <1>3, <1>4, ModOfSum

\* A divisor of a positive number is not greater.
LEMMA DivisorBelow ==
  ASSUME NEW a \in Nat \ {0}, NEW b \in Nat \ {0}, a % b = 0
  PROVE  b <= a
  BY ModNear

\* What gets to a process has got to those before it.
LEMMA SurvivesBefore ==
  ASSUME NEW f, NEW e \in Nat, NEW d \in 1 .. e, NEW x, Survives(f, e, x)
  PROVE  Survives(f, d, x)
  BY DEF Survives

\* A chain in which every process holds the first number that gets to it.
Holding(f, m) == \A j \in 1 .. m : f[j] \in Values /\ Least(f, j, f[j])

\* Such a number is prime: a divisor of it would have got there before.
LEMMA HeldIsPrime ==
  ASSUME NEW f, NEW m \in Nat, Holding(f, m), NEW e \in 1 .. m
  PROVE  IsPrime(f[e]) /\ f[e] \in Nat \ 0 .. 1
  <1>1. /\ \A j \in 1 .. m : f[j] \in Nat /\ f[j] >= 2 /\ Least(f, j, f[j])
        /\ f[e] \in Values
    BY Sizes DEF Holding, Least, Survives
  <1>2. ASSUME NEW d \in 2 .. f[e] - 1, f[e] % d = 0
        PROVE  FALSE
    <2>1. ASSUME NEW j \in 1 .. e - 1, d % f[j] = 0
          PROVE  FALSE
      <3>1. f[e] % f[j] = 0
        <4>1. j \in 1 .. m /\ f[j] \in Nat \ {0} /\ d \in Nat \ {0} /\ f[e] \in Nat
          BY <1>1
        <4>2. QED
          BY <1>2, <2>1, <4>1, DividesOn
      <3>2. Survives(f, e, f[e])
        BY <1>1 DEF Least
      <3>3. QED
        BY <3>1, <3>2 DEF Survives
    <2>2. Survives(f, e, d)
      BY <2>1 DEF Survives
    <2>3. d \in Values
      BY <1>1, Sizes DEF Values
    <2>4. f[e] <= d
      BY <1>1, <2>2, <2>3 DEF Least
    <2>5. QED
      BY <1>1, <2>4
  <1>3. QED
    BY <1>1, <1>2 DEF IsPrime

\* They are all the primes up to the last one, each once.
LEMMA HeldAreThePrimes ==
  ASSUME NEW f, NEW m \in Nat \ {0}, Holding(f, m)
  PROVE  Cardinality(PrimesTo(f[m])) = m
  <1> DEFINE g == [j \in 1 .. m |-> f[j]]
             S == PrimesTo(f[m])
  <1>0. \A j \in 1 .. m : /\ IsPrime(f[j]) /\ f[j] \in Nat /\ f[j] >= 2 /\ f[j] \in Values
                          /\ Least(f, j, f[j])
    BY HeldIsPrime DEF Holding
  <1>1. ASSUME NEW j \in 1 .. m PROVE f[j] \in S
    <2>1. Survives(f, j, f[m])
      BY <1>0, SurvivesBefore DEF Least
    <2>2. f[j] <= f[m]
      BY <1>0, <2>1 DEF Least
    <2>3. QED
      BY <1>0, <2>2 DEF PrimesTo
  <1>2. ASSUME NEW q \in S PROVE \E j \in 1 .. m : f[j] = q
    <2>0. q \in 2 .. f[m] /\ IsPrime(q) /\ q \in Values
      BY <1>0, Sizes DEF PrimesTo, Values
    <2>1. CASE q = f[m]
      BY <2>1
    <2>2. CASE q # f[m]
      <3>1. ~Survives(f, m, q)
        BY <1>0, <2>0, <2>2 DEF Least
      <3>2. PICK j \in 1 .. m - 1 : q % f[j] = 0
        BY <2>0, <3>1 DEF Survives
      <3>3. f[j] \in Nat /\ f[j] >= 2 /\ j \in 1 .. m
        BY <1>0
      <3>4. f[j] <= q
        BY <2>0, <3>2, <3>3, DivisorBelow
      <3>5. ~(f[j] \in 2 .. q - 1)
        BY <2>0, <3>2 DEF IsPrime
      <3>6. f[j] = q
        BY <2>0, <3>3, <3>4, <3>5
      <3>7. QED
        BY <3>3, <3>6
    <2>3. QED
      BY <2>1, <2>2
  <1>3. ASSUME NEW j \in 1 .. m, NEW k \in 1 .. m, j < k
        PROVE  f[j] # f[k]
    <2>1. Survives(f, k, f[k])
      BY <1>0 DEF Least
    <2>2. f[k] % f[j] # 0
      BY <1>3, <2>1 DEF Survives
    <2>3. f[j] % f[j] = 0
      BY <1>0, ModNear
    <2>4. QED
      BY <2>2, <2>3
  <1>4. g \in Bijection(1 .. m, S)
    <2>1. g \in [1 .. m -> S]
      BY <1>1
    <2>2. \A a, b \in 1 .. m : g[a] = g[b] => a = b
      BY <1>3
    <2>3. \A t \in S : \E s \in 1 .. m : g[s] = t
      BY <1>2
    <2>4. QED
      BY <2>1, <2>2, <2>3 DEF Bijection, Injection, Surjection, IsInjective
  <1>5. ExistsBijection(1 .. m, S)
    BY <1>4 DEF ExistsBijection
  <1>6. QED
    BY <1>5, FS_CountingElements

\* In the chain every process holds the next prime.
LEMMA ChainIsRight ==
  ASSUME StateOK, SieveInv
  PROVE  SieveIsRight
  <1> SUFFICES ASSUME program = "primes", NEW e \in Env, p[e] # 0,
                      at[e] # "top" /\ at[e] # "prime"
               PROVE  IsPrime(p[e]) /\ Cardinality(PrimesTo(p[e])) = e
    BY DEF SieveIsRight
  <1>1. PICK n \in 1 .. NENV : Chain(n)
    BY DEF SieveInv
  <1>2. e \in 1 .. n - 1
    BY <1>1, Sizes DEF Chain
  <1>3. ASSUME NEW j \in 1 .. e PROVE p[j] \in Values /\ Least(p, j, p[j])
    <2>0. j \in 0 .. n - 1 /\ j \in Env /\ Process(j, n)
      BY <1>1, <1>2, Sizes DEF Chain, Env
    <2>1. CASE j = n - 1
      BY <1>2, <2>0, <2>1 DEF Process, Tail, StateOK, TypeOK
    <2>2. CASE j # n - 1
      BY <2>0, <2>2 DEF Process, Inner, StateOK, TypeOK
    <2>3. QED
      BY <2>1, <2>2
  <1>4. Holding(p, e) /\ e \in Nat \ {0}
    BY <1>2, <1>3, Sizes DEF Holding
  <1>5. QED
    BY <1>4, HeldIsPrime, HeldAreThePrimes

\* What survives depends on the primes before only.
LEMMA SurvivesAlike ==
  ASSUME NEW f, NEW g, NEW n \in Nat, \A j \in 0 .. n - 2 : f[j] = g[j],
         NEW e \in 0 .. n - 1
  PROVE  /\ \A x : Survives(f, e, x) <=> Survives(g, e, x)
         /\ \A v : Least(f, e, v) <=> Least(g, e, v)
  <1>1. \A x : Survives(f, e, x) <=> Survives(g, e, x)
    BY DEF Survives
  <1>2. QED
    BY <1>1 DEF Least

Numbers == \A e \in Env : Latest(e) \in Int /\ Handled(e) \in Int

\* The numbers that the processes have received and handled are numbers.
LEMMA SieveTypes == StateOK => Numbers
  <1> SUFFICES ASSUME StateOK, NEW e \in Env PROVE Latest(e) \in Int /\ Handled(e) \in Int
    BY DEF Numbers
  <1>1. i[e] \in Values /\ env_ipc_value[e] \in Values /\ i[0] \in Values
    BY Sizes DEF StateOK, TypeOK
  <1>2. \A x \in Values : x \in Int
    BY Sizes
  <1>3. Latest(e) \in Int
    BY <1>1, <1>2 DEF Latest
  <1>4. QED
    BY <1>3 DEF Handled

\* The primes before the last process stay.
PrimesStay(n) == \A j \in 0 .. n - 2 : p'[j] = p[j]

\* A process that does not move keeps its part of the invariant.
LEMMA Untouched ==
  ASSUME NEW n \in 1 .. NENV, NEW f \in 0 .. n - 1, Same(f), PrimesStay(n), p'[f] = p[f]
  PROVE  /\ Latest(f)' = Latest(f) /\ Handled(f)' = Handled(f)
         /\ Process(f, n) => Process(f, n)'
  <1>1. Latest(f)' = Latest(f) /\ (Busy(f)' <=> Busy(f))
    BY DEF Latest, Busy, Same, Sends
  <1>2. Handled(f)' = Handled(f)
    BY <1>1 DEF Handled
  <1>3. /\ \A x : Survives(p', f, x) <=> Survives(p, f, x)
        /\ \A v : Least(p', f, v) <=> Least(p, f, v)
    BY SurvivesAlike, Sizes DEF PrimesStay
  <1>4. f < n - 1 => \A x : Survives(p', f + 1, x) <=> Survives(p, f + 1, x)
    <2> SUFFICES ASSUME f < n - 1
                 PROVE  \A x : Survives(p', f + 1, x) <=> Survives(p, f + 1, x)
      OBVIOUS
    <2>1. f + 1 \in 0 .. n - 1 /\ n \in Nat
      BY Sizes
    <2>2. QED
      BY <2>1, SurvivesAlike DEF PrimesStay
  <1>5. Tail(f) => Tail(f)'
    BY <1>1, <1>3 DEF Tail, Same
  <1>6. f < n - 1 /\ Inner(f) => Inner(f)'
    BY <1>1, <1>3, <1>4 DEF Inner, Same, Sends
  <1>7. Process(f, n) => Process(f, n)'
    BY <1>1, <1>3, <1>5, <1>6, Sizes DEF Process
  <1>8. QED
    BY <1>1, <1>2, <1>7

\* A link holds on while its left end has handled no more and its right end
\* has received no less.
LEMMA LinkKeeps ==
  ASSUME StateOK, StateOK', NEW n \in 1 .. NENV, NEW e \in 0 .. n - 2, PrimesStay(n),
         Handled(e)' <= Handled(e), Latest(e + 1) <= Latest(e + 1)', Link(e)
  PROVE  Link(e)'
  <1>1. e + 1 \in 0 .. n - 1 /\ e + 1 \in Env /\ e \in Env /\ n \in Nat
    BY Sizes DEF Env
  <1>2. \A x : Survives(p', e + 1, x) <=> Survives(p, e + 1, x)
    BY <1>1, SurvivesAlike DEF PrimesStay
  <1>3. Latest(e + 1) \in Int /\ Handled(e) \in Int
    BY <1>1, SieveTypes DEF Numbers
  <1>4. Latest(e + 1)' \in Int /\ Handled(e)' \in Int
    <2>1. Numbers'
      BY SieveTypes, PTL
    <2>2. QED
      BY <1>1, <2>1 DEF Numbers
  <1>5. QED
    BY <1>2, <1>3, <1>4, Sizes DEF Link

\* Only e moves: its neighbours' links and its own part are left to show.
OnlyMoves(e, n) ==
    /\ e \in 0 .. n - 1 /\ lib'[e] # "free"
    /\ \A f \in Env : f # e => Same(f) /\ p'[f] = p[f]
    /\ e = 0 \/ e < n - 1 => p'[e] = p[e]

\* A step of one process of the sieve keeps the chain if it keeps its own
\* part and its links to the processes before and after it.
LEMMA ChainMove ==
  ASSUME StateOK, StateOK', NEW n \in 1 .. NENV, Chain(n), NEW e, OnlyMoves(e, n),
         Process(e, n)', e > 0 => Link(e - 1)', e < n - 1 => Link(e)'
  PROVE  Chain(n)'
  <1>0. Env = 0 .. NENV - 1 /\ NENV \in Nat /\ e \in Env /\ 0 .. n - 1 \subseteq Env
    BY Sizes DEF Env, OnlyMoves
  <1>1. PrimesStay(n)
    BY <1>0 DEF PrimesStay, OnlyMoves
  <1>2. Prefix(n)'
    <2>1. \A f \in Env : Alive(f)' <=> Alive(f)
      <3>1. Alive(e)
        BY <1>0 DEF Chain, Prefix, OnlyMoves
      <3>2. QED
        BY <1>0, <3>1 DEF Alive, OnlyMoves, Same
    <2>2. QED
      BY <2>1 DEF Chain, Prefix
  <1>3. p'[0] = 0 /\ \A f \in Env : f >= n => p'[f] = 0
    BY <1>0 DEF Chain, OnlyMoves
  <1>4. ASSUME NEW f \in 0 .. n - 1, f # e
        PROVE  Latest(f)' = Latest(f) /\ Handled(f)' = Handled(f) /\ Process(f, n)'
    BY <1>0, <1>1, <1>4, Untouched DEF Chain, OnlyMoves
  <1>5. \A f \in 0 .. n - 1 : Process(f, n)'
    BY <1>4
  <1>6. ASSUME NEW f \in 0 .. n - 2 PROVE Link(f)'
    <2>1. CASE f = e
      BY <2>1
    <2>2. CASE f + 1 = e
      <3>1. f = e - 1 /\ e > 0
        BY <1>0, <2>2
      <3>2. QED
        BY <3>1
    <2>3. CASE f # e /\ f + 1 # e
      <3>1. f \in 0 .. n - 1 /\ f + 1 \in 0 .. n - 1
        BY <1>0
      <3>2. Handled(f)' = Handled(f) /\ Latest(f + 1)' = Latest(f + 1)
        BY <1>4, <2>3, <3>1
      <3>3. Handled(f) \in Int /\ Latest(f + 1) \in Int
        BY <1>0, <3>1, SieveTypes DEF Numbers
      <3>4. QED
        BY <1>1, <3>2, <3>3, LinkKeeps DEF Chain
    <2>4. QED
      BY <2>1, <2>2, <2>3
  <1>7. QED
    BY <1>2, <1>3, <1>5, <1>6 DEF Chain

\* The latest number of e stays, and e has handled no more than before.
LEMMA ChainRest ==
  ASSUME StateOK, StateOK', NEW n \in 1 .. NENV, Chain(n), NEW e, OnlyMoves(e, n),
         Process(e, n)', Latest(e)' = Latest(e), e < n - 1 => Handled(e)' <= Handled(e)
  PROVE  Chain(n)'
  <1>0. Env = 0 .. NENV - 1 /\ NENV \in Nat /\ e \in Env /\ 0 .. n - 1 \subseteq Env
        /\ e \in 0 .. n - 1
    BY Sizes DEF Env, OnlyMoves
  <1>1. PrimesStay(n)
    BY <1>0 DEF PrimesStay, OnlyMoves
  <1>2. \A f \in Env : Latest(f) \in Int /\ Handled(f) \in Int
    BY SieveTypes DEF Numbers
  <1>3. e > 0 => Link(e - 1)'
    <2> SUFFICES ASSUME e > 0 PROVE Link(e - 1)'
      OBVIOUS
    <2>1. PICK f \in 0 .. n - 2 : f = e - 1
      BY <1>0
    <2>2. f + 1 = e /\ f \in 0 .. n - 1 /\ f # e
      BY <1>0, <2>1
    <2>3. Handled(f)' = Handled(f)
      BY <1>0, <1>1, <2>2, Untouched DEF OnlyMoves
    <2>4. Latest(f + 1)' = Latest(f + 1)
      BY <2>2
    <2>5. Link(f)'
      BY <1>0, <1>1, <1>2, <2>2, <2>3, <2>4, LinkKeeps DEF Chain
    <2>6. QED
      BY <2>1, <2>5
  <1>4. e < n - 1 => Link(e)'
    <2> SUFFICES ASSUME e < n - 1 PROVE Link(e)'
      OBVIOUS
    <2>1. e \in 0 .. n - 2 /\ e + 1 \in 0 .. n - 1 /\ e + 1 # e
      BY <1>0
    <2>2. Latest(e + 1)' = Latest(e + 1)
      BY <1>0, <1>1, <2>1, Untouched DEF OnlyMoves
    <2>3. QED
      BY <1>0, <1>1, <1>2, <2>1, <2>2, LinkKeeps DEF Chain
  <1>5. QED
    BY <1>3, <1>4, ChainMove

\* A step of the library in which no message is delivered.
CallGoesOn(e, l, w, m) ==
    \/ lib[e] = "yield" /\ l = "send" /\ w = who[e] /\ m = i[e]
    \/ lib[e] = "send" /\ l = "yield" /\ w = who[e] /\ m = i[e]
    \/ lib[e] = "recv" /\ l = "blocked" /\ w = who[e] /\ m = i[e]
    \/ lib[e] = "woken" /\ l = "sender" /\ w = env_ipc_from[e] /\ m = i[e]
    \/ lib[e] = "sender" /\ l = "user" /\ w = who[e] /\ m = env_ipc_value[e]

\* It leaves the sieve as it is: ipc_recv's two loads are of one message.
LEMMA SieveCall ==
  ASSUME StateOK, NEW n \in 1 .. NENV, Chain(n), NEW e \in Env, p' = p,
         NEW l, NEW w, NEW m, CallGoesOn(e, l, w, m),
         Moves(e, l, at[e], to[e], val[e], w, m, id[e])
  PROVE  Chain(n)'
  <1>0. StateOK' /\ e \in 0 .. n - 1 /\ lib'[e] # "free"
    BY Sizes DEF Moves, CallGoesOn, Chain, Prefix, Alive
  <1>1. OnlyMoves(e, n)
    BY <1>0 DEF OnlyMoves, Moves
  <1>2. Process(e, n)
    BY <1>0 DEF Chain
  <1>3. Latest(e)' = Latest(e)
    BY <1>2 DEF Latest, Moves, CallGoesOn, Process, Tail, Inner
  <1>4. e < n - 1 => Handled(e)' = Handled(e)
    <2> SUFFICES ASSUME e < n - 1 PROVE Busy(e)' <=> Busy(e)
      BY <1>3 DEF Handled
    <2>1. Inner(e)
      BY <1>0, <1>2 DEF Process
    <2>2. QED
      BY <2>1 DEF Busy, Sends, Moves, CallGoesOn, Inner
  <1>5. Tail(e) => Tail(e)'
    BY <1>3 DEF Tail, Moves, CallGoesOn
  <1>6. Inner(e) => Inner(e)'
    BY <1>3 DEF Inner, Moves, CallGoesOn, Sends
  <1>7. Process(e, n)'
    BY <1>2, <1>3, <1>5, <1>6 DEF Process
  <1>8. Handled(e) \in Int
    BY SieveTypes DEF Numbers
  <1>9. QED
    BY <1>0, <1>1, <1>3, <1>4, <1>7, <1>8, ChainRest

\* A delivery: the number that e hands on is the next one that its neighbour
\* is due, whatever the neighbour has received before.
LEMMA SieveDelivery ==
  ASSUME StateOK, NEW n \in 1 .. NENV, Chain(n), NEW e \in Env, NEW r, p' = p,
         Delivered(e, r)
  PROVE  Chain(n)'
  <1>0. /\ StateOK' /\ Env = 0 .. NENV - 1 /\ NENV \in Nat /\ 0 .. n - 1 \subseteq Env
        /\ lib[e] \in {"send", "yield"} /\ lib[r] = "blocked" /\ r \in Env /\ to[e] = r
        /\ n \in Nat
    BY Sizes DEF Delivered, Sends, Env
  <1>1. e \in 0 .. n - 1 /\ r \in 0 .. n - 1 /\ Process(e, n) /\ Process(r, n)
    BY <1>0 DEF Chain, Prefix, Alive
  <1>2. e < n - 1 /\ Inner(e)
    <2>1. ~Tail(e)
      BY <1>0 DEF Tail
    <2>2. QED
      BY <1>1, <2>1 DEF Process
  <1>3. r = e + 1 /\ r > 0 /\ val[e] = Latest(e) /\ Survives(p, r, Latest(e))
    BY <1>0, <1>1, <1>2 DEF Inner, Sends
  <1>4. PrimesStay(n)
    BY DEF PrimesStay
  <1>5. \A f \in Env : Latest(f) \in Int /\ Handled(f) \in Int
    BY SieveTypes DEF Numbers
  <1>6. /\ Latest(e)' = Latest(e) /\ Handled(e) = Latest(e) - 1 /\ Handled(e)' = Latest(e)
    BY <1>0, <1>2 DEF Latest, Handled, Busy, Sends, Delivered, Inner
  <1>7. at[r] \in {"prime", "filter"} /\ at'[r] = at[r] /\ (at[r] = "prime" <=> r = n - 1)
    BY <1>0, <1>1 DEF Process, Tail, Inner, Delivered
  <1>8. Latest(r)' = Latest(e) /\ Handled(r) = Latest(r) /\ Handled(r)' = Latest(e) - 1
        /\ (at[r] = "prime" => Latest(r) = 1)
    BY <1>0, <1>3, <1>7 DEF Latest, Handled, Busy, Sends, Delivered
  <1>9. \A x \in Values : Survives(p, r, x) /\ x < Latest(e) => x <= Latest(r)
    <2>1. e \in 0 .. n - 2
      BY <1>1, <1>2
    <2>2. Link(e)
      BY <2>1 DEF Chain
    <2>3. SUFFICES ASSUME NEW x \in Values, Survives(p, r, x), x < Latest(e)
                   PROVE  x <= Latest(r)
      OBVIOUS
    <2>4. x \in Int /\ Latest(e) \in Int /\ Handled(e) = Latest(e) - 1
      BY <1>5, <1>6, Sizes
    <2>5. x <= Handled(e)
      BY <2>3, <2>4
    <2>6. \A y \in Values : Survives(p, r, y) /\ y <= Handled(e) => y <= Latest(r)
      BY <1>3, <2>2 DEF Link
    <2>7. QED
      BY <2>3, <2>5, <2>6
  <1>10. Process(e, n)'
    <2>1. Inner(e)'
      BY <1>0, <1>2 DEF Inner, Delivered, Sends
    <2>2. QED
      BY <1>1, <1>2, <1>6, <2>1 DEF Process
  <1>11. Process(r, n)'
    <2>1. CASE r = n - 1
      <3>1. Least(p, r, Latest(e))
        <4>1. ASSUME NEW x \in Values, Survives(p, r, x) PROVE Latest(e) <= x
          <5>1. x >= 2 /\ x \in Int
            BY <4>1, Sizes DEF Survives
          <5>2. Latest(r) = 1 /\ Latest(e) \in Int
            BY <1>5, <1>7, <1>8, <2>1
          <5>3. ~(x < Latest(e))
            BY <1>9, <4>1, <5>1, <5>2
          <5>4. QED
            BY <5>1, <5>2, <5>3
        <4>2. QED
          BY <1>3, <4>1 DEF Least
      <3>2. Tail(r)'
        BY <1>3, <1>7, <1>8, <2>1, <3>1 DEF Tail, Delivered
      <3>3. QED
        BY <1>3, <1>8, <2>1, <3>2 DEF Process
    <2>2. CASE r # n - 1
      <3>1. Inner(r)
        BY <1>1, <2>2 DEF Process
      <3>2. Inner(r)'
        BY <1>7, <2>2, <3>1 DEF Inner, Delivered, Sends
      <3>3. QED
        BY <1>3, <1>8, <2>2, <3>2 DEF Process
    <2>3. QED
      BY <2>1, <2>2
  <1>12. ASSUME NEW f \in 0 .. n - 1, f # e, f # r
         PROVE  Latest(f)' = Latest(f) /\ Handled(f)' = Handled(f) /\ Process(f, n)'
    <2>1. Same(f) /\ p'[f] = p[f] /\ Process(f, n)
      BY <1>0, <1>12 DEF Delivered, Chain
    <2>2. QED
      BY <1>4, <2>1, Untouched
  <1>13. ASSUME NEW f \in 0 .. n - 2 PROVE Link(f)'
    <2>0. f \in 0 .. n - 1 /\ f + 1 \in 0 .. n - 1 /\ f \in Env /\ f + 1 \in Env /\ Link(f)
      BY <1>0, <1>13 DEF Chain
    <2>1. CASE f = e
      BY <1>3, <1>6, <1>8, <2>1 DEF Link
    <2>2. CASE f = r
      <3>1. f + 1 # e /\ f + 1 # r
        BY <1>1, <1>3, <2>0, <2>2
      <3>2. Latest(f + 1)' = Latest(f + 1)
        BY <1>12, <2>0, <3>1
      <3>3. ASSUME NEW x \in Values, Survives(p, f + 1, x), x <= Latest(e) - 1
            PROVE  x <= Latest(f + 1)
        <4>1. Survives(p, r, x)
          <5>1. f + 1 \in Nat /\ r \in 1 .. f + 1
            BY <1>1, <1>3, <2>0, <2>2
          <5>2. QED
            BY <3>3, <5>1, SurvivesBefore
        <4>2. x <= Latest(r)
          BY <1>0, <1>5, <1>9, <3>3, <4>1, Sizes
        <4>3. QED
          BY <1>8, <2>0, <2>2, <3>3, <4>2 DEF Link
      <3>4. QED
        BY <1>8, <2>2, <3>2, <3>3 DEF Link
    <2>3. CASE f # e /\ f # r
      <3>1. f + 1 # r
        BY <1>1, <1>3, <2>0, <2>3
      <3>2. Handled(f)' = Handled(f) /\ Latest(f + 1)' = Latest(f + 1)
        <4>1. CASE f + 1 = e
          BY <1>6, <1>12, <2>0, <2>3, <4>1
        <4>2. CASE f + 1 # e
          BY <1>12, <2>0, <2>3, <3>1, <4>2
        <4>3. QED
          BY <4>1, <4>2
      <3>3. Handled(f)' <= Handled(f) /\ Latest(f + 1) <= Latest(f + 1)'
        BY <1>5, <2>0, <3>2
      <3>4. QED
        BY <1>0, <1>4, <2>0, <3>3, LinkKeeps
    <2>4. QED
      BY <2>1, <2>2, <2>3
  <1>14. Prefix(n)'
    BY DEF Chain, Prefix, Alive, Delivered, Same, Sends
  <1>15. \A f \in 0 .. n - 1 : Process(f, n)'
    BY <1>10, <1>11, <1>12
  <1>16. QED
    BY <1>13, <1>14, <1>15 DEF Chain

\* The steps of the library.
LEMMA SieveLibrary ==
  ASSUME Inv, NEW n \in 1 .. NENV, Chain(n), NEW e \in Env, Library(e)
  PROVE  Chain(n)'
  <1>0. StateOK /\ RecvInv /\ p' = p
    BY DEF Inv, Library, TrySend, Yield, SysIpcRecv, LoadFrom, LoadValue, locals
  <1>1. ASSUME NEW l, NEW w, NEW m, CallGoesOn(e, l, w, m),
               Moves(e, l, at[e], to[e], val[e], w, m, id[e])
        PROVE  Chain(n)'
    BY <1>0, <1>1, SieveCall
  <1>2. CASE TrySend(e)
    <2>1. CASE Delivered(e, to[e])
      <3>1. PICK r : r = to[e]
        OBVIOUS
      <3>2. Delivered(e, r)
        BY <2>1, <3>1 DEF Delivered, Same, Sends
      <3>3. QED
        BY <1>0, <3>2, SieveDelivery
    <2>2. CASE /\ lib[e] = "send"
               /\ Moves(e, "yield", at[e], to[e], val[e], who[e], i[e], id[e])
      <3>1. CallGoesOn(e, "yield", who[e], i[e])
        BY <2>2 DEF CallGoesOn
      <3>2. QED
        BY <1>1, <2>2, <3>1
    <2>3. QED
      BY <1>2, <2>1, <2>2, TrySendEffect
  <1>3. CASE Yield(e) \/ SysIpcRecv(e) \/ LoadFrom(e) \/ LoadValue(e)
    BY <1>0, <1>1, <1>3, LibraryMoves DEF CallGoesOn
  <1>4. QED
    BY <1>2, <1>3 DEF Library

\* fork: the chain gets one longer; nothing that its new end is due has been
\* handled yet.
LEMMA SieveFork ==
  ASSUME Inv, NEW n \in 1 .. NENV, Chain(n), NEW e \in Env, lib[e] = "user",
         NEW label, Forked(e, n, "top", label), n < NENV,
         \/ at[e] = "umain" /\ label = "feed"
         \/ at[e] = "fork" /\ label = "next"
  PROVE  Chain(n + 1)'
  <1>0. /\ StateOK /\ StateOK' /\ Env = 0 .. NENV - 1 /\ NENV \in Nat /\ 0 .. n - 1 \subseteq Env
        /\ n \in Nat /\ n \in Env
    BY Sizes DEF Inv, Env, Forked
  <1>1. e = n - 1 /\ Tail(e) /\ Process(e, n)
    <2>1. e \in 0 .. n - 1 /\ Process(e, n)
      BY <1>0 DEF Chain, Prefix, Alive
    <2>2. ~Inner(e)
      BY DEF Inner
    <2>3. QED
      BY <2>1, <2>2 DEF Process
  <1>a. \/ at[e] = "umain" /\ e = 0 /\ i[e] = 2
        \/ at[e] = "fork" /\ e > 0 /\ i[e] = p[e] /\ Least(p, e, p[e])
    BY <1>1 DEF Tail
  <1>b. i[e] \in Int /\ p[e] \in Int
    <2>1. i[e] \in Values /\ p[e] \in Values
      BY <1>0 DEF StateOK, TypeOK
    <2>2. \A x \in Values : x \in Int
      BY Sizes
    <2>3. QED
      BY <2>1, <2>2
  <1>2. p'[n] = p[e] /\ \A f \in Env : f # n => p'[f] = p[f]
    BY <1>0 DEF Forked, Inv, StateOK, TypeOK
  <1>3. /\ \A x : Survives(p', e, x) <=> Survives(p, e, x)
        /\ \A v : Least(p', e, v) <=> Least(p, e, v)
    <2>1. \A j \in 0 .. n - 2 : p'[j] = p[j]
      BY <1>0, <1>2
    <2>2. e \in 0 .. n - 1
      BY <1>0, <1>1
    <2>3. QED
      BY <1>0, <2>1, <2>2, SurvivesAlike
  <1>4. Latest(e)' = i[e] - (IF e = 0 THEN 1 ELSE 0) /\ Handled(e)' = Latest(e)'
        /\ Latest(n)' = 1
    <2>1. /\ i'[e] = i[e] /\ lib'[e] = "user" /\ at'[e] = label
          /\ at'[n] = "top" /\ n # 0
      BY DEF Forked
    <2>2. QED
      BY <1>b, <2>1 DEF Latest, Handled, Busy, Sends
  <1>5. Process(e, n + 1)'
    <2>1. e # (n + 1) - 1 /\ id'[e] = e + 1 /\ lib'[e] = "user" /\ i'[e] = i[e]
          /\ at'[e] = label
      BY <1>0, <1>1 DEF Forked
    <2>2. p'[e] = p[e]
      BY <1>0, <1>1, <1>2
    <2>3. Inner(e)'
      BY <1>1, <1>3, <2>1, <2>2 DEF Inner, Tail, Sends
    <2>4. e > 0 => Survives(p', e, Latest(e)')
      <3> SUFFICES ASSUME e > 0 PROVE Survives(p', e, Latest(e)')
        OBVIOUS
      <3>1. i[e] = p[e] /\ Least(p, e, p[e]) /\ i[e] \in Int
        BY <1>a, <1>b
      <3>2. Latest(e)' = p[e]
        BY <1>4, <3>1
      <3>3. QED
        BY <1>3, <3>1, <3>2 DEF Least
    <2>5. QED
      BY <2>1, <2>3, <2>4 DEF Process
  <1>6. Process(n, n + 1)'
    BY <1>0, <1>4 DEF Process, Tail, Forked
  <1>7. Link(e)'
    <2>1. ASSUME NEW x \in Values, Survives(p', e + 1, x), x <= Latest(e)'
          PROVE  FALSE
      <3>0. x \in Int /\ x >= 2
        BY <2>1, Sizes DEF Survives
      <3>1. CASE e = 0
        BY <1>1, <1>4, <2>1, <3>0, <3>1 DEF Tail
      <3>2. CASE e # 0
        <4>1. e > 0 /\ i[e] = p[e] /\ Least(p, e, p[e]) /\ p[e] \in Int /\ p[e] >= 2
          BY <1>a, <1>b, <3>2 DEF Least, Survives
        <4>2. Survives(p', e, x)
          <5>1. e + 1 \in Nat /\ e \in 1 .. e + 1
            BY <1>0, <4>1
          <5>2. QED
            BY <2>1, <5>1, SurvivesBefore
        <4>3. p[e] <= x
          BY <1>3, <4>1, <4>2 DEF Least
        <4>4. x = p[e]
          BY <1>4, <2>1, <3>0, <4>1, <4>3
        <4>5. x % p'[e] # 0
          BY <1>0, <2>1, <4>1 DEF Survives
        <4>6. p'[e] = x
          BY <1>0, <1>1, <1>2, <4>4
        <4>7. x % x = 0
          BY <3>0, ModNear
        <4>8. QED
          BY <4>5, <4>6, <4>7
      <3>3. QED
        BY <3>1, <3>2
    <2>2. QED
      BY <1>4, <2>1 DEF Link
  <1>8. PrimesStay(n)
    BY <1>0, <1>2 DEF PrimesStay
  <1>9. ASSUME NEW f \in 0 .. n - 2
        PROVE  Latest(f)' = Latest(f) /\ Handled(f)' = Handled(f) /\ Process(f, n + 1)'
    <2>1. f \in 0 .. n - 1 /\ f # e /\ f # n /\ f \in Env /\ f # n - 1 /\ f # (n + 1) - 1
      BY <1>0, <1>1
    <2>2. Same(f) /\ p'[f] = p[f] /\ Process(f, n)
      BY <1>2, <2>1 DEF Forked, Chain
    <2>3. Latest(f)' = Latest(f) /\ Handled(f)' = Handled(f) /\ Process(f, n)'
      BY <1>8, <2>1, <2>2, Untouched
    <2>4. QED
      BY <2>1, <2>3 DEF Process
  <1>10. Latest(e)' = Latest(e)
    BY <1>4, <1>a, <1>b DEF Latest
  <1>11. ASSUME NEW f \in 0 .. n - 2 PROVE Link(f)'
    <2>1. f \in Env /\ f + 1 \in Env /\ Link(f) /\ (f + 1 = e \/ f + 1 \in 0 .. n - 2)
      BY <1>0, <1>1 DEF Chain
    <2>2. Handled(f)' = Handled(f) /\ Latest(f + 1)' = Latest(f + 1)
      BY <1>9, <1>10, <2>1
    <2>3. Handled(f)' <= Handled(f) /\ Latest(f + 1) <= Latest(f + 1)'
      BY <1>0, <2>1, <2>2, SieveTypes DEF Numbers
    <2>4. QED
      BY <1>0, <1>8, <2>1, <2>3, LinkKeeps
  <1>12. Prefix(n + 1)'
    <2>1. \A f \in Env : Alive(f)' <=> Alive(f) \/ f = n
      BY DEF Forked, Same, Alive
    <2>2. QED
      BY <1>0, <2>1 DEF Chain, Prefix
  <1>13. \A f \in 0 .. (n + 1) - 1 : Process(f, n + 1)'
    BY <1>0, <1>1, <1>5, <1>6, <1>9
  <1>14. \A f \in 0 .. (n + 1) - 2 : Link(f)'
    BY <1>0, <1>1, <1>7, <1>11
  <1>15. p'[0] = 0 /\ \A f \in Env : f >= n + 1 => p'[f] = 0
    BY <1>0, <1>2 DEF Chain
  <1>16. QED
    BY <1>12, <1>13, <1>14, <1>15 DEF Chain

\* The steps of primes.c in which no process is made.
LEMMA SieveMove ==
  ASSUME Inv, NEW n \in 1 .. NENV, Chain(n), NEW e \in Env,
         Feed(e) \/ Top(e) \/ Prime(e) \/ NextNumber(e) \/ Filter(e)
  PROVE  Chain(n)'
  <1>0. /\ StateOK /\ RecvInv /\ StateOK' /\ lib[e] = "user" /\ UNCHANGED <<program, kernel>>
        /\ Env = 0 .. NENV - 1 /\ NENV \in Nat /\ n \in Nat
    <2>1. StateOK'
      BY PrimesKeeps DEF Inv, Primes
    <2>2. QED
      BY <2>1, Sizes DEF Inv, Feed, Top, Prime, NextNumber, Filter, In, At, Env
  <1>1. e \in 0 .. n - 1 /\ Process(e, n)
    BY <1>0 DEF Chain, Prefix, Alive
  <1>2. i[e] \in Values /\ p[e] \in Values /\ id[e] \in Env /\ i = [i EXCEPT ![e] = i[e]]
        /\ i[0] \in Values /\ at[e] \in Label
    BY <1>0, Sizes DEF StateOK, TypeOK
  <1>3. \A x \in Values : x \in Int /\ x >= 0
    BY Sizes
  <1>4. Latest(e) \in Int /\ Handled(e) \in Int
    BY SieveTypes, <1>0 DEF Numbers
  <1>5. ASSUME NEW l, NEW a, NEW t, NEW v, NEW w, NEW m, NEW d,
               Moves(e, l, a, t, v, w, m, d), l # "free", p' = p
        PROVE  OnlyMoves(e, n)
    BY <1>1, <1>5 DEF OnlyMoves, Moves
  <1>6. CASE Feed(e)
    <2>1. at[e] = "feed" /\ i[e] <= LIMIT /\ p' = p /\ IpcSend(e, "feed", id[e], i[e])
          /\ i' = [i EXCEPT ![e] = i[e] + 1] /\ UNCHANGED <<who, id, p>>
      BY <1>6 DEF Feed, In
    <2>2. e = 0 /\ e < n - 1 /\ Inner(e) /\ id[e] = 1 /\ i[e] >= 2
      BY <1>1, <2>1 DEF Process, Tail, Inner
    <2>3. Moves(e, "send", "feed", id[e], i[e], who[e], i[e] + 1, id[e])
      <3>1. i[e] + 1 \in Values /\ "feed" \in Label
        BY <1>2, <2>1, Sizes DEF Values, Label
      <3>2. QED
        BY <1>0, <1>2, <2>1, <3>1, SendMoves
    <2>4. OnlyMoves(e, n)
      BY <1>5, <2>1, <2>3
    <2>5. Latest(e)' = i[e] /\ Handled(e)' = Handled(e)
      BY <1>0, <1>2, <1>3, <2>1, <2>2, <2>3 DEF Latest, Handled, Busy, Sends, Moves
    <2>6. Survives(p, 1, i[e])
      BY <2>2 DEF Survives
    <2>7. Process(e, n)'
      BY <1>2, <1>3, <2>1, <2>2, <2>3, <2>5, <2>6 DEF Process, Inner, Moves, Sends
    <2>8. Link(e)'
      <3>1. e \in 0 .. n - 2 /\ e + 1 \in 0 .. n - 1 /\ e + 1 # e /\ e + 1 \in Env
        BY <1>0, <1>1, <2>2
      <3>2. PrimesStay(n)
        BY <2>1 DEF PrimesStay
      <3>3. Latest(e + 1)' = Latest(e + 1)
        BY <2>4, <3>1, <3>2, Untouched DEF OnlyMoves
      <3>4. Latest(e + 1) <= Latest(e + 1)' /\ Handled(e)' <= Handled(e)
        BY <1>0, <1>4, <2>5, <3>1, <3>3, SieveTypes DEF Numbers
      <3>5. QED
        BY <1>0, <3>1, <3>2, <3>4, LinkKeeps DEF Chain
    <2>9. QED
      BY <1>0, <2>2, <2>4, <2>7, <2>8, ChainMove
  <1>7. CASE Top(e)
    <2>1. at[e] = "top" /\ p' = p
          /\ Moves(e, "recv", "prime", to[e], val[e], who[e], i[e], id[e])
      BY <1>0, <1>7, RecvMoves DEF Top, In, Label
    <2>2. e = n - 1 /\ e > 0
      BY <1>1, <2>1 DEF Process, Tail, Inner
    <2>3. Latest(e)' = 1 /\ Latest(e) = 1
      BY <2>1, <2>2 DEF Latest, Moves
    <2>4. Process(e, n)'
      BY <2>1, <2>2, <2>3 DEF Process, Tail, Moves
    <2>5. QED
      BY <1>0, <1>5, <2>1, <2>2, <2>3, <2>4, ChainRest
  <1>8. CASE Prime(e)
    <2>1. /\ at[e] = "prime" /\ p' = [p EXCEPT ![e] = i[e]] /\ at' = [at EXCEPT ![e] = "fork"]
          /\ UNCHANGED <<kern, lib, to, val, who, i, id>>
      BY <1>8 DEF Prime, In
    <2>2. e = n - 1 /\ e > 0 /\ Least(p, e, Latest(e)) /\ Latest(e) = i[e]
      BY <1>0, <1>1, <2>1 DEF Process, Tail, Inner, Latest
    <2>3. OnlyMoves(e, n)
      <3>1. \A f \in Env : f # e => Same(f) /\ p'[f] = p[f]
        BY <1>0, <2>1 DEF Same, StateOK, TypeOK, kern
      <3>2. QED
        BY <1>0, <1>1, <2>1, <2>2, <3>1 DEF OnlyMoves
    <2>4. p'[e] = i[e] /\ at'[e] = "fork" /\ lib'[e] = "user" /\ i'[e] = i[e]
      BY <1>0, <2>1 DEF StateOK, TypeOK
    <2>5. Least(p', e, i[e])
      <3>1. \A j \in 0 .. n - 2 : p'[j] = p[j]
        BY <1>0, <2>2, <2>3 DEF OnlyMoves
      <3>2. QED
        BY <1>0, <1>1, <2>2, <3>1, SurvivesAlike
    <2>6. Latest(e)' = i[e]
      BY <2>2, <2>4 DEF Latest
    <2>7. Process(e, n)'
      BY <2>2, <2>4, <2>5, <2>6 DEF Process, Tail, Least
    <2>8. QED
      BY <1>0, <2>2, <2>3, <2>6, <2>7, ChainRest
  <1>9. CASE NextNumber(e)
    <2>1. at[e] = "next" /\ p' = p
          /\ Moves(e, "recv", "filter", to[e], val[e], who[e], i[e], id[e])
      BY <1>0, <1>9, RecvMoves DEF NextNumber, In, Label
    <2>2. e # n - 1 /\ e > 0 /\ Inner(e)
      BY <1>1, <2>1 DEF Process, Tail, Inner
    <2>3. Latest(e)' = Latest(e) /\ Handled(e)' = Handled(e)
      BY <1>0, <2>1, <2>2 DEF Latest, Handled, Busy, Sends, Moves
    <2>4. Process(e, n)'
      BY <1>1, <2>1, <2>2, <2>3 DEF Process, Inner, Moves, Sends
    <2>5. QED
      BY <1>0, <1>4, <1>5, <2>1, <2>2, <2>3, <2>4, ChainRest
  <1>10. CASE Filter(e)
    <2>1. at[e] = "filter"
      BY <1>10 DEF Filter, In
    <2>2. e # n - 1 /\ e > 0 /\ Inner(e) /\ Least(p, e, p[e]) /\ id[e] = e + 1
      BY <1>1, <2>1 DEF Process, Tail, Inner
    <2>3. Latest(e) = i[e] /\ Handled(e) = i[e] - 1 /\ i[e] \in Int /\ Survives(p, e, i[e])
      BY <1>0, <1>1, <1>2, <1>3, <2>1, <2>2 DEF Latest, Handled, Busy, Process
    <2>4. CASE Passes(e)
      <3>1. /\ IpcSend(e, "next", id[e], i[e]) /\ i' = [i EXCEPT ![e] = i[e]]
            /\ UNCHANGED <<who, id, p>>
        BY <1>2, <1>10, <2>4 DEF Filter
      <3>2. Moves(e, "send", "next", id[e], i[e], who[e], i[e], id[e]) /\ p' = p
        BY <1>0, <1>2, <3>1, SendMoves DEF Label
      <3>3. Latest(e)' = i[e] /\ Handled(e)' = i[e] - 1
        BY <2>2, <2>3, <3>2 DEF Latest, Handled, Busy, Sends, Moves
      <3>4. Survives(p, e + 1, i[e])
        BY <1>1, <2>3, <2>4 DEF Survives, Passes
      <3>5. Process(e, n)'
        BY <1>1, <2>2, <2>3, <3>2, <3>3, <3>4 DEF Process, Inner, Moves, Sends
      <3>6. QED
        BY <1>0, <1>4, <1>5, <2>3, <3>2, <3>3, <3>5, ChainRest
    <2>5. CASE ~Passes(e)
      <3>0. /\ UNCHANGED <<kern, lib, to, val, who, i, id, p>>
            /\ at' = [at EXCEPT ![e] = "next"]
        BY <1>10, <2>5 DEF Filter
      <3>1. p' = p /\ Moves(e, "user", "next", to[e], val[e], who[e], i[e], id[e])
        <4>1. at \in [Env -> Label] /\ ~env_ipc_recving[e]
          BY <1>0 DEF StateOK, RecvInv
        <4>2. QED
          BY <1>0, <3>0, <4>1 DEF Moves, Same, kern
      <3>2. OnlyMoves(e, n)
        BY <1>5, <3>1
      <3>3. Latest(e)' = i[e] /\ Handled(e)' = i[e]
        BY <2>2, <2>3, <3>1 DEF Latest, Handled, Busy, Sends, Moves
      <3>4. Process(e, n)'
        BY <1>1, <2>2, <2>3, <3>1, <3>3 DEF Process, Inner, Moves, Sends
      <3>5. PrimesStay(n)
        BY <3>1 DEF PrimesStay
      <3>6. Link(e)'
        <4>1. e \in 0 .. n - 2 /\ e + 1 \in 0 .. n - 1 /\ e + 1 # e /\ e + 1 \in Env
          BY <1>0, <1>1, <2>2
        <4>2. Latest(e + 1)' = Latest(e + 1)
          BY <3>2, <3>5, <4>1, Untouched DEF OnlyMoves
        <4>3. ASSUME NEW x \in Values, Survives(p, e + 1, x), x <= i[e]
              PROVE  x <= Latest(e + 1)
          <5>1. x # i[e]
            <6>1. x % p[e] # 0
              BY <1>1, <2>2, <4>3 DEF Survives
            <6>2. QED
              BY <2>5, <6>1 DEF Passes
          <5>2. x <= Handled(e)
            BY <1>3, <2>3, <4>3, <5>1
          <5>3. QED
            BY <4>1, <4>3, <5>2 DEF Chain, Link
        <4>4. QED
          BY <3>1, <3>3, <4>2, <4>3 DEF Link
      <3>7. e > 0 => Link(e - 1)'
        <4>1. PICK f \in 0 .. n - 2 : f = e - 1
          BY <1>0, <1>1, <2>2
        <4>2. f + 1 = e /\ f \in 0 .. n - 1 /\ f # e /\ f \in Env
          BY <1>0, <1>1, <4>1
        <4>3. Handled(f)' = Handled(f) /\ Latest(f + 1)' = Latest(f + 1)
          BY <2>3, <3>2, <3>3, <3>5, <4>2, Untouched DEF OnlyMoves
        <4>4. Handled(f)' <= Handled(f) /\ Latest(f + 1) <= Latest(f + 1)'
          BY <1>0, <1>4, <4>2, <4>3, SieveTypes DEF Numbers
        <4>5. Link(f)'
          BY <1>0, <3>5, <4>4, LinkKeeps DEF Chain
        <4>6. QED
          BY <4>1, <4>5
      <3>8. QED
        BY <1>0, <3>2, <3>4, <3>6, <3>7, ChainMove
    <2>6. QED
      BY <2>4, <2>5
  <1>11. QED
    BY <1>6, <1>7, <1>8, <1>9, <1>10

\* At first the chain is one process.
LEMMA SieveInit == Init => SieveInv
  <1> SUFFICES ASSUME Init, program = "primes" PROVE \E n \in 1 .. NENV : Chain(n)
    BY DEF SieveInv
  <1>0. Env = 0 .. NENV - 1 /\ NENV \in Nat /\ 1 \in 1 .. NENV /\ 0 \in Env
    BY Sizes DEF Env
  <1>1. /\ \A e \in Env : lib[e] = (IF e = 0 THEN "user" ELSE "free") /\ p[e] = 0
        /\ at[0] = "umain" /\ i[0] = 2
    BY <1>0 DEF Init
  <1>2. Prefix(1)
    BY <1>0, <1>1 DEF Prefix, Alive
  <1>3. Process(0, 1)
    BY <1>0, <1>1 DEF Process, Tail
  <1>4. Chain(1)
    BY <1>0, <1>1, <1>2, <1>3 DEF Chain
  <1>5. QED
    BY <1>0, <1>4

\* Every step keeps the chain, or makes it one longer.
LEMMA SieveNext == Inv /\ SieveInv /\ [Next]_vars => SieveInv'
  <1> SUFFICES ASSUME Inv, SieveInv, [Next]_vars, program' = "primes"
               PROVE  \E n \in 1 .. NENV : Chain(n)'
    BY DEF SieveInv
  <1>1. program = "primes"
    BY DEF Next, Step, Library, TrySend, Yield, SysIpcRecv, LoadFrom, LoadValue,
           Primes, PrimesUmain, Feed, Top, Prime, ForkRight, NextNumber, Filter,
           PingPong, PongUmain, Roll, Loop, Got, Sent, Fairness, Receiver, Sender,
           In, At, Over, vars
  <1>2. PICK n \in 1 .. NENV : Chain(n)
    BY <1>1 DEF SieveInv
  <1>3. StateOK /\ RecvInv /\ Prefix(n)
    BY <1>2 DEF Inv, Chain
  <1>4. CASE UNCHANGED vars \/ Over
    <2>1. UNCHANGED vars
      BY <1>4 DEF Over
    <2>2. Chain(n)'
      <3> USE <2>1 DEF vars, kern, locals
      <3>1. \A e : (Latest(e)' = Latest(e)) /\ (Handled(e)' = Handled(e))
        BY DEF Latest, Handled, Busy, Sends
      <3>2. \A e : (Tail(e) => Tail(e)') /\ (Inner(e) => Inner(e)')
        BY <3>1 DEF Tail, Inner, Sends
      <3>3. \A e : Process(e, n) => Process(e, n)'
        BY <3>1, <3>2 DEF Process
      <3>4. \A e : Link(e) => Link(e)'
        BY <3>1 DEF Link
      <3>5. Prefix(n)'
        BY <1>3 DEF Prefix, Alive
      <3>6. QED
        BY <1>2, <3>3, <3>4, <3>5 DEF Chain
    <2>3. QED
      BY <2>2
  <1>5. ASSUME NEW e \in Env, Step(e)
        PROVE  \E m \in 1 .. NENV : Chain(m)'
    <2>1. Library(e) \/ Primes(e)
      BY <1>1, <1>5 DEF Step, PingPong, PongUmain, Roll, Loop, Got, Sent, Fairness,
                        Receiver, Sender, In
    <2>2. CASE Library(e)
      BY <1>2, <2>2, SieveLibrary
    <2>3. CASE PrimesUmain(e) \/ ForkRight(e)
      <3>1. PICK label \in {"feed", "next"} :
               /\ lib[e] = "user" /\ UNCHANGED <<program, kernel>> /\ Fork(e, "top", label)
               /\ \/ at[e] = "umain" /\ label = "feed"
                  \/ at[e] = "fork" /\ label = "next"
        BY <2>3 DEF PrimesUmain, ForkRight, In, At
      <3>2. label \in Label /\ "top" \in Label
        BY DEF Label
      <3>3. CASE n < NENV
        <4>1. Forked(e, n, "top", label)
          BY <1>3, <3>1, <3>2, <3>3, ForkEffect
        <4>2. Chain(n + 1)'
          BY <1>2, <3>1, <3>3, <4>1, SieveFork
        <4>3. n + 1 \in 1 .. NENV
          BY <3>3, Sizes
        <4>4. QED
          BY <4>2, <4>3
      <3>4. CASE ~(n < NENV)
        <4>1. Moves(e, "panic", at[e], to[e], val[e], who[e], i[e], id[e]) /\ p' = p
          BY <1>3, <3>1, <3>2, <3>4, ForkEffect
        <4>2. e \in 0 .. n - 1 /\ Process(e, n)
          BY <1>2, <1>3, <3>1, Sizes DEF Prefix, Alive, Chain, Env
        <4>3. e = n - 1 /\ Tail(e)
          BY <3>1, <4>2 DEF Process, Inner
        <4>4. OnlyMoves(e, n)
          BY <4>1, <4>2 DEF OnlyMoves, Moves
        <4>5. Latest(e)' = Latest(e)
          BY <3>1, <4>1 DEF Latest, Moves
        <4>6. Tail(e)'
          BY <3>1, <4>1, <4>3 DEF Tail, Moves
        <4>7. Process(e, n)'
          BY <4>3, <4>6 DEF Process
        <4>8. Chain(n)'
          BY <1>2, <1>3, <4>1, <4>3, <4>4, <4>5, <4>7, ChainRest DEF Moves
        <4>9. QED
          BY <4>8
      <3>5. QED
        BY <3>3, <3>4
    <2>4. CASE Feed(e) \/ Top(e) \/ Prime(e) \/ NextNumber(e) \/ Filter(e)
      BY <1>2, <2>4, SieveMove
    <2>5. QED
      BY <2>1, <2>2, <2>3, <2>4 DEF Primes
  <1>6. QED
    BY <1>4, <1>5 DEF Next

\* The programs compute what they should, for any table, limit and count:
\* along the sieve's chain process e holds the e-th prime, whatever the order in
\* which the processes run and however often ipc_send tries again.
THEOREM ProgramsAreRight == Spec => []ProgramsRight
  <1>1. Inv /\ SieveInv => ProgramsRight
    BY ChainIsRight DEF Inv, StateOK, ProgramsRight
  <1>2. LinkedInv => ProgramsRight
    BY DEF LinkedInv, ProgramsRight, SieveIsRight
  <1>3. Init => (Inv /\ SieveInv) \/ LinkedInv
    BY InitKeeps, SieveInit, LinkedInit
  <1>4. /\ Inv /\ SieveInv /\ [Next]_vars => (Inv /\ SieveInv)'
        /\ LinkedInv /\ [Next]_vars => LinkedInv'
    BY NextKeeps, SieveNext, LinkedKeeps
  <1>5. QED
    BY <1>1, <1>2, <1>3, <1>4, PTL DEF Spec
=============================================================================
