---------------------------- MODULE KernelProofs ----------------------------
(***************************************************************************)
(* Proofs about Kernel for any number of CPUs and of environments.         *)
(***************************************************************************)
EXTENDS Kernel, TLAPS

\* The part of the invariant about CPUs and statuses.
SchedInv ==
    /\ env_status \in [Env -> Status]
    /\ cpu_env \in [CPU -> Env \cup {NULL}]
    /\ cpu_status \in [CPU -> {"UNUSED", "STARTED", "HALTED"}]
    /\ cpu_mode \in [CPU -> Mode]
    /\ kernel_lock \in CPU \cup {NULL}
    /\ panicstr \in BOOLEAN
    /\ ModeInv
    /\ OneCpu
    /\ ExecutingIsMarked
    /\ NoneLost

\* What a handler on CPU c must have established when it ends with statuses st
\* and current environment cur: the other CPUs are where they were, none of
\* them executes cur, and everything marked as running is on one of them.
HandlerInv(c, st, cur) ==
    /\ st \in [Env -> Status]
    /\ cur \in Env \cup {NULL}
    /\ cur # NULL => /\ st[cur] # "DYING"
                     /\ \A d \in CPU \ {c} : cpu_env[d] # cur
    /\ \A d \in CPU \ {c} :
        /\ cpu_mode[d] \notin Keeping \cup {"dead"}
        /\ cpu_mode[d] \in InEnv => /\ cpu_env[d] # NULL
                                    /\ st[cpu_env[d]] \in {"RUNNING", "DYING"}
    /\ \A e \in Env : st[e] \in {"RUNNING", "DYING"} =>
        \/ e = cur
        \/ \E d \in CPU \ {c} : cpu_env[d] = e /\ cpu_mode[d] \in InEnv

\* The end of a handler changes only which environments are RUNNING.
SameBlocked(st) ==
    \A e \in Env : /\ env_status'[e] = "FREE" <=> st[e] = "FREE"
                   /\ env_status'[e] = "NOT_RUNNABLE" <=> st[e] = "NOT_RUNNABLE"

\* env_run keeps the invariant when the chosen environment is runnable, or is
\* the current one.
LEMMA ExitRun ==
  ASSUME SchedInv, ~panicstr, UNCHANGED panicstr,
         NEW c \in CPU, NEW st, NEW cur, HandlerInv(c, st, cur),
         NEW e \in Env, st[e] = "RUNNABLE" \/ (e = cur /\ st[e] = "RUNNING"),
         EnvRun(c, e, st, cur)
  PROVE  SchedInv' /\ SameBlocked(st)
  <1> USE ConstAssumption DEF HandlerInv, EnvRun, Keeping, InEnv, NoEnv, Status, Mode
  <1>1. /\ env_status' \in [Env -> Status]
        /\ cpu_env' \in [CPU -> Env \cup {NULL}]
        /\ cpu_status' \in [CPU -> {"UNUSED", "STARTED", "HALTED"}]
        /\ cpu_mode' \in [CPU -> Mode]
        /\ kernel_lock' = NULL
        /\ panicstr' = FALSE
    BY DEF SchedInv
  <1>2. SameBlocked(st)
    BY DEF SameBlocked
  <1>3. ModeInv'
    BY <1>1 DEF SchedInv, ModeInv
  <1>4. OneCpu'
    BY DEF SchedInv, OneCpu, ModeInv
  <1>5. ExecutingIsMarked'
    BY DEF SchedInv, ExecutingIsMarked, ModeInv
  <1>6. NoneLost'
    BY DEF SchedInv, NoneLost, ModeInv
  <1>7. QED
    BY <1>1, <1>2, <1>3, <1>4, <1>5, <1>6 DEF SchedInv

\* sched_halt keeps the invariant: nothing is left RUNNING or DYING on this CPU.
LEMMA ExitHalt ==
  ASSUME SchedInv, ~panicstr, UNCHANGED panicstr,
         NEW c \in CPU, NEW st, NEW cur, HandlerInv(c, st, cur),
         cur = NULL \/ st[cur] # "RUNNING",
         SchedHalt(c, st, cur)
  PROVE  SchedInv' /\ SameBlocked(st)
  <1> USE ConstAssumption DEF HandlerInv, Keeping, InEnv, NoEnv, Status, Mode
  <1>1. CASE Halt(c, st)
    <2> USE <1>1 DEF Halt
    <2>1. /\ env_status' \in [Env -> Status]
          /\ cpu_env' \in [CPU -> Env \cup {NULL}]
          /\ cpu_status' \in [CPU -> {"UNUSED", "STARTED", "HALTED"}]
          /\ cpu_mode' \in [CPU -> Mode]
          /\ kernel_lock' = NULL
          /\ panicstr' = FALSE
      BY DEF SchedInv
    <2>2. SameBlocked(st)
      BY DEF SameBlocked
    <2>3. ModeInv'
      BY <2>1 DEF SchedInv, ModeInv
    <2>4. OneCpu'
      BY DEF SchedInv, OneCpu, ModeInv
    <2>5. ExecutingIsMarked'
      BY DEF SchedInv, ExecutingIsMarked, ModeInv
    <2>6. NoneLost'
      BY DEF SchedInv, NoneLost, ModeInv
    <2>7. QED
      BY <2>1, <2>2, <2>3, <2>4, <2>5, <2>6 DEF SchedInv
  <1>2. CASE Monitor(c, "monitor", st, cur)
    <2> USE <1>2 DEF Monitor
    <2>1. /\ env_status' \in [Env -> Status]
          /\ cpu_env' \in [CPU -> Env \cup {NULL}]
          /\ cpu_status' \in [CPU -> {"UNUSED", "STARTED", "HALTED"}]
          /\ cpu_mode' \in [CPU -> Mode]
          /\ kernel_lock' = c
          /\ panicstr' = FALSE
      BY DEF SchedInv
    <2>2. SameBlocked(st)
      BY DEF SameBlocked
    <2>3. ModeInv'
      BY <2>1 DEF SchedInv, ModeInv
    <2>4. OneCpu'
      BY DEF SchedInv, OneCpu, ModeInv
    <2>5. ExecutingIsMarked'
      BY DEF SchedInv, ExecutingIsMarked, ModeInv
    <2>6. NoneLost'
      BY DEF SchedInv, NoneLost, ModeInv
    <2>7. QED
      BY <2>1, <2>2, <2>3, <2>4, <2>5, <2>6 DEF SchedInv
  <1>3. QED
    BY <1>1, <1>2 DEF SchedHalt

\* sched_yield keeps the invariant.
LEMMA ExitYield ==
  ASSUME SchedInv, ~panicstr, UNCHANGED panicstr,
         NEW c \in CPU, NEW st, NEW cur, HandlerInv(c, st, cur),
         SchedYield(c, st, cur)
  PROVE  SchedInv' /\ SameBlocked(st)
  <1>1. CASE \E e \in Env : /\ FirstRunnable(e, st, SchedStart(cur))
                            /\ EnvRun(c, e, st, cur)
    BY <1>1, ExitRun DEF FirstRunnable
  <1>2. CASE cur # NULL /\ st[cur] = "RUNNING" /\ EnvRun(c, cur, st, cur)
    <2>1. cur \in Env
      BY <1>2 DEF HandlerInv
    <2>2. QED
      BY <1>2, <2>1, ExitRun
  <1>3. CASE ~(cur # NULL /\ st[cur] = "RUNNING") /\ SchedHalt(c, st, cur)
    BY <1>3, ExitHalt
  <1>4. QED
    BY <1>1, <1>2, <1>3 DEF SchedYield

\* The end of trap() keeps the invariant.
LEMMA ExitReturn ==
  ASSUME SchedInv, ~panicstr, UNCHANGED panicstr,
         NEW c \in CPU, NEW st, NEW cur, HandlerInv(c, st, cur),
         TrapReturn(c, st, cur)
  PROVE  SchedInv' /\ SameBlocked(st)
  <1>1. CASE cur # NULL /\ st[cur] = "RUNNING" /\ EnvRun(c, cur, st, cur)
    <2>1. cur \in Env
      BY <1>1 DEF HandlerInv
    <2>2. QED
      BY <1>1, <2>1, ExitRun
  <1>2. CASE ~(cur # NULL /\ st[cur] = "RUNNING") /\ SchedYield(c, st, cur)
    BY <1>2, ExitYield
  <1>3. QED
    BY <1>1, <1>2 DEF TrapReturn

-----------------------------------------------------------------------------
\* The invariant, split into the part above and the part about the table of
\* environments and the messages.
DataInv ==
    /\ env_id \in [Env -> Int]
    /\ env_parent_id \in [Env -> Int]
    /\ env_free_list \in Seq(Env)
    /\ env_ipc_recving \in [Env -> BOOLEAN]
    /\ env_ipc_dstva \in [Env -> BOOLEAN]
    /\ env_ipc_from \in [Env -> Int]
    /\ env_ipc_value \in [Env -> Values \cup {0}]
    /\ env_ipc_perm \in [Env -> BOOLEAN]
    /\ tf_eax \in [Env -> Eax]
    /\ FreeListExact
    /\ WaitingIsBlocked
    /\ FrameInv

\* The kernel's invariant is the part about the scheduler and the part about
\* the fields of struct Env, before and after a step.
LEMMA SplitInv ==
  /\ KernelInv <=> SchedInv /\ DataInv
  /\ KernelInv' <=> SchedInv' /\ DataInv'
  BY DEF KernelInv, TypeOK, SchedInv, DataInv

\* A CPU that gets the lock: nobody keeps it, so nobody has panicked, and every
\* other CPU is outside the kernel.
LEMMA LockFree ==
  ASSUME SchedInv, NEW c \in CPU, kernel_lock = NULL \/ cpu_mode[c] = "boot"
  PROVE  /\ ~panicstr
         /\ \A d \in CPU \ {c} : cpu_mode[d] \notin Keeping \cup {"dead"}
  BY ConstAssumption DEF SchedInv, ModeInv, Keeping, Mode

\* trap() with the lock: a live current environment is RUNNING and on no other
\* CPU.
LEMMA CurrentAlone ==
  ASSUME SchedInv, NEW c \in CPU, Entered(c)
  PROVE  /\ ~panicstr
         /\ cpu_env[c] \in Env
         /\ env_status[cpu_env[c]] = "RUNNING"
         /\ HandlerInv(c, env_status, cpu_env[c])
  <1>1. /\ ~panicstr
        /\ \A d \in CPU \ {c} : cpu_mode[d] \notin Keeping \cup {"dead"}
    BY LockFree DEF Entered
  <1>2. /\ cpu_env[c] \in Env
        /\ env_status[cpu_env[c]] = "RUNNING"
    BY ConstAssumption DEF Entered, SchedInv, ExecutingIsMarked, InEnv
  <1>3. \A d \in CPU \ {c} : cpu_env[d] # cpu_env[c]
    BY <1>2, ConstAssumption DEF SchedInv, OneCpu
  <1>4. QED
    BY <1>1, <1>2, <1>3, ConstAssumption
       DEF HandlerInv, SchedInv, ExecutingIsMarked, NoneLost, InEnv, Keeping,
           Mode

-----------------------------------------------------------------------------
(* The free list *)

\* env_free: pushing an environment that was not free keeps the list exact.
LEMMA PushExact ==
  ASSUME env_free_list \in Seq(Env), FreeListExact,
         NEW e \in Env, env_status[e] # "FREE",
         env_free_list' = <<e>> \o env_free_list,
         \A f \in Env : env_status'[f] = "FREE" <=>
                            f = e \/ env_status[f] = "FREE"
  PROVE  env_free_list' \in Seq(Env) /\ FreeListExact'
  <1> DEFINE old == env_free_list
             new == <<e>> \o env_free_list
  <1>1. /\ new \in Seq(Env)
        /\ Len(new) = Len(old) + 1
        /\ new[1] = e
        /\ \A i \in 1 .. Len(old) : new[i + 1] = old[i]
        /\ \A i \in 2 .. Len(new) : i - 1 \in 1 .. Len(old) /\ new[i] = old[i - 1]
        /\ DOMAIN new = 1 .. Len(new) /\ DOMAIN old = 1 .. Len(old)
        /\ Len(old) \in Nat
    OBVIOUS
  <1>2. \A f \in Env : (\E i \in DOMAIN new : new[i] = f) <=>
                           f = e \/ \E i \in DOMAIN old : old[i] = f
    <2> HIDE DEF new, old
    <2>1. ASSUME NEW f \in Env, NEW i \in DOMAIN new, new[i] = f
          PROVE  f = e \/ \E j \in DOMAIN old : old[j] = f
      <3>1. CASE i = 1
        BY <1>1, <2>1, <3>1
      <3>2. CASE i # 1
        <4>1. i \in 2 .. Len(new)
          BY <1>1, <3>2
        <4>2. QED
          BY <1>1, <2>1, <4>1
      <3>3. QED
        BY <3>1, <3>2
    <2>2. \E i \in DOMAIN new : new[i] = e
      BY <1>1
    <2>3. ASSUME NEW f \in Env, NEW j \in DOMAIN old, old[j] = f
          PROVE  \E i \in DOMAIN new : new[i] = f
      <3>1. j + 1 \in DOMAIN new
        BY <1>1
      <3>2. QED
        BY <1>1, <2>3, <3>1
    <2>4. QED
      BY <2>1, <2>2, <2>3
  <1>3. \A i \in DOMAIN old : old[i] # e
    BY DEF FreeListExact
  <1>4. ASSUME NEW i \in DOMAIN new, NEW j \in DOMAIN new, new[i] = new[j]
        PROVE  i = j
    <2> HIDE DEF new
    <2>0. ASSUME NEW k \in DOMAIN new, k # 1
          PROVE  new[k] # e
      <3>1. k \in 2 .. Len(new)
        BY <1>1, <2>0
      <3>2. k - 1 \in DOMAIN old /\ new[k] = old[k - 1]
        BY <1>1, <3>1
      <3>3. QED
        BY <1>3, <3>2
    <2>1. CASE i = 1 \/ j = 1
      BY <1>1, <1>4, <2>0, <2>1
    <2>2. CASE i # 1 /\ j # 1
      <3>1. i \in 2 .. Len(new) /\ j \in 2 .. Len(new)
        BY <1>1, <2>2
      <3>2. i - 1 \in DOMAIN old /\ j - 1 \in DOMAIN old /\ old[i - 1] = old[j - 1]
        BY <1>1, <1>4, <3>1
      <3>3. i - 1 = j - 1
        BY <3>2 DEF FreeListExact
      <3>4. QED
        BY <3>1, <3>3, <1>1
    <2>3. QED
      BY <2>1, <2>2
  <1>5. QED
    BY <1>1, <1>2, <1>4 DEF FreeListExact

\* env_alloc: popping the head, which is no longer free, keeps the list exact.
LEMMA PopExact ==
  ASSUME env_free_list \in Seq(Env), FreeListExact, env_free_list # <<>>,
         NEW e, e = Head(env_free_list),
         env_free_list' = Tail(env_free_list),
         \A f \in Env : env_status'[f] = "FREE" <=>
                            f # e /\ env_status[f] = "FREE"
  PROVE  /\ e \in Env /\ env_status[e] = "FREE"
         /\ env_free_list' \in Seq(Env) /\ FreeListExact'
  <1> DEFINE old == env_free_list
             new == Tail(env_free_list)
  <1>1. /\ new \in Seq(Env)
        /\ Len(old) \in Nat /\ Len(old) >= 1
        /\ Len(new) = Len(old) - 1
        /\ e \in Env /\ old[1] = e
        /\ \A i \in 1 .. Len(new) : i + 1 \in 1 .. Len(old) /\ new[i] = old[i + 1]
        /\ DOMAIN new = 1 .. Len(new) /\ DOMAIN old = 1 .. Len(old)
    OBVIOUS
  <1>2. env_status[e] = "FREE"
    BY <1>1 DEF FreeListExact
  <1> HIDE DEF new
  <1>3. \A i \in DOMAIN new : new[i] # e
    <2> SUFFICES ASSUME NEW i \in DOMAIN new, new[i] = e
                 PROVE  FALSE
      OBVIOUS
    <2>1. i + 1 \in DOMAIN old /\ old[i + 1] = old[1] /\ 1 \in DOMAIN old
      BY <1>1
    <2>2. i + 1 = 1
      BY <2>1 DEF FreeListExact
    <2>3. QED
      BY <1>1, <2>2
  <1>4. \A f \in Env : f # e =>
            ((\E i \in DOMAIN new : new[i] = f) <=>
                \E i \in DOMAIN old : old[i] = f)
    <2>1. ASSUME NEW f \in Env, NEW i \in DOMAIN new, new[i] = f
          PROVE  \E j \in DOMAIN old : old[j] = f
      BY <1>1, <2>1
    <2>2. ASSUME NEW f \in Env, f # e, NEW j \in DOMAIN old, old[j] = f
          PROVE  \E i \in DOMAIN new : new[i] = f
      <3>1. j - 1 \in 1 .. Len(new)
        BY <1>1, <2>2
      <3>2. new[j - 1] = old[(j - 1) + 1]
        BY <1>1, <3>1
      <3>3. QED
        BY <1>1, <2>2, <3>1, <3>2
    <2>3. QED
      BY <2>1, <2>2
  <1>5. ASSUME NEW i \in DOMAIN new, NEW j \in DOMAIN new, new[i] = new[j]
        PROVE  i = j
    <2>1. i + 1 \in DOMAIN old /\ j + 1 \in DOMAIN old /\ old[i + 1] = old[j + 1]
      BY <1>1, <1>5
    <2>2. i + 1 = j + 1
      BY <2>1 DEF FreeListExact
    <2>3. QED
      BY <1>1, <2>2
  <1>6. QED
    BY <1>1, <1>2, <1>3, <1>4, <1>5 DEF FreeListExact, new

-----------------------------------------------------------------------------
(* The actions *)

\* A step that leaves the tables alone, and the frames of all but a running
\* environment, keeps the invariant on data.
LEMMA KeepData ==
  ASSUME DataInv, UNCHANGED <<tableVars, ipcVars>>, SameBlocked(env_status),
         env_status \in [Env -> Status],
         \/ UNCHANGED tf_eax
         \/ \E e \in Env, eax \in {"zero", "other"} :
                /\ env_status[e] = "RUNNING"
                /\ tf_eax' = [tf_eax EXCEPT ![e] = eax]
  PROVE  DataInv'
  <1> USE DEF DataInv, tableVars, ipcVars, SameBlocked
  <1>1. FreeListExact'
    BY DEF FreeListExact
  <1>2. CASE UNCHANGED tf_eax
    BY <1>1, <1>2 DEF WaitingIsBlocked, FrameInv
  <1>3. ASSUME NEW e \in Env, NEW eax \in {"zero", "other"},
               env_status[e] = "RUNNING",
               tf_eax' = [tf_eax EXCEPT ![e] = eax]
        PROVE  DataInv'
    <2>1. tf_eax' \in [Env -> Eax]
      BY <1>3 DEF Eax
    <2>2. ~env_ipc_recving[e]
      BY <1>3 DEF WaitingIsBlocked
    <2>3. WaitingIsBlocked' /\ FrameInv'
      BY <1>3, <2>2 DEF WaitingIsBlocked, FrameInv
    <2>4. QED
      BY <1>1, <2>1, <2>3
  <1>4. QED
    BY <1>2, <1>3

\* A CPU without current environment that gets the lock may reschedule.
LEMMA IdleHandler ==
  ASSUME SchedInv, NEW c \in CPU, cpu_mode[c] \in NoEnv,
         kernel_lock = NULL \/ cpu_mode[c] = "boot"
  PROVE  ~panicstr /\ HandlerInv(c, env_status, NULL)
  <1>1. /\ ~panicstr
        /\ \A d \in CPU \ {c} : cpu_mode[d] \notin Keeping \cup {"dead"}
    BY LockFree
  <1>2. QED
    BY <1>1, ConstAssumption
       DEF HandlerInv, SchedInv, ModeInv, ExecutingIsMarked, NoneLost, InEnv,
           Keeping, NoEnv, Mode

\* Scheduling steps of the boot and of idle CPUs.
LEMMA IdleYieldStep ==
  ASSUME KernelInv, NEW c \in CPU, cpu_mode[c] \in NoEnv,
         kernel_lock = NULL \/ cpu_mode[c] = "boot",
         SchedYield(c, env_status, NULL),
         UNCHANGED <<tableVars, ipcVars, tf_eax, panicstr>>
  PROVE  KernelInv'
  <1>1. SchedInv /\ DataInv
    BY SplitInv
  <1>2. ~panicstr /\ HandlerInv(c, env_status, NULL)
    BY <1>1, IdleHandler
  <1>3. SchedInv' /\ SameBlocked(env_status)
    BY <1>1, <1>2, ExitYield
  <1>4. DataInv'
    BY <1>1, <1>3, KeepData DEF SchedInv
  <1>5. QED
    BY <1>3, <1>4, SplitInv

\* Steps that change no environment: starting an AP, restoring registers, the
\* unlocked head of trap(), and its hlt after a panic.
LEMMA UnlockedStep ==
  ASSUME KernelInv, NEW c \in CPU,
         StartAp(c) \/ PopTf(c) \/ TrapEntry(c) \/ TrapAfterPanic(c)
  PROVE  KernelInv'
  <1> USE ConstAssumption DEF SchedInv, Keeping, InEnv, NoEnv, Mode, Status
  <1>1. SchedInv /\ DataInv
    BY SplitInv
  <1>2. /\ UNCHANGED <<env_status, cpu_env, kernel_lock, tableVars, ipcVars,
                       tf_eax, panicstr>>
        /\ cpu_mode' \in [CPU -> Mode]
        /\ cpu_status' \in [CPU -> {"UNUSED", "STARTED", "HALTED"}]
        /\ \A d \in CPU \ {c} : cpu_mode'[d] = cpu_mode[d]
        /\ \/ cpu_mode[c] \in {"off", "halt"}
              /\ cpu_mode'[c] \in {"mpmain", "wake"}
           \/ cpu_mode[c] \in {"pop", "user"} /\ cpu_mode'[c] \in {"user", "trap"}
           \/ /\ cpu_mode[c] \in {"user", "halt"} /\ cpu_mode'[c] = "dead"
              /\ panicstr
    BY <1>1 DEF StartAp, PopTf, TrapEntry, TrapAfterPanic
  <1>3. DataInv'
    <2>1. SameBlocked(env_status)
      BY <1>2 DEF SameBlocked
    <2>2. QED
      BY <1>1, <1>2, <2>1, KeepData
  <1>4. ModeInv'
    BY <1>1, <1>2 DEF ModeInv
  <1>5. OneCpu' /\ ExecutingIsMarked'
    BY <1>1, <1>2 DEF OneCpu, ExecutingIsMarked, ModeInv
  <1>6. NoneLost'
    BY <1>1, <1>2 DEF NoneLost
  <1>7. QED
    BY <1>1, <1>2, <1>3, <1>4, <1>5, <1>6, SplitInv

\* Entering the monitor or _panic with the lock held.
LEMMA MonitorStep ==
  ASSUME KernelInv, NEW c \in CPU, kernel_lock = NULL,
         cpu_mode[c] \in {"trap", "wake"},
         \/ /\ Monitor(c, "monitor", env_status, cpu_env[c])
            /\ UNCHANGED panicstr
         \/ /\ Monitor(c, "panic", env_status, cpu_env[c])
            /\ panicstr' = TRUE,
         UNCHANGED <<tableVars, ipcVars>>,
         \/ UNCHANGED tf_eax
         \/ \E e \in Env, eax \in {"zero", "other"} :
                /\ env_status[e] = "RUNNING"
                /\ tf_eax' = [tf_eax EXCEPT ![e] = eax]
  PROVE  KernelInv'
  <1> USE ConstAssumption DEF SchedInv, Keeping, InEnv, NoEnv, Mode, Status
  <1>1. SchedInv /\ DataInv
    BY SplitInv
  <1>2. /\ UNCHANGED <<env_status, cpu_env, cpu_status>>
        /\ kernel_lock' = c
        /\ cpu_mode' \in [CPU -> Mode]
        /\ \A d \in CPU \ {c} : cpu_mode'[d] = cpu_mode[d]
        /\ cpu_mode'[c] \in {"monitor", "panic"}
    BY <1>1 DEF Monitor
  <1>3. DataInv'
    <2>1. SameBlocked(env_status)
      BY <1>2 DEF SameBlocked
    <2>2. QED
      BY <1>1, <2>1, KeepData
  <1>4. ~panicstr
    BY <1>1, LockFree
  <1>5. panicstr' \in BOOLEAN /\ (panicstr' => cpu_mode'[c] = "panic")
    <2>1. CASE UNCHANGED panicstr
      <3>1. panicstr = FALSE
        BY <1>1, <1>4
      <3>2. QED
        BY <2>1, <3>1
    <2>2. CASE panicstr' = TRUE /\ Monitor(c, "panic", env_status, cpu_env[c])
      BY <1>1, <2>2 DEF Monitor
    <2>3. QED
      BY <2>1, <2>2
  <1>5a. ModeInv'
    BY <1>1, <1>2, <1>4, <1>5 DEF ModeInv
  <1>6. OneCpu' /\ ExecutingIsMarked'
    BY <1>1, <1>2 DEF OneCpu, ExecutingIsMarked
  <1>7. NoneLost'
    BY <1>1, <1>2 DEF NoneLost
  <1>8. QED
    BY <1>1, <1>2, <1>3, <1>5, <1>5a, <1>6, <1>7, SplitInv

\* env_alloc's new id is an integer.
LEMMA NextIdInt ==
  ASSUME env_id \in [Env -> Int], NEW e \in Env
  PROVE  NextId(e) \in Int
  <1> DEFINE sum == env_id[e] + GENSTEP
  <1>1. sum \in Int /\ e \in Int
    BY ConstAssumption DEF Env
  <1> HIDE DEF sum
  <1>2. sum % NENV \in Int
    BY <1>1, ConstAssumption
  <1>3. QED
    BY <1>1, <1>2, ConstAssumption DEF NextId, sum

\* i386_init's ENV_CREATE.
LEMMA EnvCreateStep == KernelInv /\ EnvCreate => KernelInv'
  <1> SUFFICES ASSUME KernelInv, EnvCreate
               PROVE  KernelInv'
    OBVIOUS
  <1> USE ConstAssumption
  <1>1. SchedInv /\ DataInv
    BY SplitInv
  <1>2. PICK e \in Env :
            /\ EnvAlloc(e, 0)
            /\ env_status' = [env_status EXCEPT ![e] = "RUNNABLE"]
            /\ tf_eax' = [tf_eax EXCEPT ![e] = "zero"]
    BY DEF EnvCreate
  <1>3. \A f \in Env : env_status'[f] = "FREE" <=>
                           f # e /\ env_status[f] = "FREE"
    BY <1>1, <1>2 DEF SchedInv
  <1>4. /\ env_status[e] = "FREE"
        /\ env_free_list' \in Seq(Env) /\ FreeListExact'
    BY <1>1, <1>2, <1>3, PopExact DEF EnvAlloc, DataInv
  <1>5. DataInv'
    <2>1. NextId(e) \in Int
      BY <1>1, NextIdInt DEF DataInv
    <2>2. WaitingIsBlocked' /\ FrameInv'
      BY <1>1, <1>2
         DEF EnvAlloc, DataInv, SchedInv, WaitingIsBlocked, FrameInv
    <2>3. QED
      BY <1>1, <1>2, <1>4, <2>1, <2>2 DEF EnvAlloc, DataInv, Eax
  <1>6. SchedInv'
    BY <1>1, <1>2, <1>4
       DEF EnvCreate, SchedInv, Status, ModeInv, OneCpu, ExecutingIsMarked,
           NoneLost
  <1>7. QED
    BY <1>5, <1>6, SplitInv

\* env_destroy of an environment that is neither free nor already DYING.
LEMMA EnvDestroyStep ==
  ASSUME KernelInv, NEW c \in CPU, Entered(c), UNCHANGED panicstr,
         NEW e \in Env, env_status[e] \notin {"FREE", "DYING"},
         EnvDestroy(c, e),
         NEW eax \in {"zero", "other"}, SaveEax(c, eax),
         UNCHANGED ipcVars
  PROVE  KernelInv'
  <1> DEFINE cur == cpu_env[c]
             zombie == [env_status EXCEPT ![e] = "DYING"]
             freed == [env_status EXCEPT ![e] = "FREE"]
  <1>1. SchedInv /\ DataInv
    BY SplitInv
  <1>2. /\ ~panicstr /\ cur \in Env /\ env_status[cur] = "RUNNING"
        /\ HandlerInv(c, env_status, cur)
    BY <1>1, CurrentAlone
  <1>3. /\ env_status \in [Env -> Status]
        /\ freed \in [Env -> Status] /\ zombie \in [Env -> Status]
    BY <1>1 DEF SchedInv, Status
  <1>4. CASE env_status[e] = "RUNNING" /\ cur # e
    <2>1. HandlerInv(c, zombie, cur)
      BY <1>2, <1>3, <1>4, ConstAssumption DEF HandlerInv
    <2>2. TrapReturn(c, zombie, cur) /\ UNCHANGED tableVars
      BY <1>4 DEF EnvDestroy
    <2>3. SchedInv' /\ SameBlocked(zombie)
      BY <1>1, <1>2, <2>1, <2>2, ExitReturn
    <2>4. SameBlocked(env_status)
      BY <1>3, <1>4, <2>3 DEF SameBlocked
    <2>5. DataInv'
      BY <1>1, <1>2, <1>3, <2>2, <2>4, KeepData DEF SaveEax
    <2>6. QED
      BY <2>3, <2>5, SplitInv
  <1>5. CASE ~(env_status[e] = "RUNNING" /\ cur # e)
    <2>1. SchedInv' /\ SameBlocked(freed)
      <3>1. CASE cur = e
        <4>1. HandlerInv(c, freed, NULL)
          BY <1>2, <1>3, <3>1, ConstAssumption DEF HandlerInv
        <4>2. SchedYield(c, freed, NULL)
          BY <1>5, <3>1 DEF EnvDestroy
        <4>3. QED
          BY <1>1, <1>2, <4>1, <4>2, ExitYield
      <3>2. CASE cur # e
        <4>1. HandlerInv(c, freed, cur)
          BY <1>2, <1>3, <1>5, <3>2, ConstAssumption DEF HandlerInv
        <4>2. TrapReturn(c, freed, cur)
          BY <1>5, <3>2 DEF EnvDestroy
        <4>3. QED
          BY <1>1, <1>2, <4>1, <4>2, ExitReturn
      <3>3. QED
        BY <3>1, <3>2
    <2>2. EnvFree(e)
      BY <1>5 DEF EnvDestroy
    <2>3. env_free_list' \in Seq(Env) /\ FreeListExact'
      <3>1. \A f \in Env : env_status'[f] = "FREE" <=>
                               f = e \/ env_status[f] = "FREE"
        BY <1>3, <2>1 DEF SameBlocked
      <3>2. QED
        BY <1>1, <2>2, <3>1, PushExact DEF EnvFree, DataInv
    <2>4. \A f \in Env : env_status'[f] # "FREE" =>
              /\ env_status[f] # "FREE"
              /\ env_status[f] = "NOT_RUNNABLE" => env_status'[f] = "NOT_RUNNABLE"
      BY <1>3, <2>1 DEF SameBlocked
    <2>5. WaitingIsBlocked' /\ FrameInv'
      <3>1. ~env_ipc_recving[cur]
        BY <1>1, <1>2 DEF DataInv, WaitingIsBlocked
      <3>2. QED
        BY <1>1, <1>2, <2>4, <3>1
           DEF DataInv, WaitingIsBlocked, FrameInv, SaveEax, ipcVars
    <2>6. DataInv'
      BY <1>1, <1>2, <2>2, <2>3, <2>5
         DEF DataInv, EnvFree, SaveEax, ipcVars, Eax
    <2>7. QED
      BY <2>1, <2>6, SplitInv
  <1>6. QED
    BY <1>4, <1>5

\* trap() of a zombie: it is freed by the CPU that was running it.
LEMMA ReapZombieStep ==
  ASSUME KernelInv, NEW c \in CPU, ReapZombie(c)
  PROVE  KernelInv'
  <1> DEFINE e == cpu_env[c]
             freed == [env_status EXCEPT ![e] = "FREE"]
  <1> USE DEF ReapZombie
  <1>1. SchedInv /\ DataInv
    BY SplitInv
  <1>2. /\ e \in Env
        /\ env_status \in [Env -> Status] /\ freed \in [Env -> Status]
    BY <1>1, ConstAssumption DEF SchedInv, ExecutingIsMarked, InEnv, Status
  <1>3. /\ ~panicstr
        /\ \A d \in CPU \ {c} : cpu_mode[d] \notin Keeping \cup {"dead"}
    BY <1>1, LockFree
  <1>4. \A d \in CPU \ {c} : cpu_env[d] # e
    BY <1>1, <1>2, ConstAssumption DEF SchedInv, OneCpu
  <1>5. HandlerInv(c, freed, NULL)
    BY <1>1, <1>2, <1>3, <1>4, ConstAssumption
       DEF HandlerInv, SchedInv, ExecutingIsMarked, NoneLost, InEnv, Keeping,
           Mode
  <1>6. SchedInv' /\ SameBlocked(freed)
    BY <1>1, <1>3, <1>5, ExitYield
  <1>7. env_free_list' \in Seq(Env) /\ FreeListExact'
    <2>1. \A f \in Env : env_status'[f] = "FREE" <=>
                             f = e \/ env_status[f] = "FREE"
      BY <1>2, <1>6 DEF SameBlocked
    <2>2. QED
      BY <1>1, <1>2, <2>1, PushExact DEF EnvFree, DataInv
  <1>8. \A f \in Env : env_status'[f] # "FREE" =>
            /\ env_status[f] # "FREE"
            /\ env_status[f] = "NOT_RUNNABLE" => env_status'[f] = "NOT_RUNNABLE"
    BY <1>2, <1>6 DEF SameBlocked
  <1>9. WaitingIsBlocked' /\ FrameInv'
    BY <1>1, <1>8 DEF DataInv, WaitingIsBlocked, FrameInv, ipcVars
  <1>10. DataInv'
    BY <1>1, <1>7, <1>9 DEF DataInv, EnvFree, ipcVars
  <1>11. QED
    BY <1>6, <1>10, SplitInv

\* Handlers that change no environment's state but the caller's frame, and then
\* reschedule or return.
LEMMA PlainHandlerStep ==
  ASSUME KernelInv, NEW c \in CPU, Trapped(c),
         NEW eax \in {"zero", "other"}, SaveEax(c, eax),
         \/ SchedYield(c, env_status, cpu_env[c])
         \/ TrapReturn(c, env_status, cpu_env[c]),
         UNCHANGED <<tableVars, ipcVars>>
  PROVE  KernelInv'
  <1> USE DEF Trapped
  <1>1. SchedInv /\ DataInv
    BY SplitInv
  <1>2. /\ ~panicstr /\ cpu_env[c] \in Env
        /\ env_status[cpu_env[c]] = "RUNNING"
        /\ HandlerInv(c, env_status, cpu_env[c])
    BY <1>1, CurrentAlone
  <1>3. SchedInv' /\ SameBlocked(env_status)
    BY <1>1, <1>2, ExitYield, ExitReturn
  <1>4. DataInv'
    BY <1>1, <1>2, <1>3, KeepData DEF SaveEax, SchedInv
  <1>5. QED
    BY <1>3, <1>4, SplitInv

\* sys_exofork: the new environment comes from the free list, so no CPU has it.
LEMMA ExoforkStep ==
  ASSUME KernelInv, NEW c \in CPU, NEW e \in Env, SysExofork(c, e)
  PROVE  KernelInv'
  <1> DEFINE cur == cpu_env[c]
             st == [env_status EXCEPT ![e] = "NOT_RUNNABLE"]
  <1> USE DEF SysExofork, ForkReturns, Trapped
  <1>1. SchedInv /\ DataInv
    BY SplitInv
  <1>2. /\ ~panicstr /\ cur \in Env /\ env_status[cur] = "RUNNING"
        /\ HandlerInv(c, env_status, cur)
    BY <1>1, CurrentAlone
  <1>3. env_status \in [Env -> Status] /\ st \in [Env -> Status]
    BY <1>1 DEF SchedInv, Status
  <1>4. env_status[e] = "FREE"
    <2>1. env_free_list[1] = e /\ 1 \in DOMAIN env_free_list
      BY <1>1 DEF EnvAlloc, DataInv
    <2>2. QED
      BY <1>1, <2>1 DEF DataInv, FreeListExact
  <1>5. HandlerInv(c, st, cur)
    BY <1>2, <1>3, <1>4, ConstAssumption DEF HandlerInv
  <1>6. SchedInv' /\ SameBlocked(st)
    BY <1>1, <1>2, <1>5, ExitReturn
  <1>7. env_free_list' \in Seq(Env) /\ FreeListExact'
    <2>1. \A f \in Env : env_status'[f] = "FREE" <=>
                             f # e /\ env_status[f] = "FREE"
      BY <1>3, <1>6 DEF SameBlocked
    <2>2. QED
      BY <1>1, <2>1, PopExact DEF EnvAlloc, DataInv
  <1>8. WaitingIsBlocked' /\ FrameInv'
    <2>1. ~env_ipc_recving[cur]
      BY <1>1, <1>2 DEF DataInv, WaitingIsBlocked
    <2>2. \A f \in Env \ {e} :
              /\ env_status'[f] = "FREE" <=> env_status[f] = "FREE"
              /\ env_status[f] = "NOT_RUNNABLE" => env_status'[f] = "NOT_RUNNABLE"
      BY <1>3, <1>6 DEF SameBlocked
    <2>3. /\ env_ipc_recving' = [env_ipc_recving EXCEPT ![e] = FALSE]
          /\ tf_eax' = [tf_eax EXCEPT ![cur] = "other", ![e] = "zero"]
          /\ cur # e
      BY <1>2, <1>4 DEF EnvAlloc
    <2>4. QED
      BY <1>1, <1>2, <2>1, <2>2, <2>3 DEF DataInv, WaitingIsBlocked, FrameInv
  <1>9. DataInv'
    <2>1. NextId(e) \in Int /\ env_id[cur] \in Int
      BY <1>1, <1>2, NextIdInt DEF DataInv
    <2>2. tf_eax' \in [Env -> Eax]
      BY <1>1, <1>2 DEF DataInv, Eax
    <2>3. QED
      BY <1>1, <1>7, <1>8, <2>1, <2>2 DEF EnvAlloc, DataInv
  <1>10. QED
    BY <1>6, <1>9, SplitInv

\* What envid2env returns is in the table; a slot other than the caller's own is
\* not free.
LEMMA EnvidInTable ==
  ASSUME KernelInv, NEW c \in CPU, Entered(c), NEW id \in Int,
         NEW checkperm \in BOOLEAN, Envid2Env(c, id, checkperm) # NULL
  PROVE  /\ Envid2Env(c, id, checkperm) \in Env
         /\ env_status[Envid2Env(c, id, checkperm)] # "FREE"
  <1>1. cpu_env[c] \in Env /\ env_status[cpu_env[c]] = "RUNNING"
    BY SplitInv, CurrentAlone
  <1>2. id % NENV \in Env
    BY ConstAssumption DEF Env
  <1>3. QED
    BY <1>1, <1>2 DEF Envid2Env

\* Every id a program passes is an integer.
LEMMA IdArgsInt == KernelInv => IdArgs \subseteq Int
  BY DEF KernelInv, TypeOK, IdArgs

\* sys_env_set_status used as fork() does: the child starts to be RUNNABLE.
LEMMA SetStatusStep ==
  ASSUME KernelInv, NEW c \in CPU, NEW id \in Int, NEW status,
         "env_set_status" \in Disciplined, SysEnvSetStatus(c, id, status)
  PROVE  KernelInv'
  <1> DEFINE cur == cpu_env[c]
             e == Envid2Env(c, id, TRUE)
             st == [env_status EXCEPT ![e] = status]
  <1> USE DEF SysEnvSetStatus, Trapped
  <1>1. SchedInv /\ DataInv
    BY SplitInv
  <1>2. /\ ~panicstr /\ cur \in Env /\ env_status[cur] = "RUNNING"
        /\ HandlerInv(c, env_status, cur)
    BY <1>1, CurrentAlone
  <1>3. e \in Env
    BY EnvidInTable
  <1>4. /\ status = "RUNNABLE" /\ e # cur
        /\ env_status[e] = "NOT_RUNNABLE" /\ ~env_ipc_recving[e]
    BY DEF MaySetStatus
  <1> HIDE DEF e
  <1>5. env_status \in [Env -> Status] /\ st \in [Env -> Status]
    BY <1>1, <1>4 DEF SchedInv, Status
  <1>6. HandlerInv(c, st, cur)
    BY <1>2, <1>3, <1>4, <1>5, ConstAssumption DEF HandlerInv
  <1>7. SchedInv' /\ SameBlocked(st)
    BY <1>1, <1>2, <1>6, ExitReturn DEF e
  <1>8. FreeListExact'
    <2>1. \A f \in Env : env_status'[f] = "FREE" <=> env_status[f] = "FREE"
      BY <1>3, <1>4, <1>5, <1>7 DEF SameBlocked
    <2>2. QED
      BY <1>1, <2>1 DEF DataInv, FreeListExact, tableVars
  <1>9. WaitingIsBlocked' /\ FrameInv'
    <2>1. \A f \in Env :
              /\ env_status'[f] = "FREE" <=> env_status[f] = "FREE"
              /\ f # e /\ env_status[f] = "NOT_RUNNABLE" =>
                     env_status'[f] = "NOT_RUNNABLE"
      BY <1>3, <1>4, <1>5, <1>7 DEF SameBlocked
    <2>2. ~env_ipc_recving[cur]
      BY <1>1, <1>2 DEF DataInv, WaitingIsBlocked
    <2>3. UNCHANGED env_ipc_recving /\ tf_eax' = [tf_eax EXCEPT ![cur] = "zero"]
      BY DEF ipcVars, SaveEax
    <2>4. QED
      BY <1>1, <1>2, <1>3, <1>4, <2>1, <2>2, <2>3
         DEF DataInv, WaitingIsBlocked, FrameInv
  <1>10. DataInv'
    BY <1>1, <1>2, <1>8, <1>9 DEF DataInv, tableVars, ipcVars, SaveEax, Eax
  <1>11. QED
    BY <1>7, <1>10, SplitInv

\* sys_ipc_try_send: the receiver is blocked, so it is on no CPU.
LEMMA TrySendStep ==
  ASSUME KernelInv, NEW c \in CPU, NEW id \in Int, NEW value \in Values,
         NEW page \in BOOLEAN, NEW perm \in BOOLEAN,
                SysIpcTrySend(c, id, value, page, perm)
  PROVE  KernelInv'
  <1> DEFINE cur == cpu_env[c]
             rcv == Envid2Env(c, id, FALSE)
             st == [env_status EXCEPT ![rcv] = "RUNNABLE"]
  <1> USE DEF SysIpcTrySend, Accepts, RecvEnds, BothReturnZero, Trapped
  <1>1. SchedInv /\ DataInv
    BY SplitInv
  <1>2. /\ ~panicstr /\ cur \in Env /\ env_status[cur] = "RUNNING"
        /\ HandlerInv(c, env_status, cur)
    BY <1>1, CurrentAlone
  <1>3. rcv \in Env /\ env_status[rcv] # "FREE"
    BY EnvidInTable
  <1>4. /\ env_ipc_recving[rcv]
        /\ env_ipc_perm' = [env_ipc_perm EXCEPT
                                ![rcv] = IF page /\ env_ipc_dstva[rcv] THEN perm ELSE @]
        /\ env_ipc_recving' = [env_ipc_recving EXCEPT ![rcv] = FALSE]
        /\ env_ipc_from' = [env_ipc_from EXCEPT ![rcv] = env_id[cur]]
        /\ env_ipc_value' = [env_ipc_value EXCEPT ![rcv] = value]
        /\ tf_eax' = [tf_eax EXCEPT ![rcv] = "zero", ![cur] = "zero"]
        /\ TrapReturn(c, st, cur)
        /\ UNCHANGED <<tableVars, env_ipc_dstva, panicstr>>
    OBVIOUS
  <1> HIDE DEF rcv, SysIpcTrySend, Accepts, RecvEnds, BothReturnZero, Trapped
  <1>5. env_status[rcv] = "NOT_RUNNABLE" /\ rcv # cur
    BY <1>1, <1>2, <1>3, <1>4 DEF DataInv, WaitingIsBlocked
  <1>6. env_status \in [Env -> Status] /\ st \in [Env -> Status]
    BY <1>1 DEF SchedInv, Status
  <1>7. HandlerInv(c, st, cur)
    BY <1>2, <1>3, <1>5, <1>6, ConstAssumption DEF HandlerInv
  <1>8. SchedInv' /\ SameBlocked(st)
    BY <1>1, <1>2, <1>4, <1>7, ExitReturn
  <1>9. \A f \in Env :
            /\ env_status'[f] = "FREE" <=> env_status[f] = "FREE"
            /\ f # rcv /\ env_status[f] = "NOT_RUNNABLE" =>
                   env_status'[f] = "NOT_RUNNABLE"
    BY <1>3, <1>5, <1>6, <1>8 DEF SameBlocked
  <1>10. FreeListExact'
    BY <1>1, <1>4, <1>9 DEF DataInv, FreeListExact, tableVars
  <1>11. WaitingIsBlocked' /\ FrameInv'
    <2>1. ~env_ipc_recving[cur]
      BY <1>1, <1>2 DEF DataInv, WaitingIsBlocked
    <2>2. QED
      BY <1>1, <1>2, <1>3, <1>4, <1>5, <1>9, <2>1
         DEF DataInv, WaitingIsBlocked, FrameInv
  <1>12. DataInv'
    <2>1. env_id[cur] \in Int
      BY <1>1, <1>2 DEF DataInv
    <2>2. tf_eax' \in [Env -> Eax] /\ env_ipc_perm' \in [Env -> BOOLEAN]
      BY <1>1, <1>4 DEF DataInv, Eax
    <2>3. QED
      BY <1>1, <1>4, <1>10, <1>11, <2>1, <2>2 DEF DataInv, tableVars
  <1>13. QED
    BY <1>8, <1>12, SplitInv

\* sys_ipc_recv: the caller blocks itself and leaves its CPU.
LEMMA RecvStep ==
  ASSUME KernelInv, NEW c \in CPU, NEW wantsPage \in BOOLEAN,
         SysIpcRecv(c, wantsPage)
  PROVE  KernelInv'
  <1> DEFINE cur == cpu_env[c]
             st == [env_status EXCEPT ![cur] = "NOT_RUNNABLE"]
  <1> USE DEF SysIpcRecv, Trapped
  <1>1. SchedInv /\ DataInv
    BY SplitInv
  <1>2. /\ ~panicstr /\ cur \in Env /\ env_status[cur] = "RUNNING"
        /\ HandlerInv(c, env_status, cur)
    BY <1>1, CurrentAlone
  <1>3. env_status \in [Env -> Status] /\ st \in [Env -> Status]
    BY <1>1 DEF SchedInv, Status
  <1>4. HandlerInv(c, st, cur)
    BY <1>2, <1>3, ConstAssumption DEF HandlerInv
  <1>5. SchedInv' /\ SameBlocked(st)
    BY <1>1, <1>2, <1>4, ExitYield
  <1>6. /\ \A f \in Env :
              /\ env_status'[f] = "FREE" <=> env_status[f] = "FREE"
              /\ env_status[f] = "NOT_RUNNABLE" => env_status'[f] = "NOT_RUNNABLE"
        /\ env_status'[cur] = "NOT_RUNNABLE"
    BY <1>2, <1>3, <1>5 DEF SameBlocked
  <1>7. FreeListExact'
    BY <1>1, <1>6 DEF DataInv, FreeListExact, tableVars
  <1>8. WaitingIsBlocked' /\ FrameInv'
    BY <1>1, <1>2, <1>6 DEF DataInv, WaitingIsBlocked, FrameInv, SaveEax
  <1>9. DataInv'
    BY <1>1, <1>2, <1>7, <1>8 DEF DataInv, tableVars, SaveEax, Eax
  <1>10. QED
    BY <1>5, <1>9, SplitInv

-----------------------------------------------------------------------------
(* The theorems *)

(***************************************************************************)
(* The two calls whose unrestricted use breaks the invariant (see the      *)
(* violations in the README) are used as the library uses them.  Nothing   *)
(* is assumed about a call that syscall() does not dispatch.               *)
(***************************************************************************)
LibraryUse ==
    /\ "env_set_status" \in Dispatched => "env_set_status" \in Disciplined
    /\ "env_destroy" \in Dispatched => "env_destroy" \in Disciplined

\* The state set up by env_init and mp_init satisfies the invariant.
LEMMA InitInv == Init => KernelInv
  <1> SUFFICES ASSUME Init
               PROVE  KernelInv
    OBVIOUS
  <1> USE ConstAssumption DEF Init
  <1>1. env_free_list \in Seq(Env)
    <2>1. \A i \in 1 .. NENV : i - 1 \in Env
      BY DEF Env
    <2>2. QED
      BY <2>1
  <1>2. TypeOK
    <2>1. /\ env_status \in [Env -> Status]
          /\ env_id \in [Env -> Int]
          /\ env_parent_id \in [Env -> Int]
          /\ env_ipc_recving \in [Env -> BOOLEAN]
          /\ env_ipc_dstva \in [Env -> BOOLEAN]
          /\ env_ipc_from \in [Env -> Int]
          /\ env_ipc_value \in [Env -> Values \cup {0}]
          /\ env_ipc_perm \in [Env -> BOOLEAN]
          /\ tf_eax \in [Env -> Eax]
      BY DEF Status, Eax
    <2>2. /\ cpu_env \in [CPU -> Env \cup {NULL}]
          /\ cpu_status \in [CPU -> {"UNUSED", "STARTED", "HALTED"}]
          /\ cpu_mode \in [CPU -> Mode]
          /\ kernel_lock \in CPU \cup {NULL}
          /\ panicstr \in BOOLEAN
      BY DEF Mode
    <2>3. QED
      BY <1>1, <2>1, <2>2 DEF TypeOK
  <1>3. ModeInv /\ OneCpu /\ ExecutingIsMarked
    BY DEF ModeInv, OneCpu, ExecutingIsMarked, NoEnv, Keeping, InEnv
  <1>4. NoneLost /\ WaitingIsBlocked /\ FrameInv
    BY DEF NoneLost, WaitingIsBlocked, FrameInv
  <1>5. FreeListExact
    <2>1. \A e \in Env : e + 1 \in 1 .. NENV /\ (e + 1) - 1 = e
      BY DEF Env
    <2>2. \A i, j \in 1 .. NENV : i - 1 = j - 1 => i = j
      OBVIOUS
    <2>3. QED
      BY <2>1, <2>2 DEF FreeListExact
  <1>6. QED
    BY <1>2, <1>3, <1>4, <1>5 DEF KernelInv

\* Every step of the kernel preserves the invariant.
LEMMA NextInv ==
  ASSUME LibraryUse
  PROVE  KernelInv /\ [Next]_vars => KernelInv'
  <1> SUFFICES ASSUME KernelInv, [Next]_vars
               PROVE  KernelInv'
    OBVIOUS
  <1>1. CASE EnvCreate
    BY <1>1, EnvCreateStep
  <1>2. CASE BootYield
    <2>1. BSP \in CPU /\ cpu_mode[BSP] \in NoEnv
      BY <1>2, ConstAssumption DEF BootYield, NoEnv
    <2>2. QED
      BY <1>2, <2>1, IdleYieldStep DEF BootYield
  <1>3. ASSUME NEW c \in CPU,
               StartAp(c) \/ PopTf(c) \/ TrapEntry(c) \/ TrapAfterPanic(c)
        PROVE  KernelInv'
    BY <1>3, UnlockedStep
  <1>4. ASSUME NEW c \in CPU, MpYield(c) \/ WakeYield(c)
        PROVE  KernelInv'
    <2>1. cpu_mode[c] \in NoEnv
      BY <1>4 DEF MpYield, WakeYield, NoEnv
    <2>2. QED
      BY <1>4, <2>1, IdleYieldStep DEF MpYield, WakeYield
  <1>5. ASSUME NEW c \in CPU, WakePanic(c)
        PROVE  KernelInv'
    BY <1>5, MonitorStep DEF WakePanic
  <1>6. ASSUME NEW c \in CPU, ReapZombie(c)
        PROVE  KernelInv'
    BY <1>6, ReapZombieStep
  <1>7. ASSUME NEW c \in CPU, Timer(c) \/ Resume(c) \/ OtherCall(c)
        PROVE  KernelInv'
    BY <1>7, PlainHandlerStep DEF Timer, Resume, OtherCall
  <1>8. ASSUME NEW c \in CPU, Fault(c)
        PROVE  KernelInv'
    <2>1. Entered(c) /\ UNCHANGED panicstr
      BY <1>8 DEF Fault, Trapped
    <2>2. cpu_env[c] \in Env /\ env_status[cpu_env[c]] = "RUNNING"
      BY <2>1, SplitInv, CurrentAlone
    <2>3. QED
      BY <1>8, <2>1, <2>2, EnvDestroyStep DEF Fault
  <1>9. ASSUME NEW c \in CPU, Breakpoint(c)
        PROVE  KernelInv'
    <2>1. Entered(c) /\ UNCHANGED panicstr
      BY <1>9 DEF Breakpoint, Trapped
    <2>2. cpu_env[c] \in Env /\ env_status[cpu_env[c]] = "RUNNING"
      BY <2>1, SplitInv, CurrentAlone
    <2>3. QED
      BY <1>9, <2>1, <2>2, MonitorStep DEF Breakpoint, Entered, SaveEax
  <1>10. ASSUME NEW c \in CPU, NEW id \in IdArgs, SysEnvDestroy(c, id)
         PROVE  KernelInv'
    <2> DEFINE e == Envid2Env(c, id, TRUE)
    <2>1. /\ Entered(c) /\ UNCHANGED panicstr
          /\ e # NULL /\ MayDestroy(e)
      BY <1>10 DEF SysEnvDestroy, Trapped, LibraryUse
    <2>2. e \in Env /\ env_status[e] \notin {"FREE", "DYING"}
      BY <2>1, EnvidInTable, IdArgsInt DEF MayDestroy
    <2>3. QED
      BY <1>10, <2>1, <2>2, EnvDestroyStep DEF SysEnvDestroy
  <1>11. ASSUME NEW c \in CPU, NEW e \in Env, SysExofork(c, e)
         PROVE  KernelInv'
    BY <1>11, ExoforkStep
  <1>12. ASSUME NEW c \in CPU, NEW id \in IdArgs,
                NEW status \in {"RUNNABLE", "NOT_RUNNABLE"},
                SysEnvSetStatus(c, id, status)
         PROVE  KernelInv'
    <2>1. "env_set_status" \in Disciplined
      BY <1>12 DEF SysEnvSetStatus, LibraryUse
    <2>2. id \in Int
      BY IdArgsInt
    <2>3. QED
      BY <1>12, <2>1, <2>2, SetStatusStep
  <1>13. ASSUME NEW c \in CPU, NEW id \in IdArgs, NEW value \in Values,
                NEW page \in BOOLEAN, NEW perm \in BOOLEAN,
                SysIpcTrySend(c, id, value, page, perm)
         PROVE  KernelInv'
    <2>1. id \in Int
      BY IdArgsInt
    <2>2. QED
      BY <1>13, <2>1, TrySendStep
  <1>14. ASSUME NEW c \in CPU, NEW id \in IdArgs, SysIpcTrySendUnmapped(c, id)
         PROVE  KernelInv'
    <2>1. Entered(c)
      BY <1>14 DEF SysIpcTrySendUnmapped
    <2>2. cpu_env[c] \in Env /\ env_status[cpu_env[c]] = "RUNNING"
      BY <2>1, SplitInv, CurrentAlone
    <2>3. QED
      BY <1>14, <2>1, <2>2, MonitorStep
         DEF SysIpcTrySendUnmapped, Entered, SaveEax
  <1>15. ASSUME NEW c \in CPU, NEW wantsPage \in BOOLEAN,
                SysIpcRecv(c, wantsPage)
         PROVE  KernelInv'
    BY <1>15, RecvStep
  <1>16. CASE UNCHANGED vars
    BY <1>16
       DEF vars, schedVars, tableVars, ipcVars, KernelInv, TypeOK, ModeInv,
           OneCpu, ExecutingIsMarked, NoneLost, FreeListExact,
           WaitingIsBlocked, FrameInv
  <1>17. QED
    BY <1>1, <1>2, <1>3, <1>4, <1>5, <1>6, <1>7, <1>8, <1>9, <1>10, <1>11,
       <1>12, <1>13, <1>14, <1>15, <1>16 DEF Next, Syscall

\* The kernel keeps its invariant, for any number of CPUs and of slots of envs[]
\* and any set of dispatched system calls, if programs use the two calls as the
\* library does.
THEOREM KernelInvariant ==
  ASSUME LibraryUse
  PROVE  Spec => []KernelInv
  BY InitInv, NextInv, PTL DEF Spec

\* sched_yield/env_run: no environment is ever current on two CPUs.
THEOREM NeverOnTwoCpus ==
  ASSUME LibraryUse
  PROVE  Spec => []OneCpu
  <1>1. KernelInv => OneCpu
    BY DEF KernelInv
  <1>2. QED
    BY <1>1, KernelInvariant, PTL

\* env_free/env_destroy: what a CPU executes is never free, runnable or blocked,
\* and nothing that is marked as running is on no CPU.
THEOREM RunningIsOnACpu ==
  ASSUME LibraryUse
  PROVE  Spec => [](ExecutingIsMarked /\ NoneLost)
  <1>1. KernelInv => ExecutingIsMarked /\ NoneLost
    BY DEF KernelInv
  <1>2. QED
    BY <1>1, KernelInvariant, PTL

\* sys_ipc_recv: no frame is popped that a sender has not completed.
THEOREM ReceiveIsCompleted ==
  ASSUME LibraryUse
  PROVE  Spec => []NoSpuriousReceive
  <1>1. KernelInv => NoSpuriousReceive
    <2> SUFFICES ASSUME KernelInv, NEW c \in CPU, cpu_mode[c] = "pop"
                 PROVE  tf_eax[cpu_env[c]] # "recv"
      BY DEF NoSpuriousReceive
    <2>1. /\ cpu_env[c] \in Env
          /\ env_status[cpu_env[c]] \in {"RUNNING", "DYING"}
      BY ConstAssumption DEF KernelInv, TypeOK, ExecutingIsMarked, InEnv
    <2>2. QED
      BY <2>1 DEF KernelInv, WaitingIsBlocked, FrameInv
  <1>2. QED
    BY <1>1, KernelInvariant, PTL

\* Whose frames a step may write: the one that a CPU inside trap() belongs to,
\* and those of environments that are free or blocked.
LEMMA FrameWrites ==
  ASSUME KernelInv, Next, NEW e \in Env,
         env_status[e] \notin {"FREE", "NOT_RUNNABLE"},
         \A c \in CPU : cpu_mode[c] = "trap" => cpu_env[c] # e
  PROVE  tf_eax'[e] = tf_eax[e]
  <1> USE DEF SaveEax, Trapped, Entered
  <1>0. tf_eax \in [Env -> Eax]
    BY DEF KernelInv, TypeOK
  <1>1. CASE EnvCreate
    <2>1. PICK f \in Env : EnvAlloc(f, 0) /\ tf_eax' = [tf_eax EXCEPT ![f] = "zero"]
      BY <1>1 DEF EnvCreate
    <2>2. env_free_list[1] = f /\ 1 \in DOMAIN env_free_list
      BY <2>1 DEF EnvAlloc, KernelInv, TypeOK
    <2>3. env_status[f] = "FREE"
      BY <2>2 DEF KernelInv, FreeListExact
    <2>4. QED
      BY <1>0, <2>1, <2>3
  <1>2. CASE BootYield
    BY <1>2 DEF BootYield
  <1>3. ASSUME NEW c \in CPU,
               \/ StartAp(c) \/ MpYield(c) \/ PopTf(c) \/ TrapEntry(c)
               \/ TrapAfterPanic(c) \/ WakeYield(c) \/ WakePanic(c)
               \/ ReapZombie(c)
        PROVE  tf_eax'[e] = tf_eax[e]
    BY <1>3 DEF StartAp, MpYield, PopTf, TrapEntry, TrapAfterPanic, WakeYield,
                WakePanic, ReapZombie
  <1>4. ASSUME NEW c \in CPU,
               \/ Timer(c) \/ Resume(c) \/ Fault(c) \/ Breakpoint(c)
               \/ OtherCall(c)
        PROVE  tf_eax'[e] = tf_eax[e]
    <2>1. cpu_env[c] # e
      BY <1>4 DEF Timer, Resume, Fault, Breakpoint, OtherCall
    <2>2. QED
      BY <1>0, <1>4, <2>1 DEF Timer, Resume, Fault, Breakpoint, OtherCall
  <1>5. ASSUME NEW c \in CPU, NEW f \in Env, SysExofork(c, f)
        PROVE  tf_eax'[e] = tf_eax[e]
    <2>1. env_free_list[1] = f /\ 1 \in DOMAIN env_free_list
      BY <1>5 DEF SysExofork, ForkReturns, EnvAlloc, KernelInv, TypeOK
    <2>2. env_status[f] = "FREE"
      BY <2>1 DEF KernelInv, FreeListExact
    <2>3. QED
      BY <1>0, <1>5, <2>2 DEF SysExofork, ForkReturns
  <1>6. ASSUME NEW c \in CPU, NEW id \in IdArgs, NEW value \in Values,
               NEW page \in BOOLEAN, NEW perm \in BOOLEAN,
                SysIpcTrySend(c, id, value, page, perm)
        PROVE  tf_eax'[e] = tf_eax[e]
    <2> DEFINE rcv == Envid2Env(c, id, FALSE)
    <2>1. /\ Entered(c) /\ rcv # NULL /\ env_ipc_recving[rcv]
          /\ tf_eax' = [tf_eax EXCEPT ![rcv] = "zero", ![cpu_env[c]] = "zero"]
      BY <1>6 DEF SysIpcTrySend, Accepts, RecvEnds, BothReturnZero
    <2>2. rcv \in Env /\ env_status[rcv] # "FREE"
      BY <2>1, EnvidInTable, IdArgsInt
    <2>3. env_status[rcv] = "NOT_RUNNABLE"
      BY <2>1, <2>2 DEF KernelInv, WaitingIsBlocked
    <2> HIDE DEF rcv
    <2>4. QED
      BY <1>0, <2>1, <2>3
  <1>7. ASSUME NEW c \in CPU, NEW id \in IdArgs,
               \/ SysEnvDestroy(c, id) \/ SysIpcTrySendUnmapped(c, id)
               \/ \E status : SysEnvSetStatus(c, id, status)
        PROVE  tf_eax'[e] = tf_eax[e]
    BY <1>0, <1>7 DEF SysEnvDestroy, SysIpcTrySendUnmapped, SysEnvSetStatus
  <1>8. ASSUME NEW c \in CPU, NEW wantsPage \in BOOLEAN,
               SysIpcRecv(c, wantsPage)
        PROVE  tf_eax'[e] = tf_eax[e]
    BY <1>0, <1>8 DEF SysIpcRecv
  <1>9. QED
    BY <1>1, <1>2, <1>3, <1>4, <1>5, <1>6, <1>7, <1>8 DEF Next, Syscall

\* env_run may release the lock before env_pop_tf reads the frame: no other CPU
\* writes it in between.
THEOREM PoppedFrameIsStable ==
  ASSUME LibraryUse
  PROVE  Spec => FrameStable
  <1> DEFINE Stable == \A c \in CPU :
                 cpu_mode[c] = "pop" /\ cpu_mode'[c] \in {"pop", "user"} =>
                     tf_eax'[cpu_env[c]] = tf_eax[cpu_env[c]]
  <1>1. KernelInv /\ [Next]_vars => [Stable]_vars
    <2> SUFFICES ASSUME KernelInv, Next, NEW c \in CPU, cpu_mode[c] = "pop"
                 PROVE  tf_eax'[cpu_env[c]] = tf_eax[cpu_env[c]]
      OBVIOUS
    <2>1. /\ cpu_env[c] \in Env
          /\ env_status[cpu_env[c]] \in {"RUNNING", "DYING"}
      BY ConstAssumption DEF KernelInv, TypeOK, ExecutingIsMarked, InEnv
    <2>2. \A d \in CPU : cpu_mode[d] = "trap" => cpu_env[d] # cpu_env[c]
      BY <2>1, ConstAssumption DEF KernelInv, OneCpu
    <2>3. QED
      BY <2>1, <2>2, FrameWrites
  <1>2. QED
    BY <1>1, KernelInvariant, PTL DEF Spec, FrameStable
-----------------------------------------------------------------------------
(* What a step may do to one environment *)

\* sched_yield and the end of trap(), whatever the handler left behind, change
\* only which environments are RUNNING.
LEMMA ExitKeepsBlocked ==
  ASSUME NEW c \in CPU, NEW st \in [Env -> Status], NEW cur \in Env \cup {NULL},
         SchedYield(c, st, cur) \/ TrapReturn(c, st, cur)
  PROVE  SameBlocked(st)
  <1>1. ASSUME NEW e \in Env, st[e] \in {"RUNNABLE", "RUNNING"},
               EnvRun(c, e, st, cur)
        PROVE  SameBlocked(st)
    BY <1>1 DEF EnvRun, SameBlocked, Status
  <1>2. CASE cur # NULL /\ st[cur] = "RUNNING" /\ EnvRun(c, cur, st, cur)
    BY <1>1, <1>2
  <1>3. CASE SchedHalt(c, st, cur)
    BY <1>3 DEF SchedHalt, Halt, Monitor, SameBlocked
  <1>4. CASE \E e \in Env : /\ FirstRunnable(e, st, SchedStart(cur))
                            /\ EnvRun(c, e, st, cur)
    BY <1>1, <1>4 DEF FirstRunnable
  <1>5. QED
    BY <1>2, <1>3, <1>4 DEF SchedYield, TrapReturn

\* env_alloc: slot e, which was free, gets a new id and a frame that returns 0.
Allocated(e) ==
    /\ env_status[e] = "FREE"
    /\ env_id'[e] = NextId(e)
    /\ tf_eax'[e] = "zero"

\* Every other step: the occupant of e keeps its id, a free slot stays free, an
\* environment that is blocked outside sys_ipc_recv was so before and with the
\* same frame, and a message changes only for an environment that waits for one.
Continued(e) ==
    /\ env_id'[e] = env_id[e]
    /\ env_status[e] = "FREE" => env_status'[e] = "FREE"
    /\ env_status'[e] = "NOT_RUNNABLE" /\ ~env_ipc_recving'[e] =>
        /\ env_status[e] = "NOT_RUNNABLE" /\ ~env_ipc_recving[e]
        /\ tf_eax'[e] = tf_eax[e]
    /\ ~env_ipc_recving[e] =>
        /\ env_ipc_from'[e] = env_ipc_from[e]
        /\ env_ipc_value'[e] = env_ipc_value[e]
        /\ env_ipc_perm'[e] = env_ipc_perm[e]

\* The head of the free list is a free slot.
LEMMA HeadIsFree ==
  ASSUME KernelInv, NEW e, NEW parent, EnvAlloc(e, parent)
  PROVE  e \in Env /\ env_status[e] = "FREE"
  <1>1. env_free_list[1] = e /\ 1 \in DOMAIN env_free_list /\ e \in Env
    BY DEF EnvAlloc, KernelInv, TypeOK
  <1>2. QED
    BY <1>1 DEF KernelInv, FreeListExact

\* A handler that leaves the tables alone and writes at most the frame of a
\* running environment continues every environment.
LEMMA PlainContinues ==
  ASSUME KernelInv, SameBlocked(env_status), UNCHANGED <<tableVars, ipcVars>>,
         \/ UNCHANGED tf_eax
         \/ \E f \in Env : env_status[f] = "RUNNING"
               /\ \E eax : tf_eax' = [tf_eax EXCEPT ![f] = eax],
         NEW e \in Env
  PROVE  Continued(e)
  <1>1. env_status[e] = "NOT_RUNNABLE" => tf_eax'[e] = tf_eax[e]
    BY DEF KernelInv, TypeOK
  <1>2. QED
    BY <1>1 DEF Continued, SameBlocked, tableVars, ipcVars

\* env_destroy continues every environment.
LEMMA DestroyContinues ==
  ASSUME KernelInv, NEW c \in CPU, Entered(c),
         NEW f \in Env, env_status[f] # "FREE", EnvDestroy(c, f),
         NEW eax, SaveEax(c, eax), UNCHANGED ipcVars, NEW e \in Env
  PROVE  Continued(e)
  <1> DEFINE cur == cpu_env[c]
  <1>1. cur \in Env /\ env_status[cur] = "RUNNING"
    BY SplitInv, CurrentAlone
  <1>2. PICK st \in [Env -> Status], next \in {cur, NULL} :
            /\ st \in {[env_status EXCEPT ![f] = "DYING"],
                       [env_status EXCEPT ![f] = "FREE"]}
            /\ SchedYield(c, st, next) \/ TrapReturn(c, st, next)
    <2>1. /\ [env_status EXCEPT ![f] = "DYING"] \in [Env -> Status]
          /\ [env_status EXCEPT ![f] = "FREE"] \in [Env -> Status]
      BY DEF KernelInv, TypeOK, Status
    <2>2. QED
      BY <2>1 DEF EnvDestroy
  <1>3. SameBlocked(st)
    BY <1>1, <1>2, ExitKeepsBlocked
  <1>4. /\ env_status[e] = "FREE" => env_status'[e] = "FREE"
        /\ env_status'[e] = "NOT_RUNNABLE" => env_status[e] = "NOT_RUNNABLE"
    BY <1>2, <1>3 DEF SameBlocked, KernelInv, TypeOK
  <1>5. env_status[e] = "NOT_RUNNABLE" => tf_eax'[e] = tf_eax[e]
    BY <1>1 DEF SaveEax, KernelInv, TypeOK
  <1>6. UNCHANGED env_id
    BY DEF EnvDestroy, EnvFree, tableVars
  <1>7. QED
    BY <1>4, <1>5, <1>6 DEF Continued, ipcVars

\* Every step either allocates an environment or continues it.
LEMMA EnvStep ==
  ASSUME LibraryUse, KernelInv, Next, NEW e \in Env
  PROVE  Allocated(e) \/ Continued(e)
  <1> USE DEF Trapped
  <1>0. /\ env_status \in [Env -> Status] /\ tf_eax \in [Env -> Eax]
        /\ env_id \in [Env -> Int] /\ env_ipc_recving \in [Env -> BOOLEAN]
        /\ env_ipc_from \in [Env -> Int] /\ env_ipc_perm \in [Env -> BOOLEAN]
        /\ env_ipc_value \in [Env -> Values \cup {0}]
    BY DEF KernelInv, TypeOK
  <1>0a. \A c \in CPU : Entered(c) =>
             cpu_env[c] \in Env /\ env_status[cpu_env[c]] = "RUNNING"
    BY SplitInv, CurrentAlone
  <1>1. CASE EnvCreate
    <2>1. PICK f \in Env :
              /\ EnvAlloc(f, 0)
              /\ env_status' = [env_status EXCEPT ![f] = "RUNNABLE"]
              /\ tf_eax' = [tf_eax EXCEPT ![f] = "zero"]
      BY <1>1 DEF EnvCreate
    <2>2. env_status[f] = "FREE"
      BY <2>1, HeadIsFree
    <2>3. CASE e = f
      BY <1>0, <2>1, <2>2, <2>3 DEF Allocated, EnvAlloc
    <2>4. CASE e # f
      BY <1>0, <2>1, <2>4 DEF Continued, EnvAlloc
    <2>5. QED
      BY <2>3, <2>4
  <1>2. CASE BootYield
    <2>1. SameBlocked(env_status)
      BY <1>0, <1>2, ConstAssumption, ExitKeepsBlocked DEF BootYield
    <2>2. QED
      BY <1>2, <2>1, PlainContinues DEF BootYield
  <1>3. ASSUME NEW c \in CPU,
               \/ StartAp(c) \/ PopTf(c) \/ TrapEntry(c) \/ TrapAfterPanic(c)
               \/ WakePanic(c)
        PROVE  Continued(e)
    <2>1. UNCHANGED <<env_status, tableVars, ipcVars, tf_eax>>
      BY <1>3 DEF StartAp, PopTf, TrapEntry, TrapAfterPanic, WakePanic, Monitor
    <2>2. SameBlocked(env_status)
      BY <2>1 DEF SameBlocked
    <2>3. QED
      BY <2>1, <2>2, PlainContinues
  <1>4. ASSUME NEW c \in CPU, MpYield(c) \/ WakeYield(c)
        PROVE  Continued(e)
    <2>1. SchedYield(c, env_status, NULL) /\ UNCHANGED <<tableVars, ipcVars, tf_eax>>
      BY <1>4 DEF MpYield, WakeYield
    <2>2. SameBlocked(env_status)
      BY <1>0, <2>1, ExitKeepsBlocked
    <2>3. QED
      BY <2>1, <2>2, PlainContinues
  <1>5. ASSUME NEW c \in CPU, ReapZombie(c)
        PROVE  Continued(e)
    <2> DEFINE st == [env_status EXCEPT ![cpu_env[c]] = "FREE"]
    <2>1. st \in [Env -> Status]
      BY <1>0 DEF Status
    <2>2. SameBlocked(st)
      BY <1>5, <2>1, ExitKeepsBlocked DEF ReapZombie
    <2>3. cpu_env[c] \in Env
      BY <1>5, ConstAssumption DEF ReapZombie, KernelInv, TypeOK,
         ExecutingIsMarked, InEnv
    <2>4. QED
      BY <1>0, <1>5, <2>2, <2>3
         DEF ReapZombie, EnvFree, Continued, SameBlocked, ipcVars
  <1>6. ASSUME NEW c \in CPU,
               Timer(c) \/ Resume(c) \/ OtherCall(c) \/ Breakpoint(c) \/
               \E id \in IdArgs : SysIpcTrySendUnmapped(c, id)
        PROVE  Continued(e)
    <2>1. /\ Entered(c) /\ UNCHANGED <<tableVars, ipcVars>>
          /\ \E eax : SaveEax(c, eax)
          /\ \/ SchedYield(c, env_status, cpu_env[c])
             \/ TrapReturn(c, env_status, cpu_env[c])
             \/ env_status' = env_status
      BY <1>6 DEF Timer, Resume, OtherCall, Breakpoint, SysIpcTrySendUnmapped,
                  Monitor
    <2>2. SameBlocked(env_status)
      <3>1. CASE env_status' = env_status
        BY <3>1 DEF SameBlocked
      <3>2. QED
        BY <1>0, <1>0a, <2>1, <3>1, ExitKeepsBlocked
    <2>3. \E f \in Env : env_status[f] = "RUNNING"
             /\ \E eax : tf_eax' = [tf_eax EXCEPT ![f] = eax]
      BY <1>0a, <2>1 DEF SaveEax
    <2>4. QED
      BY <2>1, <2>2, <2>3, PlainContinues
  <1>7. ASSUME NEW c \in CPU, Fault(c)
        PROVE  Continued(e)
    BY <1>0a, <1>7, DestroyContinues DEF Fault
  <1>8. ASSUME NEW c \in CPU, NEW id \in IdArgs, SysEnvDestroy(c, id)
        PROVE  Continued(e)
    <2> DEFINE f == Envid2Env(c, id, TRUE)
    <2>1. Entered(c) /\ f # NULL /\ EnvDestroy(c, f) /\ UNCHANGED ipcVars
      BY <1>8 DEF SysEnvDestroy
    <2>2. f \in Env /\ env_status[f] # "FREE"
      BY <2>1, EnvidInTable, IdArgsInt
    <2>3. PICK eax : SaveEax(c, eax)
      BY <1>8 DEF SysEnvDestroy
    <2> HIDE DEF f
    <2>4. QED
      BY <2>1, <2>2, <2>3, DestroyContinues
  <1>9. ASSUME NEW c \in CPU, NEW f \in Env, SysExofork(c, f)
        PROVE  Allocated(e) \/ Continued(e)
    <2> DEFINE st == [env_status EXCEPT ![f] = "NOT_RUNNABLE"]
    <2>1. /\ Entered(c) /\ EnvAlloc(f, env_id[cpu_env[c]])
          /\ tf_eax' = [tf_eax EXCEPT ![cpu_env[c]] = "other", ![f] = "zero"]
          /\ TrapReturn(c, st, cpu_env[c])
      BY <1>9 DEF SysExofork, ForkReturns
    <2>2. env_status[f] = "FREE"
      BY <2>1, HeadIsFree
    <2>3. SameBlocked(st)
      <3>1. st \in [Env -> Status]
        BY <1>0 DEF Status
      <3>2. QED
        BY <1>0a, <2>1, <3>1, ExitKeepsBlocked
    <2>4. CASE e = f
      BY <1>0, <2>1, <2>2, <2>4 DEF Allocated, EnvAlloc
    <2>5. CASE e # f
      <3>1. env_status[e] = "NOT_RUNNABLE" => tf_eax'[e] = tf_eax[e]
        BY <1>0, <1>0a, <2>1, <2>5
      <3>2. QED
        BY <1>0, <2>1, <2>3, <2>5, <3>1 DEF Continued, EnvAlloc, SameBlocked
    <2>6. QED
      BY <2>4, <2>5
  <1>10. ASSUME NEW c \in CPU, NEW id \in IdArgs,
                NEW status \in {"RUNNABLE", "NOT_RUNNABLE"},
                SysEnvSetStatus(c, id, status)
         PROVE  Continued(e)
    <2> DEFINE f == Envid2Env(c, id, TRUE)
               st == [env_status EXCEPT ![f] = status]
    <2>1. /\ Entered(c) /\ f # NULL /\ MaySetStatus(c, f, status)
          /\ SaveEax(c, "zero") /\ TrapReturn(c, st, cpu_env[c])
          /\ UNCHANGED <<tableVars, ipcVars>>
      BY <1>10 DEF SysEnvSetStatus, LibraryUse
    <2>2. f \in Env /\ env_status[f] = "NOT_RUNNABLE" /\ status = "RUNNABLE"
      BY <2>1, EnvidInTable, IdArgsInt DEF MaySetStatus
    <2> HIDE DEF f
    <2>3. SameBlocked(st)
      <3>1. st \in [Env -> Status]
        BY <1>0, <2>2 DEF Status
      <3>2. QED
        BY <1>0a, <2>1, <3>1, ExitKeepsBlocked
    <2>4. env_status[e] = "NOT_RUNNABLE" => tf_eax'[e] = tf_eax[e]
      BY <1>0, <1>0a, <2>1 DEF SaveEax
    <2>5. QED
      BY <1>0, <2>1, <2>2, <2>3, <2>4
         DEF Continued, SameBlocked, tableVars, ipcVars
  <1>11. ASSUME NEW c \in CPU, NEW id \in IdArgs, NEW value \in Values,
                NEW page \in BOOLEAN, NEW perm \in BOOLEAN,
                SysIpcTrySend(c, id, value, page, perm)
         PROVE  Continued(e)
    <2> DEFINE rcv == Envid2Env(c, id, FALSE)
               st == [env_status EXCEPT ![rcv] = "RUNNABLE"]
    <2>1. /\ Entered(c) /\ rcv # NULL /\ env_ipc_recving[rcv]
          /\ env_ipc_recving' = [env_ipc_recving EXCEPT ![rcv] = FALSE]
          /\ env_ipc_from' = [env_ipc_from EXCEPT ![rcv] = env_id[cpu_env[c]]]
          /\ env_ipc_value' = [env_ipc_value EXCEPT ![rcv] = value]
          /\ \E p : env_ipc_perm' = [env_ipc_perm EXCEPT ![rcv] = p]
          /\ tf_eax' = [tf_eax EXCEPT ![rcv] = "zero", ![cpu_env[c]] = "zero"]
          /\ TrapReturn(c, st, cpu_env[c])
          /\ UNCHANGED tableVars
      BY <1>11 DEF SysIpcTrySend, Accepts, RecvEnds, BothReturnZero
    <2>2. rcv \in Env /\ env_status[rcv] # "FREE"
      BY <2>1, EnvidInTable, IdArgsInt
    <2> HIDE DEF rcv
    <2>3. SameBlocked(st)
      <3>1. st \in [Env -> Status]
        BY <1>0 DEF Status
      <3>2. QED
        BY <1>0a, <2>1, <3>1, ExitKeepsBlocked
    <2>4. CASE e = rcv
      BY <1>0, <2>1, <2>2, <2>3, <2>4 DEF Continued, SameBlocked, tableVars
    <2>5. CASE e # rcv
      <3>1. env_status[e] = "NOT_RUNNABLE" => tf_eax'[e] = tf_eax[e]
        BY <1>0, <1>0a, <2>1, <2>5
      <3>2. QED
        BY <1>0, <2>1, <2>2, <2>3, <2>5, <3>1
           DEF Continued, SameBlocked, tableVars
    <2>6. QED
      BY <2>4, <2>5
  <1>12. ASSUME NEW c \in CPU, NEW wantsPage \in BOOLEAN,
                SysIpcRecv(c, wantsPage)
         PROVE  Continued(e)
    <2> DEFINE cur == cpu_env[c]
               st == [env_status EXCEPT ![cur] = "NOT_RUNNABLE"]
    <2>1. /\ Entered(c) /\ SaveEax(c, "recv")
          /\ env_ipc_recving' = [env_ipc_recving EXCEPT ![cur] = TRUE]
          /\ SchedYield(c, st, cur)
          /\ UNCHANGED <<tableVars, env_ipc_from, env_ipc_value, env_ipc_perm>>
      BY <1>12 DEF SysIpcRecv
    <2>2. cur \in Env /\ env_status[cur] = "RUNNING"
      BY <1>0a, <2>1
    <2>3. SameBlocked(st)
      <3>1. st \in [Env -> Status]
        BY <1>0 DEF Status
      <3>2. QED
        BY <2>1, <2>2, <3>1, ExitKeepsBlocked
    <2>4. QED
      BY <1>0, <2>1, <2>2, <2>3
         DEF Continued, SameBlocked, SaveEax, tableVars
  <1>13. QED
    BY <1>1, <1>2, <1>3, <1>4, <1>5, <1>6, <1>7, <1>8, <1>9, <1>10, <1>11,
       <1>12 DEF Next, Syscall

\* env_alloc, env_free: the free list always holds exactly the free slots, each
\* once, so a slot is never handed out twice and never lost.
THEOREM FreeListIsExact ==
  ASSUME LibraryUse
  PROVE  Spec => []FreeListExact
  <1>1. KernelInv => FreeListExact
    BY DEF KernelInv
  <1>2. QED
    BY <1>1, KernelInvariant, PTL

\* sys_exofork: until its parent starts it, a child has 0 in its saved %eax,
\* whatever the other CPUs do meanwhile.
THEOREM ForkedChildReturnsZero ==
  ASSUME LibraryUse
  PROVE  Spec => []ChildReturnsZero
  <1>1. Init => ChildReturnsZero
    BY DEF Init, ChildReturnsZero
  <1>2. KernelInv /\ ChildReturnsZero /\ [Next]_vars => ChildReturnsZero'
    <2> SUFFICES ASSUME KernelInv, ChildReturnsZero, [Next]_vars, NEW e \in Env,
                        env_status'[e] = "NOT_RUNNABLE", ~env_ipc_recving'[e]
                 PROVE  tf_eax'[e] = "zero"
      BY DEF ChildReturnsZero
    <2>1. CASE Next
      BY <2>1, EnvStep DEF Allocated, Continued, ChildReturnsZero
    <2>2. CASE UNCHANGED vars
      BY <2>2 DEF vars, schedVars, ipcVars, ChildReturnsZero
    <2>3. QED
      BY <2>1, <2>2
  <1>3. QED
    BY <1>1, <1>2, KernelInvariant, PTL DEF Spec

\* sys_ipc_try_send: no step of any CPU changes what was delivered to an
\* environment until it asks for the next message.
THEOREM DeliveredMessageIsKept ==
  ASSUME LibraryUse
  PROVE  Spec => DeliveredIsKept
  <1> DEFINE Kept == \A e \in Env : env_status[e] # "FREE" /\ ~env_ipc_recving[e] =>
                         /\ env_ipc_from'[e] = env_ipc_from[e]
                         /\ env_ipc_value'[e] = env_ipc_value[e]
                         /\ env_ipc_perm'[e] = env_ipc_perm[e]
  <1>1. KernelInv /\ [Next]_vars => [Kept]_vars
    <2> SUFFICES ASSUME KernelInv, Next
                 PROVE  Kept
      OBVIOUS
    <2>1. QED
      BY EnvStep DEF Allocated, Continued
  <1>2. QED
    BY <1>1, KernelInvariant, PTL DEF Spec, DeliveredIsKept

-----------------------------------------------------------------------------
(* Ids *)

\* A sum of an id and a generation step is a multiple of NENV and a slot.
LEMMA DivMod ==
  ASSUME NEW n \in Nat \ {0}, NEW x \in Int
  PROVE  \E q \in Int, r \in 0 .. n - 1 : x % n = r /\ x = n * q + r
  <1>1. PICK q \in Int, r \in 0 .. n - 1 : q = x \div n /\ r = x % n
    OBVIOUS
  <1>2. x = n * q + r
    BY <1>1
  <1>3. QED
    BY <1>1, <1>2, Zenon

\* A multiple of NENV below IDLIMIT is below it by a generation at least.
LEMMA MultipleGap ==
  ASSUME NEW n \in Nat \ {0}, NEW k \in Int, NEW q \in Int, n * k < n * q
  PROVE  n * k + n <= n * q
  <1>1. k < q
    <2>1. k >= q => n * k >= n * q
      OBVIOUS
    <2>2. n * k \in Int /\ n * q \in Int
      OBVIOUS
    <2>3. QED
      BY <2>1, <2>2
  <1>2. n * (k + 1) <= n * q
    BY <1>1
  <1>3. QED
    BY <1>2

\* The slot is what an id has above a multiple of NENV.
LEMMA ModOfSum ==
  ASSUME NEW n \in Nat \ {0}, NEW k \in Int, NEW e \in 0 .. n - 1
  PROVE  (n * k + e) % n = e
  <1>1. PICK q \in Int, r \in 0 .. n - 1 :
            r = (n * k + e) % n /\ q = (n * k + e) \div n
    OBVIOUS
  <1>2. n * k + e = n * q + r /\ n * k \in Int /\ n * q \in Int
    BY <1>1
  <1>3. ASSUME NEW u \in Int, NEW v \in Int, u < v PROVE n * u + n <= n * v
    <2>1. n * (u + 1) <= n * v
      BY <1>3
    <2>2. QED
      BY <2>1
  <1>4. k = q
    BY <1>2, <1>3
  <1>5. QED
    BY <1>1, <1>2, <1>4

\* env_alloc: from any id that did not overflow, the next one does not either,
\* is positive and has the slot in its low bits.
LEMMA NextIdNamesSlot ==
  ASSUME NEW e \in Env, env_id[e] \in 0 .. IDLIMIT - 1
  PROVE  NextId(e) \in 1 .. IDLIMIT - 1 /\ NextId(e) % NENV = e
  <1> DEFINE sum == env_id[e] + GENSTEP
             generation == IF sum >= IDLIMIT THEN GENSTEP ELSE sum - (sum % NENV)
  <1> USE ConstAssumption, IdAssumption
  <1>0. e \in 0 .. NENV - 1 /\ sum \in Nat /\ sum >= GENSTEP
    BY DEF Env
  <1>0a. NENV \in Nat \ {0} /\ IDLIMIT \in Int /\ GENSTEP \in Int /\ sum \in Int
    BY <1>0
  <1>1. PICK q \in Int : IDLIMIT = NENV * q
    <2>1. PICK k \in Int, r \in 0 .. NENV - 1 :
              IDLIMIT % NENV = r /\ IDLIMIT = NENV * k + r
      BY <1>0a, DivMod, Zenon
    <2>2. r = 0
      BY <2>1, Zenon
    <2>3. IDLIMIT = NENV * k
      <3>1. NENV * k \in Int
        OBVIOUS
      <3>2. QED
        BY <2>1, <2>2, <3>1
    <2>4. QED
      BY <2>3, Zenon
  <1>2. PICK g \in Int : GENSTEP = NENV * g
    <2>1. PICK k \in Int, r \in 0 .. NENV - 1 :
              GENSTEP % NENV = r /\ GENSTEP = NENV * k + r
      BY <1>0a, DivMod, Zenon
    <2>2. r = 0
      BY <2>1, Zenon
    <2>3. GENSTEP = NENV * k
      <3>1. NENV * k \in Int
        OBVIOUS
      <3>2. QED
        BY <2>1, <2>2, <3>1
    <2>4. QED
      BY <2>3, Zenon
  <1> HIDE DEF sum
  <1>3. \E k \in Int : /\ generation = NENV * k
                       /\ generation >= GENSTEP /\ generation < IDLIMIT
    <2>1. CASE sum >= IDLIMIT
      BY <1>2, <2>1
    <2>2. CASE sum < IDLIMIT
      <3>1. PICK k \in Int, r \in 0 .. NENV - 1 :
                sum % NENV = r /\ sum = NENV * k + r
        BY <1>0a, DivMod, Zenon
      <3>2. generation = NENV * k
        BY <1>0, <2>2, <3>1
      <3>3. NENV * k >= NENV * g
        <4>1. k >= g
          <5>1. k < g => NENV * k + NENV <= NENV * g
            BY <1>2, <3>1, MultipleGap
          <5>2. QED
            BY <1>0, <1>2, <3>1, <5>1
        <4>2. QED
          BY <1>2, <3>1, <4>1
      <3>4. generation >= GENSTEP
        BY <1>2, <3>2, <3>3, Zenon
      <3>5. generation < IDLIMIT
        <4>1. NENV * k \in Int
          OBVIOUS
        <4>2. QED
          BY <2>2, <3>1, <3>2, <4>1
      <3>6. QED
        BY <3>2, <3>4, <3>5
    <2>3. QED
      BY <1>0, <2>1, <2>2
  <1>4. NextId(e) = generation + e
    BY DEF NextId, sum
  <1> HIDE DEF generation
  <1>5. PICK k \in Int : /\ generation = NENV * k
                         /\ generation >= GENSTEP /\ generation < IDLIMIT
    BY <1>3
  <1>6. NENV * k + NENV <= IDLIMIT
    BY <1>1, <1>5, MultipleGap
  <1>7. (NENV * k + e) % NENV = e
    BY <1>0, <1>5, ModOfSum
  <1>8. NENV * k + e \in 1 .. IDLIMIT - 1
    <2>1. NENV * k \in Int
      BY <1>5
    <2>2. QED
      BY <1>0, <1>5, <1>6, <2>1
  <1>9. QED
    BY <1>4, <1>5, <1>7, <1>8

\* env_alloc, envid2env, sched_yield: the id of a live environment is a positive
\* int32_t whose low bits are its slot, also after the generation wrapped.
THEOREM IdsNameTheirSlots ==
  ASSUME LibraryUse
  PROVE  Spec => []IdNamesSlot
  <1> DEFINE Range == \A e \in Env : env_id[e] \in 0 .. IDLIMIT - 1
  <1>1. Init => Range /\ IdNamesSlot
    BY ConstAssumption DEF Init, IdNamesSlot
  <1>2. KernelInv /\ Range /\ IdNamesSlot /\ [Next]_vars => Range' /\ IdNamesSlot'
    <2> SUFFICES ASSUME KernelInv, Range, IdNamesSlot, [Next]_vars, NEW e \in Env
                 PROVE  /\ env_id'[e] \in 0 .. IDLIMIT - 1
                        /\ env_status'[e] # "FREE" =>
                            /\ env_id'[e] \in 1 .. IDLIMIT - 1
                            /\ env_id'[e] % NENV = e
      BY DEF IdNamesSlot
    <2>1. CASE Next
      <3>1. CASE Allocated(e)
        <4>1. NextId(e) \in 1 .. IDLIMIT - 1 /\ NextId(e) % NENV = e
          BY NextIdNamesSlot
        <4>2. QED
          BY <3>1, <4>1 DEF Allocated
      <3>2. CASE Continued(e)
        BY <3>2 DEF Continued, IdNamesSlot
      <3>3. QED
        BY <2>1, <3>1, <3>2, EnvStep
    <2>2. CASE UNCHANGED vars
      BY <2>2 DEF vars, schedVars, tableVars, IdNamesSlot
    <2>3. QED
      BY <2>1, <2>2
  <1>3. QED
    BY <1>1, <1>2, KernelInvariant, PTL DEF Spec

-----------------------------------------------------------------------------
(* cpu_status *)

\* The inductive form of LockOncePerTrap: cpu_status is CPU_HALTED exactly from
\* sched_halt's exchange to trap()'s.
CpuInv ==
    /\ cpu_mode \in [CPU -> Mode]
    /\ cpu_status \in [CPU -> {"UNUSED", "STARTED", "HALTED"}]
    /\ \A c \in CPU :
        /\ cpu_mode[c] \in InEnv \cup {"wake", "mpmain", "boot"} =>
               cpu_status[c] = "STARTED"
        /\ cpu_mode[c] = "halt" => cpu_status[c] = "HALTED"

\* Every exit from the kernel keeps it for a CPU that came in as STARTED.
LEMMA ExitKeepsCpu ==
  ASSUME CpuInv, NEW c \in CPU, cpu_status[c] = "STARTED", NEW st, NEW cur,
         \/ SchedYield(c, st, cur) \/ TrapReturn(c, st, cur)
         \/ Monitor(c, "monitor", st, cur) \/ Monitor(c, "panic", st, cur)
  PROVE  CpuInv'
  <1> USE DEF CpuInv, InEnv, Mode
  <1>1. ASSUME NEW e, EnvRun(c, e, st, cur)
        PROVE  CpuInv'
    BY <1>1 DEF EnvRun
  <1>2. CASE Monitor(c, "monitor", st, cur) \/ Monitor(c, "panic", st, cur)
    BY <1>2 DEF Monitor
  <1>3. CASE Halt(c, st)
    BY <1>3 DEF Halt
  <1>4. QED
    BY <1>1, <1>2, <1>3 DEF SchedYield, TrapReturn, SchedHalt

\* trap() and sched_halt: whatever programs do, a CPU that leaves user mode finds
\* itself STARTED and one that leaves hlt finds itself HALTED, so trap() takes
\* the kernel lock exactly once.
THEOREM TrapLocksOnce == Spec => []LockOncePerTrap
  <1> USE DEF InEnv, Mode
  <1>1. Init => CpuInv
    BY DEF Init, CpuInv
  <1>2. CpuInv /\ [Next]_vars => CpuInv'
    <2> SUFFICES ASSUME CpuInv, [Next]_vars
                 PROVE  CpuInv'
      OBVIOUS
    <2>1. CASE EnvCreate
      BY <2>1 DEF EnvCreate, CpuInv
    <2>2. CASE BootYield
      BY <2>2, ConstAssumption, ExitKeepsCpu DEF BootYield, CpuInv
    <2>3. ASSUME NEW c \in CPU,
                 StartAp(c) \/ PopTf(c) \/ TrapEntry(c) \/ TrapAfterPanic(c)
          PROVE  CpuInv'
      BY <2>3 DEF StartAp, PopTf, TrapEntry, TrapAfterPanic, CpuInv
    <2>4. ASSUME NEW c \in CPU, MpYield(c) \/ WakeYield(c) \/ WakePanic(c)
          PROVE  CpuInv'
      BY <2>4, ExitKeepsCpu DEF MpYield, WakeYield, WakePanic, CpuInv
    <2>5. ASSUME NEW c \in CPU, NEW st, NEW cur, cpu_mode[c] = "trap",
                 \/ SchedYield(c, st, cur) \/ TrapReturn(c, st, cur)
                 \/ Monitor(c, "monitor", st, cur) \/ Monitor(c, "panic", st, cur)
          PROVE  CpuInv'
      BY <2>5, ExitKeepsCpu DEF CpuInv
    <2>6. ASSUME NEW c \in CPU, NEW e, cpu_mode[c] = "trap", EnvDestroy(c, e)
          PROVE  CpuInv'
      BY <2>5, <2>6 DEF EnvDestroy
    <2>7. ASSUME NEW c \in CPU,
                 \/ ReapZombie(c) \/ Timer(c) \/ Resume(c) \/ Breakpoint(c)
                 \/ OtherCall(c)
          PROVE  CpuInv'
      BY <2>5, <2>7 DEF ReapZombie, Timer, Resume, Breakpoint, OtherCall,
                        Trapped, Entered
    <2>8. ASSUME NEW c \in CPU, Fault(c)
          PROVE  CpuInv'
      BY <2>6, <2>8 DEF Fault, Trapped, Entered
    <2>9. ASSUME NEW c \in CPU, NEW id \in IdArgs, SysEnvDestroy(c, id)
          PROVE  CpuInv'
      BY <2>6, <2>9 DEF SysEnvDestroy, Trapped, Entered
    <2>10. ASSUME NEW c \in CPU, NEW e \in Env, SysExofork(c, e)
           PROVE  CpuInv'
      BY <2>5, <2>10 DEF SysExofork, Trapped, Entered
    <2>11. ASSUME NEW c \in CPU, NEW id \in IdArgs, NEW status,
                  SysEnvSetStatus(c, id, status)
           PROVE  CpuInv'
      BY <2>5, <2>11 DEF SysEnvSetStatus, Trapped, Entered
    <2>12. ASSUME NEW c \in CPU, NEW id \in IdArgs, NEW value \in Values,
                  NEW page \in BOOLEAN, NEW perm \in BOOLEAN,
                  SysIpcTrySend(c, id, value, page, perm)
           PROVE  CpuInv'
      BY <2>5, <2>12 DEF SysIpcTrySend, Trapped, Entered
    <2>13. ASSUME NEW c \in CPU, NEW id \in IdArgs, SysIpcTrySendUnmapped(c, id)
           PROVE  CpuInv'
      BY <2>5, <2>13 DEF SysIpcTrySendUnmapped, Entered
    <2>14. ASSUME NEW c \in CPU, NEW wantsPage \in BOOLEAN,
                  SysIpcRecv(c, wantsPage)
           PROVE  CpuInv'
      BY <2>5, <2>14 DEF SysIpcRecv, Trapped, Entered
    <2>15. CASE UNCHANGED vars
      BY <2>15 DEF vars, schedVars, CpuInv
    <2>16. QED
      BY <2>1, <2>2, <2>3, <2>4, <2>7, <2>8, <2>9, <2>10, <2>11, <2>12, <2>13,
         <2>14, <2>15 DEF Next, Syscall
  <1>3. CpuInv => LockOncePerTrap
    BY DEF CpuInv, LockOncePerTrap
  <1>4. QED
    BY <1>1, <1>2, <1>3, PTL DEF Spec
=============================================================================
