------------------------------- MODULE Kernel -------------------------------
(***************************************************************************)
(* The multiprocessor kernel: environments (kern/env.c), the scheduler     *)
(* (kern/sched.c), trap handling (kern/trap.c), the system calls on        *)
(* environments and messages (kern/syscall.c) and the start of the APs     *)
(* (kern/init.c).                                                          *)
(*                                                                         *)
(* A CPU is in user mode, halted, or inside the kernel.  Everything the    *)
(* kernel does from lock_kernel() to unlock_kernel() is one step: all the  *)
(* state it shares is read and written under the big kernel lock, whose    *)
(* mutual exclusion is the subject of Spinlock.  What happens OUTSIDE the  *)
(* lock is separate steps: the head of trap() before lock_kernel() (mode   *)
(* "trap", "wake"), and env_pop_tf() after unlock_kernel() (mode "pop"),   *)
(* which reads curenv->env_tf while other CPUs are in the kernel.          *)
(*                                                                         *)
(* Address spaces are abstracted: an operation that allocates memory may   *)
(* fail.  Pmap is their model.                                             *)
(***************************************************************************)
EXTENDS Integers, Sequences

CONSTANTS
    CPU, BSP,       \* the processors; the one that boots
    NULL,           \* a null struct Env pointer; no owner of the kernel lock
    NENV,           \* number of slots of envs[]           (inc/env.h: 1024)
    GENSTEP,        \* 1 << ENVGENSHIFT                    (kern/env.c: 4096)
    IDLIMIT,        \* where envid_t, an int32_t, overflows           (2^31)
    NBOOT,          \* ENV_CREATEs of i386_init
    Dispatched,     \* the system calls that syscall() has a case for
    Disciplined,    \* the calls that programs use only as lib/fork.c and
                    \* user/spin.c do (see MaySetStatus and MayDestroy)
    Values          \* message words

Env == 0 .. NENV - 1

ASSUME ConstAssumption ==
    /\ BSP \in CPU
    /\ NENV \in Nat \ {0}
    /\ NULL \notin Env \cup CPU
    /\ GENSTEP \in Nat \ {0} /\ GENSTEP % NENV = 0
    /\ IDLIMIT \in Nat /\ IDLIMIT > GENSTEP
    /\ NBOOT \in 0 .. NENV
    /\ Disciplined \subseteq {"env_set_status", "env_destroy"}

\* 2^31 is a multiple of 1024: masking the slot bits out of an id that has not
\* overflowed leaves room for the new slot bits.
ASSUME IdAssumption == IDLIMIT % NENV = 0

VARIABLES
    env_status,         \* per slot: FREE, DYING, RUNNABLE, RUNNING, NOT_RUNNABLE
    env_id,             \* per slot: the id of its present or last occupant
    env_parent_id,
    env_free_list,      \* slots, in list order
    env_ipc_recving,    \* blocked in sys_ipc_recv
    env_ipc_dstva,      \* ... and asked for a page (dstva < UTOP)
    env_ipc_from, env_ipc_value, env_ipc_perm,
    tf_eax,             \* env_tf.tf_regs.reg_eax, up to the classes of Eax
    cpu_env,            \* curenv of each CPU
    cpu_status,         \* CPU_UNUSED, CPU_STARTED, CPU_HALTED
    cpu_mode,           \* what each CPU is doing, see Mode
    kernel_lock,        \* who holds it between two steps
    panicstr

ipcVars   == <<env_ipc_recving, env_ipc_dstva, env_ipc_from, env_ipc_value,
               env_ipc_perm>>
tableVars == <<env_id, env_parent_id, env_free_list>>
schedVars == <<env_status, cpu_env, cpu_status, cpu_mode, kernel_lock>>
vars == <<schedVars, tableVars, ipcVars, tf_eax, panicstr>>

Status == {"FREE", "DYING", "RUNNABLE", "RUNNING", "NOT_RUNNABLE"}

(***************************************************************************)
(* What a saved %eax is, as far as it matters: the result 0, still the     *)
(* number of the call sys_ipc_recv, which sets no result itself, or        *)
(* another value (the program's own, an id, an error).                     *)
(***************************************************************************)
Eax == {"zero", "recv", "other"}

(***************************************************************************)
(* off      an AP that has not reached mp_main's xchg                      *)
(* mpmain   an AP waiting for the lock in mp_main                          *)
(* boot     the BSP in i386_init, holding the lock                         *)
(* user     running cpu_env                                                *)
(* trap     trapped from user mode, waiting for the lock                   *)
(* pop      in env_run, lock released, registers not yet restored          *)
(* halt     in the hlt loop of sched_halt                                  *)
(* wake     interrupted while halted, waiting for the lock                 *)
(* monitor  in the kernel monitor, for good, holding the lock              *)
(* panic    in the monitor of _panic, holding the lock                     *)
(* dead     stopped by trap() because another CPU panicked                 *)
(***************************************************************************)
Mode == {"off", "mpmain", "boot", "user", "trap", "pop", "halt", "wake",
         "monitor", "panic", "dead"}

InEnv == {"user", "trap", "pop"}        \* modes in which cpu_env is executing

Init ==
    /\ env_status = [e \in Env |-> "FREE"]
    /\ env_id = [e \in Env |-> 0]
    /\ env_parent_id = [e \in Env |-> 0]
    /\ env_free_list = [i \in 1 .. NENV |-> i - 1]
    /\ env_ipc_recving = [e \in Env |-> FALSE]
    /\ env_ipc_dstva = [e \in Env |-> FALSE]
    /\ env_ipc_from = [e \in Env |-> 0]
    /\ env_ipc_value = [e \in Env |-> 0]
    /\ env_ipc_perm = [e \in Env |-> FALSE]
    /\ tf_eax = [e \in Env |-> "zero"]
    /\ cpu_env = [c \in CPU |-> NULL]
    /\ cpu_status = [c \in CPU |-> IF c = BSP THEN "STARTED" ELSE "UNUSED"]
    /\ cpu_mode = [c \in CPU |-> IF c = BSP THEN "boot" ELSE "off"]
    /\ kernel_lock = BSP
    /\ panicstr = FALSE

-----------------------------------------------------------------------------
(***************************************************************************)
(* Leaving the kernel.  The code that ends a handler works on the statuses *)
(* st and on the current environment cur that the handler left behind.     *)
(***************************************************************************)

\* Mutant: the preempted environment stays ENV_RUNNING.
EnvRunKeepsOld(c, e, st, cur) ==
    /\ env_status' = [st EXCEPT ![e] = "RUNNING"]
    /\ cpu_env' = [cpu_env EXCEPT ![c] = e]
    /\ cpu_mode' = [cpu_mode EXCEPT ![c] = "pop"]
    /\ kernel_lock' = NULL
    /\ UNCHANGED cpu_status

\* env_run: never returns; the lock is released before env_pop_tf.
EnvRun(c, e, st, cur) ==
    LET switched == IF cur # NULL /\ st[cur] = "RUNNING"
                    THEN [st EXCEPT ![cur] = "RUNNABLE"]
                    ELSE st
    IN  /\ env_status' = [switched EXCEPT ![e] = "RUNNING"]
        /\ cpu_env' = [cpu_env EXCEPT ![c] = e]
        /\ cpu_mode' = [cpu_mode EXCEPT ![c] = "pop"]
        /\ kernel_lock' = NULL
        /\ UNCHANGED cpu_status

\* monitor(): no command makes it return, and the caller holds the lock.
Monitor(c, mode, st, cur) ==
    /\ env_status' = st
    /\ cpu_env' = [cpu_env EXCEPT ![c] = cur]
    /\ cpu_mode' = [cpu_mode EXCEPT ![c] = mode]
    /\ kernel_lock' = c
    /\ UNCHANGED cpu_status

Halt(c, st) ==
    /\ env_status' = st
    /\ cpu_env' = [cpu_env EXCEPT ![c] = NULL]
    /\ cpu_status' = [cpu_status EXCEPT ![c] = "HALTED"]
    /\ cpu_mode' = [cpu_mode EXCEPT ![c] = "halt"]
    /\ kernel_lock' = NULL

\* sched_halt: the monitor if no environment can ever run again, else hlt.
SchedHalt(c, st, cur) ==
    IF \E e \in Env : st[e] \in {"RUNNABLE", "RUNNING", "DYING"}
    THEN Halt(c, st)
    ELSE Monitor(c, "monitor", st, cur)

\* The slot where the search of sched_yield begins.
SchedStart(cur) == IF cur = NULL THEN 0 ELSE (env_id[cur] % NENV) + 1

\* Mutant: an environment that runs on another CPU is chosen too.
FirstRunnableOrRunning(e, st, start) ==
    /\ st[e] \in {"RUNNABLE", "RUNNING"}
    /\ \A f \in Env : st[f] = "RUNNABLE" =>
                        (e - start) % NENV <= (f - start) % NENV

\* sched_yield's search: e is the first RUNNABLE slot met from start on.
FirstRunnable(e, st, start) ==
    /\ st[e] = "RUNNABLE"
    /\ \A f \in Env : st[f] = "RUNNABLE" =>
                        (e - start) % NENV <= (f - start) % NENV

\* sched_yield: never returns.
SchedYield(c, st, cur) ==
    \/ \E e \in Env : /\ FirstRunnable(e, st, SchedStart(cur))
                      /\ EnvRun(c, e, st, cur)
    \/ /\ \A e \in Env : st[e] # "RUNNABLE"
       /\ IF cur # NULL /\ st[cur] = "RUNNING"
          THEN EnvRun(c, cur, st, cur)
          ELSE SchedHalt(c, st, cur)

\* The end of trap(): back to the current environment if it still may run.
TrapReturn(c, st, cur) ==
    IF cur # NULL /\ st[cur] = "RUNNING"
    THEN EnvRun(c, cur, st, cur)
    ELSE SchedYield(c, st, cur)

-----------------------------------------------------------------------------
(* Environments *)

\* Mutant: the last occupant's slot bits are not masked out.
NextIdUnmasked(e) ==
    LET sum == env_id[e] + GENSTEP
    IN  (IF sum >= IDLIMIT THEN GENSTEP ELSE sum) + e

\* The id env_alloc gives to the next occupant of slot e.
NextId(e) ==
    LET sum == env_id[e] + GENSTEP
        generation == IF sum >= IDLIMIT THEN GENSTEP ELSE sum - (sum % NENV)
    IN  generation + e

\* env_alloc's effect, once env_setup_vm succeeded, except on env_status and
\* env_tf, to which the callers give their final values.  The ipc fields other
\* than env_ipc_recving keep what the slot's last occupant left.
EnvAlloc(e, parent_id) ==
    /\ env_free_list # <<>>
    /\ e = Head(env_free_list)
    /\ env_free_list' = Tail(env_free_list)
    /\ env_id' = [env_id EXCEPT ![e] = NextId(e)]
    /\ env_parent_id' = [env_parent_id EXCEPT ![e] = parent_id]
    /\ env_ipc_recving' = [env_ipc_recving EXCEPT ![e] = FALSE]
    /\ UNCHANGED <<env_ipc_dstva, env_ipc_from, env_ipc_value, env_ipc_perm>>

\* Mutant: the old head of the list is dropped.
EnvFreeLosesList(e) ==
    /\ env_free_list' = <<e>>
    /\ UNCHANGED <<env_id, env_parent_id>>

\* env_free's effect on the free list; its status becomes FREE.
EnvFree(e) ==
    /\ env_free_list' = <<e>> \o env_free_list
    /\ UNCHANGED <<env_id, env_parent_id>>

\* envid2env on CPU c: the environment an id means to its current one, or NULL.
Envid2Env(c, id, checkperm) ==
    LET cur == cpu_env[c]
        e   == id % NENV
    IN  IF id = 0 THEN cur
        ELSE IF \/ env_status[e] = "FREE"
                \/ env_id[e] # id
                \/ checkperm /\ e # cur /\ env_parent_id[e] # env_id[cur]
             THEN NULL
             ELSE e

\* Mutant: an environment that runs on another CPU is freed at once.
EnvDestroyAtOnce(c, e) ==
    LET cur == cpu_env[c]
        st  == [env_status EXCEPT ![e] = "FREE"]
    IN  /\ EnvFree(e)
        /\ IF cur = e THEN SchedYield(c, st, NULL) ELSE TrapReturn(c, st, cur)

\* env_destroy(e) on CPU c, and what follows in the handlers that call it.
EnvDestroy(c, e) ==
    LET cur == cpu_env[c]
    IN  IF env_status[e] = "RUNNING" /\ cur # e
        THEN /\ TrapReturn(c, [env_status EXCEPT ![e] = "DYING"], cur)
             /\ UNCHANGED tableVars
        ELSE /\ EnvFree(e)
             /\ LET st == [env_status EXCEPT ![e] = "FREE"]
                IN  IF cur = e THEN SchedYield(c, st, NULL)
                               ELSE TrapReturn(c, st, cur)

-----------------------------------------------------------------------------
(* Boot *)

\* boot_aps and mp_main: the BSP, holding the lock, starts an AP and waits
\* until it has set its cpu_status.
StartAp(c) ==
    /\ cpu_mode[BSP] = "boot" /\ cpu_mode[c] = "off"
    /\ cpu_mode' = [cpu_mode EXCEPT ![c] = "mpmain"]
    /\ cpu_status' = [cpu_status EXCEPT ![c] = "STARTED"]
    /\ UNCHANGED <<env_status, cpu_env, kernel_lock, tableVars, ipcVars,
                   tf_eax, panicstr>>

ApsStarted == \A c \in CPU : cpu_status[c] = "STARTED"

\* i386_init: one ENV_CREATE.
EnvCreate ==
    /\ cpu_mode[BSP] = "boot" /\ ApsStarted
    /\ NENV - Len(env_free_list) < NBOOT
    /\ \E e \in Env :
        /\ EnvAlloc(e, 0)
        /\ env_status' = [env_status EXCEPT ![e] = "RUNNABLE"]
        /\ tf_eax' = [tf_eax EXCEPT ![e] = "zero"]
    /\ UNCHANGED <<cpu_env, cpu_status, cpu_mode, kernel_lock, panicstr>>

\* i386_init: the final sched_yield.
BootYield ==
    /\ cpu_mode[BSP] = "boot" /\ ApsStarted
    /\ NENV - Len(env_free_list) = NBOOT
    /\ SchedYield(BSP, env_status, NULL)
    /\ UNCHANGED <<tableVars, ipcVars, tf_eax, panicstr>>

\* mp_main: lock_kernel, sched_yield.
MpYield(c) ==
    /\ cpu_mode[c] = "mpmain" /\ kernel_lock = NULL
    /\ SchedYield(c, env_status, NULL)
    /\ UNCHANGED <<tableVars, ipcVars, tf_eax, panicstr>>

-----------------------------------------------------------------------------
(* User mode and traps *)

\* env_pop_tf: the registers are loaded from curenv->env_tf, outside the lock.
PopTf(c) ==
    /\ cpu_mode[c] = "pop"
    /\ cpu_mode' = [cpu_mode EXCEPT ![c] = "user"]
    /\ UNCHANGED <<env_status, cpu_env, cpu_status, kernel_lock, tableVars,
                   ipcVars, tf_eax, panicstr>>

\* Mutant: the exchange that resets cpu_status is missing.
TrapEntryKeepsStatus(c) ==
    /\ cpu_mode[c] \in {"user", "halt"}
    /\ ~panicstr
    /\ cpu_mode' = [cpu_mode EXCEPT ![c] = IF @ = "user" THEN "trap" ELSE "wake"]
    /\ UNCHANGED <<env_status, cpu_env, cpu_status, kernel_lock, tableVars,
                   ipcVars, tf_eax, panicstr>>

\* The head of trap(), up to lock_kernel: a CPU executing a program or halted
\* is interrupted (or traps).
TrapEntry(c) ==
    /\ cpu_mode[c] \in {"user", "halt"}
    /\ ~panicstr
    /\ cpu_status' = [cpu_status EXCEPT ![c] = "STARTED"]
    /\ cpu_mode' = [cpu_mode EXCEPT ![c] = IF @ = "user" THEN "trap" ELSE "wake"]
    /\ UNCHANGED <<env_status, cpu_env, kernel_lock, tableVars, ipcVars,
                   tf_eax, panicstr>>

\* trap() after some CPU has panicked: hlt, with interrupts off.
TrapAfterPanic(c) ==
    /\ cpu_mode[c] \in {"user", "halt"}
    /\ panicstr
    /\ cpu_mode' = [cpu_mode EXCEPT ![c] = "dead"]
    /\ UNCHANGED <<env_status, cpu_env, cpu_status, kernel_lock, tableVars,
                   ipcVars, tf_eax, panicstr>>

\* A halted CPU takes a timer or spurious interrupt: sched_yield, directly or
\* at the end of trap().
WakeYield(c) ==
    /\ cpu_mode[c] = "wake" /\ kernel_lock = NULL
    /\ SchedYield(c, env_status, NULL)
    /\ UNCHANGED <<tableVars, ipcVars, tf_eax, panicstr>>

\* A halted CPU takes any other interrupt (the keyboard's is unmasked):
\* panic("unhandled trap in kernel").
WakePanic(c) ==
    /\ cpu_mode[c] = "wake" /\ kernel_lock = NULL
    /\ panicstr' = TRUE
    /\ Monitor(c, "panic", env_status, cpu_env[c])
    /\ UNCHANGED <<tableVars, ipcVars, tf_eax>>

\* Mutant: the zombie is left behind.
ReapZombieNever(c) ==
    /\ cpu_mode[c] = "trap" /\ kernel_lock = NULL
    /\ env_status[cpu_env[c]] = "DYING"
    /\ SchedYield(c, env_status, NULL)
    /\ UNCHANGED <<tableVars, ipcVars, tf_eax, panicstr>>

\* trap() gets the lock and finds that its environment was destroyed meanwhile.
ReapZombie(c) ==
    /\ cpu_mode[c] = "trap" /\ kernel_lock = NULL
    /\ env_status[cpu_env[c]] = "DYING"
    /\ EnvFree(cpu_env[c])
    /\ SchedYield(c, [env_status EXCEPT ![cpu_env[c]] = "FREE"], NULL)
    /\ UNCHANGED <<ipcVars, tf_eax, panicstr>>

\* trap() gets the lock and its environment is alive.
Entered(c) ==
    /\ cpu_mode[c] = "trap" /\ kernel_lock = NULL
    /\ env_status[cpu_env[c]] # "DYING"

Trapped(c) == Entered(c) /\ UNCHANGED panicstr

\* What the current environment's env_tf holds when the handler is done: the
\* frame copied by trap(), with the result of a system call that returned.
SaveEax(c, eax) == tf_eax' = [tf_eax EXCEPT ![cpu_env[c]] = eax]

\* Mutant: the interrupt is acknowledged and nothing else.
TimerResumes(c) ==
    /\ Trapped(c) /\ SaveEax(c, "other")
    /\ TrapReturn(c, env_status, cpu_env[c])
    /\ UNCHANGED <<tableVars, ipcVars>>

\* The clock interrupt; sys_yield does the same and, like it, sets no result.
Timer(c) ==
    /\ Trapped(c) /\ SaveEax(c, "other")
    /\ SchedYield(c, env_status, cpu_env[c])
    /\ UNCHANGED <<tableVars, ipcVars>>

\* A handler that leaves the kernel's own state alone: a spurious interrupt, or
\* a page fault reflected to the environment's upcall.
Resume(c) ==
    /\ Trapped(c) /\ SaveEax(c, "other")
    /\ TrapReturn(c, env_status, cpu_env[c])
    /\ UNCHANGED <<tableVars, ipcVars>>

\* An exception, a page fault without a usable upcall, a device interrupt that
\* nobody handles, or a bad pointer given to sys_cputs: env_destroy(curenv).
Fault(c) ==
    /\ Trapped(c) /\ SaveEax(c, "other")
    /\ EnvDestroy(c, cpu_env[c])
    /\ UNCHANGED ipcVars

\* T_BRKPT: the monitor.
Breakpoint(c) ==
    /\ Trapped(c) /\ SaveEax(c, "other")
    /\ Monitor(c, "monitor", env_status, cpu_env[c])
    /\ UNCHANGED <<tableVars, ipcVars>>

-----------------------------------------------------------------------------
(***************************************************************************)
(* System calls.  Ids a program can pass: 0, one that is in the table, and *)
(* one that is not; every other id behaves like one of these.              *)
(***************************************************************************)
IdArgs == {0, -1} \cup {env_id[e] : e \in Env}

\* lib/fork.c, user/dumbfork.c: a program starts the child it created, once.
MaySetStatus(c, e, status) ==
    /\ status = "RUNNABLE"
    /\ e # cpu_env[c]
    /\ env_status[e] = "NOT_RUNNABLE" /\ ~env_ipc_recving[e]

\* user/spin.c: a program destroys a given environment once.
MayDestroy(e) == env_status[e] # "DYING"

\* A call that leaves this module's state alone and returns: cputs, cgetc and
\* getenvid, made to return 0 by syscall(), a number that has no case there, a
\* failing call, and the calls on pages and on the upcall (Pmap).
OtherCall(c) ==
    /\ Trapped(c) /\ \E eax \in {"zero", "other"} : SaveEax(c, eax)
    /\ TrapReturn(c, env_status, cpu_env[c])
    /\ UNCHANGED <<tableVars, ipcVars>>

\* sys_env_destroy; syscall() returns 0 for it whatever its result.
SysEnvDestroy(c, id) ==
    LET e == Envid2Env(c, id, TRUE)
    IN  /\ "env_destroy" \in Dispatched
        /\ Trapped(c)
        /\ e # NULL
        /\ "env_destroy" \in Disciplined => MayDestroy(e)
        /\ SaveEax(c, IF e = cpu_env[c] THEN "other" ELSE "zero")
        /\ EnvDestroy(c, e)
        /\ UNCHANGED ipcVars

\* Mutant: the child's %eax is left as it was copied.
ForkReturnsCopied(cur, e) ==
    tf_eax' = [tf_eax EXCEPT ![cur] = "other", ![e] = "other"]

\* sys_exofork: the child's frame is a copy of the caller's, with 0 in %eax;
\* the caller gets the child's id.
ForkReturns(cur, e) ==
    tf_eax' = [tf_eax EXCEPT ![cur] = "other", ![e] = "zero"]

\* sys_exofork.  (Without a free slot or memory it is an OtherCall.)
SysExofork(c, e) ==
    LET cur == cpu_env[c]
    IN  /\ "exofork" \in Dispatched
        /\ Trapped(c)
        /\ EnvAlloc(e, env_id[cur])
        /\ ForkReturns(cur, e)
        /\ TrapReturn(c, [env_status EXCEPT ![e] = "NOT_RUNNABLE"], cur)

\* sys_env_set_status.
SysEnvSetStatus(c, id, status) ==
    LET e == Envid2Env(c, id, TRUE)
    IN  /\ "env_set_status" \in Dispatched
        /\ Trapped(c)
        /\ e # NULL
        /\ "env_set_status" \in Disciplined => MaySetStatus(c, e, status)
        /\ SaveEax(c, "zero")
        /\ TrapReturn(c, [env_status EXCEPT ![e] = status], cpu_env[c])
        /\ UNCHANGED <<tableVars, ipcVars>>

\* Mutant: the receiver is not asked whether it waits.
AcceptsAlways(rcv) == rcv # NULL

\* sys_ipc_try_send: the receiver exists and is blocked in sys_ipc_recv.
Accepts(rcv) == rcv # NULL /\ env_ipc_recving[rcv]

\* Mutant: the receiver goes on accepting messages.
RecvGoesOn(rcv) == UNCHANGED env_ipc_recving

\* sys_ipc_try_send: the receiver waits no longer.
RecvEnds(rcv) == env_ipc_recving' = [env_ipc_recving EXCEPT ![rcv] = FALSE]

\* Mutant: the receiver's %eax is not set.
SenderReturnsZero(cur, rcv) == tf_eax' = [tf_eax EXCEPT ![cur] = "zero"]

\* sys_ipc_try_send: sys_ipc_recv returns 0 to the receiver, through its saved
\* frame, and the call itself 0 to the sender.
BothReturnZero(cur, rcv) ==
    tf_eax' = [tf_eax EXCEPT ![rcv] = "zero", ![cur] = "zero"]

\* sys_ipc_try_send to a receiver that waits.  page: a page is given too
\* (srcva < UTOP), and every check on it and page_insert succeeded; perm: its
\* permission bits are not all 0.  (A failing send returns before it changes
\* anything: it is an OtherCall.)
SysIpcTrySend(c, id, value, page, perm) ==
    LET cur == cpu_env[c]
        rcv == Envid2Env(c, id, FALSE)
    IN  /\ "ipc_try_send" \in Dispatched
        /\ Trapped(c)
        /\ Accepts(rcv)
        /\ env_ipc_perm' = [env_ipc_perm EXCEPT
                    ![rcv] = IF page /\ env_ipc_dstva[rcv] THEN perm ELSE @]
        /\ RecvEnds(rcv)
        /\ env_ipc_from' = [env_ipc_from EXCEPT ![rcv] = env_id[cur]]
        /\ env_ipc_value' = [env_ipc_value EXCEPT ![rcv] = value]
        /\ BothReturnZero(cur, rcv)
        /\ TrapReturn(c, [env_status EXCEPT ![rcv] = "RUNNABLE"], cur)
        /\ UNCHANGED <<tableVars, env_ipc_dstva>>

\* sys_ipc_try_send of a page that the sender has not mapped: pte, which
\* page_lookup left unset, is read before pg is tested.  Where the garbage in
\* it points to mapped memory the call returns -E_INVAL (an OtherCall),
\* elsewhere the read faults in the kernel, which panics.
SysIpcTrySendUnmapped(c, id) ==
    LET rcv == Envid2Env(c, id, FALSE)
    IN  /\ "ipc_try_send" \in Dispatched
        /\ Entered(c)
        /\ rcv # NULL
        /\ env_ipc_recving[rcv]
        /\ panicstr' = TRUE
        /\ SaveEax(c, "other")
        /\ Monitor(c, "panic", env_status, cpu_env[c])
        /\ UNCHANGED <<tableVars, ipcVars>>

\* sys_ipc_recv with an acceptable dstva: blocks, and returns only through the
\* frame that a sender completes.
SysIpcRecv(c, wantsPage) ==
    LET cur == cpu_env[c]
    IN  /\ "ipc_recv" \in Dispatched
        /\ Trapped(c)
        /\ SaveEax(c, "recv")
        /\ env_ipc_recving' = [env_ipc_recving EXCEPT ![cur] = TRUE]
        /\ env_ipc_dstva' = [env_ipc_dstva EXCEPT ![cur] = wantsPage]
        /\ SchedYield(c, [env_status EXCEPT ![cur] = "NOT_RUNNABLE"], cur)
        /\ UNCHANGED <<tableVars, env_ipc_from, env_ipc_value, env_ipc_perm>>

-----------------------------------------------------------------------------
Syscall(c) ==
    \/ OtherCall(c)
    \/ \E id \in IdArgs : SysEnvDestroy(c, id)
    \/ \E e \in Env : SysExofork(c, e)
    \/ \E id \in IdArgs, status \in {"RUNNABLE", "NOT_RUNNABLE"} :
            SysEnvSetStatus(c, id, status)
    \/ \E id \in IdArgs, value \in Values, page, perm \in BOOLEAN :
            SysIpcTrySend(c, id, value, page, perm)
    \/ \E id \in IdArgs : SysIpcTrySendUnmapped(c, id)
    \/ \E wantsPage \in BOOLEAN : SysIpcRecv(c, wantsPage)

Next ==
    \/ EnvCreate \/ BootYield
    \/ \E c \in CPU :
        \/ StartAp(c) \/ MpYield(c)
        \/ PopTf(c) \/ TrapEntry(c) \/ TrapAfterPanic(c)
        \/ WakeYield(c) \/ WakePanic(c)
        \/ ReapZombie(c) \/ Timer(c) \/ Resume(c) \/ Fault(c) \/ Breakpoint(c)
        \/ Syscall(c)

Spec == Init /\ [][Next]_vars

(***************************************************************************)
(* Scheduling of the machine.  A CPU that waits for the kernel lock gets   *)
(* it (Spinlock!Arbiter); one in the kernel finishes; the local APIC timer *)
(* is periodic and never masked, so user mode and hlt are always left      *)
(* again, and not always for another reason than the timer.                *)
(***************************************************************************)
Fairness ==
    /\ WF_vars(EnvCreate) /\ WF_vars(BootYield)
    /\ \A c \in CPU :
        /\ WF_vars(StartAp(c)) /\ WF_vars(MpYield(c))
        /\ WF_vars(PopTf(c)) /\ WF_vars(TrapEntry(c))
        /\ WF_vars(WakeYield(c)) /\ WF_vars(ReapZombie(c))
        /\ SF_vars(Timer(c))

FairSpec == Spec /\ Fairness

-----------------------------------------------------------------------------
(* Properties *)

\* Type correctness of the kernel state.
TypeOK ==
    /\ env_status \in [Env -> Status]
    /\ env_id \in [Env -> Int]
    /\ env_parent_id \in [Env -> Int]
    /\ env_free_list \in Seq(Env)
    /\ env_ipc_recving \in [Env -> BOOLEAN]
    /\ env_ipc_dstva \in [Env -> BOOLEAN]
    /\ env_ipc_from \in [Env -> Int]
    /\ env_ipc_value \in [Env -> Values \cup {0}]
    /\ env_ipc_perm \in [Env -> BOOLEAN]
    /\ tf_eax \in [Env -> Eax]
    /\ cpu_env \in [CPU -> Env \cup {NULL}]
    /\ cpu_status \in [CPU -> {"UNUSED", "STARTED", "HALTED"}]
    /\ cpu_mode \in [CPU -> Mode]
    /\ kernel_lock \in CPU \cup {NULL}
    /\ panicstr \in BOOLEAN

\* sched_yield, env_run: an environment is never current on two CPUs.
OneCpu ==
    \A c, d \in CPU : cpu_env[c] # NULL /\ cpu_env[c] = cpu_env[d] => c = d

\* env_run, env_destroy, sys_ipc_recv: what a CPU executes, also in the windows
\* before lock_kernel and after unlock_kernel, has not been freed, made
\* runnable or blocked by another CPU.
ExecutingIsMarked ==
    \A c \in CPU : cpu_mode[c] \in InEnv =>
        /\ cpu_env[c] # NULL
        /\ env_status[cpu_env[c]] \in {"RUNNING", "DYING"}

\* No environment is lost: one that is marked RUNNING or DYING is current on
\* some CPU, which will reschedule or free it; the scheduler would never look
\* at it again otherwise.
NoneLost ==
    \A e \in Env : env_status[e] \in {"RUNNING", "DYING"} =>
        \E c \in CPU : cpu_env[c] = e /\ cpu_mode[c] \in InEnv \cup
                                          {"monitor", "panic", "dead"}

\* env_alloc, env_free: the free list holds exactly the FREE slots, each once.
FreeListExact ==
    /\ \A e \in Env : env_status[e] = "FREE" <=>
            \E i \in DOMAIN env_free_list : env_free_list[i] = e
    /\ \A i, j \in DOMAIN env_free_list :
            env_free_list[i] = env_free_list[j] => i = j

\* sys_ipc_recv, sys_ipc_try_send: a live environment that is waiting for a
\* message is blocked, and its frame is the one of the unfinished call.
WaitingIsBlocked ==
    \A e \in Env : env_status[e] # "FREE" /\ env_ipc_recving[e] =>
        env_status[e] = "NOT_RUNNABLE" /\ tf_eax[e] = "recv"

\* sys_ipc_recv returns to the program only because of a message: no frame is
\* popped whose %eax is still the number of the call.
NoSpuriousReceive ==
    \A c \in CPU : cpu_mode[c] = "pop" => tf_eax[cpu_env[c]] # "recv"

\* sys_exofork: the child that was not started yet returns 0 in user mode.
ChildReturnsZero ==
    \A e \in Env : env_status[e] = "NOT_RUNNABLE" /\ ~env_ipc_recving[e] =>
        tf_eax[e] = "zero"

\* trap() takes the lock exactly once: from user mode cpu_status is not HALTED
\* (it would lock twice), from hlt it is (it would not lock at all).
LockOncePerTrap ==
    \A c \in CPU :
        /\ cpu_mode[c] = "user" => cpu_status[c] = "STARTED"
        /\ cpu_mode[c] = "halt" => cpu_status[c] = "HALTED"

\* env_run: between unlock_kernel and iret nobody writes the frame being popped.
FrameStable ==
    [][\A c \in CPU : cpu_mode[c] = "pop" /\ cpu_mode'[c] \in {"pop", "user"} =>
            tf_eax'[cpu_env[c]] = tf_eax[cpu_env[c]]]_vars

\* sys_ipc_try_send: a message that was delivered is not overwritten before its
\* receiver asks for the next one.
DeliveredIsKept ==
    [][\A e \in Env : env_status[e] # "FREE" /\ ~env_ipc_recving[e] =>
            /\ env_ipc_from'[e] = env_ipc_from[e]
            /\ env_ipc_value'[e] = env_ipc_value[e]
            /\ env_ipc_perm'[e] = env_ipc_perm[e]]_vars

\* sys_ipc_try_send: "env_ipc_perm is set to 'perm' if a page was transferred,
\* 0 otherwise" (syscall.c:287), so it is 0 for a receiver that asked for no
\* page.  Not so: the field then keeps what an earlier message left.
PermTellsPage ==
    [][\A e \in Env :
          (/\ env_status[e] = "NOT_RUNNABLE" /\ env_status'[e] = "RUNNABLE"
           /\ env_ipc_recving[e] /\ ~env_ipc_recving'[e] /\ ~env_ipc_dstva[e])
          => ~env_ipc_perm'[e]]_vars

\* sys_ipc_try_send fails with "-E_INVAL if srcva < UTOP but srcva is not
\* mapped in the caller's address space" (syscall.c:305-306): a call of a
\* program returns or blocks and never stops the kernel.  Not so: the unset pte
\* is read first.
CallsNeverPanic ==
    [][\A c \in CPU : cpu_mode[c] = "trap" => cpu_mode'[c] # "panic"]_vars

\* env_alloc: the id of a live environment is a positive int32_t and leads
\* envid2env and sched_yield to its own slot, also after the counter wrapped.
IdNamesSlot ==
    \A e \in Env : env_status[e] # "FREE" =>
        /\ env_id[e] \in 1 .. IDLIMIT - 1
        /\ env_id[e] % NENV = e

Stopped == \E c \in CPU : cpu_mode[c] \in {"monitor", "panic"}

\* sched_yield: a runnable environment is scheduled, once no more environments
\* are created.  (While some in lower slots keep ending and being created this
\* fails: a CPU whose environment has ended searches from slot 0 again.)
RunnableRuns ==
    <>[][env_id' = env_id]_vars =>
        \A e \in Env : env_status[e] = "RUNNABLE" ~>
                           (env_status[e] # "RUNNABLE" \/ Stopped)

\* env_destroy: an environment destroyed while it runs on another CPU is freed.
ZombieFreed ==
    \A e \in Env : env_status[e] = "DYING" ~>
                       (env_status[e] = "FREE" \/ Stopped)

-----------------------------------------------------------------------------
(***************************************************************************)
(* The inductive invariant: the invariants above and what the modes say    *)
(* about curenv, the lock and panicstr.                                    *)
(***************************************************************************)

\* Modes in which the CPU has no current environment.
NoEnv == {"off", "mpmain", "boot", "halt", "wake"}

\* Modes of a CPU that keeps the lock.
Keeping == {"boot", "monitor", "panic"}

ModeInv ==
    /\ \A c \in CPU : cpu_mode[c] \in NoEnv => cpu_env[c] = NULL
    /\ \A c \in CPU : cpu_mode[c] \in Keeping <=> kernel_lock = c
    /\ \A c \in CPU : cpu_mode[c] = "dead" => panicstr
    /\ panicstr => \E c \in CPU : cpu_mode[c] = "panic"

\* An environment's frame is that of an unfinished receive exactly while the
\* environment waits for a message.
FrameInv ==
    \A e \in Env : env_status[e] # "FREE" =>
        (env_ipc_recving[e] <=> tf_eax[e] = "recv")

\* What the handlers rely on and preserve.
KernelInv ==
    /\ TypeOK
    /\ ModeInv
    /\ OneCpu
    /\ ExecutingIsMarked
    /\ NoneLost
    /\ FreeListExact
    /\ WaitingIsBlocked
    /\ FrameInv
=============================================================================
