-------------------------------- MODULE Pmap --------------------------------
(***************************************************************************)
(* Physical pages and address spaces: kern/pmap.c, the memory side of      *)
(* env_alloc and env_free (kern/env.c), and the system calls on pages      *)
(* (kern/syscall.c), on a machine with several CPUs.                       *)
(*                                                                         *)
(* Each action is one handler, run under the big kernel lock on CPU c and  *)
(* ended by env_run or sched_halt.  The memory management hardware is the  *)
(* only part that works outside the lock: a CPU in user mode loads         *)
(* translations into its TLB at any time (Touch).                          *)
(*                                                                         *)
(* Abstracted: the order of the free list (any free page may be the next), *)
(* permission bits, and everything mapped above UTOP, which has no         *)
(* reference counts.  A call that fails leaves the memory as it was and is *)
(* the stutter of some other action.                                       *)
(***************************************************************************)
EXTENDS Integers, FiniteSets

CONSTANTS
    CPU, Env,       \* processors; environment slots
    NULL,
    Page,           \* the pages page_init puts on the free list
    Pdx, Ptx,       \* indices of a page directory (below UTOP), of a table
    Image,          \* the addresses load_icode maps for a new program
    REFLIMIT        \* where pp_ref, a uint16_t, wraps                 (2^16)

Va == Pdx \X Ptx
PDX(va) == va[1]

ASSUME PmapAssumption ==
    /\ NULL \notin Page \cup Env
    /\ REFLIMIT \in Nat \ {0, 1}
    /\ Image \subseteq Va

\* envs[] and page tables have a fixed number of entries.
ASSUME SizeAssumption == IsFiniteSet(Env) /\ IsFiniteSet(Pdx) /\ IsFiniteSet(Ptx)

VARIABLES
    page_free_list,     \* the pages on it
    pp_ref,
    env_parent,         \* per environment: the live one that created it
    env_pgdir,          \* per environment: the page of its directory
    pgdir,              \* per environment and index: the page of the table
    pgtable,            \* per environment and address: the page mapped there
    cpu_env,            \* curenv of each CPU, whose directory is in %cr3
    tlb                 \* per CPU and address below UTOP: cached translation

memVars == <<page_free_list, pp_ref, env_pgdir, pgdir, pgtable>>
vars == <<memVars, env_parent, cpu_env, tlb>>

NoEntries == [va \in Va |-> NULL]
NoTables  == [d \in Pdx |-> NULL]

\* env_create's memory: env_setup_vm's directory dir, and a new page for each
\* page of the image and for each table it needs, by load_icode's region_allocs.
Created(e, dir, table, page) ==
    LET used == {dir} \cup {table[d] : d \in DOMAIN table}
                      \cup {page[va] : va \in Image}
    IN  /\ Cardinality(used) =
                1 + Cardinality(DOMAIN table) + Cardinality(Image)
        /\ env_pgdir = [f \in Env |-> IF f = e THEN dir ELSE NULL]
        /\ pgdir = [f \in Env |-> [d \in Pdx |->
                IF f = e /\ d \in DOMAIN table THEN table[d] ELSE NULL]]
        /\ pgtable = [f \in Env |-> [va \in Va |->
                IF f = e /\ va \in Image THEN page[va] ELSE NULL]]
        /\ pp_ref = [p \in Page |-> IF p \in used THEN 1 ELSE 0]
        /\ page_free_list = Page \ used

\* The end of i386_init, with one ENV_CREATE, before its sched_yield.
Init ==
    /\ \E e \in Env, dir \in Page,
          table \in [{PDX(va) : va \in Image} -> Page], page \in [Image -> Page] :
            Created(e, dir, table, page)
    /\ env_parent = [e \in Env |-> NULL]
    /\ cpu_env = [c \in CPU |-> NULL]
    /\ tlb = [c \in CPU |-> NoEntries]

Incr(ref, p) == [ref EXCEPT ![p] = (@ + 1) % REFLIMIT]
Decr(ref, p) == [ref EXCEPT ![p] = (@ - 1) % REFLIMIT]

\* tlb_invalidate on CPU c: one entry of its own TLB, if the tables are those
\* of its current environment; no other CPU is told.
TlbInvalidate(c, e, va) ==
    IF cpu_env[c] \in {NULL, e} THEN [tlb EXCEPT ![c][va] = NULL] ELSE tlb

\* Mutant: the address space is not loaded when another environment is entered.
EnterWithoutLcr3(c, e, t) ==
    /\ cpu_env' = [cpu_env EXCEPT ![c] = e]
    /\ tlb' = t

\* env_run(e), or sched_halt (e = NULL), at the end of a handler that left the
\* TLBs as t: lcr3 empties the one of this CPU.
Enter(c, e, t) ==
    /\ cpu_env' = [cpu_env EXCEPT ![c] = e]
    /\ tlb' = [t EXCEPT ![c] = NoEntries]

\* The handler returns to its environment.
Return(c, t) == cpu_env[c] # NULL /\ Enter(c, cpu_env[c], t)

Alive(e) == env_pgdir[e] # NULL
OnCpu(e) == \E c \in CPU : cpu_env[c] = e

\* envid2env with checkperm: a call made on CPU c may act on the caller and on
\* its children, also on one that another CPU is executing.
Target(c, e) ==
    /\ Alive(e) /\ cpu_env[c] # NULL
    /\ e = cpu_env[c] \/ env_parent[e] = cpu_env[c]

-----------------------------------------------------------------------------
(* pmap.c *)

\* Mutant: pgdir_walk leaves the new table on the free list.
TableStaysFree(free, table) == free

\* pgdir_walk's page_alloc: the free list without the new table.
WithoutTable(free, table) == free \ {table}

\* Mutant: the old mapping is removed before pp's count is raised.
FreedTooEarly(ref, pp, old) ==
    IF old # NULL /\ Decr(ref, old)[old] = 0 THEN {old} ELSE {}

\* page_insert: pp's count is raised BEFORE page_remove takes away what va
\* mapped, which may be pp itself.
FreedByInsert(ref, pp, old) ==
    IF old # NULL /\ Decr(Incr(ref, pp), old)[old] = 0 THEN {old} ELSE {}

\* page_insert(e's directory, pp, va) while the free list is free: pgdir_walk
\* allocates a table if there is none.
PageInsert(e, pp, va, free) ==
    \E table \in IF pgdir[e][PDX(va)] = NULL THEN free ELSE {NULL} :
        LET old == pgtable[e][va]
            ref == IF table = NULL THEN pp_ref ELSE Incr(pp_ref, table)
        IN  /\ pp_ref' = IF old = NULL THEN Incr(ref, pp)
                         ELSE Decr(Incr(ref, pp), old)
            /\ page_free_list' = WithoutTable(free, table)
                                    \cup FreedByInsert(ref, pp, old)
            /\ pgdir' = IF table = NULL THEN pgdir
                        ELSE [pgdir EXCEPT ![e][PDX(va)] = table]
            /\ pgtable' = [pgtable EXCEPT ![e][va] = pp]

\* page_remove(e's directory, va).
PageRemove(e, va) ==
    LET pp  == pgtable[e][va]
        ref == Decr(pp_ref, pp)
    IN  IF pp = NULL
        THEN UNCHANGED memVars
        ELSE /\ pp_ref' = ref
             /\ page_free_list' = page_free_list \cup
                                    (IF ref[pp] = 0 THEN {pp} ELSE {})
             /\ pgtable' = [pgtable EXCEPT ![e][va] = NULL]
             /\ UNCHANGED <<env_pgdir, pgdir>>

\* The TLBs after page_remove(e's directory, va) on CPU c, called by itself or
\* by page_insert: it returns early if nothing is mapped.
TlbAfterRemove(c, e, va) ==
    IF pgtable[e][va] = NULL THEN tlb ELSE TlbInvalidate(c, e, va)

-----------------------------------------------------------------------------
(* Environments *)

\* sys_exofork: env_alloc, whose env_setup_vm takes a page for the directory.
SysExofork(c, e) ==
    /\ ~Alive(e)
    /\ \E dir \in page_free_list :
        /\ env_pgdir' = [env_pgdir EXCEPT ![e] = dir]
        /\ pp_ref' = Incr(pp_ref, dir)
        /\ page_free_list' = page_free_list \ {dir}
    /\ env_parent' = [env_parent EXCEPT ![e] = cpu_env[c]]
    /\ UNCHANGED <<pgdir, pgtable>>
    /\ Return(c, tlb)

\* How many of the pointers that env_free takes away point to p.
PointersFrom(e, p) ==
    Cardinality({va \in Va : pgtable[e][va] = p})
    + Cardinality({d \in Pdx : pgdir[e][d] = p})
    + (IF env_pgdir[e] = p THEN 1 ELSE 0)

\* Mutant: the page tables are not given back.
EnvFreeLeaksTables(e) ==
    LET from(p) == Cardinality({va \in Va : pgtable[e][va] = p})
                   + (IF env_pgdir[e] = p THEN 1 ELSE 0)
        ref == [p \in Page |-> (pp_ref[p] - from(p)) % REFLIMIT]
    IN  /\ pp_ref' = ref
        /\ page_free_list' = page_free_list \cup
                {p \in Page : from(p) > 0 /\ ref[p] = 0}
        /\ env_pgdir' = [env_pgdir EXCEPT ![e] = NULL]
        /\ pgdir' = [pgdir EXCEPT ![e] = NoTables]
        /\ pgtable' = [pgtable EXCEPT ![e] = NoEntries]
        /\ env_parent' = [f \in Env |->
                IF e \in {f, env_parent[f]} THEN NULL ELSE env_parent[f]]

\* env_free: every mapping below UTOP, then its table, then the directory.  No
\* later environment has the id that the children name as their parent.
EnvFree(e) ==
    LET ref == [p \in Page |-> (pp_ref[p] - PointersFrom(e, p)) % REFLIMIT]
    IN  /\ pp_ref' = ref
        /\ page_free_list' = page_free_list \cup
                {p \in Page : PointersFrom(e, p) > 0 /\ ref[p] = 0}
        /\ env_pgdir' = [env_pgdir EXCEPT ![e] = NULL]
        /\ pgdir' = [pgdir EXCEPT ![e] = NoTables]
        /\ pgtable' = [pgtable EXCEPT ![e] = NoEntries]
        /\ env_parent' = [f \in Env |->
                IF e \in {f, env_parent[f]} THEN NULL ELSE env_parent[f]]

\* env_destroy of the current environment: env_free loads kern_pgdir first,
\* curenv is NULL at the end, and sched_yield follows.
DestroySelf(c) ==
    /\ cpu_env[c] # NULL
    /\ EnvFree(cpu_env[c])
    /\ Enter(c, NULL, [tlb EXCEPT ![c] = NoEntries])

\* Mutant: the running environment's directory is freed under it.
DestroyOtherRunning(c, e) ==
    /\ Alive(e) /\ cpu_env[c] # NULL /\ env_parent[e] = cpu_env[c]
    /\ EnvFree(e)
    /\ Return(c, tlb)

\* env_destroy of a child that is on no CPU (Kernel: a running one is only
\* marked ENV_DYING).  No TLB has anything of it.
DestroyOther(c, e) ==
    /\ Target(c, e) /\ ~OnCpu(e)
    /\ EnvFree(e)
    /\ Return(c, tlb)

\* sched_yield: to an environment that is on no other CPU, or to hlt.
SchedYield(c, e) ==
    /\ e # NULL => Alive(e) /\ \A d \in CPU \ {c} : cpu_env[d] # e
    /\ Enter(c, e, tlb)
    /\ UNCHANGED <<memVars, env_parent>>

-----------------------------------------------------------------------------
(* System calls on pages *)

SysPageAlloc(c, e, va) ==
    /\ Target(c, e)
    /\ \E pp \in page_free_list : PageInsert(e, pp, va, page_free_list \ {pp})
    /\ UNCHANGED <<env_pgdir, env_parent>>
    /\ Return(c, TlbAfterRemove(c, e, va))

\* sys_page_alloc takes the last free page and finds none for the table: the
\* page goes back to the list.
SysPageAllocNoTable(c, e, va) ==
    /\ Target(c, e)
    /\ pgdir[e][PDX(va)] = NULL
    /\ \E pp \in page_free_list :
        /\ page_free_list = {pp}
        /\ page_free_list' = (page_free_list \ {pp}) \cup {pp}
    /\ UNCHANGED <<pp_ref, env_pgdir, env_parent, pgdir, pgtable>>
    /\ Return(c, tlb)

SysPageMap(c, se, srcva, de, dstva) ==
    /\ Target(c, se) /\ Target(c, de)
    /\ pgtable[se][srcva] # NULL
    /\ PageInsert(de, pgtable[se][srcva], dstva, page_free_list)
    /\ UNCHANGED <<env_pgdir, env_parent>>
    /\ Return(c, TlbAfterRemove(c, de, dstva))

SysPageUnmap(c, e, va) ==
    /\ Target(c, e)
    /\ PageRemove(e, va)
    /\ UNCHANGED env_parent
    /\ Return(c, TlbAfterRemove(c, e, va))

\* sys_ipc_try_send with a page, to any environment blocked in sys_ipc_recv.
SysIpcTrySend(c, srcva, rcv, dstva) ==
    /\ cpu_env[c] # NULL
    /\ pgtable[cpu_env[c]][srcva] # NULL
    /\ Alive(rcv) /\ ~OnCpu(rcv)
    /\ PageInsert(rcv, pgtable[cpu_env[c]][srcva], dstva, page_free_list)
    /\ UNCHANGED <<env_pgdir, env_parent>>
    /\ Return(c, TlbAfterRemove(c, rcv, dstva))

-----------------------------------------------------------------------------
\* The hardware translates a user access of CPU c and caches the result.
Touch(c, va) ==
    /\ cpu_env[c] # NULL
    /\ tlb[c][va] = NULL /\ pgtable[cpu_env[c]][va] # NULL
    /\ tlb' = [tlb EXCEPT ![c][va] = pgtable[cpu_env[c]][va]]
    /\ UNCHANGED <<memVars, env_parent, cpu_env>>

Next ==
    \E c \in CPU :
        \/ DestroySelf(c)
        \/ \E e \in Env : SysExofork(c, e) \/ DestroyOther(c, e)
        \/ \E e \in Env \cup {NULL} : SchedYield(c, e)
        \/ \E e \in Env, va \in Va :
            SysPageAlloc(c, e, va) \/ SysPageAllocNoTable(c, e, va)
            \/ SysPageUnmap(c, e, va)
        \/ \E se, de \in Env, srcva, dstva \in Va :
            SysPageMap(c, se, srcva, de, dstva)
        \/ \E rcv \in Env, srcva, dstva \in Va :
            SysIpcTrySend(c, srcva, rcv, dstva)
        \/ \E va \in Va : Touch(c, va)

Spec == Init /\ [][Next]_vars

-----------------------------------------------------------------------------
(* Properties *)

\* Type correctness of the memory state.
TypeOK ==
    /\ page_free_list \subseteq Page
    /\ pp_ref \in [Page -> 0 .. REFLIMIT - 1]
    /\ env_parent \in [Env -> Env \cup {NULL}]
    /\ env_pgdir \in [Env -> Page \cup {NULL}]
    /\ pgdir \in [Env -> [Pdx -> Page \cup {NULL}]]
    /\ pgtable \in [Env -> [Va -> Page \cup {NULL}]]
    /\ cpu_env \in [CPU -> Env \cup {NULL}]
    /\ tlb \in [CPU -> [Va -> Page \cup {NULL}]]

Pointers(p) ==
    Cardinality({e \in Env : env_pgdir[e] = p})
    + Cardinality({x \in Env \X Pdx : pgdir[x[1]][x[2]] = p})
    + Cardinality({x \in Env \X Va : pgtable[x[1]][x[2]] = p})

\* inc/memlayout.h: pp_ref is the number of pointers to the page.
RefCountExact == \A p \in Page : pp_ref[p] = Pointers(p)

\* page_free, page_decref: a page is on the free list exactly when nothing
\* points to it; none is handed out twice and none leaks.
FreeIsUnreferenced == \A p \in Page : p \in page_free_list <=> Pointers(p) = 0

\* p is the page of some directory or of some table.
IsTable(p) ==
    \E e \in Env : env_pgdir[e] = p \/ \E d \in Pdx : pgdir[e][d] = p

\* pgdir_walk, env_setup_vm: a page used as a directory or as a table has that
\* one use; no program has it mapped and no two environments share it.
TablesArePrivate == \A p \in Page : IsTable(p) => Pointers(p) = 1

\* pmap.c:633: the TLB must be invalidated if an entry is removed from the page
\* table, so a translation that a CPU has cached is the one in the page tables
\* of the environment it executes.  The code does not keep this.
TlbFresh ==
    \A c \in CPU, va \in Va : tlb[c][va] # NULL =>
        cpu_env[c] # NULL /\ tlb[c][va] = pgtable[cpu_env[c]][va]

Stale(c, va) ==
    /\ tlb[c][va] # NULL
    /\ cpu_env[c] = NULL \/ tlb[c][va] # pgtable[cpu_env[c]][va]

\* Another CPU executes the parent of what CPU c executes, and goes on with it.
ParentActs(c) ==
    \E d \in CPU \ {c} :
        /\ cpu_env[d] # NULL /\ cpu_env[d] = env_parent[cpu_env[c]]
        /\ cpu_env'[d] = cpu_env[d]

\* A step in which a translation becomes, or stays, stale.
StaleStep ==
    \A c \in CPU, va \in Va : Stale(c, va)' =>
        /\ cpu_env'[c] = cpu_env[c] /\ tlb'[c][va] = tlb[c][va]
        /\ Stale(c, va) \/ ParentActs(c)

\* What page_remove and env_run do achieve: a translation becomes stale only
\* when the parent changes the mapping from another CPU, never by what its own
\* environment does, by a message, by a destruction or by a switch; and it does
\* not outlive the next time that its CPU is in the kernel.
StaleOnlyByParent == [][StaleStep]_vars

\* An environment is current on one CPU (Kernel!OneCpu).
OneCpu ==
    \A c, d \in CPU : cpu_env[c] # NULL /\ cpu_env[c] = cpu_env[d] => c = d

\* Page tables hang together: no mapping without a table, no table without a
\* directory, each a page of its own, and a CPU executes only on a live directory
\* (env_destroy defers the end of a running environment).
WellFormed ==
    /\ TypeOK
    /\ \A e \in Env, va \in Va :
            pgtable[e][va] # NULL => pgdir[e][PDX(va)] # NULL
    /\ \A e \in Env, d \in Pdx : pgdir[e][d] # NULL => env_pgdir[e] # NULL
    /\ \A c \in CPU : cpu_env[c] # NULL => env_pgdir[cpu_env[c]] # NULL
    /\ TablesArePrivate
=============================================================================
