------------------------------ MODULE CowFork -------------------------------
(***************************************************************************)
(* fork() with copy-on-write, a library of the user programs: lib/fork.c,  *)
(* lib/pgfault.c, and the parts of kern/trap.c and kern/syscall.c that it  *)
(* relies on.  A program is preempted between any two steps; each system   *)
(* call is one step, because it runs under the kernel lock (Spinlock).     *)
(*                                                                         *)
(* Below USTACKTOP an address space has the pages 0 .. NVA: PFTEMP, those  *)
(* of the program, and as the highest one its stack; above is the user     *)
(* exception stack.  While a program is inside fork() it writes nothing    *)
(* but its stack, in order to make calls, and nothing that the child will  *)
(* read; still the stack must be writable for that (Ready).                *)
(*                                                                         *)
(* Abstracted: reference counts and page tables (Pmap), so sys_page_map    *)
(* always has memory for a table.                                          *)
(***************************************************************************)
EXTENDS Integers

CONSTANTS
    Env, NULL,
    Page,           \* physical pages
    NVA,            \* the program's pages
    Layout,         \* their permissions at the start: "r", "w" or "share"
    Values, ZERO    \* contents of a page; that of a cleared one

PFTEMP == 0
STACK  == NVA
XSTACK == NVA + 1       \* UXSTACKTOP - PGSIZE
Va     == 0 .. XSTACK
UserVa == 1 .. NVA

ASSUME CowAssumption ==
    /\ NULL \notin Page \cup Env
    /\ NVA \in Nat \ {0}
    /\ Layout \in [UserVa -> {"r", "w", "share"}] /\ Layout[STACK] = "w"
    /\ ZERO \in Values
    /\ Env # {}
    /\ \E p \in [UserVa -> Page] : \A u, v \in UserVa : p[u] = p[v] => u = v

VARIABLES
    env_status,     \* FREE, NOT_RUNNABLE (being created), RUNNABLE
    pgtable,        \* per environment and address: the page mapped there
    perm,           \* "none", "r", "w", "cow" (PTE_COW), "share" (PTE_SHARE)
    content,        \* per page
    env_pgfault_upcall,
    handler,        \* _pgfault_handler is set, in the memory of the program
    pc,             \* where the program is in fork(), see Pc
    child, dupva,   \* fork()'s variables envid and addr
    pf, fault_va    \* where it is in pgfault(), if it is; the address

tables == <<pgtable, perm>>
vars == <<env_status, tables, content, env_pgfault_upcall, handler, pc, child,
          dupva, pf, fault_va>>

Pc == {"run", "handler", "upcall", "exofork", "dup", "dupself", "xstack",
       "childupcall", "start", "panic"}
Pf == {"none", "map", "alloc", "copy", "unmap"}

\* A program that load_icode has just loaded, in pages of its own.
Init ==
    LET e == CHOOSE f \in Env : TRUE
        p == CHOOSE q \in [UserVa -> Page] :
                \A u, v \in UserVa : q[u] = q[v] => u = v
    IN  /\ env_status = [f \in Env |-> IF f = e THEN "RUNNABLE" ELSE "FREE"]
        /\ pgtable = [f \in Env |-> [va \in Va |->
                IF f = e /\ va \in UserVa THEN p[va] ELSE NULL]]
        /\ perm = [f \in Env |-> [va \in Va |->
                IF f = e /\ va \in UserVa THEN Layout[va] ELSE "none"]]
        /\ content = [q \in Page |-> ZERO]
        /\ env_pgfault_upcall = [f \in Env |-> FALSE]
        /\ handler = [f \in Env |-> FALSE]
        /\ pc = [f \in Env |-> "run"]
        /\ child = [f \in Env |-> NULL]
        /\ dupva = [f \in Env |-> 0]
        /\ pf = [f \in Env |-> "none"]
        /\ fault_va = [f \in Env |-> 0]

-----------------------------------------------------------------------------
(* The system calls, as far as the library uses them *)

\* page_insert: what va mapped before is unmapped.
Map(e, va, page, p) ==
    /\ pgtable' = [pgtable EXCEPT ![e][va] = page]
    /\ perm' = [perm EXCEPT ![e][va] = p]

\* The free list: a page with no mapping left is on it.
Free == {p \in Page : \A e \in Env, va \in Va : pgtable[e][va] # p}

\* The head of the list.  Which one it is makes no difference to a program,
\* which sees no physical addresses.
page_free_list == CHOOSE p \in Free : TRUE

\* sys_page_alloc: a cleared page.
SysPageAlloc(e, va) ==
    /\ Free # {}
    /\ Map(e, va, page_free_list, "w")
    /\ content' = [content EXCEPT ![page_free_list] = ZERO]

\* panic(): int3 for ever; the kernel monitor stops the machine.
Panic(e) ==
    /\ pc' = [pc EXCEPT ![e] = "panic"]
    /\ UNCHANGED <<env_status, tables, content, env_pgfault_upcall, handler,
                   child, dupva, pf, fault_va>>

\* env_destroy: env_free, and the slot as env_alloc will give it out again.
Destroy(e) ==
    /\ env_status' = [env_status EXCEPT ![e] = "FREE"]
    /\ pgtable' = [pgtable EXCEPT ![e] = [va \in Va |-> NULL]]
    /\ perm' = [perm EXCEPT ![e] = [va \in Va |-> "none"]]
    /\ env_pgfault_upcall' = [env_pgfault_upcall EXCEPT ![e] = FALSE]
    /\ handler' = [handler EXCEPT ![e] = FALSE]
    /\ pc' = [pc EXCEPT ![e] = "run"]
    /\ child' = [child EXCEPT ![e] = NULL]
    /\ dupva' = [dupva EXCEPT ![e] = 0]
    /\ pf' = [pf EXCEPT ![e] = "none"]
    /\ fault_va' = [fault_va EXCEPT ![e] = 0]
    /\ UNCHANGED content

Stopped == \E f \in Env : pc[f] = "panic"

Running(e) == env_status[e] = "RUNNABLE" /\ pf[e] = "none" /\ ~Stopped

\* The program is in fork() at place p, and can push on its stack.
At(e, p) == Running(e) /\ pc[e] = p /\ perm[e][STACK] = "w"

Goto(e, p) == pc' = [pc EXCEPT ![e] = p]

-----------------------------------------------------------------------------
(* fork() *)

CallFork(e) ==
    /\ At(e, "run")
    /\ Goto(e, "handler")
    /\ UNCHANGED <<env_status, tables, content, env_pgfault_upcall, handler,
                   child, dupva, pf, fault_va>>

\* set_pgfault_handler: the exception stack, the first time.
SetHandlerAlloc(e) ==
    /\ At(e, "handler") /\ ~handler[e]
    /\ SysPageAlloc(e, XSTACK)
    /\ Goto(e, "upcall")
    /\ UNCHANGED <<env_status, env_pgfault_upcall, handler, child, dupva, pf,
                   fault_va>>

\* set_pgfault_handler: sys_env_set_pgfault_upcall, _pgfault_handler = handler.
SetHandlerUpcall(e) ==
    /\ At(e, "upcall")
    /\ env_pgfault_upcall' = [env_pgfault_upcall EXCEPT ![e] = TRUE]
    /\ handler' = [handler EXCEPT ![e] = TRUE]
    /\ Goto(e, "exofork")
    /\ UNCHANGED <<env_status, tables, content, child, dupva, pf, fault_va>>

SetHandlerAgain(e) ==
    /\ At(e, "handler") /\ handler[e]
    /\ Goto(e, "exofork")
    /\ UNCHANGED <<env_status, tables, content, env_pgfault_upcall, handler,
                   child, dupva, pf, fault_va>>

\* sys_exofork: an empty address space.
Exofork(e, c) ==
    /\ At(e, "exofork")
    /\ env_status[c] = "FREE"
    /\ env_status' = [env_status EXCEPT ![c] = "NOT_RUNNABLE"]
    /\ child' = [child EXCEPT ![e] = c]
    /\ dupva' = [dupva EXCEPT ![e] = 0]
    /\ Goto(e, "dup")
    /\ UNCHANGED <<tables, content, env_pgfault_upcall, handler, pf, fault_va>>

\* The loop of fork() over the pages below USTACKTOP.
DupSkip(e) ==
    /\ At(e, "dup") /\ dupva[e] <= STACK
    /\ pgtable[e][dupva[e]] = NULL
    /\ dupva' = [dupva EXCEPT ![e] = @ + 1]
    /\ UNCHANGED <<env_status, tables, content, env_pgfault_upcall, handler, pc,
                   child, pf, fault_va>>

\* Mutant: a writable page stays writable in the child.
DupChildKeepsPerm(e) ==
    LET va == dupva[e]
    IN  /\ At(e, "dup") /\ va <= STACK
        /\ pgtable[e][va] # NULL
        /\ Map(child[e], va, pgtable[e][va], perm[e][va])
        /\ IF perm[e][va] \in {"w", "cow"}
           THEN Goto(e, "dupself") /\ UNCHANGED dupva
           ELSE dupva' = [dupva EXCEPT ![e] = @ + 1] /\ UNCHANGED pc
        /\ UNCHANGED <<env_status, content, env_pgfault_upcall, handler, child,
                       pf, fault_va>>

\* duppage: the mapping of the child.
DupChild(e) ==
    LET va  == dupva[e]
        cow == perm[e][va] \in {"w", "cow"}
    IN  /\ At(e, "dup") /\ va <= STACK
        /\ pgtable[e][va] # NULL
        /\ Map(child[e], va, pgtable[e][va], IF cow THEN "cow" ELSE perm[e][va])
        /\ IF cow THEN Goto(e, "dupself") /\ UNCHANGED dupva
                  ELSE dupva' = [dupva EXCEPT ![e] = @ + 1] /\ UNCHANGED pc
        /\ UNCHANGED <<env_status, content, env_pgfault_upcall, handler, child,
                       pf, fault_va>>

\* Mutant: the parent goes on writing the page it has given to the child.
DupSelfNot(e) ==
    /\ At(e, "dupself")
    /\ UNCHANGED tables
    /\ dupva' = [dupva EXCEPT ![e] = @ + 1]
    /\ Goto(e, "dup")
    /\ UNCHANGED <<env_status, content, env_pgfault_upcall, handler, child, pf,
                   fault_va>>

\* duppage: its own mapping becomes copy-on-write (again).
DupSelf(e) ==
    /\ At(e, "dupself")
    /\ Map(e, dupva[e], pgtable[e][dupva[e]], "cow")
    /\ dupva' = [dupva EXCEPT ![e] = @ + 1]
    /\ Goto(e, "dup")
    /\ UNCHANGED <<env_status, content, env_pgfault_upcall, handler, child, pf,
                   fault_va>>

DupDone(e) ==
    /\ At(e, "dup") /\ dupva[e] > STACK
    /\ Goto(e, "xstack")
    /\ UNCHANGED <<env_status, tables, content, env_pgfault_upcall, handler,
                   child, dupva, pf, fault_va>>

\* Mutant: the child gets no exception stack.
ForkXstackNot(e) ==
    /\ At(e, "xstack")
    /\ Goto(e, "childupcall")
    /\ UNCHANGED <<env_status, tables, content, env_pgfault_upcall, handler,
                   child, dupva, pf, fault_va>>

ForkXstack(e) ==
    /\ At(e, "xstack")
    /\ SysPageAlloc(child[e], XSTACK)
    /\ Goto(e, "childupcall")
    /\ UNCHANGED <<env_status, env_pgfault_upcall, handler, child, dupva, pf,
                   fault_va>>

\* Mutant: the child's upcall is forgotten.
ForkUpcallNot(e) ==
    /\ At(e, "childupcall")
    /\ Goto(e, "start")
    /\ UNCHANGED <<env_status, tables, content, env_pgfault_upcall, handler,
                   child, dupva, pf, fault_va>>

ForkUpcall(e) ==
    /\ At(e, "childupcall")
    /\ env_pgfault_upcall' = [env_pgfault_upcall EXCEPT ![child[e]] = TRUE]
    /\ Goto(e, "start")
    /\ UNCHANGED <<env_status, tables, content, handler, child, dupva, pf,
                   fault_va>>

\* sys_env_set_status.  The child's memory has its parent's _pgfault_handler.
ForkStart(e) ==
    /\ At(e, "start")
    /\ env_status' = [env_status EXCEPT ![child[e]] = "RUNNABLE"]
    /\ handler' = [handler EXCEPT ![child[e]] = handler[e]]
    /\ child' = [child EXCEPT ![e] = NULL]
    /\ dupva' = [dupva EXCEPT ![e] = 0]
    /\ Goto(e, "run")
    /\ UNCHANGED <<tables, content, env_pgfault_upcall, pf, fault_va>>

\* A call of fork() fails: no memory for an exception stack, no free slot.
ForkPanic(e) ==
    /\ \/ At(e, "handler") /\ ~handler[e] /\ Free = {}
       \/ At(e, "exofork") /\ \A c \in Env : env_status[c] # "FREE"
       \/ At(e, "xstack") /\ Free = {}
    /\ Panic(e)

-----------------------------------------------------------------------------
(* Writing to memory *)

\* The program writes to one of its pages.
Write(e, va, v) ==
    /\ Running(e) /\ pc[e] = "run"
    /\ perm[e][va] \in {"w", "share"}
    /\ content' = [content EXCEPT ![pgtable[e][va]] = v]
    /\ UNCHANGED <<env_status, tables, env_pgfault_upcall, handler, pc, child,
                   dupva, pf, fault_va>>

\* A write that the hardware refuses: of the program, or of fork() to its
\* stack.
Refused(e, va) ==
    /\ Running(e)
    /\ va = STACK \/ pc[e] = "run"
    /\ perm[e][va] \notin {"w", "share"}

HasHandler(e) == env_pgfault_upcall[e] /\ perm[e][XSTACK] = "w"

\* page_fault_handler: the upcall, on the exception stack (UxStack).
Fault(e, va) ==
    /\ Refused(e, va) /\ HasHandler(e)
    /\ pf' = [pf EXCEPT ![e] = "map"]
    /\ fault_va' = [fault_va EXCEPT ![e] = va]
    /\ UNCHANGED <<env_status, tables, content, env_pgfault_upcall, handler, pc,
                   child, dupva>>

\* page_fault_handler: nobody to handle it.
FaultDestroys(e, va) ==
    /\ Refused(e, va) /\ ~HasHandler(e)
    /\ Destroy(e)

InPgfault(e, p) == env_status[e] = "RUNNABLE" /\ pf[e] = p /\ ~Stopped

PfGoto(e, p) ==
    /\ pf' = [pf EXCEPT ![e] = p]
    /\ UNCHANGED <<env_status, env_pgfault_upcall, handler, pc, child, dupva,
                   fault_va>>

\* pgfault: the page is mapped at PFTEMP too ...
PfMap(e) ==
    /\ InPgfault(e, "map") /\ perm[e][fault_va[e]] = "cow"
    /\ Map(e, PFTEMP, pgtable[e][fault_va[e]], "r")
    /\ PfGoto(e, "alloc")
    /\ UNCHANGED content

\* Mutant: the new page is again copy-on-write.
PfAllocCow(e) ==
    /\ InPgfault(e, "alloc")
    /\ Free # {}
    /\ Map(e, fault_va[e], page_free_list, "cow")
    /\ content' = [content EXCEPT ![page_free_list] = ZERO]
    /\ PfGoto(e, "copy")

\* ... a new one takes its place ...
PfAlloc(e) ==
    /\ InPgfault(e, "alloc")
    /\ SysPageAlloc(e, fault_va[e])
    /\ PfGoto(e, "copy")

\* ... gets its contents ...
PfCopy(e) ==
    /\ InPgfault(e, "copy")
    /\ content' = [content EXCEPT
            ![pgtable[e][fault_va[e]]] = content[pgtable[e][PFTEMP]]]
    /\ PfGoto(e, "unmap")
    /\ UNCHANGED tables

\* ... and the program writes again.
PfUnmap(e) ==
    /\ InPgfault(e, "unmap")
    /\ Map(e, PFTEMP, NULL, "none")
    /\ pf' = [pf EXCEPT ![e] = "none"]
    /\ fault_va' = [fault_va EXCEPT ![e] = 0]
    /\ UNCHANGED <<env_status, content, env_pgfault_upcall, handler, pc, child,
                   dupva>>

\* pgfault: not a copy-on-write page, or no memory for the copy.
PfPanic(e) ==
    /\ \/ InPgfault(e, "map") /\ perm[e][fault_va[e]] # "cow"
       \/ InPgfault(e, "alloc") /\ Free = {}
    /\ Panic(e)

\* exit(), or its parent destroys it: at any time.
Exit(e) ==
    /\ env_status[e] = "RUNNABLE" /\ ~Stopped
    /\ Destroy(e)

-----------------------------------------------------------------------------
ForkStep(e) ==
    \/ SetHandlerAlloc(e) \/ SetHandlerUpcall(e) \/ SetHandlerAgain(e)
    \/ \E c \in Env : Exofork(e, c)
    \/ DupSkip(e) \/ DupChild(e) \/ DupSelf(e) \/ DupDone(e)
    \/ ForkXstack(e) \/ ForkUpcall(e) \/ ForkStart(e) \/ ForkPanic(e)

PgfaultStep(e) ==
    PfMap(e) \/ PfAlloc(e) \/ PfCopy(e) \/ PfUnmap(e) \/ PfPanic(e)

Next ==
    \E e \in Env :
        \/ ForkStep(e) \/ PgfaultStep(e)
        \/ CallFork(e) \/ Exit(e)
        \/ \E va \in UserVa, v \in Values : Write(e, va, v)
        \/ \E va \in UserVa : Fault(e, va) \/ FaultDestroys(e, va)

Spec == Init /\ [][Next]_vars

\* The kernel schedules every runnable program again and again
\* (Kernel!RunnableRuns), so one that is in fork() or in pgfault() goes on.
Fairness ==
    \A e \in Env : WF_vars(\/ ForkStep(e) \/ PgfaultStep(e)
                           \/ pc[e] # "run" /\ Fault(e, STACK))

FairSpec == Spec /\ Fairness

-----------------------------------------------------------------------------
(* Properties *)

\* duppage, pgfault: a page that a program can write is mapped nowhere else,
\* except between the two mappings of duppage, when its child is not started.
Private ==
    \A e, f \in Env : \A u, v \in Va :
        /\ perm[e][u] = "w"
        /\ pgtable[e][u] = pgtable[f][v]
        /\ <<e, u>> # <<f, v>>
        => /\ pc[e] = "dupself" /\ f = child[e] /\ u = dupva[e] /\ v = u
           /\ perm[f][v] = "cow"

\* fork, set_pgfault_handler: a program that can meet a copy-on-write page has
\* an upcall and an exception stack that is its own, so that page_fault_handler
\* never destroys it for a write it may do.
FaultsAreHandled ==
    \A e \in Env : \A va \in UserVa :
        env_status[e] = "RUNNABLE" /\ perm[e][va] = "cow" => HasHandler(e)

-----------------------------------------------------------------------------
(* The inductive invariant of Private and FaultsAreHandled *)

TypeOK ==
    /\ env_status \in [Env -> {"FREE", "NOT_RUNNABLE", "RUNNABLE"}]
    /\ pgtable \in [Env -> [Va -> Page \cup {NULL}]]
    /\ perm \in [Env -> [Va -> {"none", "r", "w", "cow", "share"}]]
    /\ content \in [Page -> Values]
    /\ env_pgfault_upcall \in [Env -> BOOLEAN]
    /\ handler \in [Env -> BOOLEAN]
    /\ pc \in [Env -> Pc]
    /\ child \in [Env -> Env \cup {NULL}]
    /\ dupva \in [Env -> 0 .. XSTACK]
    /\ pf \in [Env -> Pf]
    /\ fault_va \in [Env -> 0 .. STACK]

\* The places of fork() where it has a child that is not started.
HasChild == {"dup", "dupself", "xstack", "childupcall", "start"}

\* Only a running program is anywhere, and a program that creates another is
\* the only one that does.
ChildInv ==
    /\ \A e \in Env : env_status[e] # "RUNNABLE" => pc[e] = "run" /\ pf[e] = "none"
    /\ \A e \in Env : pc[e] \in HasChild =>
            child[e] \in Env /\ env_status[child[e]] = "NOT_RUNNABLE"
    /\ \A e, f \in Env : pc[e] \in HasChild /\ pc[f] \in HasChild
            /\ child[e] = child[f] => e = f

\* Mappings and permissions agree, and a slot that is free has none.
MapInv ==
    \A e \in Env : \A va \in Va :
        /\ pgtable[e][va] = NULL <=> perm[e][va] = "none"
        /\ env_status[e] = "FREE" => perm[e][va] = "none"

\* Both calls of duppage are made without a fault on the stack in between.
DupInv ==
    \A e \in Env : pc[e] = "dupself" =>
        /\ pf[e] = "none" /\ perm[e][STACK] = "w"
        /\ dupva[e] \in 0 .. STACK /\ pgtable[e][dupva[e]] # NULL

\* Who has a handler: a program that has set one, and a child, step by step.
HandlerInv ==
    \A e \in Env :
        /\ pf[e] # "none" => fault_va[e] \in UserVa
        /\ pf[e] \in {"alloc", "copy"} => pgtable[e][PFTEMP] # NULL
        /\ handler[e] => env_status[e] = "RUNNABLE" /\ HasHandler(e)
        /\ pc[e] = "upcall" => perm[e][XSTACK] = "w"
        /\ pc[e] \in HasChild \cup {"exofork"} => handler[e]
        /\ pc[e] \in {"childupcall", "start"} => perm[child[e]][XSTACK] = "w"
        /\ pc[e] = "start" => env_pgfault_upcall[child[e]]
        /\ \A va \in UserVa :
            env_status[e] = "RUNNABLE" /\ perm[e][va] = "cow" => handler[e]

\* What the steps of fork() and pgfault() preserve.
CowInv == TypeOK /\ ChildInv /\ MapInv /\ DupInv /\ HandlerInv /\ Private

-----------------------------------------------------------------------------
Live == {e \in Env : env_status[e] = "RUNNABLE"}

\* What a program reads at va; while pgfault() has not copied the page yet,
\* what it will read when it runs again.
Value(e, va) ==
    IF e \notin Live THEN ZERO
    ELSE IF pf[e] = "copy" /\ fault_va[e] = va THEN content[pgtable[e][PFTEMP]]
    ELSE content[pgtable[e][va]]

Abstract == INSTANCE ForkMemory WITH
    Va <- UserVa,
    Shared <- {va \in UserVa : Layout[va] = "share"},
    live <- Live,
    mem <- [e \in Env |-> [va \in UserVa |-> Value(e, va)]]

\* fork() with copy-on-write implements fork() with a copy: writes of parent,
\* child and grandchildren stay apart, whatever the order of the steps.
IsACopy == Abstract!Spec

\* fork() ends: no endless faults on the stack that it makes copy-on-write
\* itself.
ForkEnds ==
    \A e \in Env : pc[e] # "run" ~>
        pc[e] = "run" \/ Stopped
=============================================================================
