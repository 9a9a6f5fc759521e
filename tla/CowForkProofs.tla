---------------------------- MODULE CowForkProofs ----------------------------
(***************************************************************************)
(* Private, FaultsAreHandled and IsACopy for any number of programs,       *)
(* addresses, pages and values.                                            *)
(***************************************************************************)
EXTENDS CowFork, TLAPS

USE DEF PFTEMP, STACK, XSTACK, Va, UserVa, tables

(***************************************************************************)
(* The head of the free list is a page that nobody has mapped.             *)
(***************************************************************************)
LEMMA FreshPage ==
    ASSUME Free # {}
    PROVE  /\ page_free_list \in Page
           /\ \A e \in Env, va \in Va : pgtable[e][va] # page_free_list
  BY DEF Free, page_free_list

Perm == {"none", "r", "w", "cow", "share"}

\* The tables after Map.
Mapped(e, va, page, p) ==
    /\ pgtable' \in [Env -> [Va -> Page \cup {NULL}]]
    /\ perm' \in [Env -> [Va -> Perm]]
    /\ \A f \in Env, v \in Va :
        /\ pgtable'[f][v] = IF f = e /\ v = va THEN page ELSE pgtable[f][v]
        /\ perm'[f][v] = IF f = e /\ v = va THEN p ELSE perm[f][v]

(***************************************************************************)
(* page_insert changes the mapping of one address.                         *)
(***************************************************************************)
LEMMA MapEffect ==
    ASSUME TypeOK, NEW e \in Env, NEW va \in Va, NEW page \in Page \cup {NULL},
           NEW p \in Perm, Map(e, va, page, p)
    PROVE  Mapped(e, va, page, p)
  BY DEF TypeOK, Map, Perm, Mapped

\* The tables after Destroy.
Unmapped(e) ==
    /\ pgtable' \in [Env -> [Va -> Page \cup {NULL}]]
    /\ perm' \in [Env -> [Va -> Perm]]
    /\ \A f \in Env, v \in Va :
        /\ pgtable'[f][v] = IF f = e THEN NULL ELSE pgtable[f][v]
        /\ perm'[f][v] = IF f = e THEN "none" ELSE perm[f][v]

(***************************************************************************)
(* env_destroy takes away all mappings of one program.                     *)
(***************************************************************************)
LEMMA DestroyEffect ==
    ASSUME TypeOK, NEW e \in Env, Destroy(e)
    PROVE  Unmapped(e)
  BY DEF TypeOK, Destroy, Perm, Unmapped

(* Calling fork().  The invariant is preserved. *)
LEMMA CallForkKeeps ==
    ASSUME CowInv, NEW e \in Env, CallFork(e)
    PROVE  CowInv'
<1> USE CowAssumption DEF CowInv
<1>1. TypeOK'
  BY DEF CallFork, At, Running, Goto, TypeOK, Pc, Pf
<1>2. ChildInv'
  BY DEF CallFork, At, Running, Goto, TypeOK, ChildInv, HasChild
<1>3. MapInv'
  BY DEF CallFork, At, Running, Goto, TypeOK, MapInv
<1>4. DupInv'
  BY DEF CallFork, At, Running, Goto, TypeOK, DupInv
<1>5. HandlerInv'
  BY DEF CallFork, At, Running, Goto, TypeOK, HandlerInv, HasHandler, HasChild
<1>6. Private'
  BY DEF CallFork, At, Running, Goto, TypeOK, Private
<1> QED BY <1>1, <1>2, <1>3, <1>4, <1>5, <1>6

(* set_pgfault_handler: the upcall.  The invariant is preserved. *)
LEMMA SetHandlerUpcallKeeps ==
    ASSUME CowInv, NEW e \in Env, SetHandlerUpcall(e)
    PROVE  CowInv'
<1> USE CowAssumption DEF CowInv
<1>1. TypeOK'
  BY DEF SetHandlerUpcall, At, Running, Goto, TypeOK, Pc, Pf
<1>2. ChildInv'
  BY DEF SetHandlerUpcall, At, Running, Goto, TypeOK, ChildInv, HasChild
<1>3. MapInv'
  BY DEF SetHandlerUpcall, At, Running, Goto, TypeOK, MapInv
<1>4. DupInv'
  BY DEF SetHandlerUpcall, At, Running, Goto, TypeOK, DupInv
<1>5. HandlerInv'
  BY DEF SetHandlerUpcall, At, Running, Goto, TypeOK, HandlerInv, HasHandler,
       HasChild
<1>6. Private'
  BY DEF SetHandlerUpcall, At, Running, Goto, TypeOK, Private
<1> QED BY <1>1, <1>2, <1>3, <1>4, <1>5, <1>6

(* set_pgfault_handler, called again.  The invariant is preserved. *)
LEMMA SetHandlerAgainKeeps ==
    ASSUME CowInv, NEW e \in Env, SetHandlerAgain(e)
    PROVE  CowInv'
<1> USE CowAssumption DEF CowInv
<1>1. TypeOK'
  BY DEF SetHandlerAgain, At, Running, Goto, TypeOK, Pc, Pf
<1>2. ChildInv'
  BY DEF SetHandlerAgain, At, Running, Goto, TypeOK, ChildInv, HasChild
<1>3. MapInv'
  BY DEF SetHandlerAgain, At, Running, Goto, TypeOK, MapInv
<1>4. DupInv'
  BY DEF SetHandlerAgain, At, Running, Goto, TypeOK, DupInv
<1>5. HandlerInv'
  BY DEF SetHandlerAgain, At, Running, Goto, TypeOK, HandlerInv, HasHandler,
       HasChild
<1>6. Private'
  BY DEF SetHandlerAgain, At, Running, Goto, TypeOK, Private
<1> QED BY <1>1, <1>2, <1>3, <1>4, <1>5, <1>6

(* fork(): an address with nothing mapped.  The invariant is preserved. *)
LEMMA DupSkipKeeps ==
    ASSUME CowInv, NEW e \in Env, DupSkip(e)
    PROVE  CowInv'
<1> USE CowAssumption DEF CowInv
<1>1. TypeOK'
  BY DEF DupSkip, At, Running, TypeOK, Pc, Pf
<1>2. ChildInv'
  BY DEF DupSkip, At, Running, TypeOK, ChildInv, HasChild
<1>3. MapInv'
  BY DEF DupSkip, At, Running, TypeOK, MapInv
<1>4. DupInv'
  BY DEF DupSkip, At, Running, TypeOK, DupInv
<1>5. HandlerInv'
  BY DEF DupSkip, At, Running, TypeOK, HandlerInv, HasHandler, HasChild
<1>6. Private'
  BY DEF DupSkip, At, Running, TypeOK, Private
<1> QED BY <1>1, <1>2, <1>3, <1>4, <1>5, <1>6

(* fork(): the end of the loop.  The invariant is preserved. *)
LEMMA DupDoneKeeps ==
    ASSUME CowInv, NEW e \in Env, DupDone(e)
    PROVE  CowInv'
<1> USE CowAssumption DEF CowInv
<1>1. TypeOK'
  BY DEF DupDone, At, Running, Goto, TypeOK, Pc, Pf
<1>2. ChildInv'
  BY DEF DupDone, At, Running, Goto, TypeOK, ChildInv, HasChild
<1>3. MapInv'
  BY DEF DupDone, At, Running, Goto, TypeOK, MapInv
<1>4. DupInv'
  BY DEF DupDone, At, Running, Goto, TypeOK, DupInv
<1>5. HandlerInv'
  BY DEF DupDone, At, Running, Goto, TypeOK, HandlerInv, HasHandler, HasChild
<1>6. Private'
  BY DEF DupDone, At, Running, Goto, TypeOK, Private
<1> QED BY <1>1, <1>2, <1>3, <1>4, <1>5, <1>6

(* fork(): the child's upcall.  The invariant is preserved. *)
LEMMA ForkUpcallKeeps ==
    ASSUME CowInv, NEW e \in Env, ForkUpcall(e)
    PROVE  CowInv'
<1> USE CowAssumption DEF CowInv
<1>1. TypeOK'
  BY DEF ForkUpcall, At, Running, Goto, TypeOK, Pc, Pf
<1>2. ChildInv'
  BY DEF ForkUpcall, At, Running, Goto, TypeOK, ChildInv, HasChild
<1>3. MapInv'
  BY DEF ForkUpcall, At, Running, Goto, TypeOK, MapInv
<1>4. DupInv'
  BY DEF ForkUpcall, At, Running, Goto, TypeOK, DupInv
<1>5. HandlerInv'
  BY DEF ForkUpcall, At, Running, Goto, TypeOK, HandlerInv, HasHandler,
       HasChild, ChildInv
<1>6. Private'
  BY DEF ForkUpcall, At, Running, Goto, TypeOK, Private
<1> QED BY <1>1, <1>2, <1>3, <1>4, <1>5, <1>6

(* fork(): the child is started.  The invariant is preserved. *)
LEMMA ForkStartKeeps ==
    ASSUME CowInv, NEW e \in Env, ForkStart(e)
    PROVE  CowInv'
<1> USE CowAssumption DEF CowInv
<1>1. TypeOK'
  BY DEF ForkStart, At, Running, Goto, TypeOK, Pc, Pf, ChildInv, HasChild
<1>2. ChildInv'
  BY DEF ForkStart, At, Running, Goto, TypeOK, ChildInv, HasChild
<1>3. MapInv'
  BY DEF ForkStart, At, Running, Goto, TypeOK, MapInv
<1>4. DupInv'
  BY DEF ForkStart, At, Running, Goto, TypeOK, DupInv
<1>5. HandlerInv'
  BY DEF ForkStart, At, Running, Goto, TypeOK, HandlerInv, HasHandler, HasChild
<1>6. Private'
  BY DEF ForkStart, At, Running, Goto, TypeOK, Private
<1> QED BY <1>1, <1>2, <1>3, <1>4, <1>5, <1>6

(* fork() fails.  The invariant is preserved. *)
LEMMA ForkPanicKeeps ==
    ASSUME CowInv, NEW e \in Env, ForkPanic(e)
    PROVE  CowInv'
<1> USE CowAssumption DEF CowInv
<1>1. TypeOK'
  BY DEF ForkPanic, At, Running, Panic, TypeOK, Pc, Pf
<1>2. ChildInv'
  BY DEF ForkPanic, At, Running, Panic, TypeOK, ChildInv, HasChild
<1>3. MapInv'
  BY DEF ForkPanic, At, Running, Panic, TypeOK, MapInv
<1>4. DupInv'
  BY DEF ForkPanic, At, Running, Panic, TypeOK, DupInv
<1>5. HandlerInv'
  BY DEF ForkPanic, At, Running, Panic, TypeOK, HandlerInv, HasHandler,
       HasChild
<1>6. Private'
  BY DEF ForkPanic, At, Running, Panic, TypeOK, Private
<1> QED BY <1>1, <1>2, <1>3, <1>4, <1>5, <1>6

(* pgfault() fails.  The invariant is preserved. *)
LEMMA PfPanicKeeps ==
    ASSUME CowInv, NEW e \in Env, PfPanic(e)
    PROVE  CowInv'
<1> USE CowAssumption DEF CowInv
<1>1. TypeOK'
  BY DEF PfPanic, InPgfault, Panic, TypeOK, Pc, Pf
<1>2. ChildInv'
  BY DEF PfPanic, InPgfault, Panic, TypeOK, ChildInv, HasChild
<1>3. MapInv'
  BY DEF PfPanic, InPgfault, Panic, TypeOK, MapInv
<1>4. DupInv'
  BY DEF PfPanic, InPgfault, Panic, TypeOK, DupInv
<1>5. HandlerInv'
  BY DEF PfPanic, InPgfault, Panic, TypeOK, HandlerInv, HasHandler, HasChild
<1>6. Private'
  BY DEF PfPanic, InPgfault, Panic, TypeOK, Private, DupInv
<1> QED BY <1>1, <1>2, <1>3, <1>4, <1>5, <1>6

(* pgfault(): the copy.  The invariant is preserved. *)
LEMMA PfCopyKeeps ==
    ASSUME CowInv, NEW e \in Env, PfCopy(e)
    PROVE  CowInv'
<1> USE CowAssumption DEF CowInv
<1>1. TypeOK'
  <2>1. pgtable[e][PFTEMP] \in Page
    BY DEF PfCopy, InPgfault, TypeOK, HandlerInv
  <2>2. content' \in [Page -> Values]
    BY <2>1 DEF PfCopy, TypeOK
  <2> QED BY <2>2 DEF PfCopy, PfGoto, TypeOK, Pf
<1>2. ChildInv'
  BY DEF PfCopy, InPgfault, PfGoto, TypeOK, ChildInv, HasChild
<1>3. MapInv'
  BY DEF PfCopy, InPgfault, PfGoto, TypeOK, MapInv
<1>4. DupInv'
  BY DEF PfCopy, InPgfault, PfGoto, TypeOK, DupInv
<1>5. HandlerInv'
  BY DEF PfCopy, InPgfault, PfGoto, TypeOK, HandlerInv, HasHandler, HasChild
<1>6. Private'
  BY DEF PfCopy, InPgfault, PfGoto, TypeOK, Private
<1> QED BY <1>1, <1>2, <1>3, <1>4, <1>5, <1>6

(* duppage: the child's mapping,
     which opens the exception of Private.  The invariant is preserved. *)
LEMMA DupChildKeeps ==
    ASSUME CowInv, NEW e \in Env, DupChild(e)
    PROVE  CowInv'
<1> USE CowAssumption DEF CowInv
<1> DEFINE cow == perm[e][dupva[e]] \in {"w", "cow"}
<1>a. /\ child[e] \in Env /\ dupva[e] \in Va /\ dupva[e] <= STACK
      /\ env_status[child[e]] = "NOT_RUNNABLE" /\ child[e] # e
      /\ pgtable[e][dupva[e]] \in Page
      /\ perm[e][dupva[e]] \in Perm
  BY DEF DupChild, At, Running, ChildInv, HasChild, TypeOK, Perm
<1>b. Map(child[e], dupva[e], pgtable[e][dupva[e]],
          IF cow THEN "cow" ELSE perm[e][dupva[e]])
  BY DEF DupChild
<1>0. Mapped(child[e], dupva[e], pgtable[e][dupva[e]],
             IF cow THEN "cow" ELSE perm[e][dupva[e]])
  <2>1. (IF cow THEN "cow" ELSE perm[e][dupva[e]]) \in Perm
    BY <1>a DEF Perm
  <2> QED BY <1>a, <1>b, <2>1, MapEffect
<1>1. TypeOK'
  <2>1. dupva[e] + 1 \in 0 .. XSTACK
    BY <1>a DEF TypeOK
  <2>2. dupva' \in [Env -> 0 .. XSTACK] /\ pc' \in [Env -> Pc]
    BY <2>1 DEF DupChild, Goto, TypeOK, Pc
  <2> HIDE DEF Va
  <2> QED BY <1>0, <2>2 DEF DupChild, Mapped, Perm, TypeOK
<1>c. /\ \A f \in Env : f # e => pc'[f] = pc[f]
      /\ pc'[e] = IF cow THEN "dupself" ELSE "dup"
      /\ UNCHANGED <<env_status, child, handler, env_pgfault_upcall, pf,
           fault_va>>
      /\ pc[e] = "dup" /\ pf[e] = "none" /\ env_status[e] = "RUNNABLE"
      /\ perm[e][STACK] = "w"
  BY DEF DupChild, At, Running, Goto, TypeOK
<1>d. \A f \in Env : /\ pc'[f] \in HasChild <=> pc[f] \in HasChild
                     /\ pc'[f] # pc[f] => pc'[f] = "dupself"
                     /\ pc[f] = "run" => pc'[f] = "run"
  BY <1>c DEF HasChild
<1>2. ChildInv'
  <2>1. env_status' = env_status /\ child' = child /\ pf' = pf
    BY <1>c
  <2>2. \A f \in Env : pc'[f] \in HasChild => pc[f] \in HasChild
    BY <1>d
  <2>3. \A f \in Env : env_status[f] # "RUNNABLE" => pc'[f] = "run" /\ pf[f] = "none"
    BY <1>d DEF ChildInv
  <2>4. \A f \in Env : pc'[f] \in HasChild =>
            child[f] \in Env /\ env_status[child[f]] = "NOT_RUNNABLE"
    BY <2>2 DEF ChildInv
  <2>5. \A f, g \in Env : pc'[f] \in HasChild /\ pc'[g] \in HasChild
            /\ child[f] = child[g] => f = g
    BY <2>2 DEF ChildInv
  <2> QED BY <2>1, <2>3, <2>4, <2>5 DEF ChildInv, HasChild
<1>3. MapInv'
  BY <1>0, <1>a DEF DupChild, At, Running, Goto, Mapped, Perm, TypeOK,
       MapInv, ChildInv, HasChild
<1>4. DupInv'
  BY <1>0, <1>a DEF DupChild, At, Running, Goto, Mapped, Perm, TypeOK,
       DupInv, ChildInv
<1>5. HandlerInv'
  <2>1. \A f \in Env, va \in Va : (f # child[e] \/ va = XSTACK) =>
            perm'[f][va] = perm[f][va] /\ pgtable'[f][va] = pgtable[f][va]
    BY <1>0, <1>a DEF Mapped
  <2>2. \A f \in Env : HasHandler(f)' <=> HasHandler(f)
    BY <1>c, <2>1 DEF HasHandler
  <2>3. \A f \in Env : env_status[f] = "RUNNABLE" => f # child[e]
    BY <1>a
  <2>4. \A f \in Env : /\ pc'[f] \in HasChild \cup {"exofork"} => pc[f] \in HasChild \cup {"exofork"}
                       /\ pc'[f] = "upcall" => pc[f] = "upcall"
                       /\ pc'[f] \in {"childupcall", "start"} => pc[f] = pc'[f]
                       /\ pc[f] \in {"childupcall",
                            "start"} => child[f] \in Env
                       /\ pf[f] # "none" => env_status[f] = "RUNNABLE"
    BY <1>c DEF HasChild, ChildInv
  <2> QED BY <1>c, <2>1, <2>2, <2>3, <2>4 DEF HandlerInv
<1>6. Private'
  <2> SUFFICES ASSUME NEW f \in Env, NEW g \in Env, NEW u \in Va, NEW v \in Va,
                      perm'[f][u] = "w", pgtable'[f][u] = pgtable'[g][v],
                      <<f, u>> # <<g, v>>
               PROVE  /\ pc'[f] = "dupself" /\ g = child'[f]
                      /\ u = dupva'[f] /\ v = u /\ perm'[g][v] = "cow"
    BY DEF Private
  <2> HIDE DEF Va
  <2>1. CASE f = child[e] /\ u = dupva[e]
    BY <2>1, <1>a, <1>0 DEF Mapped
  <2>2. CASE ~(f = child[e] /\ u = dupva[e]) /\ g = child[e] /\ v = dupva[e]
    <3>1. perm[f][u] = "w" /\ pgtable[f][u] = pgtable[e][dupva[e]]
      BY <2>2, <1>a, <1>0 DEF Mapped
    <3>2. CASE f = e /\ u = dupva[e]
      <4>1. dupva' = dupva /\ child' = child /\ pc'[e] = "dupself"
        BY <3>1, <3>2, <1>c DEF DupChild
      <4> QED BY <2>2, <3>1, <3>2, <4>1, <1>a, <1>0 DEF Mapped
    <3>3. CASE ~(f = e /\ u = dupva[e])
      BY <3>1, <3>3, <1>a, <1>c DEF Private, ChildInv, HasChild
    <3> QED BY <3>2, <3>3
  <2>3. CASE ~(f = child[e] /\ u = dupva[e]) /\ ~(g = child[e] /\ v = dupva[e])
    <3>1. perm[f][u] = "w" /\ pgtable[f][u] = pgtable[g][v] /\ perm'[g][v] = perm[g][v]
      BY <2>3, <1>a, <1>0 DEF Mapped
    <3>2. /\ pc[f] = "dupself" /\ g = child[f] /\ u = dupva[f] /\ v = u
          /\ perm[g][v] = "cow"
      BY <3>1 DEF Private
    <3>3. f # e /\ dupva'[f] = dupva[f]
      BY <3>2, <1>c DEF DupChild, TypeOK
    <3> QED BY <3>1, <3>2, <3>3, <1>c
  <2> QED BY <2>1, <2>2, <2>3
<1> QED BY <1>1, <1>2, <1>3, <1>4, <1>5, <1>6

(* set_pgfault_handler: the exception stack.  The invariant is preserved. *)
LEMMA SetHandlerAllocKeeps ==
    ASSUME CowInv, NEW e \in Env, SetHandlerAlloc(e)
    PROVE  CowInv'
<1> USE CowAssumption DEF CowInv
<1> DEFINE pg == page_free_list
<1>a. /\ e \in Env /\ XSTACK \in Va
      /\ SysPageAlloc(e, XSTACK)
  BY DEF SetHandlerAlloc, At
<1>b. /\ pg \in Page /\ \A f \in Env, v \in Va : pgtable[f][v] # pg
      /\ Map(e, XSTACK, pg, "w")
      /\ content' = [content EXCEPT ![pg] = ZERO]
  BY <1>a, FreshPage DEF SysPageAlloc
<1>0. Mapped(e, XSTACK, pg, "w")
  BY <1>a, <1>b, MapEffect DEF Perm
<1> HIDE DEF pg
<1>1. TypeOK'
  BY <1>a, <1>b, <1>0 DEF SetHandlerAlloc, At, Running, Goto, TypeOK, Pc, Pf,
       Mapped, Perm
<1>2. ChildInv'
  BY <1>a, <1>b, <1>0 DEF SetHandlerAlloc, At, Running, Goto, TypeOK,
       ChildInv, HasChild, Mapped, Perm
<1>3. MapInv'
  BY <1>a, <1>b, <1>0 DEF SetHandlerAlloc, At, Running, Goto, TypeOK, MapInv,
       Mapped, Perm
<1>4. DupInv'
  BY <1>a, <1>b, <1>0 DEF SetHandlerAlloc, At, Running, Goto, TypeOK, DupInv,
       Mapped, Perm
<1>5. HandlerInv'
  BY <1>a, <1>b, <1>0 DEF SetHandlerAlloc, At, Running, Goto, TypeOK,
       HandlerInv, HasHandler, HasChild, Mapped, Perm, ChildInv, MapInv
<1>6. Private'
  BY <1>a, <1>b, <1>0 DEF SetHandlerAlloc, At, Running, Goto, TypeOK,
       Private, Mapped, Perm
<1> QED BY <1>1, <1>2, <1>3, <1>4, <1>5, <1>6

(* fork(): the child's exception stack.  The invariant is preserved. *)
LEMMA ForkXstackKeeps ==
    ASSUME CowInv, NEW e \in Env, ForkXstack(e)
    PROVE  CowInv'
<1> USE CowAssumption DEF CowInv
<1> DEFINE pg == page_free_list
<1>a. /\ child[e] \in Env /\ XSTACK \in Va
      /\ SysPageAlloc(child[e], XSTACK)
  BY DEF ForkXstack, At, ChildInv, HasChild
<1>b. /\ pg \in Page /\ \A f \in Env, v \in Va : pgtable[f][v] # pg
      /\ Map(child[e], XSTACK, pg, "w")
      /\ content' = [content EXCEPT ![pg] = ZERO]
  BY <1>a, FreshPage DEF SysPageAlloc
<1>0. Mapped(child[e], XSTACK, pg, "w")
  BY <1>a, <1>b, MapEffect DEF Perm
<1> HIDE DEF pg
<1>1. TypeOK'
  BY <1>a, <1>b, <1>0 DEF ForkXstack, At, Running, Goto, TypeOK, Pc, Pf,
       Mapped, Perm
<1>2. ChildInv'
  BY <1>a, <1>b, <1>0 DEF ForkXstack, At, Running, Goto, TypeOK, ChildInv,
       HasChild, Mapped, Perm
<1>3. MapInv'
  BY <1>a, <1>b, <1>0 DEF ForkXstack, At, Running, Goto, TypeOK, MapInv,
       Mapped, Perm, ChildInv, HasChild
<1>4. DupInv'
  BY <1>a, <1>b, <1>0 DEF ForkXstack, At, Running, Goto, TypeOK, DupInv,
       Mapped, Perm
<1>5. HandlerInv'
  BY <1>a, <1>b, <1>0 DEF ForkXstack, At, Running, Goto, TypeOK, HandlerInv,
       HasHandler, HasChild, Mapped, Perm, ChildInv, MapInv
<1>6. Private'
  <2> SUFFICES ASSUME NEW f \in Env, NEW g \in Env, NEW u \in Va, NEW v \in Va,
                      perm'[f][u] = "w", pgtable'[f][u] = pgtable'[g][v],
                      <<f, u>> # <<g, v>>
               PROVE  /\ pc'[f] = "dupself" /\ g = child'[f]
                      /\ u = dupva'[f] /\ v = u /\ perm'[g][v] = "cow"
    BY DEF Private
  <2> HIDE DEF Va
  <2>1. CASE f = child[e] /\ u = XSTACK
    <3>1. pgtable'[f][u] = pg /\ pgtable'[g][v] = pgtable[g][v]
      BY <2>1, <1>a, <1>0 DEF Mapped
    <3> QED BY <3>1, <1>b
  <2>2. CASE ~(f = child[e] /\ u = XSTACK) /\ g = child[e] /\ v = XSTACK
    <3>1. pgtable'[g][v] = pg /\ pgtable'[f][u] = pgtable[f][u]
      BY <2>2, <1>a, <1>0 DEF Mapped
    <3> QED BY <3>1, <1>b
  <2>3. CASE ~(f = child[e] /\ u = XSTACK) /\ ~(g = child[e] /\ v = XSTACK)
    <3>1. /\ perm[f][u] = "w" /\ pgtable[f][u] = pgtable[g][v]
          /\ perm'[g][v] = perm[g][v]
      BY <2>3, <1>a, <1>0 DEF Mapped
    <3>2. /\ pc[f] = "dupself" /\ g = child[f] /\ u = dupva[f] /\ v = u
          /\ perm[g][v] = "cow"
      BY <3>1 DEF Private
    <3>3. pc'[f] = "dupself" /\ dupva'[f] = dupva[f] /\ child'[f] = child[f]
      BY <3>2, <2>3 DEF ForkXstack, At, Running, Goto, TypeOK
    <3> QED BY <3>1, <3>2, <3>3
  <2> QED BY <2>1, <2>2, <2>3
<1> QED BY <1>1, <1>2, <1>3, <1>4, <1>5, <1>6

(* pgfault(): the new page,
     mapped nowhere else.  The invariant is preserved. *)
LEMMA PfAllocKeeps ==
    ASSUME CowInv, NEW e \in Env, PfAlloc(e)
    PROVE  CowInv'
<1> USE CowAssumption DEF CowInv
<1> DEFINE pg == page_free_list
<1>a. /\ e \in Env /\ fault_va[e] \in Va
      /\ SysPageAlloc(e, fault_va[e])
  BY DEF PfAlloc, InPgfault, HandlerInv
<1>b. /\ pg \in Page /\ \A f \in Env, v \in Va : pgtable[f][v] # pg
      /\ Map(e, fault_va[e], pg, "w")
      /\ content' = [content EXCEPT ![pg] = ZERO]
  BY <1>a, FreshPage DEF SysPageAlloc
<1>0. Mapped(e, fault_va[e], pg, "w")
  BY <1>a, <1>b, MapEffect DEF Perm
<1> HIDE DEF pg
<1>1. TypeOK'
  BY <1>a, <1>b, <1>0 DEF PfAlloc, InPgfault, PfGoto, TypeOK, Pc, Pf, Mapped,
       Perm
<1>2. ChildInv'
  BY <1>a, <1>b, <1>0 DEF PfAlloc, InPgfault, PfGoto, TypeOK, ChildInv,
       HasChild, Mapped, Perm
<1>3. MapInv'
  <2>1. /\ env_status' = env_status /\ env_status[e] = "RUNNABLE"
        /\ pg # NULL
    BY <1>b DEF PfAlloc, InPgfault, PfGoto
  <2> SUFFICES ASSUME NEW f \in Env, NEW v \in Va
               PROVE  /\ pgtable'[f][v] = NULL <=> perm'[f][v] = "none"
                      /\ env_status[f] = "FREE" => perm'[f][v] = "none"
    BY <2>1 DEF MapInv
  <2> HIDE DEF Va
  <2>2. CASE f = e /\ v = fault_va[e]
    BY <2>1, <2>2, <1>a, <1>0 DEF Mapped
  <2>3. CASE ~(f = e /\ v = fault_va[e])
    BY <2>3, <1>a, <1>0 DEF Mapped, MapInv
  <2> QED BY <2>2, <2>3
<1>4. DupInv'
  BY <1>a, <1>b, <1>0 DEF PfAlloc, InPgfault, PfGoto, TypeOK, DupInv, Mapped,
       Perm
<1>5. HandlerInv'
  BY <1>a, <1>b, <1>0 DEF PfAlloc, InPgfault, PfGoto, TypeOK, HandlerInv,
       HasHandler, HasChild, Mapped, Perm, ChildInv, MapInv
<1>6. Private'
  <2> SUFFICES ASSUME NEW f \in Env, NEW g \in Env, NEW u \in Va, NEW v \in Va,
                      perm'[f][u] = "w", pgtable'[f][u] = pgtable'[g][v],
                      <<f, u>> # <<g, v>>
               PROVE  /\ pc'[f] = "dupself" /\ g = child'[f]
                      /\ u = dupva'[f] /\ v = u /\ perm'[g][v] = "cow"
    BY DEF Private
  <2> HIDE DEF Va
  <2>1. CASE f = e /\ u = fault_va[e]
    <3>1. pgtable'[f][u] = pg /\ pgtable'[g][v] = pgtable[g][v]
      BY <2>1, <1>a, <1>0 DEF Mapped
    <3> QED BY <3>1, <1>b
  <2>2. CASE ~(f = e /\ u = fault_va[e]) /\ g = e /\ v = fault_va[e]
    <3>1. pgtable'[g][v] = pg /\ pgtable'[f][u] = pgtable[f][u]
      BY <2>2, <1>a, <1>0 DEF Mapped
    <3> QED BY <3>1, <1>b
  <2>3. CASE ~(f = e /\ u = fault_va[e]) /\ ~(g = e /\ v = fault_va[e])
    <3>1. /\ perm[f][u] = "w" /\ pgtable[f][u] = pgtable[g][v]
          /\ perm'[g][v] = perm[g][v]
      BY <2>3, <1>a, <1>0 DEF Mapped
    <3>2. /\ pc[f] = "dupself" /\ g = child[f] /\ u = dupva[f] /\ v = u
          /\ perm[g][v] = "cow"
      BY <3>1 DEF Private
    <3>3. pc'[f] = "dupself" /\ dupva'[f] = dupva[f] /\ child'[f] = child[f]
      BY <3>2, <2>3 DEF PfAlloc, InPgfault, PfGoto, TypeOK
    <3> QED BY <3>1, <3>2, <3>3
  <2> QED BY <2>1, <2>2, <2>3
<1> QED BY <1>1, <1>2, <1>3, <1>4, <1>5, <1>6

(* duppage: the parent's mapping,
     which closes the exception of Private.  The invariant is preserved. *)
LEMMA DupSelfKeeps ==
    ASSUME CowInv, NEW e \in Env, DupSelf(e)
    PROVE  CowInv'
<1> USE CowAssumption DEF CowInv
<1>a. /\ dupva[e] \in Va /\ pgtable[e][dupva[e]] \in Page \cup {NULL} /\ "cow" \in Perm
      /\ Map(e, dupva[e], pgtable[e][dupva[e]], "cow")
  BY DEF DupSelf, At, TypeOK, Perm
<1>0. Mapped(e, dupva[e], pgtable[e][dupva[e]], "cow")
  BY <1>a, MapEffect
<1>1. TypeOK'
  <2>1. dupva[e] + 1 \in 0 .. XSTACK
    BY DEF DupSelf, At, DupInv
  <2> QED BY <1>0, <2>1 DEF DupSelf, At, Running, Goto, TypeOK, Pc, Pf,
       Mapped, Perm
<1>2. ChildInv'
  BY <1>a, <1>0 DEF DupSelf, At, Running, Goto, TypeOK, ChildInv, HasChild,
       Mapped, Perm
<1>3. MapInv'
  <2>1. /\ env_status' = env_status /\ env_status[e] = "RUNNABLE"
        /\ pgtable[e][dupva[e]] # NULL
    BY DEF DupSelf, At, Running, DupInv
  <2> SUFFICES ASSUME NEW f \in Env, NEW v \in Va
               PROVE  /\ pgtable'[f][v] = NULL <=> perm'[f][v] = "none"
                      /\ env_status[f] = "FREE" => perm'[f][v] = "none"
    BY <2>1 DEF MapInv
  <2> HIDE DEF Va
  <2>2. CASE f = e /\ v = dupva[e]
    BY <2>1, <2>2, <1>a, <1>0 DEF Mapped
  <2>3. CASE ~(f = e /\ v = dupva[e])
    BY <2>3, <1>a, <1>0 DEF Mapped, MapInv
  <2> QED BY <2>2, <2>3
<1>4. DupInv'
  BY <1>a, <1>0 DEF DupSelf, At, Running, Goto, TypeOK, DupInv, Mapped, Perm
<1>5. HandlerInv'
  <2>1. dupva[e] \in 0 .. STACK /\ env_status[e] = "RUNNABLE" /\ pc[e] = "dupself"
    BY DEF DupSelf, At, Running, DupInv
  <2>a. dupva[e] # XSTACK
    BY <2>1
  <2> HIDE DEF Va
  <2>2. \A f \in Env,
       va \in Va : (f # e \/ va = XSTACK) => perm'[f][va] = perm[f][va]
    BY <1>a, <1>0, <2>a DEF Mapped
  <2> USE DEF Va
  <2>3. \A f \in Env, va \in Va : pgtable'[f][va] = pgtable[f][va]
    BY <1>a, <1>0 DEF Mapped
  <2>4. \A f \in Env : /\ pc'[f] = IF f = e THEN "dup" ELSE pc[f]
                       /\ pc[f] \in HasChild => child[f] \in Env /\ child[f] # e
    BY <2>1 DEF DupSelf, Goto, TypeOK, ChildInv
  <2>5. UNCHANGED <<env_status, handler, env_pgfault_upcall, pf, fault_va,
       child>>
    BY DEF DupSelf
  <2>6. handler[e]
    BY <2>1 DEF HandlerInv, HasChild
  <2> QED BY <2>1, <2>2, <2>3, <2>4, <2>5, <2>6 DEF HandlerInv, HasHandler,
       HasChild
<1>6. Private'
  <2> SUFFICES ASSUME NEW f \in Env, NEW g \in Env, NEW u \in Va, NEW v \in Va,
                      perm'[f][u] = "w", pgtable'[f][u] = pgtable'[g][v],
                      <<f, u>> # <<g, v>>
               PROVE  /\ pc'[f] = "dupself" /\ g = child'[f]
                      /\ u = dupva'[f] /\ v = u /\ perm'[g][v] = "cow"
    BY DEF Private
  <2> HIDE DEF Va
  <2>1. CASE f = e /\ u = dupva[e]
    BY <2>1, <1>a, <1>0 DEF Mapped
  <2>2. CASE ~(f = e /\ u = dupva[e]) /\ g = e /\ v = dupva[e]
    BY <2>2, <1>a, <1>0 DEF DupSelf, At, Running, Goto, Mapped, TypeOK,
         ChildInv, HasChild, Private
  <2>3. CASE ~(f = e /\ u = dupva[e]) /\ ~(g = e /\ v = dupva[e])
    <3>1. /\ perm[f][u] = "w" /\ pgtable[f][u] = pgtable[g][v]
          /\ perm'[g][v] = perm[g][v]
      BY <2>3, <1>a, <1>0 DEF Mapped
    <3>2. /\ pc[f] = "dupself" /\ g = child[f] /\ u = dupva[f] /\ v = u
          /\ perm[g][v] = "cow"
      BY <3>1 DEF Private
    <3>3. pc'[f] = "dupself" /\ dupva'[f] = dupva[f] /\ child'[f] = child[f]
      BY <3>2, <2>3 DEF DupSelf, At, Running, Goto, TypeOK
    <3> QED BY <3>1, <3>2, <3>3
  <2> QED BY <2>1, <2>2, <2>3
<1> QED BY <1>1, <1>2, <1>3, <1>4, <1>5, <1>6

(* pgfault(): the old page at PFTEMP,
     read-only.  The invariant is preserved. *)
LEMMA PfMapKeeps ==
    ASSUME CowInv, NEW e \in Env, PfMap(e)
    PROVE  CowInv'
<1> USE CowAssumption DEF CowInv
<1>a. /\ PFTEMP \in Va /\ pgtable[e][fault_va[e]] \in Page \cup {NULL} /\ "r" \in Perm
      /\ Map(e, PFTEMP, pgtable[e][fault_va[e]], "r")
  BY DEF PfMap, InPgfault, HandlerInv, TypeOK, Perm
<1>b. fault_va[e] \in Va
  BY DEF PfMap, InPgfault, TypeOK
<1>0. Mapped(e, PFTEMP, pgtable[e][fault_va[e]], "r")
  BY <1>a, MapEffect
<1>1. TypeOK'
  BY <1>a, <1>0 DEF PfMap, InPgfault, PfGoto, TypeOK, Pc, Pf, Mapped, Perm
<1>2. ChildInv'
  BY <1>a, <1>0 DEF PfMap, InPgfault, PfGoto, TypeOK, ChildInv, HasChild,
       Mapped, Perm
<1>3. MapInv'
  BY <1>a, <1>0 DEF PfMap, InPgfault, PfGoto, TypeOK, MapInv, Mapped, Perm
<1>4. DupInv'
  BY <1>a, <1>0 DEF PfMap, InPgfault, PfGoto, TypeOK, DupInv, Mapped, Perm
<1>5. HandlerInv'
  BY <1>a, <1>0 DEF PfMap, InPgfault, PfGoto, TypeOK, HandlerInv, HasHandler,
       HasChild, Mapped, Perm, ChildInv, MapInv
<1>6. Private'
  <2> SUFFICES ASSUME NEW f \in Env, NEW g \in Env, NEW u \in Va, NEW v \in Va,
                      perm'[f][u] = "w", pgtable'[f][u] = pgtable'[g][v],
                      <<f, u>> # <<g, v>>
               PROVE  /\ pc'[f] = "dupself" /\ g = child'[f]
                      /\ u = dupva'[f] /\ v = u /\ perm'[g][v] = "cow"
    BY DEF Private
  <2> HIDE DEF Va
  <2>1. CASE f = e /\ u = PFTEMP
    BY <2>1, <1>a, <1>0 DEF Mapped
  <2>2. CASE ~(f = e /\ u = PFTEMP) /\ g = e /\ v = PFTEMP
    <3>1. /\ perm[f][u] = "w" /\ pgtable[f][u] = pgtable[e][fault_va[e]]
          /\ perm[e][fault_va[e]] = "cow" /\ env_status[e] = "RUNNABLE"
          /\ fault_va[e] \in Va
      BY <2>2, <1>a, <1>0, <1>b DEF Mapped, PfMap, InPgfault
    <3>2. pc[f] = "dupself" /\ e = child[f]
      BY <3>1 DEF Private
    <3> QED BY <3>1, <3>2 DEF ChildInv, HasChild
  <2>3. CASE ~(f = e /\ u = PFTEMP) /\ ~(g = e /\ v = PFTEMP)
    <3>1. /\ perm[f][u] = "w" /\ pgtable[f][u] = pgtable[g][v]
          /\ perm'[g][v] = perm[g][v]
      BY <2>3, <1>a, <1>0 DEF Mapped
    <3>2. /\ pc[f] = "dupself" /\ g = child[f] /\ u = dupva[f] /\ v = u
          /\ perm[g][v] = "cow"
      BY <3>1 DEF Private
    <3>3. pc'[f] = "dupself" /\ dupva'[f] = dupva[f] /\ child'[f] = child[f]
      BY <3>2, <2>3 DEF PfMap, InPgfault, PfGoto, TypeOK
    <3> QED BY <3>1, <3>2, <3>3
  <2> QED BY <2>1, <2>2, <2>3
<1> QED BY <1>1, <1>2, <1>3, <1>4, <1>5, <1>6

(* pgfault(): PFTEMP is unmapped.  The invariant is preserved. *)
LEMMA PfUnmapKeeps ==
    ASSUME CowInv, NEW e \in Env, PfUnmap(e)
    PROVE  CowInv'
<1> USE CowAssumption DEF CowInv
<1>a. /\ PFTEMP \in Va /\ NULL \in Page \cup {NULL} /\ "none" \in Perm
      /\ Map(e, PFTEMP, NULL, "none")
  BY DEF PfUnmap, InPgfault, TypeOK, Perm
<1>0. Mapped(e, PFTEMP, NULL, "none")
  BY <1>a, MapEffect
<1>1. TypeOK'
  <2>1. 0 \in 0 .. STACK
    OBVIOUS
  <2> QED BY <1>0, <2>1 DEF PfUnmap, InPgfault, TypeOK, Pc, Pf, Mapped, Perm
<1>2. ChildInv'
  BY <1>a, <1>0 DEF PfUnmap, InPgfault, TypeOK, ChildInv, HasChild, Mapped,
       Perm
<1>3. MapInv'
  BY <1>a, <1>0 DEF PfUnmap, InPgfault, TypeOK, MapInv, Mapped, Perm
<1>4. DupInv'
  BY <1>a, <1>0 DEF PfUnmap, InPgfault, TypeOK, DupInv, Mapped, Perm
<1>5. HandlerInv'
  BY <1>a, <1>0 DEF PfUnmap, InPgfault, TypeOK, HandlerInv, HasHandler,
       HasChild, Mapped, Perm, ChildInv, MapInv
<1>6. Private'
  <2> SUFFICES ASSUME NEW f \in Env, NEW g \in Env, NEW u \in Va, NEW v \in Va,
                      perm'[f][u] = "w", pgtable'[f][u] = pgtable'[g][v],
                      <<f, u>> # <<g, v>>
               PROVE  /\ pc'[f] = "dupself" /\ g = child'[f]
                      /\ u = dupva'[f] /\ v = u /\ perm'[g][v] = "cow"
    BY DEF Private
  <2> HIDE DEF Va
  <2>1. CASE f = e /\ u = PFTEMP
    BY <2>1, <1>a, <1>0 DEF Mapped
  <2>2. CASE ~(f = e /\ u = PFTEMP) /\ g = e /\ v = PFTEMP
    BY <2>2, <1>a, <1>0 DEF PfUnmap, InPgfault, Mapped, TypeOK, MapInv
  <2>3. CASE ~(f = e /\ u = PFTEMP) /\ ~(g = e /\ v = PFTEMP)
    <3>1. /\ perm[f][u] = "w" /\ pgtable[f][u] = pgtable[g][v]
          /\ perm'[g][v] = perm[g][v]
      BY <2>3, <1>a, <1>0 DEF Mapped
    <3>2. /\ pc[f] = "dupself" /\ g = child[f] /\ u = dupva[f] /\ v = u
          /\ perm[g][v] = "cow"
      BY <3>1 DEF Private
    <3>3. pc'[f] = "dupself" /\ dupva'[f] = dupva[f] /\ child'[f] = child[f]
      BY <3>2, <2>3 DEF PfUnmap, InPgfault, TypeOK
    <3> QED BY <3>1, <3>2, <3>3
  <2> QED BY <2>1, <2>2, <2>3
<1> QED BY <1>1, <1>2, <1>3, <1>4, <1>5, <1>6

(* A program ends, at any time.  The invariant is preserved. *)
LEMMA ExitKeeps ==
    ASSUME CowInv, NEW e \in Env, Exit(e)
    PROVE  CowInv'
<1> USE CowAssumption DEF CowInv
<1>a. Destroy(e) /\ env_status[e] = "RUNNABLE"
  BY DEF Exit
<1>0. Unmapped(e)
  BY <1>a, DestroyEffect
<1>1. TypeOK'
  BY <1>a, <1>0 DEF Exit, TypeOK, Pc, Pf, Unmapped, Perm, Destroy
<1>2. ChildInv'
  BY <1>a, <1>0 DEF Exit, TypeOK, ChildInv, HasChild, Unmapped, Perm, Destroy
<1>3. MapInv'
  BY <1>a, <1>0 DEF Exit, TypeOK, MapInv, Unmapped, Perm, Destroy
<1>4. DupInv'
  BY <1>a, <1>0 DEF Exit, TypeOK, DupInv, Unmapped, Perm, Destroy
<1>5. HandlerInv'
  BY <1>a, <1>0 DEF Exit, TypeOK, HandlerInv, HasHandler, HasChild, Unmapped,
       Perm, Destroy, ChildInv, MapInv
<1>6. Private'
  BY <1>a, <1>0 DEF Exit, TypeOK, Private, Unmapped, Perm, Destroy, ChildInv,
       HasChild, DupInv, MapInv
<1> QED BY <1>1, <1>2, <1>3, <1>4, <1>5, <1>6

(* page_fault_handler finds no handler.  The invariant is preserved. *)
LEMMA FaultDestroysKeeps ==
    ASSUME CowInv, NEW e \in Env, NEW va \in UserVa, FaultDestroys(e, va)
    PROVE  CowInv'
<1> USE CowAssumption DEF CowInv
<1>a. Destroy(e) /\ env_status[e] = "RUNNABLE"
  BY DEF FaultDestroys, Refused, Running
<1>0. Unmapped(e)
  BY <1>a, DestroyEffect
<1>1. TypeOK'
  BY <1>a, <1>0 DEF FaultDestroys, Refused, TypeOK, Pc, Pf, Unmapped, Perm,
       Destroy
<1>2. ChildInv'
  BY <1>a, <1>0 DEF FaultDestroys, Refused, TypeOK, ChildInv, HasChild,
       Unmapped, Perm, Destroy
<1>3. MapInv'
  BY <1>a, <1>0 DEF FaultDestroys, Refused, TypeOK, MapInv, Unmapped, Perm,
       Destroy
<1>4. DupInv'
  BY <1>a, <1>0 DEF FaultDestroys, Refused, TypeOK, DupInv, Unmapped, Perm,
       Destroy
<1>5. HandlerInv'
  BY <1>a, <1>0 DEF FaultDestroys, Refused, TypeOK, HandlerInv, HasHandler,
       HasChild, Unmapped, Perm, Destroy, ChildInv, MapInv
<1>6. Private'
  BY <1>a, <1>0 DEF FaultDestroys, Refused, TypeOK, Private, Unmapped, Perm,
       Destroy, ChildInv, HasChild, DupInv, MapInv
<1> QED BY <1>1, <1>2, <1>3, <1>4, <1>5, <1>6

(* sys_exofork: a slot without mappings.  The invariant is preserved. *)
LEMMA ExoforkKeeps ==
    ASSUME CowInv, NEW e \in Env, NEW c \in Env, Exofork(e, c)
    PROVE  CowInv'
<1> USE CowAssumption DEF CowInv
<1>1. TypeOK'
  BY DEF Exofork, At, Running, Goto, TypeOK, Pc, Pf
<1>2. ChildInv'
  BY DEF Exofork, At, Running, Goto, TypeOK, ChildInv, HasChild
<1>3. MapInv'
  BY DEF Exofork, At, Running, Goto, TypeOK, MapInv
<1>4. DupInv'
  BY DEF Exofork, At, Running, Goto, TypeOK, DupInv
<1>5. HandlerInv'
  BY DEF Exofork, At, Running, Goto, TypeOK, HandlerInv, HasHandler, HasChild
<1>6. Private'
  BY DEF Exofork, At, Running, Goto, TypeOK, Private
<1> QED BY <1>1, <1>2, <1>3, <1>4, <1>5, <1>6

(* A program writes.  The invariant is preserved. *)
LEMMA WriteKeeps ==
    ASSUME CowInv, NEW e \in Env, NEW va \in UserVa, NEW v \in Values,
         Write(e, va, v)
    PROVE  CowInv'
<1> USE CowAssumption DEF CowInv
<1>1. TypeOK'
  BY DEF Write, Running, TypeOK, Pc, Pf
<1>2. ChildInv'
  BY DEF Write, Running, TypeOK, ChildInv, HasChild
<1>3. MapInv'
  BY DEF Write, Running, TypeOK, MapInv
<1>4. DupInv'
  BY DEF Write, Running, TypeOK, DupInv
<1>5. HandlerInv'
  BY DEF Write, Running, TypeOK, HandlerInv, HasHandler, HasChild
<1>6. Private'
  BY DEF Write, Running, TypeOK, Private
<1> QED BY <1>1, <1>2, <1>3, <1>4, <1>5, <1>6

(* page_fault_handler calls the upcall.  The invariant is preserved. *)
LEMMA FaultKeeps ==
    ASSUME CowInv, NEW e \in Env, NEW va \in UserVa, Fault(e, va)
    PROVE  CowInv'
<1> USE CowAssumption DEF CowInv
<1>1. TypeOK'
  BY DEF Fault, Refused, Running, TypeOK, Pc, Pf
<1>2. ChildInv'
  BY DEF Fault, Refused, Running, TypeOK, ChildInv, HasChild
<1>3. MapInv'
  BY DEF Fault, Refused, Running, TypeOK, MapInv
<1>4. DupInv'
  BY DEF Fault, Refused, Running, TypeOK, DupInv
<1>5. HandlerInv'
  BY DEF Fault, Refused, Running, TypeOK, HandlerInv, HasHandler, HasChild
<1>6. Private'
  BY DEF Fault, Refused, Running, TypeOK, Private
<1> QED BY <1>1, <1>2, <1>3, <1>4, <1>5, <1>6

(***************************************************************************)
(* Every step preserves the invariant.                                     *)
(***************************************************************************)
LEMMA CowStep ==
    ASSUME CowInv, [Next]_vars
    PROVE  CowInv'
<1>1. ASSUME NEW e \in Env, ForkStep(e) PROVE CowInv'
  BY <1>1, SetHandlerAllocKeeps, SetHandlerUpcallKeeps, SetHandlerAgainKeeps,
     ExoforkKeeps, DupSkipKeeps, DupChildKeeps, DupSelfKeeps, DupDoneKeeps,
     ForkXstackKeeps, ForkUpcallKeeps, ForkStartKeeps, ForkPanicKeeps
     DEF ForkStep
<1>2. ASSUME NEW e \in Env, PgfaultStep(e) PROVE CowInv'
  BY <1>2, PfMapKeeps, PfAllocKeeps, PfCopyKeeps, PfUnmapKeeps, PfPanicKeeps
     DEF PgfaultStep
<1>3. ASSUME NEW e \in Env,
             \/ CallFork(e) \/ Exit(e)
             \/ \E va \in UserVa, v \in Values : Write(e, va, v)
             \/ \E va \in UserVa : Fault(e, va) \/ FaultDestroys(e, va)
      PROVE  CowInv'
  BY <1>3, CallForkKeeps, ExitKeeps, WriteKeeps, FaultKeeps, FaultDestroysKeeps
<1>4. CASE UNCHANGED vars
  BY <1>4 DEF vars, CowInv, TypeOK, ChildInv, MapInv, DupInv, HandlerInv,
              HasHandler, Private
<1> QED BY <1>1, <1>2, <1>3, <1>4 DEF Next

(***************************************************************************)
(* The invariant holds in a program that was just loaded.                  *)
(***************************************************************************)
LEMMA CowInit ==
    ASSUME Init
    PROVE  CowInv
<1> DEFINE e0 == CHOOSE f \in Env : TRUE
           p0 == CHOOSE q \in [UserVa -> Page] :
                    \A u, v \in UserVa : q[u] = q[v] => u = v
<1>1. /\ e0 \in Env
      /\ p0 \in [UserVa -> Page]
      /\ \A u, v \in UserVa : p0[u] = p0[v] => u = v
  BY CowAssumption
<1>2. /\ env_status = [f \in Env |-> IF f = e0 THEN "RUNNABLE" ELSE "FREE"]
      /\ pgtable = [f \in Env |-> [va \in Va |->
                IF f = e0 /\ va \in UserVa THEN p0[va] ELSE NULL]]
      /\ perm = [f \in Env |-> [va \in Va |->
                IF f = e0 /\ va \in UserVa THEN Layout[va] ELSE "none"]]
      /\ content = [q \in Page |-> ZERO]
      /\ env_pgfault_upcall = [f \in Env |-> FALSE]
      /\ handler = [f \in Env |-> FALSE]
      /\ pc = [f \in Env |-> "run"]
      /\ child = [f \in Env |-> NULL]
      /\ dupva = [f \in Env |-> 0]
      /\ pf = [f \in Env |-> "none"]
      /\ fault_va = [f \in Env |-> 0]
  BY DEF Init
<1> HIDE DEF e0, p0
<1>3. TypeOK
  <2>1. 0 \in 0 .. STACK /\ 0 \in 0 .. XSTACK
    BY CowAssumption
  <2>2. /\ pgtable \in [Env -> [Va -> Page \cup {NULL}]]
        /\ perm \in [Env -> [Va -> Perm]]
    BY <1>1, <1>2, CowAssumption DEF Perm
  <2> QED BY <1>2, <2>1, <2>2, CowAssumption DEF TypeOK, Pc, Pf, Perm
<1>4. ChildInv /\ DupInv
  BY <1>2 DEF ChildInv, HasChild, DupInv
<1>5. MapInv
  <2>1. \A va \in UserVa : p0[va] # NULL /\ Layout[va] # "none"
    BY <1>1, CowAssumption
  <2> QED BY <1>2, <2>1 DEF MapInv
<1>6. HandlerInv
  <2>1. \A va \in UserVa : Layout[va] # "cow"
    BY CowAssumption
  <2>2. \A e \in Env : \A va \in UserVa : perm[e][va] # "cow"
    <3>1. \A va \in UserVa : va \in Va
      BY CowAssumption
    <3> QED BY <1>2, <2>1, <3>1
  <2>3. \A e \in Env : pf[e] = "none" /\ pc[e] = "run" /\ handler[e] = FALSE
    BY <1>2
  <2> QED BY <2>2, <2>3 DEF HandlerInv, HasChild
<1>7. Private
  <2> SUFFICES ASSUME NEW e \in Env, NEW f \in Env, NEW u \in Va, NEW v \in Va,
                      perm[e][u] = "w", pgtable[e][u] = pgtable[f][v],
                      <<e, u>> # <<f, v>>
               PROVE  FALSE
    BY DEF Private
  <2>1. e = e0 /\ u \in UserVa /\ pgtable[e][u] = p0[u] /\ p0[u] # NULL
    BY <1>1, <1>2, CowAssumption
  <2>2. f = e0 /\ v \in UserVa /\ pgtable[f][v] = p0[v]
    BY <2>1, <1>2
  <2> QED BY <2>1, <2>2, <1>1
<1> QED BY <1>3, <1>4, <1>5, <1>6, <1>7 DEF CowInv

(***************************************************************************)
(* duppage and pgfault keep what a program can write to itself, and fork   *)
(* gives every program that needs one a fault handler, for any number of   *)
(* programs, addresses and pages.                                          *)
(***************************************************************************)
THEOREM CowInvariant == Spec => []CowInv
<1>1. Init => CowInv
  BY CowInit
<1>2. CowInv /\ [Next]_vars => CowInv'
  BY CowStep
<1> QED BY <1>1, <1>2, PTL DEF Spec

(***************************************************************************)
(* A page that a program can write is mapped nowhere else, except inside   *)
(* duppage.                                                                *)
(***************************************************************************)
THEOREM WritableIsPrivate == Spec => []Private
<1>1. CowInv => Private
  BY DEF CowInv
<1> QED BY <1>1, CowInvariant, PTL

(***************************************************************************)
(* A program that can meet a copy-on-write page can handle the fault.      *)
(***************************************************************************)
THEOREM CowFaultsAreHandled == Spec => []FaultsAreHandled
<1>1. CowInv => FaultsAreHandled
  BY DEF CowInv, HandlerInv, FaultsAreHandled
<1> QED BY <1>1, CowInvariant, PTL

-----------------------------------------------------------------------------
(* fork() with copy-on-write is fork() with a copy *)

\* What a page of the program may be mapped as: its permission at the start, or
\* copy-on-write instead of writable.
Kinds(va) == IF Layout[va] = "w" THEN {"w", "cow"} ELSE {Layout[va]}

LayoutInv ==
    \A e \in Env : \A va \in UserVa :
        pgtable[e][va] # NULL => perm[e][va] \in Kinds(va)

\* A shared page is one page, mapped at one address, by everybody that has it.
ShareInv ==
    \A e, f \in Env : \A u, v \in Va : perm[e][u] = "share" =>
        /\ pgtable[e][u] = pgtable[f][v] => perm[f][v] = "share" /\ u = v
        /\ perm[f][u] = "share" => pgtable[e][u] = pgtable[f][u]

\* What pgfault() and duppage have on their way.
TempInv ==
    \A e \in Env :
        /\ perm[e][PFTEMP] \in {"none", "r"} /\ perm[e][XSTACK] \in {"none", "w"}
        /\ pf[e] \in {"none", "map"} => perm[e][PFTEMP] = "none"
        /\ pf[e] = "alloc" => /\ pgtable[e][PFTEMP] = pgtable[e][fault_va[e]]
                              /\ perm[e][fault_va[e]] = "cow"
        /\ pf[e] = "copy" => perm[e][fault_va[e]] = "w"
        /\ pc[e] = "dupself" => perm[e][dupva[e]] \in {"w", "cow"}

\* A program that runs has all of its pages.
FullInv ==
    \A e \in Env : env_status[e] = "RUNNABLE" =>
        \A va \in UserVa : pgtable[e][va] # NULL

\* Of a child that is being created: the pages it has been given, and what they
\* hold, which is still what its parent has there.
Dupped(e, va) == va < dupva[e] \/ (pc[e] = "dupself" /\ va = dupva[e])

Snapshot(e, va) ==
    /\ pgtable[child[e]][va] # NULL
    /\ content[pgtable[child[e]][va]] = Value(e, va)

SnapInv ==
    \A e \in Env : pc[e] \in HasChild =>
        /\ pc[e] \notin {"dup", "dupself"} => dupva[e] = XSTACK
        /\ \A va \in UserVa : Dupped(e, va) => Snapshot(e, va)

CopyInv == LayoutInv /\ ShareInv /\ TempInv /\ FullInv /\ SnapInv

\* No program sees anything of the step.
Calm ==
    /\ Live' = Live
    /\ \A f \in Env : \A va \in UserVa : Value(f, va)' = Value(f, va)

(***************************************************************************)
(* A step that nobody sees is no step of the memory of fork().             *)
(***************************************************************************)
LEMMA CalmStutters ==
    ASSUME Calm
    PROVE  UNCHANGED <<Live, [e \in Env |-> [va \in UserVa |-> Value(e, va)]]>>
  BY DEF Calm

(***************************************************************************)
(* A step that leaves memory alone.  It may be anywhere but within the     *)
(* copying of pgfault().                                                   *)
(***************************************************************************)
LEMMA StillKeeps ==
    ASSUME CowInv, CopyInv, UNCHANGED <<pgtable, perm, content>>,
           \A f \in Env : /\ env_status'[f] = "RUNNABLE" <=> env_status[f] = "RUNNABLE"
                          /\ pf'[f] = "copy" <=> pf[f] = "copy"
                          /\ pf[f] = "copy" => fault_va'[f] = fault_va[f]
    PROVE  LayoutInv' /\ ShareInv' /\ FullInv' /\ Calm
<1>1. LayoutInv'
  BY DEF CopyInv, LayoutInv
<1>2. ShareInv'
  BY DEF CopyInv, ShareInv
<1>3. FullInv'
  BY DEF CopyInv, FullInv
<1>4. Live' = Live
  BY DEF Live
<1>5. \A f \in Env : \A va \in UserVa : Value(f, va)' = Value(f, va)
  BY <1>4 DEF Value
<1> QED BY <1>1, <1>2, <1>3, <1>4, <1>5 DEF Calm

(***************************************************************************)
(* The snapshot lasts as long as nobody sees anything, the child's pages   *)
(* stay and no page is added to them.                                      *)
(***************************************************************************)
LEMMA SnapKeeps ==
    ASSUME SnapInv, Calm,
           \A f \in Env : pc'[f] \in HasChild =>
              /\ pc'[f] \notin {"dup", "dupself"} => dupva'[f] = XSTACK
              /\ \A va \in UserVa : Dupped(f, va)' =>
                    /\ pc[f] \in HasChild /\ Dupped(f, va) /\ child'[f] = child[f]
                    /\ pgtable'[child[f]][va] = pgtable[child[f]][va]
                    /\ content'[pgtable[child[f]][va]] = content[pgtable[child[f]][va]]
    PROVE  SnapInv'
<1> SUFFICES ASSUME NEW f \in Env, pc'[f] \in HasChild, NEW va \in UserVa, Dupped(f, va)'
             PROVE  Snapshot(f, va)'
  BY DEF SnapInv
<1>1. /\ pc[f] \in HasChild /\ Dupped(f, va) /\ child'[f] = child[f]
      /\ pgtable'[child[f]][va] = pgtable[child[f]][va]
      /\ content'[pgtable[child[f]][va]] = content[pgtable[child[f]][va]]
  OBVIOUS
<1>2. Snapshot(f, va)
  BY <1>1 DEF SnapInv
<1>3. Value(f, va)' = Value(f, va)
  BY DEF Calm
<1> QED BY <1>1, <1>2, <1>3 DEF Snapshot

(***************************************************************************)
(* The steps of fork() and of set_pgfault_handler that map nothing.        *)
(***************************************************************************)
LEMMA ControlCopies ==
    ASSUME CowInv, CopyInv, NEW e \in Env,
           \/ CallFork(e) \/ SetHandlerUpcall(e) \/ SetHandlerAgain(e)
           \/ (\E c \in Env : Exofork(e, c)) \/ DupSkip(e) \/ DupDone(e)
           \/ ForkUpcall(e) \/ ForkPanic(e) \/ PfPanic(e)
           \/ \E va \in UserVa : Fault(e, va)
    PROVE  CopyInv' /\ Calm
<1> USE CowAssumption
<1>0. TypeOK /\ ChildInv /\ HandlerInv /\ SnapInv /\ TempInv /\ FullInv
  BY DEF CowInv, CopyInv
<1>1. ASSUME UNCHANGED <<pgtable, perm, content>>,
             \A f \in Env : env_status'[f] = "RUNNABLE" <=> env_status[f] = "RUNNABLE",
             \A f \in Env : /\ pf'[f] = pf[f] \/ (pf[f] = "none" /\ pf'[f] = "map")
                            /\ pf[f] # "none" => fault_va'[f] = fault_va[f],
             \A f \in Env : pc'[f] = "dupself" =>
                               pc[f] = "dupself" /\ dupva'[f] = dupva[f],
             \A f \in Env : pc'[f] \in HasChild =>
                /\ pc'[f] \notin {"dup", "dupself"} => dupva'[f] = XSTACK
                /\ \A va \in UserVa : Dupped(f, va)' =>
                      pc[f] \in HasChild /\ Dupped(f, va) /\ child'[f] = child[f]
      PROVE  CopyInv' /\ Calm
  <2>1. LayoutInv' /\ ShareInv' /\ FullInv' /\ Calm
    BY <1>1, StillKeeps
  <2>2. TempInv'
    BY <1>0, <1>1 DEF TempInv
  <2>3. SnapInv'
    BY <1>0, <1>1, <2>1, SnapKeeps
  <2> QED BY <2>1, <2>2, <2>3 DEF CopyInv
<1>2. CASE CallFork(e) \/ SetHandlerUpcall(e) \/ SetHandlerAgain(e) \/ PfPanic(e) \/ ForkPanic(e)
  BY <1>0, <1>1, <1>2
     DEF CallFork, SetHandlerUpcall, SetHandlerAgain, PfPanic, ForkPanic, Panic, Goto,
         TypeOK, HasChild, SnapInv, Dupped
<1>3. ASSUME NEW c \in Env, Exofork(e, c) PROVE CopyInv' /\ Calm
  BY <1>0, <1>1, <1>3 DEF Exofork, At, Running, Goto, TypeOK, HasChild, SnapInv, Dupped
<1>4. CASE DupSkip(e)
  <2>1. dupva[e] \notin UserVa
    BY <1>0, <1>4 DEF DupSkip, At, Running, FullInv
  <2> QED BY <1>0, <1>1, <1>4, <2>1
             DEF DupSkip, At, Running, TypeOK, HasChild, SnapInv, Dupped
<1>5. CASE DupDone(e)
  BY <1>0, <1>1, <1>5 DEF DupDone, At, Running, Goto, TypeOK, HasChild, SnapInv, Dupped
<1>6. CASE ForkUpcall(e)
  BY <1>0, <1>1, <1>6 DEF ForkUpcall, At, Running, Goto, TypeOK, HasChild, SnapInv, Dupped
<1>7. ASSUME NEW va \in UserVa, Fault(e, va) PROVE CopyInv' /\ Calm
  BY <1>0, <1>1, <1>7 DEF Fault, Refused, Running, TypeOK, HasChild, SnapInv, Dupped
<1> QED BY <1>2, <1>3, <1>4, <1>5, <1>6, <1>7

\* Where the value is that a program reads at va.
Where(e, va) == IF pf[e] = "copy" /\ fault_va[e] = va THEN pgtable[e][PFTEMP]
                ELSE pgtable[e][va]

(***************************************************************************)
(* A program's values are in pages that it has mapped.                     *)
(***************************************************************************)
LEMMA WherePages ==
    ASSUME CowInv, CopyInv, NEW e \in Live, NEW va \in UserVa
    PROVE  /\ e \in Env /\ Where(e, va) \in Page
           /\ \E u \in Va : Where(e, va) = pgtable[e][u]
           /\ Value(e, va) = content[Where(e, va)]
<1> USE CowAssumption
<1>1. e \in Env /\ env_status[e] = "RUNNABLE" /\ va \in Va /\ 0 \in Va
  BY DEF Live
<1>2. pgtable[e][va] \in Page
  BY <1>1 DEF CowInv, CopyInv, FullInv, TypeOK
<1>3. pf[e] = "copy" => pgtable[e][PFTEMP] \in Page
  BY <1>1 DEF CowInv, HandlerInv, TypeOK
<1> QED BY <1>1, <1>2, <1>3 DEF Where, Value

(***************************************************************************)
(* Nobody sees a step after which every value is where it was, or in a     *)
(* page with the same contents.                                            *)
(***************************************************************************)
LEMMA WhereCalm ==
    ASSUME Live' = Live,
           \A f \in Live : \A va \in UserVa : content'[Where(f, va)'] = Value(f, va)
    PROVE  Calm
<1>1. ASSUME NEW f \in Env, NEW va \in UserVa PROVE Value(f, va)' = Value(f, va)
  <2>1. CASE f \in Live
    BY <2>1 DEF Value, Where
  <2>2. CASE f \notin Live
    BY <2>2 DEF Value
  <2> QED BY <2>1, <2>2
<1> QED BY <1>1 DEF Calm

\* A page from the free list, cleared.
Cleared(q) ==
    /\ q \in Page /\ \A f \in Env, v \in Va : pgtable[f][v] # q
    /\ content' \in [Page -> Values]
    /\ \A r \in Page : r # q => content'[r] = content[r]

(***************************************************************************)
(* sys_page_alloc takes such a page.                                       *)
(***************************************************************************)
LEMMA AllocEffect ==
    ASSUME TypeOK, NEW e \in Env, NEW va \in Va, SysPageAlloc(e, va)
    PROVE  \E q \in Page : Cleared(q) /\ Mapped(e, va, q, "w")
<1>1. page_free_list \in Page /\ \A f \in Env, v \in Va : pgtable[f][v] # page_free_list
  BY FreshPage DEF SysPageAlloc
<1>2. Mapped(e, va, page_free_list, "w")
  BY <1>1, MapEffect DEF SysPageAlloc, Perm
<1>3. Cleared(page_free_list)
  BY <1>1, CowAssumption DEF SysPageAlloc, TypeOK, Cleared
<1> QED BY <1>1, <1>2, <1>3

(***************************************************************************)
(* A shared page stays one page when what is mapped anew is not shared and *)
(* no shared page either.                                                  *)
(***************************************************************************)
LEMMA ShareKeeps ==
    ASSUME ShareInv, NEW x \in Env, NEW a \in Va, NEW q, NEW p, Mapped(x, a, q, p),
           p # "share",
           \A f \in Env, v \in Va : perm[f][v] = "share" => pgtable[f][v] # q
    PROVE  ShareInv'
<1> SUFFICES ASSUME NEW e \in Env, NEW f \in Env, NEW u \in Va, NEW v \in Va,
                    perm'[e][u] = "share"
             PROVE  /\ pgtable'[e][u] = pgtable'[f][v] => perm'[f][v] = "share" /\ u = v
                    /\ perm'[f][u] = "share" => pgtable'[e][u] = pgtable'[f][u]
  BY DEF ShareInv
<1>1. perm[e][u] = "share" /\ pgtable'[e][u] = pgtable[e][u]
  BY DEF Mapped
<1>2. CASE f = x /\ v = a
  <2>1. pgtable'[f][v] = q
    BY <1>2 DEF Mapped
  <2>2. pgtable'[e][u] # pgtable'[f][v]
    BY <1>1, <2>1
  <2>3. perm'[f][u] = "share" => pgtable'[e][u] = pgtable'[f][u]
    BY <1>1 DEF Mapped, ShareInv
  <2> QED BY <2>2, <2>3
<1>3. CASE ~(f = x /\ v = a)
  <2>1. pgtable'[f][v] = pgtable[f][v] /\ perm'[f][v] = perm[f][v]
    BY <1>3 DEF Mapped
  <2>2. perm'[f][u] = "share" => perm[f][u] = "share" /\ pgtable'[f][u] = pgtable[f][u]
    BY DEF Mapped
  <2> QED BY <1>1, <2>1, <2>2 DEF ShareInv
<1> QED BY <1>2, <1>3

(***************************************************************************)
(* An exception stack is no part of what a program or its child has.       *)
(***************************************************************************)
LEMMA XstackCopies ==
    ASSUME CowInv, CopyInv, NEW e \in Env, SetHandlerAlloc(e) \/ ForkXstack(e)
    PROVE  CopyInv' /\ Calm
<1> USE CowAssumption
<1>0. TypeOK /\ ChildInv /\ HandlerInv /\ DupInv /\ SnapInv /\ TempInv /\ FullInv
      /\ LayoutInv /\ ShareInv
  BY DEF CowInv, CopyInv
<1>1. PICK x \in Env : SysPageAlloc(x, XSTACK)
  BY <1>0 DEF SetHandlerAlloc, ForkXstack, At, Running, ChildInv, HasChild
<1>a. XSTACK \in Va /\ XSTACK \notin UserVa /\ 0 \in Va /\ 0 # XSTACK
      /\ UserVa \subseteq Va
  OBVIOUS
<1>2. PICK q \in Page : Cleared(q) /\ Mapped(x, XSTACK, q, "w")
  BY <1>0, <1>1, <1>a, AllocEffect
<1>3. \A f \in Env, v \in Va : v # XSTACK =>
          pgtable'[f][v] = pgtable[f][v] /\ perm'[f][v] = perm[f][v]
  BY <1>2 DEF Mapped
<1>4. UNCHANGED <<env_status, child, dupva, pf, fault_va>>
  BY DEF SetHandlerAlloc, ForkXstack
<1>5. /\ \A f \in Env : f # e => pc'[f] = pc[f]
      /\ pc[e] \in {"handler", "xstack"}
      /\ pc[e] = "xstack" => pc'[e] = "childupcall"
      /\ pc[e] = "handler" => pc'[e] = "upcall"
  BY <1>0 DEF SetHandlerAlloc, ForkXstack, At, Goto, TypeOK
<1>6. Live' = Live
  BY <1>4 DEF Live
<1>7. Calm
  <2>1. ASSUME NEW f \in Live, NEW va \in UserVa
        PROVE  content'[Where(f, va)'] = Value(f, va)
    <3>1. /\ f \in Env /\ Where(f, va) \in Page /\ Value(f, va) = content[Where(f, va)]
          /\ \E u \in Va : Where(f, va) = pgtable[f][u]
      BY WherePages
    <3>2. Where(f, va)' = Where(f, va)
      BY <1>3, <1>4, <1>a, <3>1 DEF Where
    <3>3. Where(f, va) # q
      BY <1>2, <3>1 DEF Cleared
    <3> QED BY <1>2, <3>1, <3>2, <3>3 DEF Cleared
  <2> QED BY <1>6, <2>1, WhereCalm
<1>8. LayoutInv' /\ FullInv'
  BY <1>0, <1>3, <1>4, <1>a DEF LayoutInv, FullInv
<1>9. ShareInv'
  BY <1>0, <1>2, <1>a, ShareKeeps DEF Cleared
<1>10. TempInv'
  <2> SUFFICES ASSUME NEW f \in Env
               PROVE  /\ perm'[f][PFTEMP] \in {"none", "r"} /\ perm'[f][XSTACK] \in {"none", "w"}
                      /\ pf[f] \in {"none", "map"} => perm'[f][PFTEMP] = "none"
                      /\ pf[f] = "alloc" =>
                            /\ pgtable'[f][PFTEMP] = pgtable'[f][fault_va[f]]
                            /\ perm'[f][fault_va[f]] = "cow"
                      /\ pf[f] = "copy" => perm'[f][fault_va[f]] = "w"
                      /\ pc'[f] = "dupself" => perm'[f][dupva[f]] \in {"w", "cow"}
    BY <1>4 DEF TempInv
  <2>1. pf[f] # "none" => fault_va[f] \in Va /\ fault_va[f] # XSTACK
    BY <1>0 DEF HandlerInv
  <2>2. pc'[f] = "dupself" =>
           pc[f] = "dupself" /\ dupva[f] \in Va /\ dupva[f] # XSTACK
    <3>1. pc'[f] = "dupself" => pc[f] = "dupself"
      BY <1>5
    <3>2. pc[f] = "dupself" => dupva[f] \in 0 .. STACK
      BY <1>0 DEF DupInv
    <3> QED BY <3>1, <3>2
  <2>3. perm'[f][XSTACK] \in {"none", "w"}
    <3>1. perm'[f][XSTACK] = "w" \/ perm'[f][XSTACK] = perm[f][XSTACK]
      BY <1>2, <1>a DEF Mapped
    <3>2. perm[f][XSTACK] \in {"none", "w"}
      BY <1>0 DEF TempInv
    <3> QED BY <3>1, <3>2
  <2> QED BY <1>0, <1>3, <1>a, <2>1, <2>2, <2>3 DEF TempInv
<1>11. SnapInv'
  <2>1. ASSUME NEW f \in Env, pc'[f] \in HasChild
        PROVE  pc[f] \in HasChild /\ (pc'[f] = "dupself" <=> pc[f] = "dupself")
               /\ (pc'[f] \notin {"dup", "dupself"} => pc[f] \notin {"dup", "dupself"})
    BY <1>5, <2>1 DEF HasChild
  <2>2. ASSUME NEW f \in Env, pc'[f] \in HasChild, NEW va \in UserVa, Dupped(f, va)'
        PROVE  /\ pc[f] \in HasChild /\ Dupped(f, va) /\ child'[f] = child[f]
               /\ pgtable'[child[f]][va] = pgtable[child[f]][va]
               /\ content'[pgtable[child[f]][va]] = content[pgtable[child[f]][va]]
    <3>1. pc[f] \in HasChild /\ Dupped(f, va) /\ child[f] \in Env
      BY <1>0, <1>4, <2>1, <2>2 DEF Dupped, ChildInv
    <3>2. pgtable[child[f]][va] \in Page
      BY <1>0, <1>a, <3>1 DEF SnapInv, Snapshot, TypeOK
    <3> QED BY <1>2, <1>3, <1>4, <1>a, <3>1, <3>2 DEF Cleared
  <2>3. \A f \in Env : pc'[f] \in HasChild =>
           (pc'[f] \notin {"dup", "dupself"} => dupva'[f] = XSTACK)
    BY <1>0, <1>4, <2>1 DEF SnapInv
  <2> QED BY <1>0, <1>7, <2>2, <2>3, SnapKeeps
<1> QED BY <1>7, <1>8, <1>9, <1>10, <1>11 DEF CopyInv

(***************************************************************************)
(* A page table changes as the layout allows.                              *)
(***************************************************************************)
LEMMA LayoutKeeps ==
    ASSUME LayoutInv, FullInv, NEW x \in Env, NEW a \in Va, NEW q, NEW p,
           Mapped(x, a, q, p), UNCHANGED env_status,
           a \in UserVa => q # NULL /\ p \in Kinds(a)
    PROVE  LayoutInv' /\ FullInv'
<1> USE CowAssumption
<1>1. \A va \in UserVa : va \in Va
  OBVIOUS
<1>2. LayoutInv'
  <2> SUFFICES ASSUME NEW f \in Env, NEW va \in UserVa, pgtable'[f][va] # NULL
               PROVE  perm'[f][va] \in Kinds(va)
    BY DEF LayoutInv, Kinds
  <2>1. CASE f = x /\ va = a
    BY <1>1, <2>1 DEF Mapped
  <2>2. CASE ~(f = x /\ va = a)
    <3>1. pgtable'[f][va] = pgtable[f][va] /\ perm'[f][va] = perm[f][va]
      BY <1>1, <2>2 DEF Mapped
    <3> QED BY <3>1 DEF LayoutInv
  <2> QED BY <2>1, <2>2
<1>3. FullInv'
  <2> SUFFICES ASSUME NEW f \in Env, env_status[f] = "RUNNABLE", NEW va \in UserVa
               PROVE  pgtable'[f][va] # NULL
    BY DEF FullInv
  <2>1. pgtable'[f][va] = IF f = x /\ va = a THEN q ELSE pgtable[f][va]
    BY <1>1 DEF Mapped
  <2> QED BY <2>1 DEF FullInv
<1> QED BY <1>2, <1>3

(***************************************************************************)
(* pgfault: the page that it will copy, at PFTEMP too.                     *)
(***************************************************************************)
LEMMA PfMapCopies ==
    ASSUME CowInv, CopyInv, NEW e \in Env, PfMap(e)
    PROVE  CopyInv' /\ Calm
<1> USE CowAssumption
<1>0. TypeOK /\ ChildInv /\ HandlerInv /\ DupInv /\ SnapInv /\ TempInv /\ FullInv
      /\ LayoutInv /\ ShareInv
  BY DEF CowInv, CopyInv
<1> DEFINE a == fault_va[e]
           q == pgtable[e][a]
<1>1. /\ pf[e] = "map" /\ perm[e][a] = "cow" /\ a \in UserVa
      /\ env_status[e] = "RUNNABLE"
  BY <1>0 DEF PfMap, InPgfault, HandlerInv
<1>a. /\ XSTACK \in Va /\ XSTACK \notin UserVa /\ 0 \in Va /\ 0 # XSTACK
      /\ UserVa \subseteq Va /\ 0 \notin UserVa
  OBVIOUS
<1>2. Mapped(e, 0, q, "r")
  <2>1. q \in Page \cup {NULL}
    BY <1>0, <1>1, <1>a DEF TypeOK
  <2> QED BY <1>0, <1>a, <2>1, MapEffect DEF PfMap, Perm
<1>3. \A f \in Env, v \in Va : (v # 0 \/ f # e) =>
          pgtable'[f][v] = pgtable[f][v] /\ perm'[f][v] = perm[f][v]
  BY <1>2 DEF Mapped
<1>4. /\ UNCHANGED <<env_status, child, dupva, pc, fault_va, content>>
      /\ pf'[e] = "alloc" /\ \A f \in Env : f # e => pf'[f] = pf[f]
  BY <1>0 DEF PfMap, PfGoto, TypeOK
<1>6. Live' = Live
  BY <1>4 DEF Live
<1>7. Calm
  <2>1. ASSUME NEW f \in Live, NEW va \in UserVa
        PROVE  content'[Where(f, va)'] = Value(f, va)
    <3>1. f \in Env /\ Value(f, va) = content[Where(f, va)]
      BY WherePages
    <3>2. CASE f = e
      BY <1>1, <1>3, <1>4, <1>a, <3>1, <3>2 DEF Where
    <3>3. CASE f # e
      BY <1>3, <1>4, <1>a, <3>1, <3>3 DEF Where
    <3> QED BY <3>2, <3>3
  <2> QED BY <1>6, <2>1, WhereCalm
<1>8. LayoutInv' /\ FullInv'
  BY <1>0, <1>2, <1>4, <1>a, LayoutKeeps
<1>9. ShareInv'
  <2>1. \A f \in Env, v \in Va : perm[f][v] = "share" => pgtable[f][v] # q
    BY <1>0, <1>1, <1>a DEF ShareInv
  <2> QED BY <1>0, <1>2, <1>a, <2>1, ShareKeeps
<1>10. TempInv'
  <2> SUFFICES ASSUME NEW f \in Env
               PROVE  /\ perm'[f][PFTEMP] \in {"none", "r"} /\ perm'[f][XSTACK] \in {"none", "w"}
                      /\ pf'[f] \in {"none", "map"} => perm'[f][PFTEMP] = "none"
                      /\ pf'[f] = "alloc" =>
                            /\ pgtable'[f][PFTEMP] = pgtable'[f][fault_va[f]]
                            /\ perm'[f][fault_va[f]] = "cow"
                      /\ pf'[f] = "copy" => perm'[f][fault_va[f]] = "w"
                      /\ pc[f] = "dupself" => perm'[f][dupva[f]] \in {"w", "cow"}
    BY <1>4 DEF TempInv
  <2>1. CASE f = e
    <3>1. pc[e] # "dupself"
      BY <1>0, <1>1 DEF DupInv
    <3>2. pgtable'[e][0] = q /\ perm'[e][0] = "r"
      BY <1>2, <1>a DEF Mapped
    <3>3. pgtable'[e][a] = q /\ perm'[e][a] = "cow" /\ perm'[e][XSTACK] = perm[e][XSTACK]
      BY <1>1, <1>3, <1>a
    <3> QED BY <1>0, <1>4, <2>1, <3>1, <3>2, <3>3 DEF TempInv
  <2>2. CASE f # e
    <3>1. pf[f] # "none" => fault_va[f] \in Va
      BY <1>0, <1>a DEF HandlerInv
    <3>2. pc[f] = "dupself" => dupva[f] \in Va
      BY <1>0 DEF DupInv
    <3> QED BY <1>0, <1>3, <1>4, <1>a, <2>2, <3>1, <3>2 DEF TempInv
  <2> QED BY <2>1, <2>2
<1>11. SnapInv'
  <2>2. ASSUME NEW f \in Env, pc'[f] \in HasChild, NEW va \in UserVa, Dupped(f, va)'
        PROVE  /\ pc[f] \in HasChild /\ Dupped(f, va) /\ child'[f] = child[f]
               /\ pgtable'[child[f]][va] = pgtable[child[f]][va]
               /\ content'[pgtable[child[f]][va]] = content[pgtable[child[f]][va]]
    <3>1. pc[f] \in HasChild /\ Dupped(f, va) /\ child[f] \in Env
      BY <1>0, <1>4, <2>2 DEF Dupped, ChildInv
    <3> QED BY <1>3, <1>4, <1>a, <3>1
  <2>3. \A f \in Env : pc'[f] \in HasChild =>
           (pc'[f] \notin {"dup", "dupself"} => dupva'[f] = XSTACK)
    BY <1>0, <1>4 DEF SnapInv
  <2> QED BY <1>0, <1>7, <2>2, <2>3, SnapKeeps
<1> QED BY <1>7, <1>8, <1>9, <1>10, <1>11 DEF CopyInv

(***************************************************************************)
(* A step of pgfault() changes no table of a child that is being created,  *)
(* since nobody but a running program is in pgfault().                     *)
(***************************************************************************)
LEMMA PgfaultSnap ==
    ASSUME CowInv, SnapInv, Calm, NEW e \in Env, env_status[e] = "RUNNABLE",
           UNCHANGED <<pc, child, dupva>>,
           \A f \in Env : \A va \in UserVa : f # e /\ pgtable[f][va] # NULL =>
              /\ pgtable'[f][va] = pgtable[f][va]
              /\ content'[pgtable[f][va]] = content[pgtable[f][va]]
    PROVE  SnapInv'
<1>1. ChildInv
  BY DEF CowInv
<1>2. ASSUME NEW f \in Env, pc'[f] \in HasChild, NEW va \in UserVa, Dupped(f, va)'
      PROVE  /\ pc[f] \in HasChild /\ Dupped(f, va) /\ child'[f] = child[f]
             /\ pgtable'[child[f]][va] = pgtable[child[f]][va]
             /\ content'[pgtable[child[f]][va]] = content[pgtable[child[f]][va]]
  <2>1. pc[f] \in HasChild /\ Dupped(f, va) /\ child[f] \in Env /\ child[f] # e
    BY <1>1, <1>2 DEF Dupped, ChildInv
  <2>2. pgtable[child[f]][va] # NULL
    BY <2>1 DEF SnapInv, Snapshot
  <2> QED BY <2>1, <2>2
<1>3. \A f \in Env : pc'[f] \in HasChild =>
         (pc'[f] \notin {"dup", "dupself"} => dupva'[f] = XSTACK)
  BY DEF SnapInv
<1> QED BY <1>2, <1>3, SnapKeeps

\* What TempInv says of one program.
Temp(e) ==
    /\ perm[e][PFTEMP] \in {"none", "r"} /\ perm[e][XSTACK] \in {"none", "w"}
    /\ pf[e] \in {"none", "map"} => perm[e][PFTEMP] = "none"
    /\ pf[e] = "alloc" => /\ pgtable[e][PFTEMP] = pgtable[e][fault_va[e]]
                          /\ perm[e][fault_va[e]] = "cow"
    /\ pf[e] = "copy" => perm[e][fault_va[e]] = "w"
    /\ pc[e] = "dupself" => perm[e][dupva[e]] \in {"w", "cow"}

(***************************************************************************)
(* A step of one program changes nothing that another has on its way.      *)
(***************************************************************************)
LEMMA TempOthers ==
    ASSUME CowInv, TempInv, NEW f \in Env,
           /\ \A v \in Va : pgtable'[f][v] = pgtable[f][v] /\ perm'[f][v] = perm[f][v]
           /\ pf'[f] = pf[f] /\ fault_va'[f] = fault_va[f]
           /\ pc'[f] = pc[f] /\ dupva'[f] = dupva[f]
    PROVE  Temp(f)'
<1> USE CowAssumption
<1>1. pf[f] # "none" => fault_va[f] \in Va
  BY DEF CowInv, HandlerInv
<1>2. pc[f] = "dupself" => dupva[f] \in Va
  BY DEF CowInv, DupInv
<1>3. 0 \in Va /\ XSTACK \in Va
  OBVIOUS
<1>4. Temp(f)
  BY DEF TempInv, Temp
<1> QED BY <1>1, <1>2, <1>3, <1>4 DEF Temp

(***************************************************************************)
(* pgfault: the new page in the place of the old one, which is still at    *)
(* PFTEMP.                                                                 *)
(***************************************************************************)
LEMMA PfAllocCopies ==
    ASSUME CowInv, CopyInv, NEW e \in Env, PfAlloc(e)
    PROVE  CopyInv' /\ Calm
<1> USE CowAssumption
<1>0. TypeOK /\ ChildInv /\ HandlerInv /\ DupInv /\ SnapInv /\ TempInv /\ FullInv
      /\ LayoutInv /\ ShareInv
  BY DEF CowInv, CopyInv
<1> DEFINE a == fault_va[e]
<1>1. /\ pf[e] = "alloc" /\ a \in UserVa /\ env_status[e] = "RUNNABLE"
      /\ perm[e][a] = "cow" /\ pgtable[e][0] = pgtable[e][a]
  BY <1>0 DEF PfAlloc, InPgfault, HandlerInv, TempInv
<1>a. /\ XSTACK \in Va /\ XSTACK \notin UserVa /\ 0 \in Va /\ 0 # XSTACK
      /\ UserVa \subseteq Va /\ 0 \notin UserVa
  OBVIOUS
<1>2. PICK q \in Page : Cleared(q) /\ Mapped(e, a, q, "w")
  BY <1>0, <1>1, <1>a, AllocEffect DEF PfAlloc
<1>3. \A f \in Env, v \in Va : (v # a \/ f # e) =>
          pgtable'[f][v] = pgtable[f][v] /\ perm'[f][v] = perm[f][v]
  BY <1>2 DEF Mapped
<1>4. /\ UNCHANGED <<env_status, child, dupva, pc, fault_va>>
      /\ pf'[e] = "copy" /\ \A f \in Env : f # e => pf'[f] = pf[f]
  BY <1>0 DEF PfAlloc, PfGoto, TypeOK
<1>5. \A f \in Env, v \in Va : pgtable[f][v] # NULL =>
          content'[pgtable[f][v]] = content[pgtable[f][v]]
  BY <1>0, <1>2 DEF Cleared, TypeOK
<1>6. Live' = Live
  BY <1>4 DEF Live
<1>7. Calm
  <2>1. ASSUME NEW f \in Live, NEW va \in UserVa
        PROVE  content'[Where(f, va)'] = Value(f, va)
    <3>1. /\ f \in Env /\ Value(f, va) = content[Where(f, va)]
          /\ Where(f, va) \in Page
          /\ \E u \in Va : Where(f, va) = pgtable[f][u]
      BY WherePages
    <3>2. content'[Where(f, va)] = content[Where(f, va)]
      BY <1>2, <3>1 DEF Cleared
    <3>3. Where(f, va)' = Where(f, va)
      <4>1. CASE f = e /\ va = a
        BY <1>1, <1>3, <1>4, <1>a, <4>1 DEF Where
      <4>2. CASE f = e /\ va # a
        BY <1>1, <1>3, <1>4, <1>a, <4>2 DEF Where
      <4>3. CASE f # e
        BY <1>3, <1>4, <1>a, <3>1, <4>3 DEF Where
      <4> QED BY <4>1, <4>2, <4>3
    <3> QED BY <3>1, <3>2, <3>3
  <2> QED BY <1>6, <2>1, WhereCalm
<1>8. LayoutInv' /\ FullInv'
  <2>1. q # NULL /\ "w" \in Kinds(a)
    <3>1. pgtable[e][a] # NULL
      BY <1>0, <1>1 DEF FullInv
    <3>2. "cow" \in Kinds(a)
      BY <1>0, <1>1, <3>1 DEF LayoutInv
    <3> QED BY <1>1, <3>2 DEF Kinds
  <2> QED BY <1>0, <1>1, <1>2, <1>4, <1>a, <2>1, LayoutKeeps
<1>9. ShareInv'
  <2>1. \A f \in Env, v \in Va : perm[f][v] = "share" => pgtable[f][v] # q
    BY <1>2 DEF Cleared
  <2> QED BY <1>0, <1>1, <1>2, <1>a, <2>1, ShareKeeps
<1>10. TempInv'
  <2>1. Temp(e)'
    <3>1. pc[e] # "dupself"
      BY <1>0, <1>1 DEF DupInv
    <3>2. perm'[e][a] = "w"
      BY <1>1, <1>2, <1>a DEF Mapped
    <3>3. perm'[e][0] = perm[e][0] /\ perm'[e][XSTACK] = perm[e][XSTACK]
      BY <1>1, <1>3, <1>a
    <3> QED BY <1>0, <1>4, <3>1, <3>2, <3>3 DEF Temp, TempInv
  <2>2. ASSUME NEW f \in Env, f # e PROVE Temp(f)'
    BY <1>0, <1>3, <1>4, <2>2, TempOthers
  <2> QED BY <2>1, <2>2 DEF Temp, TempInv
<1>11. SnapInv'
  <2>1. \A f \in Env : \A va \in UserVa : f # e /\ pgtable[f][va] # NULL =>
            /\ pgtable'[f][va] = pgtable[f][va]
            /\ content'[pgtable[f][va]] = content[pgtable[f][va]]
    BY <1>3, <1>5, <1>a
  <2> QED BY <1>0, <1>1, <1>4, <1>7, <2>1, PgfaultSnap
<1> QED BY <1>7, <1>8, <1>9, <1>10, <1>11 DEF CopyInv

(***************************************************************************)
(* pgfault: memmove() to the new page, which is mapped nowhere else.       *)
(***************************************************************************)
LEMMA PfCopyCopies ==
    ASSUME CowInv, CopyInv, NEW e \in Env, PfCopy(e)
    PROVE  CopyInv' /\ Calm
<1> USE CowAssumption
<1>0. TypeOK /\ ChildInv /\ HandlerInv /\ DupInv /\ Private /\ SnapInv /\ TempInv
      /\ FullInv /\ LayoutInv /\ ShareInv
  BY DEF CowInv, CopyInv
<1> DEFINE a == fault_va[e]
           q == pgtable[e][a]
<1>1. /\ pf[e] = "copy" /\ a \in UserVa /\ env_status[e] = "RUNNABLE"
      /\ perm[e][a] = "w" /\ pc[e] # "dupself"
  BY <1>0 DEF PfCopy, InPgfault, HandlerInv, TempInv, DupInv
<1>a. UserVa \subseteq Va /\ 0 \in Va
  OBVIOUS
<1>2. q \in Page
  BY <1>0, <1>1, <1>a DEF FullInv, TypeOK
<1>3. /\ UNCHANGED <<env_status, child, dupva, pc, fault_va, pgtable, perm>>
      /\ pf'[e] = "unmap" /\ \A f \in Env : f # e => pf'[f] = pf[f]
  BY <1>0 DEF PfCopy, PfGoto, TypeOK
<1>4. /\ content'[q] = content[pgtable[e][0]]
      /\ \A r \in Page : r # q => content'[r] = content[r]
  BY <1>0, <1>2 DEF PfCopy, TypeOK
<1>5. \A f \in Env, v \in Va : pgtable[f][v] = q => f = e /\ v = a
  BY <1>0, <1>1, <1>a DEF Private
<1>6. Live' = Live
  BY <1>3 DEF Live
<1>7. Calm
  <2>1. ASSUME NEW f \in Live, NEW va \in UserVa
        PROVE  content'[Where(f, va)'] = Value(f, va)
    <3>1. /\ f \in Env /\ Value(f, va) = content[Where(f, va)]
          /\ Where(f, va) \in Page
          /\ \E u \in Va : Where(f, va) = pgtable[f][u]
      BY WherePages
    <3>2. CASE f = e /\ va = a
      BY <1>1, <1>3, <1>4, <3>1, <3>2 DEF Where
    <3>3. CASE f = e /\ va # a
      <4>1. Where(f, va) = pgtable[e][va] /\ Where(f, va)' = pgtable[e][va]
        BY <1>1, <1>3, <3>3 DEF Where
      <4>2. pgtable[e][va] # q
        BY <1>5, <1>a, <3>3
      <4> QED BY <1>4, <3>1, <4>1, <4>2
    <3>4. CASE f # e
      <4>1. Where(f, va)' = Where(f, va)
        BY <1>3, <3>1, <3>4 DEF Where
      <4>2. Where(f, va) # q
        BY <1>5, <3>1, <3>4
      <4> QED BY <1>4, <3>1, <4>1, <4>2
    <3> QED BY <3>2, <3>3, <3>4
  <2> QED BY <1>6, <2>1, WhereCalm
<1>8. LayoutInv' /\ FullInv' /\ ShareInv'
  BY <1>0, <1>3 DEF LayoutInv, FullInv, ShareInv
<1>10. TempInv'
  <2>1. Temp(e)'
    BY <1>0, <1>1, <1>3 DEF Temp, TempInv
  <2>2. ASSUME NEW f \in Env, f # e PROVE Temp(f)'
    BY <1>0, <1>3, <2>2, TempOthers
  <2> QED BY <2>1, <2>2 DEF Temp, TempInv
<1>11. SnapInv'
  <2>1. \A f \in Env : \A va \in UserVa : f # e /\ pgtable[f][va] # NULL =>
            /\ pgtable'[f][va] = pgtable[f][va]
            /\ content'[pgtable[f][va]] = content[pgtable[f][va]]
    BY <1>0, <1>3, <1>4, <1>5, <1>a DEF TypeOK
  <2> QED BY <1>0, <1>1, <1>3, <1>7, <2>1, PgfaultSnap
<1> QED BY <1>7, <1>8, <1>10, <1>11 DEF CopyInv

(***************************************************************************)
(* pgfault: the copy is done, and PFTEMP is unmapped.                      *)
(***************************************************************************)
LEMMA PfUnmapCopies ==
    ASSUME CowInv, CopyInv, NEW e \in Env, PfUnmap(e)
    PROVE  CopyInv' /\ Calm
<1> USE CowAssumption
<1>0. TypeOK /\ ChildInv /\ MapInv /\ HandlerInv /\ DupInv /\ SnapInv /\ TempInv
      /\ FullInv /\ LayoutInv /\ ShareInv
  BY DEF CowInv, CopyInv
<1>1. pf[e] = "unmap" /\ env_status[e] = "RUNNABLE" /\ pc[e] # "dupself"
  BY <1>0 DEF PfUnmap, InPgfault, DupInv
<1>a. /\ XSTACK \in Va /\ XSTACK \notin UserVa /\ 0 \in Va /\ 0 # XSTACK
      /\ UserVa \subseteq Va /\ 0 \notin UserVa
  OBVIOUS
<1>2. Mapped(e, 0, NULL, "none")
  BY <1>0, <1>a, MapEffect DEF PfUnmap, Perm
<1>3. \A f \in Env, v \in Va : (v # 0 \/ f # e) =>
          pgtable'[f][v] = pgtable[f][v] /\ perm'[f][v] = perm[f][v]
  BY <1>2 DEF Mapped
<1>4. /\ UNCHANGED <<env_status, child, dupva, pc, content>>
      /\ pf'[e] = "none"
      /\ \A f \in Env : f # e => pf'[f] = pf[f] /\ fault_va'[f] = fault_va[f]
  BY <1>0 DEF PfUnmap, TypeOK
<1>6. Live' = Live
  BY <1>4 DEF Live
<1>7. Calm
  <2>1. ASSUME NEW f \in Live, NEW va \in UserVa
        PROVE  content'[Where(f, va)'] = Value(f, va)
    <3>1. f \in Env /\ Value(f, va) = content[Where(f, va)]
      BY WherePages
    <3>2. CASE f = e
      BY <1>1, <1>3, <1>4, <1>a, <3>1, <3>2 DEF Where
    <3>3. CASE f # e
      BY <1>3, <1>4, <1>a, <3>1, <3>3 DEF Where
    <3> QED BY <3>2, <3>3
  <2> QED BY <1>6, <2>1, WhereCalm
<1>8. LayoutInv' /\ FullInv'
  BY <1>0, <1>2, <1>4, <1>a, LayoutKeeps
<1>9. ShareInv'
  <2>1. \A f \in Env, v \in Va : perm[f][v] = "share" => pgtable[f][v] # NULL
    BY <1>0 DEF MapInv
  <2> QED BY <1>0, <1>2, <1>a, <2>1, ShareKeeps
<1>10. TempInv'
  <2>1. Temp(e)'
    <3>1. perm'[e][0] = "none" /\ perm'[e][XSTACK] = perm[e][XSTACK]
      BY <1>2, <1>3, <1>a DEF Mapped
    <3> QED BY <1>0, <1>1, <1>4, <3>1 DEF Temp, TempInv
  <2>2. ASSUME NEW f \in Env, f # e PROVE Temp(f)'
    BY <1>0, <1>3, <1>4, <2>2, TempOthers
  <2> QED BY <2>1, <2>2 DEF Temp, TempInv
<1>11. SnapInv'
  <2>1. \A f \in Env : \A va \in UserVa : f # e /\ pgtable[f][va] # NULL =>
            /\ pgtable'[f][va] = pgtable[f][va]
            /\ content'[pgtable[f][va]] = content[pgtable[f][va]]
    BY <1>3, <1>4, <1>a
  <2> QED BY <1>0, <1>1, <1>4, <1>7, <2>1, PgfaultSnap
<1> QED BY <1>7, <1>8, <1>9, <1>10, <1>11 DEF CopyInv

(***************************************************************************)
(* duppage: the parent's mapping of the page it has given to its child.    *)
(***************************************************************************)
LEMMA DupSelfCopies ==
    ASSUME CowInv, CopyInv, NEW e \in Env, DupSelf(e)
    PROVE  CopyInv' /\ Calm
<1> USE CowAssumption
<1>0. TypeOK /\ ChildInv /\ HandlerInv /\ DupInv /\ SnapInv /\ TempInv /\ FullInv
      /\ LayoutInv /\ ShareInv
  BY DEF CowInv, CopyInv
<1> DEFINE a == dupva[e]
           q == pgtable[e][a]
<1>a. /\ XSTACK \in Va /\ XSTACK \notin UserVa /\ 0 \in Va /\ 0 # XSTACK
      /\ UserVa \subseteq Va /\ 0 \notin UserVa
  OBVIOUS
<1>1. /\ pf[e] = "none" /\ pc[e] = "dupself" /\ env_status[e] = "RUNNABLE"
      /\ perm[e][a] \in {"w", "cow"} /\ q # NULL /\ a \in UserVa
  <2>1. /\ pf[e] = "none" /\ pc[e] = "dupself" /\ env_status[e] = "RUNNABLE"
        /\ q # NULL /\ a \in 0 .. STACK
    BY <1>0 DEF DupSelf, At, Running, DupInv
  <2>2. perm[e][a] \in {"w", "cow"} /\ perm[e][0] = "none"
    BY <1>0, <2>1 DEF TempInv
  <2>3. a # 0
    BY <2>2
  <2> QED BY <2>1, <2>2, <2>3
<1>2. Mapped(e, a, q, "cow")
  <2>1. q \in Page \cup {NULL}
    BY <1>0, <1>1, <1>a DEF TypeOK
  <2> QED BY <1>0, <1>1, <1>a, <2>1, MapEffect DEF DupSelf, Perm
<1>3. /\ \A f \in Env, v \in Va : pgtable'[f][v] = pgtable[f][v]
      /\ \A f \in Env, v \in Va : v # a \/ f # e => perm'[f][v] = perm[f][v]
  BY <1>2 DEF Mapped
<1>4. /\ UNCHANGED <<env_status, child, content, pf, fault_va>>
      /\ pc'[e] = "dup" /\ dupva'[e] = a + 1
      /\ \A f \in Env : f # e => pc'[f] = pc[f] /\ dupva'[f] = dupva[f]
  BY <1>0 DEF DupSelf, Goto, TypeOK
<1>6. Live' = Live
  BY <1>4 DEF Live
<1>7. Calm
  <2>1. ASSUME NEW f \in Live, NEW va \in UserVa
        PROVE  content'[Where(f, va)'] = Value(f, va)
    <3>1. f \in Env /\ Value(f, va) = content[Where(f, va)]
      BY WherePages
    <3> QED BY <1>3, <1>4, <1>a, <3>1 DEF Where
  <2> QED BY <1>6, <2>1, WhereCalm
<1>8. LayoutInv' /\ FullInv'
  <2>1. "cow" \in Kinds(a)
    BY <1>0, <1>1 DEF LayoutInv, Kinds
  <2> QED BY <1>0, <1>1, <1>2, <1>4, <1>a, <2>1, LayoutKeeps
<1>9. ShareInv'
  <2>1. \A f \in Env, v \in Va : perm[f][v] = "share" => pgtable[f][v] # q
    BY <1>0, <1>1, <1>a DEF ShareInv
  <2> QED BY <1>0, <1>1, <1>2, <1>a, <2>1, ShareKeeps
<1>10. TempInv'
  <2>1. Temp(e)'
    <3>1. perm'[e][0] = perm[e][0] /\ perm'[e][XSTACK] = perm[e][XSTACK]
      BY <1>1, <1>3, <1>a
    <3> QED BY <1>0, <1>1, <1>4, <3>1 DEF Temp, TempInv
  <2>2. ASSUME NEW f \in Env, f # e PROVE Temp(f)'
    BY <1>0, <1>3, <1>4, <2>2, TempOthers
  <2> QED BY <2>1, <2>2 DEF Temp, TempInv
<1>11. SnapInv'
  <2>1. ASSUME NEW f \in Env, pc'[f] \in HasChild, NEW va \in UserVa, Dupped(f, va)'
        PROVE  /\ pc[f] \in HasChild /\ Dupped(f, va) /\ child'[f] = child[f]
               /\ pgtable'[child[f]][va] = pgtable[child[f]][va]
               /\ content'[pgtable[child[f]][va]] = content[pgtable[child[f]][va]]
    <3>1. pc[f] \in HasChild /\ Dupped(f, va)
      <4>1. CASE f = e
        BY <1>1, <1>4, <2>1, <4>1 DEF Dupped, HasChild
      <4>2. CASE f # e
        BY <1>4, <2>1, <4>2 DEF Dupped
      <4> QED BY <4>1, <4>2
    <3>2. child[f] \in Env
      BY <1>0, <3>1 DEF ChildInv
    <3> QED BY <1>3, <1>4, <1>a, <3>1, <3>2
  <2>2. \A f \in Env : pc'[f] \in HasChild =>
           (pc'[f] \notin {"dup", "dupself"} => dupva'[f] = XSTACK)
    BY <1>0, <1>4 DEF SnapInv
  <2> QED BY <1>0, <1>7, <2>1, <2>2, SnapKeeps
<1> QED BY <1>7, <1>8, <1>9, <1>10, <1>11 DEF CopyInv

(***************************************************************************)
(* A shared page stays one page when it is mapped once more, at the same   *)
(* address.                                                                *)
(***************************************************************************)
LEMMA ShareCopies ==
    ASSUME ShareInv, NEW e \in Env, NEW x \in Env, NEW a \in Va,
           perm[e][a] = "share", Mapped(x, a, pgtable[e][a], "share")
    PROVE  ShareInv'
<1>1. ASSUME NEW f \in Env, NEW v \in Va
      PROVE  \E g \in Env : pgtable'[f][v] = pgtable[g][v] /\ perm'[f][v] = perm[g][v]
  <2>1. CASE f = x /\ v = a
    BY <2>1 DEF Mapped
  <2>2. CASE ~(f = x /\ v = a)
    BY <2>2 DEF Mapped
  <2> QED BY <2>1, <2>2
<1> SUFFICES ASSUME NEW f \in Env, NEW g \in Env, NEW u \in Va, NEW v \in Va,
                    perm'[f][u] = "share"
             PROVE  /\ pgtable'[f][u] = pgtable'[g][v] => perm'[g][v] = "share" /\ u = v
                    /\ perm'[g][u] = "share" => pgtable'[f][u] = pgtable'[g][u]
  BY DEF ShareInv
<1>2. PICK f1 \in Env : pgtable'[f][u] = pgtable[f1][u] /\ perm'[f][u] = perm[f1][u]
  BY <1>1
<1>3. PICK g1 \in Env : pgtable'[g][v] = pgtable[g1][v] /\ perm'[g][v] = perm[g1][v]
  BY <1>1
<1>4. PICK g2 \in Env : pgtable'[g][u] = pgtable[g2][u] /\ perm'[g][u] = perm[g2][u]
  BY <1>1
<1> QED BY <1>2, <1>3, <1>4 DEF ShareInv

(***************************************************************************)
(* duppage: the child's mapping.  What it has there is what its parent     *)
(* reads.                                                                  *)
(***************************************************************************)
LEMMA DupChildCopies ==
    ASSUME CowInv, CopyInv, NEW e \in Env, DupChild(e)
    PROVE  CopyInv' /\ Calm
<1> USE CowAssumption
<1>0. TypeOK /\ ChildInv /\ MapInv /\ HandlerInv /\ DupInv /\ SnapInv /\ TempInv
      /\ FullInv /\ LayoutInv /\ ShareInv
  BY DEF CowInv, CopyInv
<1> DEFINE a == dupva[e]
           q == pgtable[e][a]
           c == child[e]
           cow == perm[e][a] \in {"w", "cow"}
           p == IF cow THEN "cow" ELSE perm[e][a]
<1>a. /\ XSTACK \in Va /\ XSTACK \notin UserVa /\ 0 \in Va /\ 0 # XSTACK
      /\ UserVa \subseteq Va /\ 0 \notin UserVa
  OBVIOUS
<1>1. /\ pf[e] = "none" /\ pc[e] = "dup" /\ env_status[e] = "RUNNABLE"
      /\ q # NULL /\ a \in UserVa
      /\ c \in Env /\ env_status[c] = "NOT_RUNNABLE" /\ c # e
  <2>1. /\ pf[e] = "none" /\ pc[e] = "dup" /\ env_status[e] = "RUNNABLE"
        /\ q # NULL /\ a <= STACK /\ a \in 0 .. XSTACK
    BY <1>0 DEF DupChild, At, Running, TypeOK
  <2>2. perm[e][0] = "none" /\ pgtable[e][0] = NULL
    BY <1>0, <1>a, <2>1 DEF TempInv, MapInv
  <2>3. a # 0
    BY <2>1, <2>2
  <2>4. c \in Env /\ env_status[c] = "NOT_RUNNABLE"
    BY <1>0, <2>1 DEF ChildInv, HasChild
  <2> QED BY <2>1, <2>3, <2>4
<1>b. a \in Va /\ q \in Page /\ p \in Perm
  BY <1>0, <1>1, <1>a DEF TypeOK, Perm
<1>2. Mapped(c, a, q, p)
  BY <1>0, <1>1, <1>b, MapEffect DEF DupChild
<1>3. \A f \in Env, v \in Va : (v # a \/ f # c) =>
          pgtable'[f][v] = pgtable[f][v] /\ perm'[f][v] = perm[f][v]
  BY <1>2 DEF Mapped
<1>4. /\ UNCHANGED <<env_status, child, content, pf, fault_va>>
      /\ \A f \in Env : f # e => pc'[f] = pc[f] /\ dupva'[f] = dupva[f]
      /\ cow => pc'[e] = "dupself" /\ dupva'[e] = a
      /\ ~cow => pc'[e] = "dup" /\ dupva'[e] = a + 1
  BY <1>0, <1>1 DEF DupChild, Goto, TypeOK
<1>6. Live' = Live
  BY <1>4 DEF Live
<1>7. Calm
  <2>1. ASSUME NEW f \in Live, NEW va \in UserVa
        PROVE  content'[Where(f, va)'] = Value(f, va)
    <3>1. f \in Env /\ Value(f, va) = content[Where(f, va)]
      BY WherePages
    <3>2. f # c
      BY <1>1 DEF Live
    <3> QED BY <1>3, <1>4, <1>a, <3>1, <3>2 DEF Where
  <2> QED BY <1>6, <2>1, WhereCalm
<1>8. LayoutInv' /\ FullInv'
  <2>1. p \in Kinds(a)
    BY <1>0, <1>1 DEF LayoutInv, Kinds
  <2>2. q # NULL
    BY <1>1
  <2> HIDE DEF a, q, c, p
  <2> QED BY <1>0, <1>1, <1>2, <1>4, <1>b, <2>1, <2>2, LayoutKeeps
<1>9. ShareInv'
  <2>1. CASE perm[e][a] = "share"
    BY <1>0, <1>1, <1>2, <1>b, <2>1, ShareCopies
  <2>2. CASE perm[e][a] # "share"
    <3>1. \A f \in Env, v \in Va : perm[f][v] = "share" => pgtable[f][v] # q
      BY <1>0, <1>b, <2>2 DEF ShareInv
    <3>2. p # "share"
      BY <2>2
    <3> HIDE DEF a, q, c, p
    <3> QED BY <1>0, <1>1, <1>2, <1>b, <3>1, <3>2, ShareKeeps
  <2> QED BY <2>1, <2>2
<1>10. TempInv'
  <2>1. Temp(e)'
    <3>1. \A v \in Va : pgtable'[e][v] = pgtable[e][v] /\ perm'[e][v] = perm[e][v]
      BY <1>1, <1>3
    <3>2. Temp(e)
      BY <1>0 DEF Temp, TempInv
    <3>3. pc'[e] = "dupself" => perm'[e][dupva'[e]] \in {"w", "cow"}
      BY <1>4, <1>b, <3>1
    <3> QED BY <1>1, <1>4, <1>a, <3>1, <3>2, <3>3 DEF Temp
  <2>2. \A x \in Env : x = c => Temp(x)'
    <3>1. pf[c] = "none" /\ pc[c] = "run"
      BY <1>0, <1>1 DEF ChildInv
    <3>2. perm'[c][0] = perm[c][0] /\ perm'[c][XSTACK] = perm[c][XSTACK]
      BY <1>1, <1>3, <1>a
    <3> QED BY <1>0, <1>1, <1>4, <3>1, <3>2 DEF Temp, TempInv
  <2>3. \A f \in Env : f # e /\ f # c => Temp(f)'
    BY <1>0, <1>3, <1>4, TempOthers
  <2> QED BY <2>1, <2>2, <2>3 DEF Temp, TempInv
<1>11. SnapInv'
  <2> SUFFICES ASSUME NEW f \in Env, pc'[f] \in HasChild
               PROVE  /\ pc'[f] \notin {"dup", "dupself"} => dupva'[f] = XSTACK
                      /\ \A va \in UserVa : Dupped(f, va)' => Snapshot(f, va)'
    BY DEF SnapInv
  <2>1. pc[f] \in HasChild /\ child[f] \in Env
    BY <1>0, <1>1, <1>4 DEF HasChild, ChildInv
  <2>2. pc'[f] \notin {"dup", "dupself"} => dupva'[f] = XSTACK
    <3>1. CASE f = e
      BY <1>4, <3>1
    <3>2. CASE f # e
      BY <1>0, <1>4, <2>1, <3>2 DEF SnapInv
    <3> QED BY <3>1, <3>2
  <2>3. ASSUME NEW va \in UserVa, Dupped(f, va)', ~(f = e /\ va = a)
        PROVE  Snapshot(f, va)'
    <3>1. Dupped(f, va)
      <4>1. CASE f = e
        BY <1>1, <1>4, <2>3, <4>1 DEF Dupped
      <4>2. CASE f # e
        BY <1>4, <2>3, <4>2 DEF Dupped
      <4> QED BY <4>1, <4>2
    <3>2. Snapshot(f, va)
      BY <1>0, <2>1, <3>1 DEF SnapInv
    <3>3. child[f] # c \/ va # a
      BY <1>0, <1>1, <2>1, <2>3 DEF ChildInv, HasChild
    <3>4. pgtable'[child[f]][va] = pgtable[child[f]][va]
      BY <1>3, <1>a, <2>1, <3>3
    <3>5. Value(f, va)' = Value(f, va)
      BY <1>7 DEF Calm
    <3> QED BY <1>4, <3>2, <3>4, <3>5 DEF Snapshot
  <2>4. ASSUME NEW va \in UserVa, f = e, va = a PROVE Snapshot(f, va)'
    <3>1. pgtable'[c][a] = q
      BY <1>1, <1>2, <1>b DEF Mapped
    <3>2. Value(f, va)' = content[q]
      <4>1. Value(f, va)' = Value(f, va)
        BY <1>7 DEF Calm
      <4> QED BY <1>1, <2>4, <4>1 DEF Value, Live
    <3> QED BY <1>1, <1>4, <2>4, <3>1, <3>2 DEF Snapshot
  <2> QED BY <1>1, <2>2, <2>3, <2>4
<1> QED BY <1>7, <1>8, <1>9, <1>10, <1>11 DEF CopyInv

(***************************************************************************)
(* A write is seen by the program that writes, and if the page is shared   *)
(* by all that have it, and changes nothing that a child will start with.  *)
(***************************************************************************)
LEMMA WriteCopies ==
    ASSUME CowInv, CopyInv, NEW e \in Env, NEW a \in UserVa, NEW w \in Values,
           Write(e, a, w)
    PROVE  CopyInv' /\ Abstract!Write(e, a, w)
<1> USE CowAssumption
<1>0. TypeOK /\ ChildInv /\ MapInv /\ HandlerInv /\ Private /\ SnapInv /\ TempInv
      /\ FullInv /\ LayoutInv /\ ShareInv
  BY DEF CowInv, CopyInv
<1> DEFINE q == pgtable[e][a]
<1>a. UserVa \subseteq Va /\ 0 \in Va /\ 0 \notin UserVa
  OBVIOUS
<1>1. /\ pf[e] = "none" /\ pc[e] = "run" /\ env_status[e] = "RUNNABLE"
      /\ perm[e][a] \in {"w", "share"} /\ e \in Live
  BY DEF Write, Running, Live
<1>2. q \in Page
  BY <1>0, <1>1, <1>a DEF FullInv, TypeOK
<1>3. UNCHANGED <<env_status, child, dupva, pc, pf, fault_va, pgtable, perm>>
  BY DEF Write
<1>4. content'[q] = w /\ \A r \in Page : r # q => content'[r] = content[r]
  BY <1>0, <1>2 DEF Write, TypeOK
<1>5. Live' = Live
  BY <1>3 DEF Live
<1>6. perm[e][a] \in Kinds(a)
  BY <1>0, <1>2 DEF LayoutInv
<1>7. ASSUME NEW f \in Live, NEW u \in UserVa
      PROVE  Value(f, u)' = IF Where(f, u) = q THEN w ELSE Value(f, u)
  <2>1. f \in Env /\ Where(f, u) \in Page /\ Value(f, u) = content[Where(f, u)]
    BY WherePages
  <2>2. Value(f, u)' = content'[Where(f, u)]
    BY <1>3, <1>5 DEF Value, Where
  <2> QED BY <1>4, <2>1, <2>2
<1>8. CASE perm[e][a] = "w"
  <2>1. \A f \in Env, v \in Va : pgtable[f][v] = q => f = e /\ v = a
    BY <1>0, <1>1, <1>8, <1>a DEF Private
  <2>2. Layout[a] # "share"
    BY <1>6, <1>8 DEF Kinds
  <2>3. ASSUME NEW f \in Live, NEW u \in UserVa
        PROVE  Where(f, u) = q <=> f = e /\ u = a
    BY <1>1, <1>a, <2>1, WherePages DEF Where
  <2>4. ASSUME NEW f \in Env, NEW u \in UserVa
        PROVE  Value(f, u)' = IF f = e /\ u = a THEN w ELSE Value(f, u)
    <3>1. CASE f \in Live
      BY <1>7, <2>3, <3>1
    <3>2. CASE f \notin Live
      BY <1>1, <1>5, <3>2 DEF Value
    <3> QED BY <3>1, <3>2
  <2>5. Abstract!Write(e, a, w)
    BY <1>1, <1>5, <2>2, <2>4 DEF Abstract!Write
  <2>6. SnapInv'
    <3> SUFFICES ASSUME NEW f \in Env, pc[f] \in HasChild, NEW u \in UserVa, Dupped(f, u)
                 PROVE  Snapshot(f, u)'
      BY <1>0, <1>3 DEF SnapInv, Dupped
    <3>1. f # e /\ child[f] \in Env /\ child[f] # e /\ Snapshot(f, u)
      BY <1>0, <1>1 DEF ChildInv, HasChild, SnapInv
    <3>2. pgtable[child[f]][u] # q /\ pgtable[child[f]][u] \in Page
      BY <1>0, <1>a, <2>1, <3>1 DEF Snapshot, TypeOK
    <3>3. Value(f, u)' = Value(f, u)
      BY <2>4, <3>1
    <3> QED BY <1>3, <1>4, <3>1, <3>2, <3>3 DEF Snapshot
  <2>7. LayoutInv' /\ ShareInv' /\ TempInv' /\ FullInv'
    BY <1>0, <1>3 DEF LayoutInv, ShareInv, TempInv, FullInv
  <2> QED BY <2>5, <2>6, <2>7 DEF CopyInv
<1>9. CASE perm[e][a] = "share"
  <2>1. Layout[a] = "share"
    BY <1>6, <1>9 DEF Kinds
  <2>2. ASSUME NEW f \in Env, NEW u \in Va, pgtable[f][u] # NULL
        PROVE  pgtable[f][u] = q <=> u = a
    <3>1. pgtable[f][u] = q => u = a
      BY <1>0, <1>9, <1>a DEF ShareInv
    <3>2. u = a => perm[f][u] = "share"
      <4>1. Kinds(a) = {"share"}
        BY <2>1 DEF Kinds
      <4> QED BY <1>0, <2>2, <4>1 DEF LayoutInv
    <3>3. u = a => pgtable[f][u] = q
      BY <1>0, <1>9, <1>a, <3>2 DEF ShareInv
    <3> QED BY <3>1, <3>3
  <2>3. ASSUME NEW f \in Live, NEW u \in UserVa
        PROVE  Where(f, u) = q <=> u = a
    <3>1. f \in Env /\ env_status[f] = "RUNNABLE"
      BY DEF Live
    <3>2. pgtable[f][u] # NULL
      BY <1>0, <3>1 DEF FullInv
    <3>3. CASE pf[f] = "copy" /\ fault_va[f] = u
      <4>1. perm[f][u] = "w" /\ pgtable[f][0] # NULL
        BY <1>0, <3>1, <3>3 DEF TempInv, HandlerInv
      <4>2. u # a
        BY <1>0, <2>1, <3>1, <3>2, <4>1 DEF LayoutInv, Kinds
      <4>3. pgtable[f][0] # q
        BY <1>a, <2>2, <3>1, <4>1
      <4> QED BY <3>3, <4>2, <4>3 DEF Where
    <3>4. CASE ~(pf[f] = "copy" /\ fault_va[f] = u)
      BY <1>a, <2>2, <3>1, <3>2, <3>4 DEF Where
    <3> QED BY <3>3, <3>4
  <2>4. ASSUME NEW f \in Env, NEW u \in UserVa
        PROVE  Value(f, u)' = IF f \in Live /\ u = a THEN w ELSE Value(f, u)
    <3>1. CASE f \in Live
      BY <1>7, <2>3, <3>1
    <3>2. CASE f \notin Live
      BY <1>5, <3>2 DEF Value
    <3> QED BY <3>1, <3>2
  <2>5. Abstract!Write(e, a, w)
    <3> DEFINE Row(f) == [u \in UserVa |-> Value(f, u)]
               Shared == {va \in UserVa : Layout[va] = "share"}
    <3>1. a \in Shared
      BY <2>1
    <3>2. \A f \in Env : f \in Live => Row(f)' = [Row(f) EXCEPT ![a] = w]
      BY <2>4
    <3>3. \A f \in Env : f \notin Live => Row(f)' = Row(f)
      BY <2>4
    <3>4. [f \in Env |-> Row(f)]' = [f \in Env |->
              IF f = e \/ (a \in Shared /\ f \in Live)
              THEN [[g \in Env |-> Row(g)][f] EXCEPT ![a] = w]
              ELSE [g \in Env |-> Row(g)][f]]
      <4> HIDE DEF Row, Shared
      <4> QED BY <1>1, <3>1, <3>2, <3>3
    <3> QED BY <1>1, <1>5, <3>4 DEF Abstract!Write
  <2>6. SnapInv'
    <3> SUFFICES ASSUME NEW f \in Env, pc[f] \in HasChild, NEW u \in UserVa, Dupped(f, u)
                 PROVE  Snapshot(f, u)'
      BY <1>0, <1>3 DEF SnapInv, Dupped
    <3>1. f \in Live /\ child[f] \in Env /\ Snapshot(f, u)
      BY <1>0, <1>1 DEF ChildInv, HasChild, SnapInv, Live
    <3>2. pgtable[child[f]][u] \in Page /\ pgtable[child[f]][u] # NULL
      BY <1>0, <1>a, <3>1 DEF Snapshot, TypeOK
    <3>3. pgtable[child[f]][u] = q <=> u = a
      BY <1>a, <2>2, <3>1, <3>2
    <3>4. Value(f, u)' = IF u = a THEN w ELSE Value(f, u)
      BY <2>4, <3>1
    <3> QED BY <1>3, <1>4, <3>1, <3>2, <3>3, <3>4 DEF Snapshot
  <2>7. LayoutInv' /\ ShareInv' /\ TempInv' /\ FullInv'
    BY <1>0, <1>3 DEF LayoutInv, ShareInv, TempInv, FullInv
  <2> QED BY <2>5, <2>6, <2>7 DEF CopyInv
<1> QED BY <1>1, <1>8, <1>9

(***************************************************************************)
(* sys_env_set_status: the child starts, with a copy of all of its         *)
(* parent's memory.                                                        *)
(***************************************************************************)
LEMMA StartCopies ==
    ASSUME CowInv, CopyInv, NEW e \in Env, ForkStart(e)
    PROVE  CopyInv' /\ \E c \in Env : Abstract!Fork(e, c)
<1> USE CowAssumption
<1>0. TypeOK /\ ChildInv /\ HandlerInv /\ SnapInv /\ TempInv /\ FullInv
      /\ LayoutInv /\ ShareInv
  BY DEF CowInv, CopyInv
<1>1. PICK c \in Env : c = child[e]
  BY <1>0 DEF ForkStart, At, Running, ChildInv, HasChild
<1>2. /\ pc[e] = "start" /\ env_status[e] = "RUNNABLE"
      /\ env_status[c] = "NOT_RUNNABLE" /\ c # e /\ pf[c] = "none" /\ pc[c] = "run"
  BY <1>0, <1>1 DEF ForkStart, At, Running, ChildInv, HasChild
<1>3. /\ UNCHANGED <<pgtable, perm, content, pf, fault_va>>
      /\ env_status'[c] = "RUNNABLE" /\ pc'[e] = "run"
      /\ \A f \in Env : f # c => env_status'[f] = env_status[f]
      /\ \A f \in Env : f # e => /\ pc'[f] = pc[f] /\ dupva'[f] = dupva[f]
                                 /\ child'[f] = child[f]
  BY <1>0, <1>1 DEF ForkStart, Goto, TypeOK
<1>4. Live' = Live \cup {c} /\ c \notin Live /\ e \in Live
  BY <1>2, <1>3 DEF Live
<1>5. \A u \in UserVa : Snapshot(e, u)
  <2>1. dupva[e] = XSTACK
    BY <1>0, <1>2 DEF SnapInv, HasChild
  <2>2. \A u \in UserVa : Dupped(e, u)
    BY <2>1 DEF Dupped
  <2> QED BY <1>0, <1>2, <2>2 DEF SnapInv, HasChild
<1>6. ASSUME NEW f \in Env, NEW u \in UserVa
      PROVE  Value(f, u)' = IF f = c THEN Value(e, u) ELSE Value(f, u)
  <2>1. CASE f = c
    BY <1>1, <1>2, <1>3, <1>4, <1>5, <2>1 DEF Value, Snapshot
  <2>2. CASE f # c
    <3>1. f \in Live' <=> f \in Live
      BY <1>4, <2>2
    <3> QED BY <1>3, <2>2, <3>1 DEF Value
  <2> QED BY <2>1, <2>2
<1>7. Abstract!Fork(e, c)
  <2> DEFINE Row(f) == [u \in UserVa |-> Value(f, u)]
  <2>1. Row(c)' = Row(e)
    BY <1>6
  <2>2. \A f \in Env : f # c => Row(f)' = Row(f)
    BY <1>6
  <2>3. [f \in Env |-> Row(f)]' =
           [[f \in Env |-> Row(f)] EXCEPT ![c] = [f \in Env |-> Row(f)][e]]
    <3> HIDE DEF Row
    <3> QED BY <2>1, <2>2
  <2> QED BY <1>4, <2>3 DEF Abstract!Fork
<1>8. LayoutInv' /\ ShareInv'
  BY <1>0, <1>3 DEF LayoutInv, ShareInv
<1>9. FullInv'
  <2>1. \A u \in UserVa : pgtable[c][u] # NULL
    BY <1>1, <1>5 DEF Snapshot
  <2> QED BY <1>0, <1>3, <2>1 DEF FullInv
<1>10. TempInv'
  <2>1. Temp(e)'
    BY <1>0, <1>3 DEF Temp, TempInv
  <2>2. \A f \in Env : f # e => Temp(f)'
    BY <1>0, <1>3, TempOthers
  <2> QED BY <2>1, <2>2 DEF Temp, TempInv
<1>11. SnapInv'
  <2> SUFFICES ASSUME NEW f \in Env, pc'[f] \in HasChild
               PROVE  /\ pc'[f] \notin {"dup", "dupself"} => dupva'[f] = XSTACK
                      /\ \A va \in UserVa : Dupped(f, va)' => Snapshot(f, va)'
    BY DEF SnapInv
  <2>1. f # e /\ pc[f] \in HasChild /\ pc'[f] = pc[f] /\ dupva'[f] = dupva[f] /\ f # c
    BY <1>2, <1>3 DEF HasChild
  <2>2. ASSUME NEW va \in UserVa, Dupped(f, va)' PROVE Snapshot(f, va)'
    <3>1. Snapshot(f, va)
      BY <1>0, <2>1, <2>2 DEF SnapInv, Dupped
    <3>2. Value(f, va)' = Value(f, va)
      BY <1>6, <2>1
    <3> QED BY <1>3, <2>1, <3>1, <3>2 DEF Snapshot
  <2>3. pc'[f] \notin {"dup", "dupself"} => dupva'[f] = XSTACK
    BY <1>0, <2>1 DEF SnapInv
  <2> QED BY <2>2, <2>3
<1> QED BY <1>7, <1>8, <1>9, <1>10, <1>11 DEF CopyInv

(***************************************************************************)
(* env_destroy of a program, wherever it is in fork() or in pgfault().     *)
(***************************************************************************)
LEMMA DestroyCopies ==
    ASSUME CowInv, CopyInv, NEW e \in Env, env_status[e] = "RUNNABLE", Destroy(e)
    PROVE  CopyInv' /\ Abstract!Exit(e)
<1> USE CowAssumption
<1>0. TypeOK /\ ChildInv /\ MapInv /\ HandlerInv /\ SnapInv /\ TempInv /\ FullInv
      /\ LayoutInv /\ ShareInv
  BY DEF CowInv, CopyInv
<1>a. UserVa \subseteq Va /\ 0 \in Va /\ XSTACK \in Va
  OBVIOUS
<1>1. Unmapped(e)
  BY <1>0, DestroyEffect
<1>2. \A f \in Env, v \in Va : f # e =>
          pgtable'[f][v] = pgtable[f][v] /\ perm'[f][v] = perm[f][v]
  BY <1>1 DEF Unmapped
<1>3. \A v \in Va : pgtable'[e][v] = NULL /\ perm'[e][v] = "none"
  BY <1>1 DEF Unmapped
<1>4. /\ UNCHANGED content
      /\ env_status'[e] = "FREE" /\ pc'[e] = "run" /\ pf'[e] = "none"
      /\ \A f \in Env : f # e =>
            /\ env_status'[f] = env_status[f] /\ pc'[f] = pc[f] /\ pf'[f] = pf[f]
            /\ child'[f] = child[f] /\ dupva'[f] = dupva[f]
            /\ fault_va'[f] = fault_va[f]
  BY <1>0 DEF Destroy, TypeOK
<1>5. Live' = Live \ {e} /\ e \in Live
  BY <1>4 DEF Live
<1>6. ASSUME NEW f \in Env, NEW u \in UserVa
      PROVE  Value(f, u)' = IF f = e THEN ZERO ELSE Value(f, u)
  <2>1. CASE f = e
    BY <1>5, <2>1 DEF Value
  <2>2. CASE f # e
    <3>1. f \in Live' <=> f \in Live
      BY <1>5, <2>2
    <3> QED BY <1>2, <1>4, <1>a, <2>2, <3>1 DEF Value
  <2> QED BY <2>1, <2>2
<1>7. Abstract!Exit(e)
  <2> DEFINE Row(f) == [u \in UserVa |-> Value(f, u)]
  <2>1. Row(e)' = [u \in UserVa |-> ZERO]
    BY <1>6
  <2>2. \A f \in Env : f # e => Row(f)' = Row(f)
    BY <1>6
  <2>3. [f \in Env |-> Row(f)]' =
           [[f \in Env |-> Row(f)] EXCEPT ![e] = [u \in UserVa |-> ZERO]]
    <3> HIDE DEF Row
    <3> QED BY <2>1, <2>2
  <2> QED BY <1>5, <2>3 DEF Abstract!Exit, Abstract!Blank
<1>8. LayoutInv'
  BY <1>0, <1>2, <1>3, <1>a DEF LayoutInv
<1>9. ShareInv'
  <2> SUFFICES ASSUME NEW f \in Env, NEW g \in Env, NEW u \in Va, NEW v \in Va,
                      perm'[f][u] = "share"
               PROVE  /\ pgtable'[f][u] = pgtable'[g][v] => perm'[g][v] = "share" /\ u = v
                      /\ perm'[g][u] = "share" => pgtable'[f][u] = pgtable'[g][u]
    BY DEF ShareInv
  <2>1. f # e /\ perm[f][u] = "share" /\ pgtable'[f][u] = pgtable[f][u]
    BY <1>2, <1>3
  <2>2. pgtable[f][u] # NULL
    BY <1>0, <2>1 DEF MapInv
  <2>3. CASE g = e
    BY <1>3, <2>1, <2>2, <2>3
  <2>4. CASE g # e
    BY <1>0, <1>2, <2>1, <2>4 DEF ShareInv
  <2> QED BY <2>3, <2>4
<1>10. FullInv'
  BY <1>0, <1>2, <1>4, <1>a DEF FullInv
<1>11. TempInv'
  <2>1. Temp(e)'
    BY <1>3, <1>4, <1>a DEF Temp
  <2>2. \A f \in Env : f # e => Temp(f)'
    BY <1>0, <1>2, <1>4, TempOthers
  <2> QED BY <2>1, <2>2 DEF Temp, TempInv
<1>12. SnapInv'
  <2> SUFFICES ASSUME NEW f \in Env, pc'[f] \in HasChild
               PROVE  /\ pc'[f] \notin {"dup", "dupself"} => dupva'[f] = XSTACK
                      /\ \A va \in UserVa : Dupped(f, va)' => Snapshot(f, va)'
    BY DEF SnapInv
  <2>1. f # e /\ pc[f] \in HasChild /\ pc'[f] = pc[f] /\ dupva'[f] = dupva[f]
    BY <1>4 DEF HasChild
  <2>2. child[f] \in Env /\ child[f] # e
    BY <1>0, <2>1 DEF ChildInv
  <2>3. ASSUME NEW va \in UserVa, Dupped(f, va)' PROVE Snapshot(f, va)'
    <3>1. Snapshot(f, va)
      BY <1>0, <2>1, <2>3 DEF SnapInv, Dupped
    <3>2. Value(f, va)' = Value(f, va)
      BY <1>6, <2>1
    <3> QED BY <1>2, <1>4, <1>a, <2>1, <2>2, <3>1, <3>2 DEF Snapshot
  <2>4. pc'[f] \notin {"dup", "dupself"} => dupva'[f] = XSTACK
    BY <1>0, <2>1 DEF SnapInv
  <2> QED BY <2>3, <2>4
<1> QED BY <1>7, <1>8, <1>9, <1>10, <1>11, <1>12 DEF CopyInv

(***************************************************************************)
(* A program that load_icode has just loaded is alone and has pages of its *)
(* own, all cleared.                                                       *)
(***************************************************************************)
LEMMA CopyInit ==
    ASSUME Init
    PROVE  CopyInv /\ Abstract!Init
<1> USE CowAssumption
<1> DEFINE e0 == CHOOSE f \in Env : TRUE
           p0 == CHOOSE q \in [UserVa -> Page] :
                    \A u, v \in UserVa : q[u] = q[v] => u = v
<1>1. /\ e0 \in Env /\ p0 \in [UserVa -> Page]
      /\ \A u, v \in UserVa : p0[u] = p0[v] => u = v
  OBVIOUS
<1>2. /\ env_status = [f \in Env |-> IF f = e0 THEN "RUNNABLE" ELSE "FREE"]
      /\ pgtable = [f \in Env |-> [va \in Va |->
                IF f = e0 /\ va \in UserVa THEN p0[va] ELSE NULL]]
      /\ perm = [f \in Env |-> [va \in Va |->
                IF f = e0 /\ va \in UserVa THEN Layout[va] ELSE "none"]]
      /\ content = [q \in Page |-> ZERO]
      /\ pc = [f \in Env |-> "run"]
      /\ pf = [f \in Env |-> "none"]
  BY DEF Init
<1> HIDE DEF e0, p0
<1>a. UserVa \subseteq Va /\ 0 \in Va /\ 0 \notin UserVa /\ XSTACK \in Va
      /\ XSTACK \notin UserVa
  OBVIOUS
<1>3. Live = {e0}
  BY <1>1, <1>2 DEF Live
<1>4. ASSUME NEW f \in Env, NEW va \in UserVa PROVE Value(f, va) = ZERO
  <2>1. CASE f = e0
    <3>1. pgtable[f][va] \in Page
      BY <1>1, <1>2, <1>a, <2>1
    <3> QED BY <1>2, <3>1 DEF Value
  <2>2. CASE f # e0
    BY <1>3, <2>2 DEF Value
  <2> QED BY <2>1, <2>2
<1>5. Abstract!Init
  BY <1>1, <1>3, <1>4 DEF Abstract!Init, Abstract!Blank
<1>6. LayoutInv
  <2>1. \A va \in UserVa : Layout[va] \in Kinds(va)
    BY DEF Kinds
  <2>2. ASSUME NEW f \in Env, NEW va \in UserVa, pgtable[f][va] # NULL
        PROVE  perm[f][va] \in Kinds(va)
    BY <1>2, <1>a, <2>1, <2>2
  <2> QED BY <2>2 DEF LayoutInv
<1>7. ShareInv
  <2> SUFFICES ASSUME NEW e \in Env, NEW f \in Env, NEW u \in Va, NEW v \in Va,
                      perm[e][u] = "share"
               PROVE  /\ pgtable[e][u] = pgtable[f][v] => perm[f][v] = "share" /\ u = v
                      /\ perm[f][u] = "share" => pgtable[e][u] = pgtable[f][u]
    BY DEF ShareInv
  <2>1. e = e0 /\ u \in UserVa /\ pgtable[e][u] = p0[u] /\ p0[u] # NULL
    BY <1>1, <1>2
  <2>2. perm[f][u] = "share" => f = e0
    BY <1>2
  <2>3. pgtable[e][u] = pgtable[f][v] => f = e0 /\ v \in UserVa /\ pgtable[f][v] = p0[v]
    BY <1>2, <2>1
  <2> QED BY <1>1, <2>1, <2>2, <2>3
<1>8. TempInv
  BY <1>2, <1>a DEF TempInv
<1>9. FullInv
  BY <1>1, <1>2, <1>a DEF FullInv
<1>10. SnapInv
  BY <1>2 DEF SnapInv, HasChild
<1> QED BY <1>5, <1>6, <1>7, <1>8, <1>9, <1>10 DEF CopyInv

(***************************************************************************)
(* Every step keeps the invariant, and is a write, a fork or an exit, or   *)
(* is seen by nobody.                                                      *)
(***************************************************************************)
LEMMA CopyStep ==
    ASSUME CowInv, CopyInv, [Next]_vars
    PROVE  CopyInv' /\ (Abstract!Next \/ Calm)
<1>1. CASE UNCHANGED vars
  <2>1. CopyInv'
    BY <1>1 DEF vars, CopyInv, LayoutInv, ShareInv, TempInv, FullInv, SnapInv, Dupped,
                Snapshot, Value, Live
  <2>2. Calm
    BY <1>1 DEF vars, Calm, Value, Live
  <2> QED BY <2>1, <2>2
<1>2. ASSUME NEW e \in Env, ForkStep(e)
      PROVE  CopyInv' /\ (Abstract!Next \/ Calm)
  <2>1. CASE ForkStart(e)
    BY <2>1, StartCopies DEF Abstract!Next
  <2>2. CASE ~ForkStart(e)
    BY <1>2, <2>2, ControlCopies, XstackCopies, DupChildCopies, DupSelfCopies
       DEF ForkStep
  <2> QED BY <2>1, <2>2
<1>3. ASSUME NEW e \in Env, PgfaultStep(e) \/ CallFork(e)
      PROVE  CopyInv' /\ (Abstract!Next \/ Calm)
  BY <1>3, ControlCopies, PfMapCopies, PfAllocCopies, PfCopyCopies, PfUnmapCopies
     DEF PgfaultStep
<1>4. ASSUME NEW e \in Env, Exit(e) \/ \E va \in UserVa : FaultDestroys(e, va)
      PROVE  CopyInv' /\ (Abstract!Next \/ Calm)
  <2>1. env_status[e] = "RUNNABLE" /\ Destroy(e)
    BY <1>4 DEF Exit, FaultDestroys, Refused, Running
  <2> QED BY <2>1, DestroyCopies DEF Abstract!Next
<1>5. ASSUME NEW e \in Env, NEW va \in UserVa, NEW v \in Values, Write(e, va, v)
      PROVE  CopyInv' /\ (Abstract!Next \/ Calm)
  BY <1>5, WriteCopies DEF Abstract!Next
<1>6. ASSUME NEW e \in Env, NEW va \in UserVa, Fault(e, va)
      PROVE  CopyInv' /\ (Abstract!Next \/ Calm)
  BY <1>6, ControlCopies
<1> QED BY <1>1, <1>2, <1>3, <1>4, <1>5, <1>6 DEF Next

(***************************************************************************)
(* fork() with copy-on-write implements fork() with a copy: the child      *)
(* starts with its parent's memory at the instant of sys_env_set_status,   *)
(* and from then on no write of one is seen by the other, except in the    *)
(* pages marked PTE_SHARE.  For any number of programs, addresses, pages   *)
(* and values, and whatever the order of the steps.                        *)
(***************************************************************************)
THEOREM ForkIsACopy == Spec => IsACopy
<1>1. Init => CopyInv /\ Abstract!Init
  BY CopyInit
<1>2. CowInv /\ CopyInv /\ [Next]_vars => CopyInv'
  BY CopyStep
<1>3. CowInv /\ CopyInv /\ [Next]_vars =>
         [Abstract!Next]_<<Live, [e \in Env |-> [va \in UserVa |-> Value(e, va)]]>>
  BY CopyStep, CalmStutters
<1> QED BY <1>1, <1>2, <1>3, CowInvariant, PTL DEF Spec, IsACopy, Abstract!Spec
=============================================================================
