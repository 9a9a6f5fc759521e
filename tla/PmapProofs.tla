----------------------------- MODULE PmapProofs -----------------------------
(***************************************************************************)
(* Physical pages, address spaces and cached translations, for every       *)
(* number of CPUs, environments, pages and addresses.                      *)
(*                                                                         *)
(* 1. TLBs.  The kernel never interrupts another CPU to flush its TLB.     *)
(*    A handler changes the mappings of one environment.  No other CPU     *)
(*    executes it, because no environment is on two CPUs (OneCpu), unless  *)
(*    it is a child of the caller; the handler's own CPU reloads %cr3 on   *)
(*    the way out.  So only a parent makes a translation stale.            *)
(* 2. Reference counts.  pp_ref follows the number of pointers modulo its  *)
(*    width (MemInv), whatever programs do; while no page has REFLIMIT     *)
(*    pointers it is that number, and then the free list and the private   *)
(*    tables are right too (UseInv).                                       *)
(***************************************************************************)
EXTENDS Pmap, FiniteSetTheorems, TLAPS

(***************************************************************************)
(* Counters that wrap: remainders by a width that is not known.            *)
(***************************************************************************)

\* The remainder of a multiple of the width and a smaller count is that count.
LEMMA ModOfSum ==
  ASSUME NEW n \in Nat \ {0}, NEW k \in Int, NEW e \in 0 .. n - 1
  PROVE  (n * k + e) % n = e
  <1>1. PICK q \in Int, r \in 0 .. n - 1 :
            r = (n * k + e) % n /\ q = (n * k + e) \div n
    OBVIOUS
  <1>2. n * k + e = n * q + r /\ n * k \in Int /\ n * q \in Int
    BY <1>1
  <1>3. ASSUME NEW u \in Int, NEW v \in Int, u < v PROVE n * u + n <= n * v
    <2>1. n * (u + 1) <= n * v
      BY <1>3
    <2>2. QED
      BY <2>1
  <1>4. k = q
    BY <1>2, <1>3
  <1>5. QED
    BY <1>1, <1>2, <1>4

\* Remainders of counts that did not wrap, of those that wrapped once up or down.
LEMMA ModNear ==
  ASSUME NEW n \in Nat \ {0}, NEW x \in Int
  PROVE  /\ x \in 0 .. n - 1 => x % n = x
         /\ x \in n .. n + n - 1 => x % n = x - n
         /\ x \in -n .. -1 => x % n = x + n
  <1>1. ASSUME NEW k \in Int, x - n * k \in 0 .. n - 1
        PROVE  x % n = x - n * k
    <2>1. (n * k + (x - n * k)) % n = x - n * k
      BY <1>1, ModOfSum
    <2>2. QED
      BY <2>1
  <1>2. n * 0 = 0 /\ n * 1 = n /\ n * (-1) = -n
    OBVIOUS
  <1>3. QED
    BY <1>1, <1>2

\* The counts wrap: one may be reduced before another is added to it.
LEMMA ModOfMod ==
  ASSUME NEW n \in Nat \ {0}, NEW a \in Int, NEW b \in Int
  PROVE  a % n \in 0 .. n - 1 /\ ((a % n) + b) % n = (a + b) % n
  <1>1. PICK q \in Int, r \in 0 .. n - 1 : r = a % n /\ q = a \div n
    OBVIOUS
  <1>2. PICK k \in Int, s \in 0 .. n - 1 : s = (r + b) % n /\ k = (r + b) \div n
    OBVIOUS
  <1>3. a = n * q + r /\ r + b = n * k + s
    BY <1>1, <1>2
  <1>4. n * (q + k) = n * q + n * k /\ n * q \in Int /\ n * k \in Int
    OBVIOUS
  <1>5. a + b = n * (q + k) + s
    BY <1>3, <1>4
  <1>6. (n * (q + k) + s) % n = s
    BY ModOfSum
  <1>7. QED
    BY <1>1, <1>2, <1>5, <1>6, Zenon

Tlbs == [CPU -> [Va -> Page \cup {NULL}]]

\* The inductive invariant: no environment is on two CPUs.
TlbInv ==
    /\ page_free_list \subseteq Page
    /\ cpu_env \in [CPU -> Env \cup {NULL}]
    /\ pgtable \in [Env -> [Va -> Page \cup {NULL}]]
    /\ tlb \in Tlbs
    /\ OneCpu

\* The memory after a step has its type, and only e's mappings have changed.
OnlyMaps(e) ==
    /\ page_free_list' \subseteq Page
    /\ pgtable' \in [Env -> [Va -> Page \cup {NULL}]]
    /\ \A f \in Env \ {e} : pgtable'[f] = pgtable[f]

\* t are TLBs that a handler on CPU c may leave: only its own has changed.
OwnTlb(c, t) == t \in Tlbs /\ \A d \in CPU \ {c} : t[d] = tlb[d]

\* page_remove touches the TLB of its own CPU only.
LEMMA RemovedIsOwn ==
  ASSUME TlbInv, NEW c \in CPU, NEW e \in Env, NEW va \in Va
  PROVE  OwnTlb(c, tlb) /\ OwnTlb(c, TlbAfterRemove(c, e, va))
  BY DEF TlbInv, Tlbs, OwnTlb, TlbAfterRemove, TlbInvalidate

\* A step of CPU c that ends with Enter and changes only the mappings of f: a
\* translation of another CPU goes stale only if that CPU executes f.
LEMMA EnterStep ==
  ASSUME TlbInv, NEW c \in CPU, NEW e \in Env \cup {NULL},
         NEW t, OwnTlb(c, t), Enter(c, e, t),
         \A d \in CPU \ {c} : e = NULL \/ cpu_env[d] # e,
         NEW f, OnlyMaps(f),
         \A d \in CPU \ {c} : cpu_env[d] = f /\ f # NULL =>
            cpu_env[c] # NULL /\ cpu_env[c] = env_parent[f] /\ e = cpu_env[c]
  PROVE  TlbInv' /\ StaleStep
  <1>1. cpu_env' \in [CPU -> Env \cup {NULL}] /\ OneCpu'
    BY DEF TlbInv, Enter, OneCpu
  <1>2. tlb' \in Tlbs
    BY DEF TlbInv, Enter, NoEntries, Tlbs, OwnTlb
  <1>3. StaleStep
    <2> SUFFICES ASSUME NEW d \in CPU, NEW va \in Va, Stale(d, va)'
                 PROVE  /\ cpu_env'[d] = cpu_env[d] /\ tlb'[d][va] = tlb[d][va]
                        /\ Stale(d, va) \/ ParentActs(d)
      BY DEF StaleStep
    <2>1. d # c
      BY DEF Stale, OwnTlb, Tlbs, Enter, NoEntries
    <2>2. tlb'[d] = tlb[d] /\ cpu_env'[d] = cpu_env[d]
      BY <2>1 DEF TlbInv, Tlbs, OwnTlb, Enter
    <2>3. CASE cpu_env[d] = NULL
      BY <2>2, <2>3 DEF Stale
    <2>4. CASE cpu_env[d] # NULL /\ cpu_env[d] # f
      <3>1. pgtable'[cpu_env[d]] = pgtable[cpu_env[d]]
        BY <2>4 DEF OnlyMaps, TlbInv
      <3>2. QED
        BY <2>2, <2>4, <3>1 DEF Stale
    <2>5. CASE cpu_env[d] # NULL /\ cpu_env[d] = f
      <3>1. cpu_env[c] # NULL /\ cpu_env[c] = env_parent[cpu_env[d]]
        BY <2>1, <2>5
      <3>2. cpu_env'[c] = cpu_env[c]
        BY <2>1, <2>5 DEF Enter, TlbInv
      <3>3. QED
        BY <2>1, <2>2, <3>1, <3>2 DEF ParentActs
    <2>6. QED
      BY <2>3, <2>4, <2>5
  <1>4. QED
    BY <1>1, <1>2, <1>3 DEF TlbInv, OnlyMaps

\* A handler on CPU c changes mappings of f, its own environment, a child, or
\* one that is on no CPU, and returns to its environment.
LEMMA ReturnStep ==
  ASSUME TlbInv, NEW c \in CPU, NEW t, OwnTlb(c, t), Return(c, t),
         NEW f \in Env, OnlyMaps(f), Target(c, f) \/ f = cpu_env[c] \/ ~OnCpu(f)
  PROVE  TlbInv' /\ StaleStep
  <1>1. cpu_env[c] \in Env /\ cpu_env[c] # NULL /\ Enter(c, cpu_env[c], t)
    BY DEF Return, TlbInv
  <1>2. \A d \in CPU \ {c} : cpu_env[d] # cpu_env[c]
    BY <1>1 DEF TlbInv, OneCpu
  <1>3. \A d \in CPU \ {c} : cpu_env[d] = f => cpu_env[c] = env_parent[f]
    BY <1>2 DEF OnCpu, Target
  <1>4. QED
    BY <1>1, <1>2, <1>3, EnterStep

\* page_insert sets one mapping of e.
LEMMA InsertMaps ==
  ASSUME TlbInv, NEW e \in Env, NEW pp \in Page, NEW va \in Va,
         NEW free \in SUBSET Page, PageInsert(e, pp, va, free)
  PROVE  OnlyMaps(e)
  <1>1. pgtable' = [pgtable EXCEPT ![e][va] = pp]
    BY DEF PageInsert
  <1>2. pgtable[e][va] \in Page \cup {NULL}
    BY DEF TlbInv
  <1>3. page_free_list' \subseteq Page
    BY <1>2 DEF PageInsert, WithoutTable, FreedByInsert
  <1>4. QED
    BY <1>1, <1>3 DEF TlbInv, OnlyMaps

\* page_remove clears one mapping of e.
LEMMA RemoveMaps ==
  ASSUME TlbInv, NEW e \in Env, NEW va \in Va, PageRemove(e, va)
  PROVE  OnlyMaps(e)
  <1>1. pgtable[e][va] \in Page \cup {NULL}
    BY DEF TlbInv
  <1>2. CASE pgtable[e][va] = NULL
    BY <1>2 DEF PageRemove, memVars, TlbInv, OnlyMaps
  <1>3. CASE pgtable[e][va] # NULL
    <2>1. pgtable' = [pgtable EXCEPT ![e][va] = NULL]
      BY <1>3 DEF PageRemove
    <2>2. page_free_list' \subseteq Page
      BY <1>1, <1>3 DEF PageRemove, TlbInv
    <2>3. QED
      BY <2>1, <2>2 DEF TlbInv, OnlyMaps
  <1>4. QED
    BY <1>2, <1>3

\* env_free clears the mappings of e.
LEMMA FreeMaps ==
  ASSUME TlbInv, NEW e \in Env, EnvFree(e)
  PROVE  OnlyMaps(e)
  <1>1. pgtable' = [pgtable EXCEPT ![e] = NoEntries]
    BY DEF EnvFree
  <1>2. NoEntries \in [Va -> Page \cup {NULL}]
    BY DEF NoEntries
  <1>3. page_free_list' \subseteq Page
    BY DEF EnvFree, TlbInv
  <1>4. QED
    BY <1>1, <1>2, <1>3 DEF TlbInv, OnlyMaps

\* Boot establishes the invariant: no CPU executes an environment.
LEMMA InitTlb == Init => TlbInv
  <1> SUFFICES ASSUME Init PROVE TlbInv
    OBVIOUS
  <1>1. PICK e \in Env, dir \in Page,
             table \in [{PDX(va) : va \in Image} -> Page],
             page \in [Image -> Page] : Created(e, dir, table, page)
    BY DEF Init
  <1>2. pgtable = [f \in Env |-> [va \in Va |->
                      IF f = e /\ va \in Image THEN page[va] ELSE NULL]]
    BY <1>1 DEF Created
  <1>3. pgtable \in [Env -> [Va -> Page \cup {NULL}]]
    BY <1>2
  <1>4. page_free_list \subseteq Page
    BY <1>1 DEF Created
  <1>5. cpu_env \in [CPU -> Env \cup {NULL}] /\ tlb \in Tlbs /\ OneCpu
    BY DEF Init, NoEntries, OneCpu, Tlbs
  <1>6. QED
    BY <1>3, <1>4, <1>5 DEF TlbInv

\* Every handler and every translation by the hardware keeps it, and makes a
\* translation stale only if it is the parent's.
LEMMA NextTlb ==
  ASSUME TlbInv, [Next]_vars
  PROVE  TlbInv' /\ [StaleStep]_vars
  <1>1. CASE UNCHANGED vars
    BY <1>1 DEF vars, memVars, TlbInv, OneCpu
  <1>2. ASSUME NEW c \in CPU, DestroySelf(c) PROVE TlbInv' /\ StaleStep
    <2> DEFINE t == [tlb EXCEPT ![c] = NoEntries]
    <2>1. cpu_env[c] \in Env /\ EnvFree(cpu_env[c]) /\ Enter(c, NULL, t)
      BY <1>2 DEF DestroySelf, TlbInv
    <2>2. \A d \in CPU \ {c} : cpu_env[d] # cpu_env[c]
      BY <1>2, <2>1 DEF DestroySelf, TlbInv, OneCpu
    <2>3. OwnTlb(c, t)
      BY DEF TlbInv, Tlbs, OwnTlb, NoEntries
    <2>4. OnlyMaps(cpu_env[c])
      BY <2>1, FreeMaps
    <2> HIDE DEF t
    <2>5. QED
      BY <2>1, <2>2, <2>3, <2>4, EnterStep
  <1>3. ASSUME NEW c \in CPU, NEW e \in Env, SysExofork(c, e)
        PROVE  TlbInv' /\ StaleStep
    <2>1. Return(c, tlb) /\ cpu_env[c] \in Env
      BY <1>3 DEF SysExofork, Return, TlbInv
    <2>2. OnlyMaps(cpu_env[c])
      BY <1>3 DEF SysExofork, OnlyMaps, TlbInv
    <2>3. QED
      BY <2>1, <2>2, ReturnStep DEF OwnTlb, TlbInv
  <1>4. ASSUME NEW c \in CPU, NEW e \in Env, DestroyOther(c, e)
        PROVE  TlbInv' /\ StaleStep
    <2>1. ~OnCpu(e) /\ EnvFree(e) /\ Return(c, tlb)
      BY <1>4 DEF DestroyOther
    <2>2. QED
      BY <2>1, FreeMaps, ReturnStep DEF OwnTlb, TlbInv
  <1>5. ASSUME NEW c \in CPU, NEW e \in Env \cup {NULL}, SchedYield(c, e)
        PROVE  TlbInv' /\ StaleStep
    <2>1. /\ Enter(c, e, tlb)
          /\ e # NULL => \A d \in CPU \ {c} : cpu_env[d] # e
          /\ page_free_list' = page_free_list /\ pgtable' = pgtable
      BY <1>5 DEF SchedYield, memVars
    <2>2. OnlyMaps(NULL) /\ OwnTlb(c, tlb)
      BY <2>1 DEF OnlyMaps, OwnTlb, TlbInv
    <2>3. QED
      BY <2>1, <2>2, EnterStep
  <1>6. ASSUME NEW c \in CPU, NEW e \in Env, NEW va \in Va,
               SysPageAlloc(c, e, va)
        PROVE  TlbInv' /\ StaleStep
    <2>1. PICK pp \in page_free_list :
                    PageInsert(e, pp, va, page_free_list \ {pp})
      BY <1>6 DEF SysPageAlloc
    <2>2. OnlyMaps(e)
      BY <2>1, InsertMaps DEF TlbInv
    <2>3. QED
      BY <1>6, <2>2, RemovedIsOwn, ReturnStep DEF SysPageAlloc
  <1>7. ASSUME NEW c \in CPU, NEW e \in Env, NEW va \in Va,
               SysPageAllocNoTable(c, e, va)
        PROVE  TlbInv' /\ StaleStep
    <2>1. page_free_list' \subseteq Page /\ pgtable' = pgtable
      BY <1>7 DEF SysPageAllocNoTable, TlbInv
    <2>2. OnlyMaps(e)
      BY <2>1 DEF OnlyMaps, TlbInv
    <2>3. QED
      BY <1>7, <2>2, RemovedIsOwn, ReturnStep DEF SysPageAllocNoTable
  <1>8. ASSUME NEW c \in CPU, NEW e \in Env, NEW va \in Va,
               SysPageUnmap(c, e, va)
        PROVE  TlbInv' /\ StaleStep
    BY <1>8, RemoveMaps, RemovedIsOwn, ReturnStep DEF SysPageUnmap
  <1>9. ASSUME NEW c \in CPU, NEW se \in Env, NEW de \in Env,
               NEW srcva \in Va, NEW dstva \in Va,
               SysPageMap(c, se, srcva, de, dstva)
        PROVE  TlbInv' /\ StaleStep
    <2>1. pgtable[se][srcva] \in Page
      BY <1>9 DEF SysPageMap, TlbInv
    <2>2. OnlyMaps(de)
      BY <1>9, <2>1, InsertMaps DEF SysPageMap, TlbInv
    <2>3. QED
      BY <1>9, <2>2, RemovedIsOwn, ReturnStep DEF SysPageMap
  <1>10. ASSUME NEW c \in CPU, NEW rcv \in Env, NEW srcva \in Va,
                NEW dstva \in Va, SysIpcTrySend(c, srcva, rcv, dstva)
         PROVE  TlbInv' /\ StaleStep
    <2>1. cpu_env[c] \in Env /\ pgtable[cpu_env[c]][srcva] \in Page
      BY <1>10 DEF SysIpcTrySend, TlbInv
    <2>2. OnlyMaps(rcv)
      BY <1>10, <2>1, InsertMaps DEF SysIpcTrySend, TlbInv
    <2>3. QED
      BY <1>10, <2>2, RemovedIsOwn, ReturnStep DEF SysIpcTrySend
  <1>11. ASSUME NEW c \in CPU, NEW va \in Va, Touch(c, va)
         PROVE  TlbInv' /\ StaleStep
    <2>1. /\ cpu_env[c] \in Env /\ cpu_env[c] # NULL
          /\ tlb' = [tlb EXCEPT ![c][va] = pgtable[cpu_env[c]][va]]
          /\ UNCHANGED <<page_free_list, cpu_env, pgtable>>
      BY <1>11 DEF Touch, memVars, TlbInv
    <2>2. tlb' \in Tlbs
      BY <1>11, <2>1 DEF TlbInv, Tlbs
    <2>3. ASSUME NEW d \in CPU, NEW wa \in Va, Stale(d, wa)'
          PROVE  tlb'[d][wa] = tlb[d][wa] /\ Stale(d, wa)
      <3>1. d # c \/ wa # va
        BY <2>1, <2>3 DEF Stale, TlbInv, Tlbs
      <3>2. tlb'[d][wa] = tlb[d][wa]
        BY <2>1, <3>1 DEF TlbInv, Tlbs
      <3>3. QED
        BY <2>1, <2>3, <3>2 DEF Stale
    <2>4. QED
      BY <2>1, <2>2, <2>3 DEF TlbInv, OneCpu, StaleStep
  <1>12. QED
    BY <1>1, <1>2, <1>3, <1>4, <1>5, <1>6, <1>7, <1>8, <1>9, <1>10, <1>11
       DEF Next

\* page_remove/env_run: although no TLB is flushed remotely, a translation goes
\* stale only when the parent of the environment that uses it changes the
\* mapping, and it is gone when its CPU has next been in the kernel.
THEOREM TranslationsGoStaleByParentOnly == Spec => StaleOnlyByParent
  <1>1. Spec => [][TlbInv /\ TlbInv']_vars
    BY InitTlb, NextTlb, PTL DEF Spec
  <1>2. QED
    BY InitTlb, NextTlb, PTL DEF Spec, StaleOnlyByParent

-----------------------------------------------------------------------------
(***************************************************************************)
(* Counting pointers.  A table t of the kernel gives each environment a    *)
(* page, or none, for each key in K: pgdir with K = Pdx, pgtable with      *)
(* K = Va.                                                                 *)
(***************************************************************************)
\* How many of one entry, x, are y.
Same(x, y) == IF x = y THEN 1 ELSE 0

Where(t, K, p) == {x \in Env \X K : t[x[1]][x[2]] = p}

Holders(t, p) == {e \in Env : t[e] = p}

\* What Pointers counts, by table.
LEMMA PointersSplit ==
  ASSUME NEW p
  PROVE  Pointers(p) = Cardinality(Holders(env_pgdir, p))
                       + Cardinality(Where(pgdir, Pdx, p))
                       + Cardinality(Where(pgtable, Va, p))
  BY DEF Pointers, Holders, Where

\* There are finitely many addresses.
LEMMA VaFinite == IsFiniteSet(Va)
  BY SizeAssumption, FS_Product DEF Va

\* The pointers to a page in a table are finitely many.
LEMMA WhereFinite ==
  ASSUME NEW K, IsFiniteSet(K), NEW t, NEW p
  PROVE  /\ IsFiniteSet(Where(t, K, p))
         /\ Cardinality(Where(t, K, p)) \in Nat
  <1>1. IsFiniteSet(Env \X K)
    BY SizeAssumption, FS_Product
  <1>2. Where(t, K, p) \in SUBSET (Env \X K)
    BY DEF Where
  <1>3. QED
    BY <1>1, <1>2, FS_Subset, FS_CardinalityType

\* The directories of a page are finitely many.
LEMMA HoldersFinite ==
  ASSUME NEW t, NEW p
  PROVE  /\ IsFiniteSet(Holders(t, p))
         /\ Cardinality(Holders(t, p)) \in Nat
  <1>1. Holders(t, p) \in SUBSET Env
    BY DEF Holders
  <1>2. QED
    BY <1>1, SizeAssumption, FS_Subset, FS_CardinalityType

\* Table u is table t with page q written at key k of e.
Written(t, u, K, e, k, q) ==
    /\ IsFiniteSet(K) /\ e \in Env /\ k \in K
    /\ u[e][k] = q
    /\ \A f \in Env, j \in K : f # e \/ j # k => u[f][j] = t[f][j]

\* Writing one entry of a table adds a pointer to the new page and takes one
\* from the old.
LEMMA SetEntry ==
  ASSUME NEW t, NEW u, NEW K, NEW e, NEW k, NEW q, NEW p,
         Written(t, u, K, e, k, q)
  PROVE  Cardinality(Where(u, K, p)) =
             Cardinality(Where(t, K, p)) + Same(q, p) - Same(t[e][k], p)
  <1> DEFINE x == <<e, k>>
             old == t[e][k]
             A == Where(t, K, p)
             B == Where(u, K, p)
  <1>1. IsFiniteSet(A) /\ IsFiniteSet(B)
    BY WhereFinite DEF Written
  <1>2. /\ x \in A <=> old = p
        /\ x \in B <=> q = p
        /\ \A y : y # x => (y \in A <=> y \in B)
    <2>1. /\ u[e][k] = q /\ e \in Env /\ k \in K
          /\ \A y \in Env \X K : y # x => u[y[1]][y[2]] = t[y[1]][y[2]]
      BY DEF Written
    <2>2. QED
      BY <2>1 DEF Where
  <1> HIDE DEF A, B, x, old
  <1>3. /\ Cardinality(A \ {x}) = IF x \in A THEN Cardinality(A) - 1 ELSE Cardinality(A)
        /\ Cardinality(B \ {x}) = IF x \in B THEN Cardinality(B) - 1 ELSE Cardinality(B)
    BY <1>1, FS_RemoveElement
  <1>4. A \ {x} = B \ {x}
    BY <1>2
  <1>4a. Cardinality(A \ {x}) = Cardinality(B \ {x})
    BY <1>4, Zenon
  <1>5. Cardinality(A) \in Nat /\ Cardinality(B) \in Nat
    BY <1>1, FS_CardinalityType
  <1>6. Cardinality(B) = Cardinality(A) + Same(q, p) - Same(old, p)
    BY <1>2, <1>3, <1>4a, <1>5 DEF Same
  <1>7. QED
    BY <1>6 DEF A, B, old

\* The same for the directories.
WrittenDir(t, u, e, q) ==
    /\ e \in Env
    /\ u[e] = q
    /\ \A f \in Env \ {e} : u[f] = t[f]

\* Giving an environment a directory, or none, moves one pointer.
LEMMA SetHolder ==
  ASSUME NEW t, NEW u, NEW e, NEW q, NEW p, WrittenDir(t, u, e, q)
  PROVE  Cardinality(Holders(u, p)) =
             Cardinality(Holders(t, p)) + Same(q, p) - Same(t[e], p)
  <1> DEFINE A == Holders(t, p)
             B == Holders(u, p)
  <1>1. IsFiniteSet(A) /\ IsFiniteSet(B)
    BY HoldersFinite
  <1>2. /\ e \in A <=> t[e] = p
        /\ e \in B <=> q = p
        /\ \A y : y # e => (y \in A <=> y \in B)
    BY DEF Holders, WrittenDir
  <1> HIDE DEF A, B
  <1>3. /\ Cardinality(A \ {e}) = IF e \in A THEN Cardinality(A) - 1 ELSE Cardinality(A)
        /\ Cardinality(B \ {e}) = IF e \in B THEN Cardinality(B) - 1 ELSE Cardinality(B)
    BY <1>1, FS_RemoveElement
  <1>4. A \ {e} = B \ {e}
    BY <1>2
  <1>4a. Cardinality(A \ {e}) = Cardinality(B \ {e})
    BY <1>4, Zenon
  <1>5. Cardinality(A) \in Nat /\ Cardinality(B) \in Nat
    BY <1>1, FS_CardinalityType
  <1>6. Cardinality(B) = Cardinality(A) + Same(q, p) - Same(t[e], p)
    BY <1>2, <1>3, <1>4a, <1>5 DEF Same
  <1>7. QED
    BY <1>6 DEF A, B

\* Table u is table t but for e's entries; none of e's is p any more.
Cleared(t, u, K, e, p) ==
    /\ IsFiniteSet(K) /\ e \in Env
    /\ \A k \in K : u[e][k] # p
    /\ \A f \in Env \ {e} : u[f] = t[f]

\* Clearing an environment's entries takes away the pointers from there.
LEMMA ClearEntries ==
  ASSUME NEW t, NEW u, NEW K, NEW e, NEW p, Cleared(t, u, K, e, p)
  PROVE  /\ Cardinality({k \in K : t[e][k] = p}) \in Nat
         /\ Cardinality(Where(u, K, p)) =
                Cardinality(Where(t, K, p)) - Cardinality({k \in K : t[e][k] = p})
  <1> DEFINE mine == {k \in K : t[e][k] = p}
             pair == [k \in mine |-> <<e, k>>]
             P == {<<e, k>> : k \in mine}
             A == Where(t, K, p)
             B == Where(u, K, p)
  <1>1. IsFiniteSet(mine) /\ IsFiniteSet(A)
    <2>1. mine \in SUBSET K
      OBVIOUS
    <2>2. QED
      BY <2>1, FS_Subset, WhereFinite DEF Cleared
  <1>2. pair \in Bijection(mine, P)
    BY DEF Bijection, Injection, Surjection, IsInjective
  <1>3. IsFiniteSet(P) /\ Cardinality(P) = Cardinality(mine)
    BY <1>1, <1>2, FS_Bijection DEF ExistsBijection
  <1>4. A \cap P = P
    BY DEF Where, Cleared
  <1>5. B = A \ P
    <2>1. \A x \in Env \X K : u[x[1]][x[2]] = p <=> x[1] # e /\ t[x[1]][x[2]] = p
      BY DEF Cleared
    <2>2. \A x \in Env \X K : x \in P <=> x[1] = e /\ t[e][x[2]] = p
      OBVIOUS
    <2> HIDE DEF P
    <2>3. QED
      BY <2>1, <2>2 DEF Where
  <1> HIDE DEF mine, pair, P, A, B
  <1>6. Cardinality(B) = Cardinality(A) - Cardinality(A \cap P)
    BY <1>1, <1>5, FS_Difference
  <1>7. Cardinality(mine) \in Nat
    BY <1>1, FS_CardinalityType
  <1>8. QED
    BY <1>3, <1>4, <1>6, <1>7 DEF mine, A, B

-----------------------------------------------------------------------------
(* pp_ref is a uint16_t: it counts modulo REFLIMIT *)

Counts(ref, n) ==
    /\ ref \in [Page -> 0 .. REFLIMIT - 1]
    /\ n \in [Page -> Int]
    /\ \A p \in Page : ref[p] = n[p] % REFLIMIT

\* pp_ref++ counts one pointer more.
LEMMA IncrCounts ==
  ASSUME NEW ref, NEW n, Counts(ref, n), NEW q \in Page
  PROVE  Counts(Incr(ref, q), [p \in Page |-> n[p] + Same(q, p)])
  <1> DEFINE R == REFLIMIT
             new == Incr(ref, q)
  <1>1. R \in Nat \ {0}
    BY PmapAssumption
  <1>2. ASSUME NEW p \in Page
        PROVE  new[p] \in 0 .. R - 1 /\ new[p] = (n[p] + Same(q, p)) % R
    <2>1. n[p] \in Int /\ ref[p] = n[p] % R /\ ref[p] \in 0 .. R - 1
      BY DEF Counts
    <2>2. CASE q = p
      <3>1. new[p] = (ref[p] + 1) % R
        BY <2>2 DEF Incr, Counts
      <3>2. ((n[p] % R) + 1) % R = (n[p] + 1) % R
        BY <1>1, <2>1, ModOfMod
      <3>3. (n[p] + 1) % R \in 0 .. R - 1
        BY <1>1, <2>1
      <3> HIDE DEF new, R
      <3>4. new[p] = (n[p] + 1) % R
        BY <2>1, <3>1, <3>2, Zenon
      <3>5. n[p] + Same(q, p) = n[p] + 1
        BY <2>2 DEF Same
      <3>6. QED
        BY <3>3, <3>4, <3>5, Zenon
    <2>3. CASE q # p
      <3>1. new[p] = ref[p]
        BY <2>3 DEF Incr, Counts
      <3>2. n[p] + Same(q, p) = n[p]
        BY <2>1, <2>3 DEF Same
      <3> HIDE DEF new, R
      <3>3. QED
        BY <2>1, <3>1, <3>2, Zenon
    <2>4. QED
      BY <2>2, <2>3
  <1>3. new \in [Page -> 0 .. R - 1]
    <2>1. DOMAIN new = Page /\ new = [p \in Page |-> new[p]]
      BY DEF Incr, Counts
    <2> HIDE DEF new, R
    <2>2. QED
      BY <1>2, <2>1
  <1>4. [p \in Page |-> n[p] + Same(q, p)] \in [Page -> Int]
    BY DEF Counts, Same
  <1> HIDE DEF new, R
  <1>5. Counts(new, [p \in Page |-> n[p] + Same(q, p)])
    BY <1>2, <1>3, <1>4 DEF Counts, R
  <1>6. QED
    BY <1>5 DEF new

\* pp_ref-- counts one pointer less.
LEMMA DecrCounts ==
  ASSUME NEW ref, NEW n, Counts(ref, n), NEW q \in Page
  PROVE  Counts(Decr(ref, q), [p \in Page |-> n[p] - Same(q, p)])
  <1> DEFINE R == REFLIMIT
             new == Decr(ref, q)
  <1>1. R \in Nat \ {0}
    BY PmapAssumption
  <1>2. ASSUME NEW p \in Page
        PROVE  new[p] \in 0 .. R - 1 /\ new[p] = (n[p] - Same(q, p)) % R
    <2>1. n[p] \in Int /\ ref[p] = n[p] % R /\ ref[p] \in 0 .. R - 1
      BY DEF Counts
    <2>2. CASE q = p
      <3>1. new[p] = (ref[p] + (-1)) % R
        BY <2>2 DEF Decr, Counts
      <3>1a. -1 \in Int
        OBVIOUS
      <3>2. ((n[p] % R) + (-1)) % R = (n[p] + (-1)) % R
        BY <1>1, <2>1, <3>1a, ModOfMod, Zenon
      <3>3. (n[p] + (-1)) % R \in 0 .. R - 1
        BY <1>1, <2>1
      <3> HIDE DEF new, R
      <3>4. new[p] = (n[p] + (-1)) % R
        BY <2>1, <3>1, <3>2, Zenon
      <3>5. n[p] - Same(q, p) = n[p] + (-1)
        BY <2>1, <2>2 DEF Same
      <3>6. QED
        BY <3>3, <3>4, <3>5, Zenon
    <2>3. CASE q # p
      <3>1. new[p] = ref[p]
        BY <2>3 DEF Decr, Counts
      <3>2. n[p] - Same(q, p) = n[p]
        BY <2>1, <2>3 DEF Same
      <3> HIDE DEF new, R
      <3>3. QED
        BY <2>1, <3>1, <3>2, Zenon
    <2>4. QED
      BY <2>2, <2>3
  <1>3. new \in [Page -> 0 .. R - 1]
    <2>1. DOMAIN new = Page /\ new = [p \in Page |-> new[p]]
      BY DEF Decr, Counts
    <2> HIDE DEF new, R
    <2>2. QED
      BY <1>2, <2>1
  <1>4. [p \in Page |-> n[p] - Same(q, p)] \in [Page -> Int]
    BY DEF Counts, Same
  <1> HIDE DEF new, R
  <1>5. Counts(new, [p \in Page |-> n[p] - Same(q, p)])
    BY <1>2, <1>3, <1>4 DEF Counts, R
  <1>6. QED
    BY <1>5 DEF new

\* Every reference count is the number of pointers, modulo REFLIMIT.
CountInv == Counts(pp_ref, [p \in Page |-> Pointers(p)])

\* The types of the tables.
TablesOK ==
    /\ env_pgdir \in [Env -> Page \cup {NULL}]
    /\ pgdir \in [Env -> [Pdx -> Page \cup {NULL}]]
    /\ pgtable \in [Env -> [Va -> Page \cup {NULL}]]

\* The number of pointers to a page is a number.
LEMMA PointersNat ==
  ASSUME NEW p
  PROVE  /\ Pointers(p) \in Nat
         /\ Cardinality(Holders(env_pgdir, p)) \in Nat
         /\ Cardinality(Where(pgdir, Pdx, p)) \in Nat
         /\ Cardinality(Where(pgtable, Va, p)) \in Nat
  <1>1. /\ Cardinality(Holders(env_pgdir, p)) \in Nat
        /\ Cardinality(Where(pgdir, Pdx, p)) \in Nat
        /\ Cardinality(Where(pgtable, Va, p)) \in Nat
    BY HoldersFinite, WhereFinite, VaFinite, SizeAssumption
  <1>2. QED
    BY <1>1, PointersSplit

\* A page that an entry points to has a pointer, and one more if it is used in
\* two of the three kinds of entries.
LEMMA PointersUsed ==
  ASSUME NEW p \in Page, NEW e \in Env
  PROVE  /\ env_pgdir[e] = p => Cardinality(Holders(env_pgdir, p)) >= 1
         /\ \A d \in Pdx : pgdir[e][d] = p => Cardinality(Where(pgdir, Pdx, p)) >= 1
         /\ \A va \in Va : pgtable[e][va] = p =>
                               Cardinality(Where(pgtable, Va, p)) >= 1
  <1>1. ASSUME NEW S, IsFiniteSet(S), NEW x \in S
        PROVE  Cardinality(S) >= 1
    <2>1. Cardinality(S) \in Nat /\ Cardinality(S) # 0
      BY <1>1, FS_CardinalityType, FS_EmptySet
    <2>2. QED
      BY <2>1
  <1>2. env_pgdir[e] = p => Cardinality(Holders(env_pgdir, p)) >= 1
    <2>1. env_pgdir[e] = p => e \in Holders(env_pgdir, p)
      BY DEF Holders
    <2>2. QED
      BY <1>1, <2>1, HoldersFinite
  <1>3. ASSUME NEW d \in Pdx, pgdir[e][d] = p
        PROVE  Cardinality(Where(pgdir, Pdx, p)) >= 1
    <2>1. <<e, d>> \in Where(pgdir, Pdx, p)
      BY <1>3 DEF Where
    <2>2. QED
      BY <1>1, <2>1, WhereFinite, SizeAssumption
  <1>4. ASSUME NEW va \in Va, pgtable[e][va] = p
        PROVE  Cardinality(Where(pgtable, Va, p)) >= 1
    <2>1. <<e, va>> \in Where(pgtable, Va, p)
      BY <1>4 DEF Where
    <2>2. QED
      BY <1>1, <2>1, WhereFinite, VaFinite
  <1>5. QED
    BY <1>2, <1>3, <1>4

\* What page_insert does to the tables, to the number of pointers to each page
\* and to the free list; table is the page of a new table, or NULL.
Inserted(e, pp, va, free, table) ==
    LET old == pgtable[e][va]
    IN  /\ IF pgdir[e][PDX(va)] = NULL THEN table \in free ELSE table = NULL
        /\ pgdir' = IF table = NULL THEN pgdir
                    ELSE [pgdir EXCEPT ![e][PDX(va)] = table]
        /\ pgtable' = [pgtable EXCEPT ![e][va] = pp]
        /\ TablesOK'
        /\ \A p \in Page : Pointers(p)' = Pointers(p) + Same(table, p)
                                            + Same(pp, p) - Same(old, p)
        /\ page_free_list' = (free \ {table}) \cup
                (IF old # NULL /\ pp_ref'[old] = 0 THEN {old} ELSE {})

\* page_insert raises the count of a new table and of pp and lowers the one of
\* the page that was mapped, which may be pp itself: the counts follow.
LEMMA InsertEffect ==
  ASSUME TablesOK, CountInv, NEW e \in Env, NEW pp \in Page, NEW va \in Va,
         NEW free \in SUBSET Page, PageInsert(e, pp, va, free), UNCHANGED env_pgdir
  PROVE  CountInv' /\ \E table : Inserted(e, pp, va, free, table)
  <1> DEFINE old == pgtable[e][va]
             d == PDX(va)
             n == [p \in Page |-> Pointers(p)]
  <1>0. d \in Pdx /\ old \in Page \cup {NULL} /\ NULL \notin Page
    BY PmapAssumption DEF Va, PDX, TablesOK
  <1>1. PICK table \in IF pgdir[e][d] = NULL THEN free ELSE {NULL} :
            LET ref == IF table = NULL THEN pp_ref ELSE Incr(pp_ref, table)
            IN  /\ pp_ref' = IF old = NULL THEN Incr(ref, pp)
                             ELSE Decr(Incr(ref, pp), old)
                /\ page_free_list' = WithoutTable(free, table)
                                        \cup FreedByInsert(ref, pp, old)
                /\ pgdir' = IF table = NULL THEN pgdir
                            ELSE [pgdir EXCEPT ![e][d] = table]
                /\ pgtable' = [pgtable EXCEPT ![e][va] = pp]
    BY DEF PageInsert
  <1> DEFINE ref == IF table = NULL THEN pp_ref ELSE Incr(pp_ref, table)
             n1 == [p \in Page |-> n[p] + Same(table, p)]
             n2 == [p \in Page |-> n1[p] + Same(pp, p)]
             n3 == [p \in Page |-> n2[p] - Same(old, p)]
  <1>1a. /\ IF pgdir[e][d] = NULL THEN table \in free ELSE table = NULL
         /\ table # NULL <=> pgdir[e][d] = NULL
         /\ table \in Page \cup {NULL}
    BY <1>0, <1>1
  <1>2. pgdir' \in [Env -> [Pdx -> Page \cup {NULL}]]
    BY <1>0, <1>1, <1>1a DEF TablesOK
  <1>3. pgtable' \in [Env -> [Va -> Page \cup {NULL}]]
    BY <1>1 DEF TablesOK
  <1>4. n \in [Page -> Int] /\ n1 \in [Page -> Int] /\ n2 \in [Page -> Int]
    BY PointersNat DEF Same
  <1>5. Counts(ref, n1)
    <2>1. CASE table = NULL
      <3>1. \A p \in Page : n1[p] = n[p]
        BY <1>0, <1>4, <2>1 DEF Same
      <3>2. QED
        BY <1>4, <2>1, <3>1 DEF CountInv, Counts
    <2>2. CASE table # NULL
      <3>1. table \in Page
        BY <1>1a, <2>2
      <3>2. Counts(Incr(pp_ref, table), n1)
        BY <3>1, IncrCounts DEF CountInv
      <3>3. QED
        BY <2>2, <3>2
    <2>3. QED
      BY <2>1, <2>2
  <1> HIDE DEF ref, n1
  <1>6. Counts(Incr(ref, pp), n2)
    BY <1>5, IncrCounts
  <1> HIDE DEF n2
  <1>7. Counts(pp_ref', n3)
    <2>1. CASE old = NULL
      <3>1. \A p \in Page : n3[p] = n2[p]
        BY <1>0, <1>4, <2>1 DEF Same
      <3>2. n3 \in [Page -> Int]
        BY <1>4 DEF Same
      <3>3. pp_ref' = Incr(ref, pp)
        BY <1>1, <2>1 DEF ref
      <3>4. QED
        BY <1>6, <3>1, <3>2, <3>3 DEF Counts
    <2>2. CASE old # NULL
      <3>1. Counts(Decr(Incr(ref, pp), old), n3)
        BY <1>0, <1>6, <2>2, DecrCounts
      <3>2. pp_ref' = Decr(Incr(ref, pp), old)
        BY <1>1, <2>2 DEF ref
      <3>3. QED
        BY <3>1, <3>2
    <2>3. QED
      BY <2>1, <2>2
  <1>8. \A p \in Page : Pointers(p)' = Pointers(p) + Same(table, p)
                                         + Same(pp, p) - Same(old, p)
    <2> SUFFICES ASSUME NEW p \in Page
                 PROVE  Pointers(p)' = Pointers(p) + Same(table, p)
                                         + Same(pp, p) - Same(old, p)
      OBVIOUS
    <2>1. Cardinality(Where(pgtable', Va, p)) =
              Cardinality(Where(pgtable, Va, p)) + Same(pp, p) - Same(old, p)
      <3>1. pgtable' = [pgtable EXCEPT ![e][va] = pp]
        BY <1>1
      <3>2. Written(pgtable, pgtable', Va, e, va, pp)
        BY <3>1, VaFinite DEF TablesOK, Written
      <3>3. QED
        BY <3>2, SetEntry, SMT
    <2>2. Cardinality(Where(pgdir', Pdx, p)) =
              Cardinality(Where(pgdir, Pdx, p)) + Same(table, p)
      <3>0. Cardinality(Where(pgdir, Pdx, p)) \in Nat
        BY PointersNat
      <3>1. CASE table = NULL
        BY <1>0, <1>1, <3>0, <3>1 DEF Same
      <3>2. CASE table # NULL
        <4>1. pgdir' = [pgdir EXCEPT ![e][d] = table]
          BY <1>1, <3>2
        <4>2. Cardinality(Where(pgdir', Pdx, p)) =
                  Cardinality(Where(pgdir, Pdx, p)) + Same(table, p)
                      - Same(pgdir[e][d], p)
          <5>1. Written(pgdir, pgdir', Pdx, e, d, table)
            BY <1>0, <4>1, SizeAssumption DEF TablesOK, Written
          <5> HIDE DEF d
          <5>2. QED
            BY <5>1, SetEntry, SMT
        <4>3. Same(pgdir[e][d], p) = 0
          BY <1>0, <1>1a, <3>2 DEF Same
        <4>4. Same(table, p) \in Nat
          BY DEF Same
        <4>5. QED
          BY <3>0, <4>1, <4>2, <4>3, <4>4
      <3>3. QED
        BY <3>1, <3>2
    <2>3. Pointers(p)' = Cardinality(Holders(env_pgdir', p))
                           + Cardinality(Where(pgdir', Pdx, p))
                           + Cardinality(Where(pgtable', Va, p))
      BY DEF Pointers, Holders, Where
    <2>4. /\ Pointers(p) = Cardinality(Holders(env_pgdir, p))
                             + Cardinality(Where(pgdir, Pdx, p))
                             + Cardinality(Where(pgtable, Va, p))
          /\ Cardinality(Holders(env_pgdir, p)) \in Nat
          /\ Cardinality(Where(pgdir, Pdx, p)) \in Nat
          /\ Cardinality(Where(pgtable, Va, p)) \in Nat
      BY PointersSplit, PointersNat
    <2>5. Same(table, p) \in Nat /\ Same(pp, p) \in Nat /\ Same(old, p) \in Nat
      BY DEF Same
    <2> HIDE DEF old
    <2>6. QED
      BY <2>1, <2>2, <2>3, <2>4, <2>5
  <1>9. CountInv'
    <2>1. ASSUME NEW p \in Page
          PROVE  n3[p] = Pointers(p)'
      <3>1. n1[p] = n[p] + Same(table, p) /\ n[p] = Pointers(p)
        BY DEF n1
      <3>2. n2[p] = n1[p] + Same(pp, p)
        BY DEF n2
      <3>3. n3[p] = n2[p] - Same(old, p)
        OBVIOUS
      <3>4. Pointers(p)' = Pointers(p) + Same(table, p) + Same(pp, p) - Same(old, p)
        BY <1>8
      <3> HIDE DEF n, n3, old
      <3>5. n3[p] = Pointers(p) + Same(table, p) + Same(pp, p) - Same(old, p)
        <4>1. /\ Same(table, p) \in Int /\ Same(pp, p) \in Int /\ Same(old, p) \in Int
              /\ Pointers(p) \in Int
          BY PointersNat DEF Same
        <4>2. QED
          BY <3>1, <3>2, <3>3, <4>1, SMT
      <3>6. QED
        BY <3>4, <3>5, Zenon
    <2>2. n3 = [p \in Page |-> Pointers(p)']
      BY <2>1
    <2>3. QED
      BY <1>7, <2>2 DEF CountInv
  <1>10. page_free_list' = (free \ {table}) \cup
                (IF old # NULL /\ pp_ref'[old] = 0 THEN {old} ELSE {})
    BY <1>1 DEF WithoutTable, FreedByInsert, ref
  <1>11. Inserted(e, pp, va, free, table)
    BY <1>1, <1>1a, <1>2, <1>3, <1>8, <1>10 DEF Inserted, TablesOK
  <1>12. QED
    BY <1>9, <1>11

\* What Pointers counts in the state after a step.
LEMMA PointersSplitNext ==
  ASSUME NEW p
  PROVE  /\ Pointers(p)' = Cardinality(Holders(env_pgdir', p))
                             + Cardinality(Where(pgdir', Pdx, p))
                             + Cardinality(Where(pgtable', Va, p))
         /\ Pointers(p)' \in Nat
         /\ Cardinality(Holders(env_pgdir', p)) \in Nat
         /\ Cardinality(Where(pgdir', Pdx, p)) \in Nat
         /\ Cardinality(Where(pgtable', Va, p)) \in Nat
  <1>1. Pointers(p)' = Cardinality(Holders(env_pgdir', p))
                         + Cardinality(Where(pgdir', Pdx, p))
                         + Cardinality(Where(pgtable', Va, p))
    BY DEF Pointers, Holders, Where
  <1>2. /\ Cardinality(Holders(env_pgdir', p)) \in Nat
        /\ Cardinality(Where(pgdir', Pdx, p)) \in Nat
        /\ Cardinality(Where(pgtable', Va, p)) \in Nat
    BY HoldersFinite, WhereFinite, VaFinite, SizeAssumption
  <1>3. QED
    BY <1>1, <1>2

\* page_remove, of a page that is mapped.
Removed(e, va, pp) ==
    /\ pgtable' = [pgtable EXCEPT ![e][va] = NULL]
    /\ UNCHANGED <<env_pgdir, pgdir>>
    /\ TablesOK'
    /\ \A p \in Page : Pointers(p)' = Pointers(p) - Same(pp, p)
    /\ page_free_list' = page_free_list \cup (IF pp_ref'[pp] = 0 THEN {pp} ELSE {})

\* page_remove lowers the count of the page it unmaps.
LEMMA RemoveEffect ==
  ASSUME TablesOK, CountInv, NEW e \in Env, NEW va \in Va,
         pgtable[e][va] # NULL, PageRemove(e, va)
  PROVE  CountInv' /\ Removed(e, va, pgtable[e][va])
  <1> DEFINE pp == pgtable[e][va]
             n == [p \in Page |-> Pointers(p)]
             n1 == [p \in Page |-> n[p] - Same(pp, p)]
  <1>1. pp \in Page /\ NULL \notin Page
    BY PmapAssumption DEF TablesOK
  <1>2. /\ pp_ref' = Decr(pp_ref, pp)
        /\ page_free_list' = page_free_list \cup (IF pp_ref'[pp] = 0 THEN {pp} ELSE {})
        /\ pgtable' = [pgtable EXCEPT ![e][va] = NULL]
        /\ UNCHANGED <<env_pgdir, pgdir>>
    BY DEF PageRemove
  <1>3. pgtable' \in [Env -> [Va -> Page \cup {NULL}]]
    BY <1>2 DEF TablesOK
  <1>4. Counts(pp_ref', n1)
    BY <1>1, <1>2, DecrCounts DEF CountInv
  <1>5. ASSUME NEW p \in Page
        PROVE  Pointers(p)' = Pointers(p) - Same(pp, p)
    <2>1. Written(pgtable, pgtable', Va, e, va, NULL)
      BY <1>2, VaFinite DEF TablesOK, Written
    <2>2. Cardinality(Where(pgtable', Va, p)) =
              Cardinality(Where(pgtable, Va, p)) + Same(NULL, p) - Same(pp, p)
      BY <2>1, SetEntry, SMT
    <2>3. Same(NULL, p) = 0 /\ Same(pp, p) \in Int
      BY <1>1 DEF Same
    <2>4. /\ Cardinality(Holders(env_pgdir', p)) = Cardinality(Holders(env_pgdir, p))
          /\ Cardinality(Where(pgdir', Pdx, p)) = Cardinality(Where(pgdir, Pdx, p))
      BY <1>2
    <2> HIDE DEF pp
    <2>5. QED
      BY <2>2, <2>3, <2>4, PointersSplitNext, PointersSplit, PointersNat
  <1>6. CountInv'
    <2>1. n1 = [p \in Page |-> Pointers(p)']
      BY <1>5
    <2>2. QED
      BY <1>4, <2>1 DEF CountInv
  <1>7. QED
    BY <1>2, <1>3, <1>5, <1>6 DEF Removed, TablesOK

\* sys_exofork takes a free page for the directory of e.
Forked(e, dir) ==
    /\ dir \in page_free_list
    /\ env_pgdir' = [env_pgdir EXCEPT ![e] = dir]
    /\ UNCHANGED <<pgdir, pgtable>>
    /\ TablesOK'
    /\ \A p \in Page : Pointers(p)' = Pointers(p) + Same(dir, p)
    /\ page_free_list' = page_free_list \ {dir}

\* env_setup_vm raises the count of the directory.
LEMMA ExoforkEffect ==
  ASSUME TablesOK, CountInv, page_free_list \subseteq Page,
         NEW c \in CPU, NEW e \in Env, SysExofork(c, e)
  PROVE  CountInv' /\ \E dir \in Page : Forked(e, dir)
  <1> DEFINE n == [p \in Page |-> Pointers(p)]
  <1>1. PICK dir \in page_free_list :
            /\ env_pgdir' = [env_pgdir EXCEPT ![e] = dir]
            /\ pp_ref' = Incr(pp_ref, dir)
            /\ page_free_list' = page_free_list \ {dir}
    BY DEF SysExofork
  <1> DEFINE n1 == [p \in Page |-> n[p] + Same(dir, p)]
  <1>2. dir \in Page /\ NULL \notin Page
    BY PmapAssumption
  <1>3. UNCHANGED <<pgdir, pgtable>> /\ env_pgdir[e] = NULL
    BY DEF SysExofork, Alive
  <1>4. env_pgdir' \in [Env -> Page \cup {NULL}]
    BY <1>1 DEF TablesOK
  <1>5. Counts(pp_ref', n1)
    BY <1>1, <1>2, IncrCounts DEF CountInv
  <1>6. ASSUME NEW p \in Page
        PROVE  Pointers(p)' = Pointers(p) + Same(dir, p)
    <2>1. WrittenDir(env_pgdir, env_pgdir', e, dir)
      BY <1>1 DEF TablesOK, WrittenDir
    <2>2. Cardinality(Holders(env_pgdir', p)) =
              Cardinality(Holders(env_pgdir, p)) + Same(dir, p) - Same(env_pgdir[e], p)
      BY <2>1, SetHolder, SMT
    <2>3. Same(env_pgdir[e], p) = 0 /\ Same(dir, p) \in Int
      BY <1>2, <1>3 DEF Same
    <2>4. /\ Cardinality(Where(pgdir', Pdx, p)) = Cardinality(Where(pgdir, Pdx, p))
          /\ Cardinality(Where(pgtable', Va, p)) = Cardinality(Where(pgtable, Va, p))
      BY <1>3
    <2>5. QED
      BY <2>2, <2>3, <2>4, PointersSplitNext, PointersSplit, PointersNat
  <1>7. CountInv'
    <2>1. n1 = [p \in Page |-> Pointers(p)']
      BY <1>6
    <2>2. QED
      BY <1>5, <2>1 DEF CountInv
  <1>8. QED
    BY <1>1, <1>2, <1>3, <1>4, <1>6, <1>7 DEF Forked, TablesOK

\* env_free takes away every pointer that e's tables hold.
Freed(e) ==
    /\ env_pgdir' = [env_pgdir EXCEPT ![e] = NULL]
    /\ pgdir' = [pgdir EXCEPT ![e] = NoTables]
    /\ pgtable' = [pgtable EXCEPT ![e] = NoEntries]
    /\ TablesOK'
    /\ \A p \in Page : /\ PointersFrom(e, p) \in Nat
                       /\ Pointers(p)' = Pointers(p) - PointersFrom(e, p)
    /\ page_free_list' = page_free_list \cup
            {p \in Page : PointersFrom(e, p) > 0 /\ pp_ref'[p] = 0}

\* env_free lowers each count by as many pointers as it takes away.
LEMMA FreeEffect ==
  ASSUME TablesOK, CountInv, NEW e \in Env, EnvFree(e)
  PROVE  CountInv' /\ Freed(e)
  <1> DEFINE R == REFLIMIT
  <1>0. NULL \notin Page /\ R \in Nat \ {0}
    BY PmapAssumption
  <1>1. /\ pp_ref' = [p \in Page |-> (pp_ref[p] - PointersFrom(e, p)) % REFLIMIT]
        /\ env_pgdir' = [env_pgdir EXCEPT ![e] = NULL]
        /\ pgdir' = [pgdir EXCEPT ![e] = NoTables]
        /\ pgtable' = [pgtable EXCEPT ![e] = NoEntries]
    BY DEF EnvFree
  <1>2. page_free_list' = page_free_list \cup
            {p \in Page : PointersFrom(e, p) > 0 /\ pp_ref'[p] = 0}
    BY <1>1, Zenon DEF EnvFree
  <1>3. TablesOK'
    BY <1>1 DEF TablesOK, NoTables, NoEntries
  <1>4. ASSUME NEW p \in Page
        PROVE  /\ PointersFrom(e, p) \in Nat
               /\ Pointers(p)' = Pointers(p) - PointersFrom(e, p)
    <2> DEFINE a == Cardinality({va \in Va : pgtable[e][va] = p})
               b == Cardinality({d \in Pdx : pgdir[e][d] = p})
               h == Same(env_pgdir[e], p)
    <2>1. Cleared(pgtable, pgtable', Va, e, p)
      BY <1>0, <1>1, VaFinite DEF TablesOK, Cleared, NoEntries
    <2>2. Cleared(pgdir, pgdir', Pdx, e, p)
      BY <1>0, <1>1, SizeAssumption DEF TablesOK, Cleared, NoTables
    <2>3. WrittenDir(env_pgdir, env_pgdir', e, NULL)
      BY <1>1 DEF TablesOK, WrittenDir
    <2>4. /\ a \in Nat
          /\ Cardinality(Where(pgtable', Va, p)) = Cardinality(Where(pgtable, Va, p)) - a
      BY <2>1, ClearEntries, SMT
    <2>5. /\ b \in Nat
          /\ Cardinality(Where(pgdir', Pdx, p)) = Cardinality(Where(pgdir, Pdx, p)) - b
      BY <2>2, ClearEntries, SMT
    <2>6. Cardinality(Holders(env_pgdir', p)) =
              Cardinality(Holders(env_pgdir, p)) + Same(NULL, p) - h
      BY <2>3, SetHolder, SMT
    <2>7. Same(NULL, p) = 0 /\ h \in Nat
      BY <1>0 DEF Same
    <2>8. PointersFrom(e, p) = a + b + h
      BY DEF PointersFrom, Same
    <2> HIDE DEF a, b, h
    <2>9. QED
      BY <2>4, <2>5, <2>6, <2>7, <2>8, PointersSplitNext, PointersSplit, PointersNat
  <1>5. ASSUME NEW p \in Page
        PROVE  pp_ref'[p] \in 0 .. R - 1 /\ pp_ref'[p] = Pointers(p)' % R
    <2> DEFINE m == -PointersFrom(e, p)
    <2>1. Pointers(p) \in Int /\ m \in Int /\ PointersFrom(e, p) \in Int
      BY <1>4, PointersNat
    <2>2. pp_ref[p] = Pointers(p) % R /\ pp_ref[p] \in Int
      BY DEF CountInv, Counts
    <2>3. ((Pointers(p) % R) + m) % R = (Pointers(p) + m) % R
      BY <1>0, <2>1, ModOfMod, Zenon
    <2>4. pp_ref[p] - PointersFrom(e, p) = pp_ref[p] + m
      BY <2>1, <2>2
    <2>5. Pointers(p)' = Pointers(p) + m
      BY <1>4, <2>1
    <2>6. (Pointers(p) + m) % R \in 0 .. R - 1
      BY <1>0, <2>1
    <2>7. pp_ref'[p] = (pp_ref[p] - PointersFrom(e, p)) % R
      BY <1>1
    <2> HIDE DEF m, R
    <2>8. QED
      BY <2>2, <2>3, <2>4, <2>5, <2>6, <2>7, Zenon
  <1>6. CountInv'
    <2>1. pp_ref' = [p \in Page |-> pp_ref'[p]]
      BY <1>1
    <2>2. \A p \in Page : Pointers(p)' \in Int
      BY PointersSplitNext
    <2>3. QED
      BY <1>5, <2>1, <2>2 DEF CountInv, Counts
  <1>7. QED
    BY <1>1, <1>2, <1>3, <1>4, <1>6 DEF Freed

-----------------------------------------------------------------------------
(***************************************************************************)
(* What the handlers do to the memory, and on which environments the CPUs  *)
(* are.                                                                    *)
(***************************************************************************)
\* Where page_insert's page comes from: sys_page_alloc takes it off the free
\* list; the other calls take a page that some program has mapped.
Insertable(pp, free) ==
    \/ pp \in page_free_list /\ free = page_free_list \ {pp}
    \/ free = page_free_list /\ \E f \in Env, w \in Va : pgtable[f][w] = pp

InsertStep ==
    \E e \in Env, va \in Va, pp \in Page, free \in SUBSET Page : \E table :
        /\ Alive(e) /\ Insertable(pp, free)
        /\ UNCHANGED env_pgdir
        /\ Inserted(e, pp, va, free, table)

RemoveStep ==
    \E e \in Env, va \in Va :
        pgtable[e][va] # NULL /\ Removed(e, va, pgtable[e][va])

ForkStep == \E e \in Env, dir \in Page : ~Alive(e) /\ Forked(e, dir)

\* What env_free frees is on no CPU when the handler is left.
FreeStep ==
    \E e \in Env : (\A c \in CPU : cpu_env'[c] # e) /\ Freed(e)

MemStep ==
    UNCHANGED memVars \/ InsertStep \/ RemoveStep \/ ForkStep \/ FreeStep

\* The CPUs are on different environments, and these have a directory.
CpuOK ==
    /\ cpu_env \in [CPU -> Env \cup {NULL}]
    /\ OneCpu
    /\ \A c \in CPU : cpu_env[c] # NULL => env_pgdir[cpu_env[c]] # NULL

\* The types of the rest of the state.
RestOK ==
    /\ page_free_list \subseteq Page
    /\ env_parent \in [Env -> Env \cup {NULL}]
    /\ tlb \in [CPU -> [Va -> Page \cup {NULL}]]

\* One directory entry per table and one table per mapping.
TablesHang ==
    /\ \A e \in Env, va \in Va :
            pgtable[e][va] # NULL => pgdir[e][PDX(va)] # NULL
    /\ \A e \in Env, d \in Pdx : pgdir[e][d] # NULL => env_pgdir[e] # NULL

MemInv == TablesOK /\ RestOK /\ CpuOK /\ TablesHang /\ CountInv

\* CPU c enters e, or its handler returns, with some state of the TLBs.
Enters(c, e) == \E t \in Tlbs : Enter(c, e, t)
Returns(c) == \E t \in Tlbs : Return(c, t)

\* A handler that ends with Enter leaves the CPUs on different environments.
LEMMA EnterCpu ==
  ASSUME CpuOK, RestOK, NEW c \in CPU, NEW e \in Env \cup {NULL}, Enters(c, e),
         \A d \in CPU \ {c} : e = NULL \/ cpu_env[d] # e
  PROVE  /\ cpu_env' \in [CPU -> Env \cup {NULL}]
         /\ tlb' \in [CPU -> [Va -> Page \cup {NULL}]]
         /\ OneCpu'
         /\ cpu_env'[c] = e /\ \A d \in CPU \ {c} : cpu_env'[d] = cpu_env[d]
  <1>1. tlb' \in [CPU -> [Va -> Page \cup {NULL}]]
    BY DEF Enters, Enter, NoEntries, Tlbs
  <1>2. /\ cpu_env' \in [CPU -> Env \cup {NULL}]
        /\ cpu_env'[c] = e /\ \A d \in CPU \ {c} : cpu_env'[d] = cpu_env[d]
    BY DEF Enters, Enter, CpuOK
  <1>3. OneCpu'
    BY <1>2 DEF OneCpu, CpuOK
  <1>4. QED
    BY <1>1, <1>2, <1>3

\* A handler that returns to its environment leaves every CPU where it was.
LEMMA ReturnCpu ==
  ASSUME CpuOK, RestOK, NEW c \in CPU, Returns(c)
  PROVE  /\ cpu_env' = cpu_env /\ cpu_env[c] \in Env
         /\ tlb' \in [CPU -> [Va -> Page \cup {NULL}]]
  BY DEF Returns, Return, Enter, CpuOK, NoEntries, Tlbs

\* What the handlers leave in the TLBs has its type.
LEMMA TlbTypes ==
  ASSUME RestOK, NEW c \in CPU
  PROVE  /\ tlb \in Tlbs /\ [tlb EXCEPT ![c] = NoEntries] \in Tlbs
         /\ \A e \in Env, va \in Va : TlbAfterRemove(c, e, va) \in Tlbs
  BY DEF RestOK, Tlbs, NoEntries, TlbAfterRemove, TlbInvalidate

\* page_insert, called by a handler that returns.
LEMMA InsertKind ==
  ASSUME MemInv, NEW e \in Env, NEW pp \in Page, NEW va \in Va,
         NEW free \in SUBSET Page, PageInsert(e, pp, va, free),
         UNCHANGED env_pgdir, Alive(e), Insertable(pp, free)
  PROVE  MemStep /\ CountInv'
  BY InsertEffect DEF MemInv, MemStep, InsertStep

\* Every step is one of the five kinds; counts follow it; a CPU is left on an
\* environment that was alive.
LEMMA StepKind ==
  ASSUME MemInv, [Next]_vars
  PROVE  /\ MemStep /\ CountInv'
         /\ cpu_env' \in [CPU -> Env \cup {NULL}] /\ OneCpu'
         /\ tlb' \in [CPU -> [Va -> Page \cup {NULL}]]
         /\ env_parent' \in [Env -> Env \cup {NULL}]
         /\ \A d \in CPU : cpu_env'[d] # NULL => Alive(cpu_env'[d])
  <1> DEFINE Cpus ==
                 /\ cpu_env' \in [CPU -> Env \cup {NULL}] /\ OneCpu'
                 /\ tlb' \in [CPU -> [Va -> Page \cup {NULL}]]
                 /\ \A d \in CPU : cpu_env'[d] # NULL => Alive(cpu_env'[d])
             Parents == env_parent' \in [Env -> Env \cup {NULL}]
             Goal == MemStep /\ CountInv' /\ Cpus /\ Parents
  <1>0. NULL \notin Env /\ NULL \notin Page
    BY PmapAssumption
  <1>a. UNCHANGED memVars => MemStep /\ CountInv'
    BY DEF MemStep, memVars, MemInv, CountInv, Counts, Pointers
  <1>b. ASSUME NEW c \in CPU, Returns(c)
        PROVE  Cpus /\ cpu_env' = cpu_env /\ cpu_env[c] \in Env
    <2>1. /\ cpu_env' = cpu_env /\ cpu_env[c] \in Env
          /\ tlb' \in [CPU -> [Va -> Page \cup {NULL}]]
      BY <1>b, ReturnCpu DEF MemInv
    <2>2. QED
      BY <2>1 DEF MemInv, CpuOK, OneCpu, Alive
  <1>c. UNCHANGED env_parent => Parents
    BY DEF MemInv, RestOK
  <1>1. CASE UNCHANGED vars
    <2>1. UNCHANGED memVars /\ UNCHANGED <<env_parent, cpu_env, tlb>>
      BY <1>1 DEF vars
    <2>2. Cpus
      BY <2>1 DEF MemInv, CpuOK, RestOK, OneCpu, Alive
    <2>3. QED
      BY <1>a, <1>c, <2>1, <2>2
  <1>2. ASSUME NEW c \in CPU, DestroySelf(c) PROVE Goal
    <2> DEFINE e == cpu_env[c]
    <2>0. Enters(c, NULL)
      BY <1>2, TlbTypes DEF DestroySelf, Enters, MemInv
    <2>1. e \in Env /\ EnvFree(e) /\ Enters(c, NULL)
      BY <1>2, <2>0 DEF DestroySelf, MemInv, CpuOK
    <2>2. \A d \in CPU \ {c} : cpu_env[d] # e
      BY <2>1, <1>0 DEF MemInv, CpuOK, OneCpu
    <2>3. /\ cpu_env' \in [CPU -> Env \cup {NULL}] /\ OneCpu'
          /\ tlb' \in [CPU -> [Va -> Page \cup {NULL}]]
          /\ cpu_env'[c] = NULL
          /\ \A d \in CPU \ {c} : cpu_env'[d] = cpu_env[d]
      BY <2>1, EnterCpu DEF MemInv
    <2>4. Cpus
      BY <2>3 DEF MemInv, CpuOK, Alive
    <2>5. \A d \in CPU : cpu_env'[d] # e
      BY <1>0, <2>1, <2>2, <2>3
    <2>6. CountInv' /\ Freed(e)
      BY <2>1, FreeEffect DEF MemInv
    <2>7. MemStep
      BY <2>1, <2>5, <2>6 DEF MemStep, FreeStep
    <2>8. Parents
      BY <2>1 DEF EnvFree, MemInv, RestOK
    <2>9. QED
      BY <2>4, <2>6, <2>7, <2>8
  <1>3. ASSUME NEW c \in CPU, NEW e \in Env, SysExofork(c, e) PROVE Goal
    <2>1. Returns(c) /\ ~Alive(e)
      BY <1>3 DEF SysExofork, Returns, MemInv, RestOK, Tlbs
    <2>2. CountInv' /\ \E dir \in Page : Forked(e, dir)
      BY <1>3, ExoforkEffect DEF MemInv, RestOK
    <2>3. MemStep
      BY <2>1, <2>2 DEF MemStep, ForkStep
    <2>4. Parents
      BY <1>3, <1>b, <2>1 DEF SysExofork, MemInv, RestOK
    <2>5. QED
      BY <1>b, <2>1, <2>2, <2>3, <2>4
  <1>4. ASSUME NEW c \in CPU, NEW e \in Env, DestroyOther(c, e) PROVE Goal
    <2>1. ~OnCpu(e) /\ EnvFree(e) /\ Returns(c)
      BY <1>4 DEF DestroyOther, Returns, MemInv, RestOK, Tlbs
    <2>2. CountInv' /\ Freed(e)
      BY <2>1, FreeEffect DEF MemInv
    <2>3. \A d \in CPU : cpu_env'[d] # e
      BY <1>b, <2>1 DEF OnCpu
    <2>4. MemStep
      BY <2>2, <2>3 DEF MemStep, FreeStep
    <2>5. Parents
      BY <2>1 DEF EnvFree, MemInv, RestOK
    <2>6. QED
      BY <1>b, <2>1, <2>2, <2>4, <2>5
  <1>5. ASSUME NEW c \in CPU, NEW e \in Env \cup {NULL}, SchedYield(c, e)
        PROVE  Goal
    <2>1. /\ e # NULL => Alive(e) /\ \A d \in CPU \ {c} : cpu_env[d] # e
          /\ Enters(c, e)
          /\ UNCHANGED memVars /\ UNCHANGED env_parent
      BY <1>5 DEF SchedYield, Enters, MemInv, RestOK, Tlbs
    <2>2. /\ cpu_env' \in [CPU -> Env \cup {NULL}] /\ OneCpu'
          /\ tlb' \in [CPU -> [Va -> Page \cup {NULL}]]
          /\ cpu_env'[c] = e
          /\ \A d \in CPU \ {c} : cpu_env'[d] = cpu_env[d]
      BY <2>1, EnterCpu DEF MemInv
    <2>3. Cpus
      BY <2>1, <2>2 DEF MemInv, CpuOK, Alive
    <2>4. QED
      BY <1>a, <1>c, <2>1, <2>3
  <1>6. ASSUME NEW c \in CPU, NEW e \in Env, NEW va \in Va,
               SysPageAlloc(c, e, va)
        PROVE  Goal
    <2>1. PICK pp \in page_free_list :
                    PageInsert(e, pp, va, page_free_list \ {pp})
      BY <1>6 DEF SysPageAlloc
    <2>2. /\ Alive(e) /\ UNCHANGED <<env_pgdir, env_parent>> /\ Returns(c)
          /\ pp \in Page /\ page_free_list \ {pp} \in SUBSET Page
          /\ Insertable(pp, page_free_list \ {pp})
      BY <1>6, TlbTypes DEF SysPageAlloc, Target, Returns, Insertable, MemInv, RestOK
    <2>3. MemStep /\ CountInv'
      BY <2>1, <2>2, InsertKind
    <2>4. QED
      BY <1>b, <1>c, <2>2, <2>3
  <1>7. ASSUME NEW c \in CPU, NEW e \in Env, NEW va \in Va,
               SysPageAllocNoTable(c, e, va)
        PROVE  Goal
    <2>1. UNCHANGED memVars /\ UNCHANGED env_parent /\ Returns(c)
      BY <1>7, TlbTypes DEF SysPageAllocNoTable, Returns, memVars, MemInv
    <2>2. QED
      BY <1>a, <1>b, <1>c, <2>1
  <1>8. ASSUME NEW c \in CPU, NEW e \in Env, NEW va \in Va,
               SysPageUnmap(c, e, va)
        PROVE  Goal
    <2>1. PageRemove(e, va) /\ UNCHANGED env_parent /\ Returns(c)
      BY <1>8, TlbTypes DEF SysPageUnmap, Returns, MemInv
    <2>2. CASE pgtable[e][va] = NULL
      BY <1>a, <1>b, <1>c, <2>1, <2>2 DEF PageRemove
    <2>3. CASE pgtable[e][va] # NULL
      <3>1. CountInv' /\ Removed(e, va, pgtable[e][va])
        BY <2>1, <2>3, RemoveEffect DEF MemInv
      <3>2. MemStep
        BY <2>3, <3>1 DEF MemStep, RemoveStep
      <3>3. QED
        BY <1>b, <1>c, <2>1, <3>1, <3>2
    <2>4. QED
      BY <2>2, <2>3
  <1>9. ASSUME NEW c \in CPU, NEW se \in Env, NEW de \in Env,
               NEW srcva \in Va, NEW dstva \in Va,
               SysPageMap(c, se, srcva, de, dstva)
        PROVE  Goal
    <2> DEFINE pp == pgtable[se][srcva]
    <2>0. Returns(c)
      BY <1>9, TlbTypes DEF SysPageMap, Returns, MemInv
    <2>1. /\ Alive(de) /\ UNCHANGED <<env_pgdir, env_parent>>
          /\ PageInsert(de, pp, dstva, page_free_list)
          /\ pp \in Page /\ page_free_list \in SUBSET Page
      BY <1>9 DEF SysPageMap, Target, MemInv, RestOK, TablesOK
    <2>2. Insertable(pp, page_free_list)
      BY DEF Insertable
    <2>3. MemStep /\ CountInv'
      BY <2>1, <2>2, InsertKind
    <2>4. QED
      BY <1>b, <1>c, <2>0, <2>1, <2>3
  <1>10. ASSUME NEW c \in CPU, NEW rcv \in Env, NEW srcva \in Va,
                NEW dstva \in Va, SysIpcTrySend(c, srcva, rcv, dstva)
         PROVE  Goal
    <2> DEFINE pp == pgtable[cpu_env[c]][srcva]
    <2>1. /\ Alive(rcv) /\ UNCHANGED <<env_pgdir, env_parent>> /\ Returns(c)
          /\ PageInsert(rcv, pp, dstva, page_free_list)
          /\ cpu_env[c] \in Env /\ pp # NULL
      BY <1>10, TlbTypes DEF SysIpcTrySend, Returns, MemInv, CpuOK
    <2>2. pp \in Page /\ page_free_list \in SUBSET Page
      BY <2>1 DEF MemInv, RestOK, TablesOK
    <2>3. Insertable(pp, page_free_list)
      BY <2>1 DEF Insertable
    <2>4. MemStep /\ CountInv'
      BY <2>1, <2>2, <2>3, InsertKind
    <2>5. QED
      BY <1>b, <1>c, <2>1, <2>4
  <1>11. ASSUME NEW c \in CPU, NEW va \in Va, Touch(c, va) PROVE Goal
    <2>1. /\ UNCHANGED memVars /\ UNCHANGED <<env_parent, cpu_env>>
          /\ cpu_env[c] \in Env
          /\ tlb' = [tlb EXCEPT ![c][va] = pgtable[cpu_env[c]][va]]
      BY <1>11 DEF Touch, MemInv, CpuOK
    <2>2. tlb' \in [CPU -> [Va -> Page \cup {NULL}]]
      BY <2>1 DEF MemInv, RestOK, TablesOK
    <2>3. Cpus
      BY <2>1, <2>2 DEF MemInv, CpuOK, OneCpu, Alive
    <2>4. QED
      BY <1>a, <1>c, <2>1, <2>3
  <1>12. Goal
    BY <1>1, <1>2, <1>3, <1>4, <1>5, <1>6, <1>7, <1>8, <1>9, <1>10, <1>11
       DEF Next
  <1>13. QED
    BY <1>12

\* The tables keep hanging together, and the pages on the free list are pages.
LEMMA StepShape ==
  ASSUME MemInv, MemStep
  PROVE  /\ TablesOK' /\ TablesHang' /\ page_free_list' \subseteq Page
         /\ \A d \in CPU : cpu_env'[d] \in Env /\ Alive(cpu_env'[d])
                               => env_pgdir'[cpu_env'[d]] # NULL
  <1> DEFINE Goal ==
        /\ TablesOK' /\ TablesHang' /\ page_free_list' \subseteq Page
        /\ \A d \in CPU : cpu_env'[d] \in Env /\ Alive(cpu_env'[d])
                              => env_pgdir'[cpu_env'[d]] # NULL
  <1>0. /\ NULL \notin Page
        /\ \A va \in Va : PDX(va) \in Pdx
    BY PmapAssumption DEF Va, PDX
  <1>1. CASE UNCHANGED memVars
    BY <1>1 DEF memVars, MemInv, TablesOK, TablesHang, RestOK, Alive
  <1>2. ASSUME NEW e \in Env, NEW va \in Va, NEW pp \in Page,
               NEW free \in SUBSET Page, NEW table,
               Alive(e), UNCHANGED env_pgdir, Inserted(e, pp, va, free, table)
        PROVE  Goal
    <2> DEFINE d0 == PDX(va)
    <2>1. /\ TablesOK' /\ env_pgdir' = env_pgdir
          /\ pgdir' = IF table = NULL THEN pgdir
                      ELSE [pgdir EXCEPT ![e][d0] = table]
          /\ pgtable' = [pgtable EXCEPT ![e][va] = pp]
          /\ IF pgdir[e][d0] = NULL THEN table \in free ELSE table = NULL
      BY <1>2 DEF Inserted
    <2>2. /\ \A f \in Env, d \in Pdx :
                pgdir'[f][d] = IF f = e /\ d = d0 /\ table # NULL THEN table ELSE pgdir[f][d]
          /\ \A f \in Env, w \in Va :
                pgtable'[f][w] = IF f = e /\ w = va THEN pp ELSE pgtable[f][w]
          /\ d0 \in Pdx /\ pgdir'[e][d0] # NULL
      BY <1>0, <2>1 DEF MemInv, TablesOK
    <2>3. \A f \in Env, w \in Va : pgtable'[f][w] # NULL => pgdir'[f][PDX(w)] # NULL
      BY <1>0, <2>2 DEF MemInv, TablesHang
    <2>4. \A f \in Env, d \in Pdx : pgdir'[f][d] # NULL => env_pgdir'[f] # NULL
      BY <1>2, <2>1, <2>2 DEF MemInv, TablesHang, Alive
    <2>5. page_free_list' \subseteq Page
      BY <1>2 DEF Inserted, MemInv, TablesOK
    <2>6. QED
      BY <2>1, <2>3, <2>4, <2>5 DEF TablesHang, Alive
  <1>3. ASSUME NEW e \in Env, NEW va \in Va, pgtable[e][va] # NULL,
               Removed(e, va, pgtable[e][va])
        PROVE  Goal
    <2>1. /\ TablesOK' /\ UNCHANGED <<env_pgdir, pgdir>>
          /\ \A f \in Env, w \in Va :
                pgtable'[f][w] = IF f = e /\ w = va THEN NULL ELSE pgtable[f][w]
      BY <1>3 DEF Removed, MemInv, TablesOK
    <2>2. page_free_list' \subseteq Page
      BY <1>3 DEF Removed, MemInv, RestOK, TablesOK
    <2>3. QED
      BY <1>0, <2>1, <2>2 DEF MemInv, TablesHang, Alive
  <1>4. ASSUME NEW e \in Env, NEW dir \in Page, ~Alive(e), Forked(e, dir)
        PROVE  Goal
    <2>1. /\ TablesOK' /\ UNCHANGED <<pgdir, pgtable>>
          /\ \A f \in Env : env_pgdir'[f] = IF f = e THEN dir ELSE env_pgdir[f]
          /\ page_free_list' \subseteq Page
      BY <1>4 DEF Forked, MemInv, RestOK, TablesOK
    <2>2. QED
      BY <1>0, <2>1 DEF MemInv, TablesHang, Alive
  <1>5. ASSUME NEW e \in Env, \A c \in CPU : cpu_env'[c] # e, Freed(e)
        PROVE  Goal
    <2>1. /\ TablesOK'
          /\ \A f \in Env, d \in Pdx :
                pgdir'[f][d] = IF f = e THEN NULL ELSE pgdir[f][d]
          /\ \A f \in Env, w \in Va :
                pgtable'[f][w] = IF f = e THEN NULL ELSE pgtable[f][w]
          /\ \A f \in Env : env_pgdir'[f] = IF f = e THEN NULL ELSE env_pgdir[f]
      BY <1>5 DEF Freed, MemInv, TablesOK, NoTables, NoEntries
    <2>2. page_free_list' \subseteq Page
      BY <1>5 DEF Freed, MemInv, RestOK
    <2>3. QED
      BY <1>0, <1>5, <2>1, <2>2 DEF MemInv, TablesHang, Alive
  <1>6. QED
    BY <1>1, <1>2, <1>3, <1>4, <1>5
       DEF MemStep, InsertStep, RemoveStep, ForkStep, FreeStep

\* Every step keeps the memory invariant, whatever programs do to each other.
LEMMA NextMem ==
  ASSUME MemInv, [Next]_vars
  PROVE  MemInv'
  <1>1. /\ MemStep /\ CountInv'
        /\ cpu_env' \in [CPU -> Env \cup {NULL}] /\ OneCpu'
        /\ tlb' \in [CPU -> [Va -> Page \cup {NULL}]]
        /\ env_parent' \in [Env -> Env \cup {NULL}]
        /\ \A d \in CPU : cpu_env'[d] # NULL => Alive(cpu_env'[d])
    BY StepKind
  <1>2. /\ TablesOK' /\ TablesHang' /\ page_free_list' \subseteq Page
        /\ \A d \in CPU : cpu_env'[d] \in Env /\ Alive(cpu_env'[d])
                              => env_pgdir'[cpu_env'[d]] # NULL
    BY <1>1, StepShape
  <1>3. CpuOK'
    BY <1>1, <1>2 DEF CpuOK
  <1>4. QED
    BY <1>1, <1>2, <1>3 DEF MemInv, RestOK

-----------------------------------------------------------------------------
(***************************************************************************)
(* The use of pages.  page_decref frees a page when its count reaches 0,   *)
(* so all of this rests on the counts being right, and they are right only *)
(* as long as no page has REFLIMIT pointers: NoOverflow is a hypothesis    *)
(* about what programs do, which the kernel does not enforce.              *)
(***************************************************************************)
NoOverflow == \A p \in Page : Pointers(p) < REFLIMIT

UseInv == FreeIsUnreferenced /\ TablesArePrivate

\* A count below the limit is the number of pointers itself.
LEMMA CountsExactly ==
  ASSUME NEW ref, NEW n, Counts(ref, n), NEW p \in Page, n[p] \in Nat,
         n[p] < REFLIMIT
  PROVE  ref[p] = n[p]
  <1>1. REFLIMIT \in Nat \ {0} /\ n[p] \in 0 .. REFLIMIT - 1
    BY PmapAssumption
  <1>2. n[p] % REFLIMIT = n[p]
    BY <1>1, ModNear
  <1>3. QED
    BY <1>2 DEF Counts

\* The counts are exact before and after a step.
LEMMA ExactNow ==
  ASSUME CountInv, NoOverflow
  PROVE  RefCountExact
  <1> DEFINE n == [p \in Page |-> Pointers(p)]
  <1>1. ASSUME NEW p \in Page PROVE pp_ref[p] = Pointers(p)
    <2>1. n[p] = Pointers(p) /\ n[p] \in Nat /\ n[p] < REFLIMIT
      BY PointersNat DEF NoOverflow
    <2>2. Counts(pp_ref, n)
      BY DEF CountInv
    <2> HIDE DEF n
    <2>3. pp_ref[p] = n[p]
      BY <2>1, <2>2, CountsExactly
    <2>4. QED
      BY <2>1, <2>3
  <1>2. QED
    BY <1>1 DEF RefCountExact

\* A directory or a table has a pointer that is no mapping.
LEMMA TableUse ==
  ASSUME NEW p \in Page, IsTable(p)
  PROVE  /\ Pointers(p) >= 1
         /\ Pointers(p) >= 1 + Cardinality(Where(pgtable, Va, p))
  <1> DEFINE h == Cardinality(Holders(env_pgdir, p))
             t == Cardinality(Where(pgdir, Pdx, p))
             m == Cardinality(Where(pgtable, Va, p))
  <1>1. /\ h \in Nat /\ t \in Nat /\ m \in Nat
        /\ Pointers(p) = h + t + m
    BY PointersNat, PointersSplit
  <1>2. h >= 1 \/ t >= 1
    BY PointersUsed DEF IsTable
  <1> HIDE DEF h, t, m
  <1>3. QED
    BY <1>1, <1>2 DEF m

\* A page that a program has mapped is no directory and no table.
LEMMA MappedUse ==
  ASSUME TablesArePrivate, NEW f \in Env, NEW w \in Va, NEW p \in Page,
         pgtable[f][w] = p
  PROVE  Pointers(p) >= 1 /\ ~IsTable(p)
  <1>1. /\ Cardinality(Where(pgtable, Va, p)) >= 1
        /\ Cardinality(Where(pgtable, Va, p)) \in Nat
        /\ Cardinality(Holders(env_pgdir, p)) \in Nat
        /\ Cardinality(Where(pgdir, Pdx, p)) \in Nat
    BY PointersUsed, PointersNat
  <1>2. Pointers(p) = Cardinality(Holders(env_pgdir, p))
                        + Cardinality(Where(pgdir, Pdx, p))
                        + Cardinality(Where(pgtable, Va, p))
    BY PointersSplit
  <1>3. IsTable(p) => Pointers(p) = 1 /\ Pointers(p) >= 1 + Cardinality(Where(pgtable, Va, p))
    BY TableUse DEF TablesArePrivate
  <1>4. QED
    BY <1>1, <1>2, <1>3

\* A page that nothing points to is nowhere in the tables.
LEMMA UnusedUse ==
  ASSUME NEW p \in Page, Pointers(p) = 0
  PROVE  ~IsTable(p) /\ \A f \in Env, w \in Va : pgtable[f][w] # p
  <1> DEFINE h == Cardinality(Holders(env_pgdir, p))
             t == Cardinality(Where(pgdir, Pdx, p))
             m == Cardinality(Where(pgtable, Va, p))
  <1>1. /\ h \in Nat /\ t \in Nat /\ m \in Nat
        /\ Pointers(p) = h + t + m
    BY PointersNat, PointersSplit
  <1>2. ~IsTable(p)
    BY TableUse
  <1>3. ASSUME NEW f \in Env, NEW w \in Va, pgtable[f][w] = p PROVE m >= 1
    BY <1>3, PointersUsed
  <1> HIDE DEF h, t, m
  <1>4. m = 0
    BY <1>1
  <1>5. QED
    BY <1>2, <1>3, <1>4

\* page_insert keeps the free list and the private tables: the new table was
\* free, pp is no table, and the page whose count falls to 0 is freed.
LEMMA InsertUse ==
  ASSUME MemInv, UseInv, InsertStep, RefCountExact'
  PROVE  UseInv'
  <1>0. NULL \notin Page
    BY PmapAssumption
  <1>a. PICK e \in Env, va \in Va, pp \in Page, free \in SUBSET Page : \E table :
            /\ Alive(e) /\ Insertable(pp, free)
            /\ UNCHANGED env_pgdir
            /\ Inserted(e, pp, va, free, table)
    BY DEF InsertStep
  <1>1. PICK table : /\ Alive(e) /\ Insertable(pp, free)
                     /\ UNCHANGED env_pgdir
                     /\ Inserted(e, pp, va, free, table)
    BY <1>a
  <1>2. /\ pp \notin free /\ ~IsTable(pp)
        /\ \A p \in Page \ {pp} : p \in free <=> Pointers(p) = 0
    <2>1. CASE pp \in page_free_list /\ free = page_free_list \ {pp}
      <3>1. Pointers(pp) = 0
        BY <2>1 DEF UseInv, FreeIsUnreferenced
      <3>2. QED
        BY <2>1, <3>1, UnusedUse DEF UseInv, FreeIsUnreferenced
    <2>2. ASSUME free = page_free_list, NEW f \in Env, NEW w \in Va, pgtable[f][w] = pp
          PROVE  /\ pp \notin free /\ ~IsTable(pp)
                 /\ \A p \in Page \ {pp} : p \in free <=> Pointers(p) = 0
      <3>1. Pointers(pp) >= 1 /\ ~IsTable(pp)
        BY <2>2, MappedUse DEF UseInv
      <3>2. QED
        BY <2>2, <3>1 DEF UseInv, FreeIsUnreferenced
    <2>3. QED
      BY <1>1, <2>1, <2>2 DEF Insertable
  <1>3. PICK d0 \in Pdx, old \in Page \cup {NULL} :
            /\ d0 = PDX(va) /\ old = pgtable[e][va]
    BY DEF MemInv, TablesOK, Va, PDX
  <1>4. /\ IF pgdir[e][d0] = NULL THEN table \in free ELSE table = NULL
        /\ pgdir' = IF table = NULL THEN pgdir
                    ELSE [pgdir EXCEPT ![e][d0] = table]
        /\ \A p \in Page : Pointers(p)' = Pointers(p) + Same(table, p)
                                            + Same(pp, p) - Same(old, p)
        /\ page_free_list' = (free \ {table}) \cup
                (IF old # NULL /\ pp_ref'[old] = 0 THEN {old} ELSE {})
    BY <1>1, <1>3 DEF Inserted
  <1>5. \A f \in Env, d \in Pdx :
            pgdir'[f][d] = IF f = e /\ d = d0 /\ table # NULL THEN table ELSE pgdir[f][d]
    BY <1>4 DEF MemInv, TablesOK
  <1>6. /\ table # NULL => /\ table \in Page /\ table # pp /\ table # old
                           /\ Pointers(table) = 0 /\ ~IsTable(table)
        /\ table \in Page \cup {NULL}
    <2>1. table # NULL => table \in free /\ table \in Page
      BY <1>4
    <2>2. QED
      BY <1>2, <1>3, <1>4, <2>1, UnusedUse
  <1>7. old # NULL => Pointers(old) >= 1 /\ ~IsTable(old)
    BY <1>3, MappedUse DEF UseInv
  <1>8. ASSUME NEW p \in Page
        PROVE  p \in page_free_list' <=> Pointers(p)' = 0
    <2>0. Pointers(p) \in Nat
      BY PointersNat
    <2>1. Pointers(p)' = Pointers(p) + Same(table, p) + Same(pp, p) - Same(old, p)
      BY <1>4
    <2>2. pp_ref'[p] = Pointers(p)'
      BY DEF RefCountExact
    <2>3. p \in page_free_list' <=> (p \in free /\ p # table)
                                      \/ (p = old /\ pp_ref'[p] = 0)
      BY <1>0, <1>4
    <2>4. p # pp => (p \in free <=> Pointers(p) = 0)
      BY <1>2
    <2>5. QED
      BY <1>0, <1>2, <1>6, <1>7, <2>0, <2>1, <2>2, <2>3, <2>4 DEF Same
  <1>9. ASSUME NEW p \in Page, IsTable(p)'
        PROVE  Pointers(p)' = 1
    <2>0. /\ Pointers(p)' = Pointers(p) + Same(table, p) + Same(pp, p) - Same(old, p)
          /\ Pointers(p) \in Nat
      BY <1>4, PointersNat
    <2>1. p = table \/ IsTable(p)
      BY <1>1, <1>5, <1>9 DEF IsTable
    <2>2. CASE p = table
      BY <1>0, <1>6, <2>0, <2>2 DEF Same
    <2>3. CASE p # table /\ IsTable(p)
      <3>1. Pointers(p) = 1 /\ p # pp /\ p # old
        BY <1>0, <1>2, <1>7, <2>3 DEF UseInv, TablesArePrivate
      <3>2. QED
        BY <2>0, <2>3, <3>1 DEF Same
    <2>4. QED
      BY <2>1, <2>2, <2>3
  <1>10. QED
    BY <1>8, <1>9 DEF UseInv, FreeIsUnreferenced, TablesArePrivate

\* page_remove keeps them: only the page it unmaps loses a pointer, and that
\* page is no table.
LEMMA RemoveUse ==
  ASSUME MemInv, UseInv, RemoveStep, RefCountExact'
  PROVE  UseInv'
  <1>0. NULL \notin Page
    BY PmapAssumption
  <1>1. PICK e \in Env, va \in Va :
            pgtable[e][va] # NULL /\ Removed(e, va, pgtable[e][va])
    BY DEF RemoveStep
  <1>2. PICK pp \in Page : pp = pgtable[e][va]
    BY <1>1 DEF MemInv, TablesOK
  <1>3. /\ UNCHANGED <<env_pgdir, pgdir>>
        /\ \A p \in Page : Pointers(p)' = Pointers(p) - Same(pp, p)
        /\ page_free_list' = page_free_list \cup (IF pp_ref'[pp] = 0 THEN {pp} ELSE {})
    BY <1>1, <1>2 DEF Removed
  <1>4. Pointers(pp) >= 1 /\ ~IsTable(pp)
    BY <1>2, MappedUse DEF UseInv
  <1>5. ASSUME NEW p \in Page
        PROVE  p \in page_free_list' <=> Pointers(p)' = 0
    <2>0. Pointers(p) \in Nat /\ Pointers(p)' = Pointers(p) - Same(pp, p)
      BY <1>3, PointersNat
    <2>1. pp_ref'[p] = Pointers(p)'
      BY DEF RefCountExact
    <2>2. p \in page_free_list' <=> p \in page_free_list \/ (p = pp /\ pp_ref'[p] = 0)
      BY <1>3
    <2>3. p \in page_free_list <=> Pointers(p) = 0
      BY DEF UseInv, FreeIsUnreferenced
    <2>4. QED
      BY <1>4, <2>0, <2>1, <2>2, <2>3 DEF Same
  <1>6. ASSUME NEW p \in Page, IsTable(p)'
        PROVE  Pointers(p)' = 1
    <2>1. IsTable(p)
      BY <1>3, <1>6 DEF IsTable
    <2>2. Pointers(p) = 1 /\ p # pp
      BY <1>4, <2>1 DEF UseInv, TablesArePrivate
    <2>3. Pointers(p)' = Pointers(p) - Same(pp, p)
      BY <1>3
    <2>4. QED
      BY <2>2, <2>3 DEF Same
  <1>7. QED
    BY <1>5, <1>6 DEF UseInv, FreeIsUnreferenced, TablesArePrivate

\* sys_exofork keeps them: the directory is a page that nothing pointed to.
LEMMA ForkUse ==
  ASSUME MemInv, UseInv, ForkStep
  PROVE  UseInv'
  <1>1. PICK e \in Env, dir \in Page : ~Alive(e) /\ Forked(e, dir)
    BY DEF ForkStep
  <1>2. /\ dir \in page_free_list
        /\ \A f \in Env : env_pgdir'[f] = IF f = e THEN dir ELSE env_pgdir[f]
        /\ UNCHANGED <<pgdir, pgtable>>
        /\ \A p \in Page : Pointers(p)' = Pointers(p) + Same(dir, p)
        /\ page_free_list' = page_free_list \ {dir}
    BY <1>1 DEF Forked, MemInv, TablesOK
  <1>3. Pointers(dir) = 0 /\ ~IsTable(dir)
    BY <1>2, UnusedUse DEF UseInv, FreeIsUnreferenced
  <1>4. ASSUME NEW p \in Page
        PROVE  p \in page_free_list' <=> Pointers(p)' = 0
    <2>1. Pointers(p) \in Nat /\ Pointers(p)' = Pointers(p) + Same(dir, p)
      BY <1>2, PointersNat
    <2>2. p \in page_free_list' <=> p \in page_free_list /\ p # dir
      BY <1>2
    <2>3. p \in page_free_list <=> Pointers(p) = 0
      BY DEF UseInv, FreeIsUnreferenced
    <2>4. QED
      BY <2>1, <2>2, <2>3 DEF Same
  <1>5. ASSUME NEW p \in Page, IsTable(p)'
        PROVE  Pointers(p)' = 1
    <2>1. p = dir \/ IsTable(p)
      BY <1>2, <1>5 DEF IsTable
    <2>2. Pointers(p)' = Pointers(p) + Same(dir, p)
      BY <1>2
    <2>3. p = dir \/ (p # dir /\ Pointers(p) = 1)
      BY <1>3, <2>1 DEF UseInv, TablesArePrivate
    <2>4. QED
      BY <1>3, <2>2, <2>3 DEF Same
  <1>6. QED
    BY <1>4, <1>5 DEF UseInv, FreeIsUnreferenced, TablesArePrivate

\* A table has a pointer in the state after a step, too.
LEMMA TableUseNext ==
  ASSUME NEW p \in Page, IsTable(p)'
  PROVE  Pointers(p)' >= 1
  <1> DEFINE h == Cardinality(Holders(env_pgdir', p))
             t == Cardinality(Where(pgdir', Pdx, p))
             m == Cardinality(Where(pgtable', Va, p))
  <1>1. /\ h \in Nat /\ t \in Nat /\ m \in Nat
        /\ Pointers(p)' = h + t + m
    BY PointersSplitNext
  <1>2. Holders(env_pgdir', p) # {} \/ Where(pgdir', Pdx, p) # {}
    <2>1. PICK e \in Env : env_pgdir'[e] = p \/ \E d \in Pdx : pgdir'[e][d] = p
      BY DEF IsTable
    <2>2. CASE env_pgdir'[e] = p
      BY <2>2 DEF Holders
    <2>3. ASSUME NEW d \in Pdx, pgdir'[e][d] = p PROVE Where(pgdir', Pdx, p) # {}
      <3>1. <<e, d>> \in Where(pgdir', Pdx, p)
        BY <2>3 DEF Where
      <3>2. QED
        BY <3>1
    <2>4. QED
      BY <2>1, <2>2, <2>3
  <1>3. h # 0 \/ t # 0
    BY <1>2, FS_EmptySet, HoldersFinite, WhereFinite, SizeAssumption
  <1> HIDE DEF h, t, m
  <1>4. QED
    BY <1>1, <1>3

\* env_free keeps them: every page whose last pointers it takes away is freed,
\* and the tables of the others keep their one pointer.
LEMMA FreeUse ==
  ASSUME MemInv, UseInv, FreeStep, RefCountExact'
  PROVE  UseInv'
  <1>1. PICK e \in Env : Freed(e)
    BY DEF FreeStep
  <1>2. /\ \A f \in Env, d \in Pdx :
                pgdir'[f][d] = IF f = e THEN NULL ELSE pgdir[f][d]
        /\ \A f \in Env : env_pgdir'[f] = IF f = e THEN NULL ELSE env_pgdir[f]
    BY <1>1 DEF Freed, MemInv, TablesOK, NoTables
  <1>3. ASSUME NEW p \in Page
        PROVE  /\ PointersFrom(e, p) \in Nat /\ Pointers(p) \in Nat
               /\ Pointers(p)' \in Nat
               /\ Pointers(p)' = Pointers(p) - PointersFrom(e, p)
    BY <1>1, PointersNat, PointersSplitNext DEF Freed
  <1>4. ASSUME NEW p \in Page
        PROVE  p \in page_free_list' <=> Pointers(p)' = 0
    <2>1. pp_ref'[p] = Pointers(p)'
      BY DEF RefCountExact
    <2>2. p \in page_free_list' <=> p \in page_free_list
                                      \/ (PointersFrom(e, p) > 0 /\ pp_ref'[p] = 0)
      BY <1>1 DEF Freed
    <2>3. p \in page_free_list <=> Pointers(p) = 0
      BY DEF UseInv, FreeIsUnreferenced
    <2>4. QED
      BY <1>3, <2>1, <2>2, <2>3
  <1>5. ASSUME NEW p \in Page, IsTable(p)'
        PROVE  Pointers(p)' = 1
    <2>1. IsTable(p)
      BY <1>2, <1>5, PmapAssumption DEF IsTable
    <2>2. Pointers(p) = 1 /\ Pointers(p)' >= 1
      BY <1>5, <2>1, TableUseNext DEF UseInv, TablesArePrivate
    <2>3. QED
      BY <1>3, <2>2
  <1>6. QED
    BY <1>4, <1>5 DEF UseInv, FreeIsUnreferenced, TablesArePrivate

\* Every step keeps the use of pages right as long as no count overflows.
LEMMA NextUse ==
  ASSUME MemInv, MemInv', UseInv, NoOverflow', [Next]_vars
  PROVE  UseInv'
  <1>1. MemStep
    BY StepKind
  <1>2. RefCountExact'
    <2> DEFINE n == [p \in Page |-> Pointers(p)']
    <2>1. Counts(pp_ref', n)
      BY DEF MemInv, CountInv
    <2>2. ASSUME NEW p \in Page PROVE pp_ref'[p] = Pointers(p)'
      <3>1. n[p] = Pointers(p)' /\ n[p] \in Nat /\ n[p] < REFLIMIT
        BY PointersSplitNext DEF NoOverflow
      <3> HIDE DEF n
      <3>2. pp_ref'[p] = n[p]
        BY <2>1, <3>1, CountsExactly
      <3>3. QED
        BY <3>1, <3>2
    <2>3. QED
      BY <2>2 DEF RefCountExact
  <1>3. CASE UNCHANGED memVars
    BY <1>3 DEF memVars, UseInv, FreeIsUnreferenced, TablesArePrivate, IsTable, Pointers
  <1>4. QED
    BY <1>1, <1>2, <1>3, InsertUse, RemoveUse, ForkUse, FreeUse DEF MemStep

-----------------------------------------------------------------------------
(* The memory at the end of i386_init *)

\* The image of a finite set under g; it has as many elements only if g tells
\* them apart.
LEMMA ImageOf ==
  ASSUME NEW S, IsFiniteSet(S), NEW g, DOMAIN g = S
  PROVE  LET T == {g[x] : x \in S}
         IN  /\ IsFiniteSet(T) /\ Cardinality(T) \in Nat /\ Cardinality(S) \in Nat
             /\ Cardinality(T) <= Cardinality(S)
             /\ Cardinality(T) = Cardinality(S) =>
                    \A x, y \in S : g[x] = g[y] => x = y
  <1> DEFINE T == {g[x] : x \in S}
             h == [x \in S |-> g[x]]
  <1>1. h \in Surjection(S, T)
    BY DEF Surjection
  <1>2. /\ IsFiniteSet(T) /\ Cardinality(T) <= Cardinality(S)
        /\ Cardinality(T) = Cardinality(S) <=> h \in Injection(S, T)
    BY <1>1, FS_Surjection
  <1>3. h \in Injection(S, T) => \A x, y \in S : g[x] = g[y] => x = y
    BY DEF Injection, IsInjective
  <1>4. QED
    BY <1>2, <1>3, FS_CardinalityType

\* One new page for the directory, for each table and for each page of the
\* image: Created asks for so many pages that no two of them are the same.
LEMMA PagesDiffer ==
  ASSUME NEW dir, NEW S, IsFiniteSet(S), NEW S2, IsFiniteSet(S2),
         NEW g, DOMAIN g = S, NEW g2, DOMAIN g2 = S2,
         Cardinality({dir} \cup {g[x] : x \in S} \cup {g2[x] : x \in S2})
             = 1 + Cardinality(S) + Cardinality(S2)
  PROVE  /\ \A x, y \in S : g[x] = g[y] => x = y
         /\ \A x, y \in S2 : g2[x] = g2[y] => x = y
         /\ \A x \in S : g[x] # dir
         /\ \A x \in S2 : g2[x] # dir
         /\ \A x \in S, y \in S2 : g[x] # g2[y]
  <1> DEFINE D == {dir}
             T == {g[x] : x \in S}
             U == {g2[x] : x \in S2}
             DT == D \cup T
  <1>1. /\ IsFiniteSet(T) /\ Cardinality(T) \in Nat /\ Cardinality(S) \in Nat
        /\ Cardinality(T) <= Cardinality(S)
        /\ Cardinality(T) = Cardinality(S) => \A x, y \in S : g[x] = g[y] => x = y
    BY ImageOf
  <1>2. /\ IsFiniteSet(U) /\ Cardinality(U) \in Nat /\ Cardinality(S2) \in Nat
        /\ Cardinality(U) <= Cardinality(S2)
        /\ Cardinality(U) = Cardinality(S2) => \A x, y \in S2 : g2[x] = g2[y] => x = y
    BY ImageOf
  <1>3. IsFiniteSet(D) /\ Cardinality(D) = 1
    BY FS_Singleton
  <1>d. Cardinality(DT \cup U) = 1 + Cardinality(S) + Cardinality(S2)
    OBVIOUS
  <1>m. /\ \A x \in S : g[x] \in T
        /\ \A x \in S2 : g2[x] \in U
        /\ dir \in D
    OBVIOUS
  <1> HIDE DEF D, T, U
  <1>4. /\ IsFiniteSet(DT)
        /\ Cardinality(DT) = Cardinality(D) + Cardinality(T) - Cardinality(D \cap T)
    BY <1>1, <1>3, FS_Union
  <1>5. Cardinality(D \cap T) \in Nat /\ IsFiniteSet(D \cap T)
    <2>1. D \cap T \in SUBSET D
      OBVIOUS
    <2>2. IsFiniteSet(D \cap T)
      BY <1>3, <2>1, FS_Subset
    <2>3. QED
      BY <2>2, FS_CardinalityType
  <1> HIDE DEF DT
  <1>6. Cardinality(DT \cup U) = Cardinality(DT) + Cardinality(U) - Cardinality(DT \cap U)
    BY <1>2, <1>4, FS_Union
  <1>7. Cardinality(DT \cap U) \in Nat /\ IsFiniteSet(DT \cap U)
    <2>1. DT \cap U \in SUBSET DT
      OBVIOUS
    <2>2. IsFiniteSet(DT \cap U)
      BY <1>4, <2>1, FS_Subset
    <2>3. QED
      BY <2>2, FS_CardinalityType
  <1>8. /\ Cardinality(T) = Cardinality(S) /\ Cardinality(U) = Cardinality(S2)
        /\ Cardinality(D \cap T) = 0 /\ Cardinality(DT \cap U) = 0
    BY <1>d, <1>1, <1>2, <1>3, <1>4, <1>5, <1>6, <1>7
  <1>9. D \cap T = {} /\ DT \cap U = {}
    BY <1>5, <1>7, <1>8, FS_EmptySet
  <1>10. QED
    BY <1>1, <1>2, <1>8, <1>9, <1>m DEF DT

\* Only e has entries, g[k] for k in S, all different.
FirstEntries(t, K, e, S, g) ==
    /\ IsFiniteSet(K) /\ e \in Env /\ S \subseteq K
    /\ \A f \in Env, k \in K :
            t[f][k] = IF f = e /\ k \in S THEN g[k] ELSE NULL
    /\ \A x, y \in S : g[x] = g[y] => x = y

\* Then each page they name has one pointer from there.
LEMMA FirstCount ==
  ASSUME NEW t, NEW K, NEW e, NEW S, NEW g, FirstEntries(t, K, e, S, g),
         NEW p \in Page
  PROVE  Cardinality(Where(t, K, p)) = IF \E k \in S : g[k] = p THEN 1 ELSE 0
  <1>0. NULL \notin Page
    BY PmapAssumption
  <1>1. CASE \E k \in S : g[k] = p
    <2>1. PICK k \in S : g[k] = p
      BY <1>1
    <2>2. Where(t, K, p) = {<<e, k>>}
      <3>1. \A x \in Env \X K : t[x[1]][x[2]] = p <=> x[1] = e /\ x[2] = k
        BY <1>0, <2>1 DEF FirstEntries
      <3>2. e \in Env /\ k \in K
        BY DEF FirstEntries
      <3>3. QED
        BY <3>1, <3>2 DEF Where
    <2>3. Cardinality({<<e, k>>}) = 1
      BY FS_Singleton
    <2>4. QED
      BY <1>1, <2>2, <2>3, Zenon
  <1>2. CASE ~\E k \in S : g[k] = p
    <2>1. Where(t, K, p) = {}
      <3>1. \A x \in Env \X K : t[x[1]][x[2]] # p
        BY <1>0, <1>2 DEF FirstEntries
      <3>2. QED
        BY <3>1 DEF Where
    <2>2. Cardinality({}) = 0
      BY FS_EmptySet
    <2>3. QED
      BY <1>2, <2>1, <2>2, Zenon
  <1>3. QED
    BY <1>1, <1>2

\* The first environment's directory, tables and image have one pointer each,
\* and the other pages none: the counts that page_alloc's callers set up.
LEMMA InitPointers ==
  ASSUME NEW e \in Env, NEW dir \in Page,
         NEW table \in [{PDX(va) : va \in Image} -> Page],
         NEW page \in [Image -> Page], Created(e, dir, table, page)
  PROVE  \E used \in SUBSET Page :
            /\ \A p \in Page : Pointers(p) = IF p \in used THEN 1 ELSE 0
            /\ pp_ref = [p \in Page |-> IF p \in used THEN 1 ELSE 0]
            /\ page_free_list = Page \ used
  <1> DEFINE D == {PDX(va) : va \in Image}
             T == {table[d] : d \in D}
             G == {page[va] : va \in Image}
             used == {dir} \cup T \cup G
  <1>0. /\ NULL \notin Page /\ Image \subseteq Va /\ D \subseteq Pdx
        /\ DOMAIN table = D /\ DOMAIN page = Image
    BY PmapAssumption DEF Va, PDX
  <1>1. IsFiniteSet(D) /\ IsFiniteSet(Image)
    <2>1. D \in SUBSET Pdx /\ Image \in SUBSET Va
      BY <1>0
    <2>2. QED
      BY <2>1, VaFinite, SizeAssumption, FS_Subset
  <1>2. /\ Cardinality(used) = 1 + Cardinality(D) + Cardinality(Image)
        /\ env_pgdir = [f \in Env |-> IF f = e THEN dir ELSE NULL]
        /\ pgdir = [f \in Env |-> [d \in Pdx |->
                IF f = e /\ d \in D THEN table[d] ELSE NULL]]
        /\ pgtable = [f \in Env |-> [va \in Va |->
                IF f = e /\ va \in Image THEN page[va] ELSE NULL]]
        /\ pp_ref = [p \in Page |-> IF p \in used THEN 1 ELSE 0]
        /\ page_free_list = Page \ used
    BY <1>0 DEF Created
  <1>u. /\ used \in SUBSET Page
        /\ \A p \in Page : p \in used <=> \/ p = dir \/ \E d \in D : table[d] = p
                                          \/ \E va \in Image : page[va] = p
    BY <1>0
  <1>f. Cardinality({dir} \cup {table[d] : d \in D} \cup {page[va] : va \in Image})
            = 1 + Cardinality(D) + Cardinality(Image)
    BY <1>2
  <1> HIDE DEF D
  <1>3. /\ \A x, y \in D : table[x] = table[y] => x = y
        /\ \A x, y \in Image : page[x] = page[y] => x = y
        /\ \A x \in D : table[x] # dir
        /\ \A x \in Image : page[x] # dir
        /\ \A x \in D, y \in Image : table[x] # page[y]
    BY <1>0, <1>1, <1>f, PagesDiffer
  <1>4. FirstEntries(pgdir, Pdx, e, D, table)
    BY <1>0, <1>2, <1>3, SizeAssumption DEF FirstEntries
  <1>5. FirstEntries(pgtable, Va, e, Image, page)
    BY <1>0, <1>2, <1>3, VaFinite DEF FirstEntries
  <1> HIDE DEF used, T, G
  <1>6. ASSUME NEW p \in Page
        PROVE  Pointers(p) = IF p \in used THEN 1 ELSE 0
    <2>1. Cardinality(Where(pgdir, Pdx, p)) = IF \E d \in D : table[d] = p THEN 1 ELSE 0
      BY <1>4, FirstCount
    <2>2. Cardinality(Where(pgtable, Va, p)) =
              IF \E va \in Image : page[va] = p THEN 1 ELSE 0
      BY <1>5, FirstCount
    <2>3. Cardinality(Holders(env_pgdir, p)) = IF p = dir THEN 1 ELSE 0
      <3>1. Holders(env_pgdir, p) = IF p = dir THEN {e} ELSE {}
        BY <1>0, <1>2 DEF Holders
      <3>2. Cardinality({e}) = 1 /\ Cardinality({}) = 0
        BY FS_Singleton, FS_EmptySet
      <3>3. CASE p = dir
        BY <3>1, <3>2, <3>3, Zenon
      <3>4. CASE p # dir
        BY <3>1, <3>2, <3>4, Zenon
      <3>5. QED
        BY <3>3, <3>4
    <2>4. Pointers(p) = Cardinality(Holders(env_pgdir, p))
                          + Cardinality(Where(pgdir, Pdx, p))
                          + Cardinality(Where(pgtable, Va, p))
      BY PointersSplit
    <2>5. QED
      BY <1>u, <1>3, <2>1, <2>2, <2>3, <2>4
  <1>7. QED
    BY <1>2, <1>6, <1>u

\* Boot leaves the counts exact and every page in one use.
LEMMA InitMem == Init => MemInv /\ UseInv
  <1> SUFFICES ASSUME Init PROVE MemInv /\ UseInv
    OBVIOUS
  <1>0. NULL \notin Page /\ NULL \notin Env /\ Image \subseteq Va
    BY PmapAssumption
  <1>1. PICK e \in Env, dir \in Page,
             table \in [{PDX(va) : va \in Image} -> Page],
             page \in [Image -> Page] : Created(e, dir, table, page)
    BY DEF Init
  <1> DEFINE D == {PDX(va) : va \in Image}
  <1>2. PICK used \in SUBSET Page :
            /\ \A p \in Page : Pointers(p) = IF p \in used THEN 1 ELSE 0
            /\ pp_ref = [p \in Page |-> IF p \in used THEN 1 ELSE 0]
            /\ page_free_list = Page \ used
    BY <1>1, InitPointers
  <1>3. /\ env_pgdir = [f \in Env |-> IF f = e THEN dir ELSE NULL]
        /\ pgdir = [f \in Env |-> [d \in Pdx |->
                IF f = e /\ d \in D THEN table[d] ELSE NULL]]
        /\ pgtable = [f \in Env |-> [va \in Va |->
                IF f = e /\ va \in Image THEN page[va] ELSE NULL]]
    BY <1>1 DEF Created
  <1>4. TablesOK
    BY <1>3 DEF TablesOK
  <1>5. TablesHang
    <2>1. ASSUME NEW f \in Env, NEW va \in Va, pgtable[f][va] # NULL
          PROVE  pgdir[f][PDX(va)] # NULL
      <3>1. f = e /\ va \in Image
        BY <1>3, <2>1
      <3>2. PDX(va) \in D /\ PDX(va) \in Pdx
        BY <3>1 DEF Va, PDX
      <3>3. pgdir[f][PDX(va)] = table[PDX(va)] /\ table[PDX(va)] \in Page
        BY <1>3, <3>1, <3>2
      <3>4. QED
        BY <1>0, <3>3
    <2>2. ASSUME NEW f \in Env, NEW d \in Pdx, pgdir[f][d] # NULL
          PROVE  env_pgdir[f] # NULL
      BY <1>0, <1>3, <2>2
    <2>3. QED
      BY <2>1, <2>2 DEF TablesHang
  <1>6. RestOK /\ CpuOK
    BY <1>2 DEF Init, RestOK, CpuOK, OneCpu, NoEntries
  <1>7. CountInv
    <2> DEFINE n == [p \in Page |-> Pointers(p)]
    <2>1. REFLIMIT \in Nat \ {0} /\ 0 \in 0 .. REFLIMIT - 1 /\ 1 \in 0 .. REFLIMIT - 1
      BY PmapAssumption
    <2>2. 0 % REFLIMIT = 0 /\ 1 % REFLIMIT = 1
      BY <2>1, ModNear
    <2>3. ASSUME NEW p \in Page
          PROVE  pp_ref[p] = n[p] /\ (n[p] = 0 \/ n[p] = 1)
      BY <1>2
    <2>4. pp_ref \in [Page -> 0 .. REFLIMIT - 1]
      BY <1>2, <2>1
    <2>5. n \in [Page -> Int]
      BY PointersNat
    <2>h. CountInv <=> Counts(pp_ref, n)
      BY DEF CountInv
    <2> HIDE DEF n
    <2>6. \A p \in Page : pp_ref[p] = n[p] % REFLIMIT
      BY <2>2, <2>3
    <2>7. QED
      BY <2>4, <2>5, <2>6, <2>h DEF Counts
  <1>8. FreeIsUnreferenced
    BY <1>2 DEF FreeIsUnreferenced
  <1>9. TablesArePrivate
    <2>1. ASSUME NEW p \in Page, IsTable(p) PROVE Pointers(p) = 1
      <3>1. Pointers(p) >= 1
        BY <2>1, TableUse
      <3>2. QED
        BY <1>2, <3>1
    <2>2. QED
      BY <2>1 DEF TablesArePrivate
  <1>10. QED
    BY <1>4, <1>5, <1>6, <1>7, <1>8, <1>9 DEF MemInv, UseInv

\* The memory invariant holds whatever programs do.
LEMMA MemAlways == Spec => []MemInv
  <1>1. Init => MemInv
    BY InitMem
  <1>2. MemInv /\ [Next]_vars => MemInv'
    BY NextMem
  <1>3. QED
    BY <1>1, <1>2, PTL DEF Spec

\* page_incref, page_decref: pp_ref is the number of pointers to the page
\* modulo 2^16, on every path through page_insert, page_remove and env_free,
\* and no environment is on two CPUs or runs without a directory.
CountsModulo == \A p \in Page : pp_ref[p] = Pointers(p) % REFLIMIT

\* pp_ref counts the pointers modulo its width, with no hypothesis on programs.
THEOREM RefCountsFollow == Spec => [](CountsModulo /\ OneCpu)
  <1>1. MemInv => CountsModulo /\ OneCpu
    <2>1. SUFFICES ASSUME MemInv PROVE CountsModulo /\ OneCpu
      OBVIOUS
    <2> DEFINE n == [p \in Page |-> Pointers(p)]
    <2>2. \A p \in Page : n[p] = Pointers(p)
      OBVIOUS
    <2>3. Counts(pp_ref, n) /\ OneCpu
      BY <2>1 DEF MemInv, CpuOK, CountInv
    <2> HIDE DEF n
    <2>4. \A p \in Page : pp_ref[p] = n[p] % REFLIMIT
      BY <2>3 DEF Counts
    <2>5. CountsModulo
      BY <2>2, <2>4, Zenon DEF CountsModulo
    <2>6. QED
      BY <2>3, <2>5
  <1>2. QED
    BY <1>1, MemAlways, PTL

\* The use of pages stays right as long as no page gets REFLIMIT pointers.
LEMMA UseAlways == Spec /\ []NoOverflow => [](MemInv /\ UseInv /\ NoOverflow)
  <1>1. Init => MemInv /\ UseInv
    BY InitMem
  <1>2. MemInv /\ UseInv /\ NoOverflow' /\ [Next]_vars => (MemInv /\ UseInv)'
    BY NextMem, NextUse
  <1>3. QED
    BY <1>1, <1>2, PTL DEF Spec

\* inc/memlayout.h: pp_ref is the exact number of pointers to the page, unless
\* programs map one page REFLIMIT times.
THEOREM RefCountsAreExact == Spec /\ []NoOverflow => []RefCountExact
  <1>1. MemInv /\ NoOverflow => RefCountExact
    BY ExactNow DEF MemInv
  <1>2. QED
    BY <1>1, UseAlways, PTL

\* page_alloc, page_free, page_decref: the free list holds exactly the pages
\* that nothing points to: none is handed out twice and none leaks, also when
\* page_insert maps a page over itself or has to allocate a table.
THEOREM FreeListIsUnreferenced == Spec /\ []NoOverflow => []FreeIsUnreferenced
  <1>1. UseInv => FreeIsUnreferenced
    BY DEF UseInv
  <1>2. QED
    BY <1>1, UseAlways, PTL

\* pgdir_walk, env_setup_vm, env_free: no mapping without a table, no table
\* without a directory, no table that a program can write through a mapping,
\* and no CPU on a directory that has been freed.
THEOREM MemoryIsWellFormed == Spec /\ []NoOverflow => []WellFormed
  <1>1. MemInv /\ UseInv => WellFormed
    <2>1. SUFFICES ASSUME MemInv, UseInv PROVE WellFormed
      OBVIOUS
    <2>2. pp_ref \in [Page -> 0 .. REFLIMIT - 1]
      BY <2>1 DEF MemInv, CountInv, Counts
    <2>3. TypeOK
      BY <2>1, <2>2 DEF MemInv, TablesOK, RestOK, CpuOK, TypeOK
    <2>4. QED
      BY <2>1, <2>3 DEF WellFormed, MemInv, UseInv, TablesHang, CpuOK
  <1>2. QED
    BY <1>1, UseAlways, PTL
=============================================================================
