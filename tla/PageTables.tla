----------------------------- MODULE PageTables -----------------------------
(***************************************************************************)
(* The physical page allocator and the two-level page tables of            *)
(* src/kern/pmap.c as operators on a memory record, for the code that runs *)
(* while the kernel builds its own address space.  Addresses are page      *)
(* numbers; the layout of inc/memlayout.h is kept and scaled down.         *)
(***************************************************************************)
EXTENDS Integers, Sequences, SequencesExt, FiniteSets

CONSTANTS
    NPTENTRIES,   \* entries of a page table: PTSIZE in pages
    NPDENTRIES,   \* entries of the page directory
    WINDOW,       \* directory entries at and above KERNBASE
    IOPHYSMEM,    \* first page of the I/O hole
    EXTPHYSMEM,   \* first page after it
    MPENTRY,      \* page of the start-up code of the other CPUs
    NCPU,         \* size of cpus[] and of percpu_kstacks[]
    KSTKSIZE,     \* pages of a kernel stack
    KSTKGAP       \* pages of the gap below it

ASSUME LayoutAssumption ==
    /\ {NPTENTRIES, NPDENTRIES, WINDOW, IOPHYSMEM, EXTPHYSMEM, MPENTRY,
        NCPU, KSTKSIZE, KSTKGAP} \subseteq Nat \ {0}
    /\ WINDOW + 7 <= NPDENTRIES /\ NPDENTRIES <= NPTENTRIES
    /\ NCPU * (KSTKSIZE + KSTKGAP) <= NPTENTRIES
    /\ MPENTRY < IOPHYSMEM /\ IOPHYSMEM < EXTPHYSMEM

(***************************************************************************)
(* The virtual memory map, from the top down.                              *)
(***************************************************************************)
KERNBASE  == (NPDENTRIES - WINDOW) * NPTENTRIES
KSTACKTOP == KERNBASE
MMIOLIM   == KSTACKTOP - NPTENTRIES
MMIOBASE  == MMIOLIM - NPTENTRIES
ULIM      == MMIOBASE
UVPT      == ULIM - NPTENTRIES
UPAGES    == UVPT - NPTENTRIES
UENVS     == UPAGES - NPTENTRIES
UTOP      == UENVS
VaLimit   == NPDENTRIES * NPTENTRIES

\* Sizes are counted in half pages, so that some are not whole pages.
PGSIZE == 2
PagesOf(size) == (size + PGSIZE - 1) \div PGSIZE

PDX(va) == va \div NPTENTRIES
PTX(va) == va % NPTENTRIES

(***************************************************************************)
(* A word of a page: an entry with flags, or data, which may look like one *)
(* (the byte 0x97 and the data patterns 1, 2, 3 have the present bit set). *)
(***************************************************************************)
Word(pa, perm) == [pa |-> pa, perm |-> perm]
Zero       == Word(0, {})
Present(w) == "P" \in w.perm
Filled(w)  == [i \in 0..NPTENTRIES - 1 |-> w]
Junk       == Filled(Word(-1, {"P", "W", "U"}))

NULL  == -1     \* no page
NoPte == <<>>   \* no entry

(***************************************************************************)
(* The memory record.  cells has the contents of the pages written since   *)
(* they were last junk; touched are the pages reached through KERNBASE     *)
(* while entry_pgdir is loaded, kept for the properties.                   *)
(***************************************************************************)
Memory(npages) ==
    [npages |-> npages, free |-> <<>>, ref |-> [p \in 0..npages - 1 |-> 0],
     cells |-> [p \in {} |-> Zero], pgdir |-> Filled(Zero),
     cr3 |-> "entry", touched |-> {}, panic |-> FALSE]

Cells(m, p) == IF p \in DOMAIN m.cells THEN m.cells[p] ELSE Junk

Panic(m) == [m EXCEPT !.panic = TRUE]

\* An access to page p through its address at KERNBASE.
Touch(m, p) == IF m.cr3 = "entry" THEN [m EXCEPT !.touched = @ \cup {p}] ELSE m

\* memset of a whole page, or a store to one of its words.
Memset(m, p, w) ==
    [Touch(m, p) EXCEPT !.cells =
        [q \in DOMAIN @ \cup {p} |-> IF q = p THEN Filled(w) ELSE @[q]]]

SetPte(m, pte, w) ==
    [Touch(m, pte[1]) EXCEPT !.cells =
        [q \in DOMAIN @ \cup {pte[1]} |->
            IF q = pte[1] THEN [Cells(m, q) EXCEPT ![pte[2]] = w] ELSE @[q]]]

-----------------------------------------------------------------------------
(***************************************************************************)
(* page_alloc, page_free, page_decref.  A page is linked if another one    *)
(* follows it on the list, so freeing the last page twice is not noticed.  *)
(***************************************************************************)
Pop(m) == [m EXCEPT !.free = Tail(@)]

PageAlloc(m, zero) ==
    IF m.free = <<>> THEN [page |-> NULL, m |-> m]
    ELSE [page |-> Head(m.free),
          m    |-> IF zero THEN Memset(Pop(m), Head(m.free), Zero) ELSE Pop(m)]

Linked(m, p) == \E i \in 1..Len(m.free) - 1 : m.free[i] = p

PageFree(m, p) ==
    IF m.ref[p] # 0 \/ Linked(m, p) THEN Panic(m)
    ELSE [m EXCEPT !.free = <<p>> \o @]

\* Mutant: the last reference goes away without page_free.
PageDecrefKeeps(m, p) == [m EXCEPT !.ref[p] = @ - 1]

PageDecref(m, p) ==
    IF m.ref[p] = 1 THEN PageFree([m EXCEPT !.ref[p] = 0], p)
    ELSE [m EXCEPT !.ref[p] = @ - 1]

(***************************************************************************)
(* pgdir_walk: the place of the entry of va, <<table, index>>, or NoPte.   *)
(***************************************************************************)
PtePlace(m, va) ==
    IF Present(m.pgdir[PDX(va)]) THEN <<m.pgdir[PDX(va)].pa, PTX(va)>> ELSE NoPte

NewTable(a, va) ==
    [pte |-> <<a.page, PTX(va)>>,
     m   |-> [a.m EXCEPT !.ref[a.page] = @ + 1,
                         !.pgdir[PDX(va)] = Word(a.page, {"P", "U", "W"})]]

PgdirWalk(m, va, create) ==
    IF Present(m.pgdir[PDX(va)]) \/ ~create \/ m.free = <<>>
    THEN [pte |-> PtePlace(m, va), m |-> m]
    ELSE NewTable(PageAlloc(m, TRUE), va)

\* The entry of va, Zero where there is no table.
Pte(m, va) ==
    IF PtePlace(m, va) = NoPte THEN Zero
    ELSE Cells(m, m.pgdir[PDX(va)].pa)[PTX(va)]

(***************************************************************************)
(* boot_map_region maps size bytes, rounded up to whole pages, page by     *)
(* page; the tables it needs are created in the order of the addresses.    *)
(* mmio_map_region reserves the pages of the device region from its static *)
(* variable base on and maps them uncached; the range may not end at       *)
(* MMIOLIM itself.                                                         *)
(***************************************************************************)
Tables(m, slots) == {m.pgdir[i].pa : i \in slots}

\* Mutant: without the last, partial page.
PgsDown(size) == size \div PGSIZE

Pgs(size) == size \div PGSIZE + (IF size % PGSIZE # 0 THEN 1 ELSE 0)

CreateTable(m, i) == PgdirWalk(m, i * NPTENTRIES, TRUE).m

\* The entries of the range, in the tables at slots of the directory.
MapEntries(m, va, n, slots, pa, perm) ==
    LET Entries(q) ==
            LET first == (CHOOSE i \in slots : m.pgdir[i].pa = q) * NPTENTRIES
            IN  [j \in 0..NPTENTRIES - 1 |->
                    IF first + j \in va..va + n - 1
                    THEN Word(pa + first + j - va, perm \cup {"P"})
                    ELSE m.cells[q][j]]
    IN  IF \E i \in slots : ~Present(m.pgdir[i]) THEN Panic(m)
        ELSE [m EXCEPT
                !.cells = [q \in DOMAIN @ |->
                             IF q \in Tables(m, slots) THEN Entries(q) ELSE @[q]],
                !.touched = IF m.cr3 = "entry" THEN @ \cup Tables(m, slots) ELSE @]

BootMapRegion(m, va, size, pa, perm) ==
    LET slots == PDX(va)..PDX(va + Pgs(size) - 1)
    IN  MapEntries(FoldLeft(CreateTable, m, SetToSortSeq(slots, <)),
                   va, Pgs(size), slots, pa, perm)

MmioMapRegion(m, base, pa, size) ==
    LET n == PagesOf(pa * PGSIZE + size) - pa
    IN  IF base + n >= MMIOLIM THEN [m |-> Panic(m), base |-> base]
        ELSE [m    |-> BootMapRegion(m, base, n * PGSIZE, pa, {"C", "W"}),
              base |-> base + n]

(***************************************************************************)
(* page_lookup gives NULL only for a zero entry; page_insert and           *)
(* page_remove work on kern_pgdir, the only directory during start-up.     *)
(***************************************************************************)
PageLookup(m, va) == IF Pte(m, va) = Zero THEN NULL ELSE Pte(m, va).pa

PageRemove(m, va) ==
    IF PageLookup(m, va) = NULL THEN m
    ELSE SetPte(PageDecref(m, PageLookup(m, va)), PtePlace(m, va), Zero)

RemovePresent(m, va) == IF Present(Pte(m, va)) THEN PageRemove(m, va) ELSE m

InsertPte(w, p, va, perm) ==
    IF w.pte = NoPte THEN [err |-> TRUE, m |-> w.m]
    ELSE [err |-> FALSE,
          m |-> [SetPte(RemovePresent([w.m EXCEPT !.ref[p] = @ + 1], va),
                        w.pte, Word(p, perm \cup {"P"}))
                   EXCEPT !.pgdir[PDX(va)].perm = @ \cup perm]]

PageInsert(m, p, va, perm) == InsertPte(PgdirWalk(m, va, TRUE), p, va, perm)

\* check_va2pa: the page that va is translated to.
Va2Pa(m, va) == IF Present(Pte(m, va)) THEN Pte(m, va).pa ELSE NULL

\* What a load or a store of the processor at va reaches.
Load(m, va)     == Cells(m, Va2Pa(m, va))[0]
Store(m, va, w) == SetPte(m, <<Va2Pa(m, va), 0>>, w)
=============================================================================
