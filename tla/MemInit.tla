------------------------------ MODULE MemInit ------------------------------
(***************************************************************************)
(* mem_init of src/kern/pmap.c: from the memory that the CMOS reports to   *)
(* the kernel's own page tables, with the self tests that run in between.  *)
(* The tests are part of the behaviour: the first one sorts the free list, *)
(* another one creates the page table of the device region.                *)
(***************************************************************************)
EXTENDS PageTables, TLC

CONSTANTS
    Machines,     \* the machines started: cmos contents and CPU tables
    KernelPages,  \* pages of the kernel's image, from EXTPHYSMEM on
    PageInfoSize, \* PageInfo structures per half page
    EnvsSize      \* half pages of the array envs

VARIABLES
    machine,  \* the machine that is started
    pc,       \* what the boot CPU does next
    m,        \* its memory
    base      \* the next page of the device region, static in mmio_map_region

memVars == <<machine, pc, m, base>>

(***************************************************************************)
(* nvram_read joins two CMOS registers to kilobytes.  A page has 4 of them *)
(* and megabytes are scaled: the first one ends at EXTPHYSMEM, the second  *)
(* CMOS size counts from SIXTEEN on, in units of two pages.                *)
(***************************************************************************)
SIXTEEN == NPTENTRIES + 4

NvramRead(lo) == machine.cmos[lo] + 256 * machine.cmos[lo + 1]

BaseMem  == NvramRead(1)
ExtMem   == NvramRead(3)
Ext16Mem == NvramRead(5) * 8

DetectMemory ==
    CASE Ext16Mem # 0 -> (4 * SIXTEEN + Ext16Mem) \div 4
      [] Ext16Mem = 0 /\ ExtMem # 0 -> (4 * EXTPHYSMEM + ExtMem) \div 4
      [] OTHER -> BaseMem \div 4

(***************************************************************************)
(* boot_alloc is called three times; it never fails.  The kernel's image   *)
(* holds the stacks of the CPUs, then bootstack.                           *)
(***************************************************************************)
percpu_kstacks(i) == EXTPHYSMEM + i * KSTKSIZE
bootstack         == EXTPHYSMEM + NCPU * KSTKSIZE

BootAlloc(nextfree, size) == nextfree + PagesOf(size)

PagesSize(n)  == (n + PageInfoSize - 1) \div PageInfoSize
kern_pgdir    == EXTPHYSMEM + KernelPages
pages         == BootAlloc(kern_pgdir, PGSIZE)
envs(n)       == BootAlloc(pages, PagesSize(n))
BootBreak(n)  == BootAlloc(envs(n), EnvsSize)

MemInitInit ==
    /\ machine \in Machines
    /\ pc = "detect"
    /\ m = Memory(0)
    /\ base = MMIOBASE

\* A step of mem_init; an assertion that fails enters the monitor for good.
Step(from, to, new, holds) ==
    /\ pc = from
    /\ m' = new
    /\ pc' = IF holds /\ ~new.panic THEN to ELSE "monitor"
    /\ UNCHANGED <<machine, base>>

\* A step whose outcome is a memory and a verdict.
StepTo(from, to, r) == Step(from, to, r.m, r.ok)

I386DetectMemory == Step("detect", "boot_alloc", Memory(DetectMemory), TRUE)

\* The directory, pages[] and envs[], all cleared with memset.
BootAllocs ==
    Step("boot_alloc", "page_init",
         [m EXCEPT !.pgdir[PDX(UVPT)] = Word(kern_pgdir, {"U", "P"}),
                   !.touched = kern_pgdir..BootBreak(m.npages) - 1],
         TRUE)

(***************************************************************************)
(* page_init takes the size of base memory from the constant IOPHYSMEM,    *)
(* not from what the machine reports.                                      *)
(***************************************************************************)
\* Mutant: the page of the entry code of lab 4 is forgotten.
InUseNoMpentry(n, i) == i = 0 \/ i \in IOPHYSMEM..BootBreak(n) - 1

InUse(n, i) == i = 0 \/ i \in IOPHYSMEM..BootBreak(n) - 1 \/ i = MPENTRY

FreeDown(n) == SelectSeq([i \in 1..n |-> n - i], LAMBDA i : ~InUse(n, i))

PageInit ==
    Step("page_init", "check_free_low",
         [m EXCEPT !.ref = [i \in DOMAIN @ |-> IF InUse(m.npages, i) THEN 1 ELSE 0],
                   !.free = FreeDown(m.npages)], TRUE)

-----------------------------------------------------------------------------
(***************************************************************************)
(* check_page_free_list.  With only_low_memory it first moves the pages    *)
(* that entry_pgdir maps to the front; both forms overwrite the beginning  *)
(* of the free pages they may touch, and look at the list.                 *)
(***************************************************************************)
Low(p) == PDX(p) < 1

\* Mutant: the list keeps its order.
LowFirstNot(free) == free

LowFirst(free) == SelectSeq(free, Low) \o SelectSeq(free, LAMBDA p : ~Low(p))

\* The address of a page in the window at KERNBASE: beyond it, it wraps.
page2kva(p) == (KERNBASE + p) % VaLimit

FreeListLooksRight(mm) ==
    LET F == Range(mm.free)
    IN  /\ F \cap {0, IOPHYSMEM, EXTPHYSMEM - 1, EXTPHYSMEM, MPENTRY} = {}
        /\ \A p \in F : p < EXTPHYSMEM \/ page2kva(p) >= KERNBASE + BootBreak(mm.npages)
        /\ \E p \in F : p < EXTPHYSMEM
        /\ \E p \in F : p >= EXTPHYSMEM

\* memset(page2kva(pp), 0x97, 128) for the pages of S: they are junk again.
Scribble(mm, S) ==
    [mm EXCEPT !.cells = [p \in DOMAIN @ \ S |-> @[p]],
               !.touched = IF mm.cr3 = "entry" THEN @ \cup S ELSE @]

FreeListVerdict(mm) == [m |-> mm, ok |-> FreeListLooksRight(mm)]

CheckPageFreeList(mm, only_low_memory) ==
    FreeListVerdict(
        IF only_low_memory
        THEN Scribble([mm EXCEPT !.free = LowFirst(@)], {p \in Range(mm.free) : Low(p)})
        ELSE Scribble(mm, Range(mm.free)))

CheckFreeLow ==
    /\ m.free # <<>>
    /\ StepTo("check_free_low", "check_alloc", CheckPageFreeList(m, TRUE))

CheckFreeEmpty == m.free = <<>> /\ Step("check_free_low", "monitor", Panic(m), TRUE)

(***************************************************************************)
(* check_page_alloc takes three pages, empties the list behind them, frees *)
(* and takes them again, and gives everything back: its effect is the list *)
(* with its first three pages in another order.                            *)
(***************************************************************************)
AndAlloc(got, i) ==
    LET With(a) == [pp |-> Append(got.pp, a.page), m |-> a.m]
    IN  With(PageAlloc(got.m, FALSE))

Alloc3(mm) == FoldLeft(AndAlloc, [pp |-> <<>>, m |-> mm], <<1, 2, 3>>)

Free3(mm, pp) == PageFree(PageFree(PageFree(mm, pp[1]), pp[2]), pp[3])

Distinct3(pp) == NULL \notin Range(pp) /\ IsInjective(pp)

NoMemory(mm) == PageAlloc(mm, FALSE).page = NULL

\* Steal the rest of the list, or give the list fl back.
WithFree(mm, fl) == [mm EXCEPT !.free = fl]

GiveBack(mm, z, b, fl) ==
    LET Verdict(e) ==
            [m  |-> e,
             ok |-> /\ Distinct3(b.pp) /\ NoMemory(b.m)
                    /\ z.page = b.pp[1] /\ Cells(z.m, z.page) = Filled(Zero)
                    /\ Range(e.free) = Range(mm.free) /\ Len(e.free) = Len(mm.free)]
    IN  Verdict(Free3(WithFree(z.m, fl), b.pp))

AllocZeroed(mm, b, fl) ==
    GiveBack(mm, PageAlloc(PageFree(Memset(b.m, b.pp[1], Word(1, {"P"})), b.pp[1]), TRUE),
             b, fl)

AllocAgain(mm, a) ==
    IF Distinct3(a.pp) /\ \A i \in 1..3 : a.pp[i] < mm.npages
    THEN AllocZeroed(mm, Alloc3(Free3(WithFree(a.m, <<>>), a.pp)), a.m.free)
    ELSE [ok |-> FALSE, m |-> a.m]

CheckPageAlloc(mm) == AllocAgain(mm, Alloc3(mm))

CheckAlloc == StepTo("check_alloc", "check_page", CheckPageAlloc(m))

(***************************************************************************)
(* check_page exercises page_insert, page_remove and pgdir_walk with three *)
(* pages and no other memory, takes the page table back by force each time *)
(* it created one, and tries mmio_map_region.  What it leaves behind is    *)
(* the table of the device region and a base that is three pages higher.   *)
(***************************************************************************)
TakeTable(mm, pdx, p) == [mm EXCEPT !.pgdir[pdx] = Zero, !.ref[p] = 0]

\* The calls of check_page in order; r[i] is what call i - 1 returned.
Perform(r, call) ==
    LET mm == Last(r).m
    IN  Append(r, CASE call[1] = "insert" -> PageInsert(mm, call[2], call[3], call[4])
                    [] call[1] = "remove" -> [m |-> PageRemove(mm, call[2])]
                    [] call[1] = "alloc"  -> PageAlloc(mm, FALSE)
                    [] call[1] = "free"   -> [m |-> PageFree(mm, call[2])])

Calls(pp0, pp1, pp2) ==
    << <<"insert", pp1, 0, {"W"}>>,          \* no memory for a table
       <<"free", pp0>>,
       <<"insert", pp1, 0, {"W"}>>,          \* pp0 becomes the table
       <<"insert", pp2, 1, {"W"}>>,
       <<"insert", pp2, 1, {"W"}>>,          \* the same page again
       <<"insert", pp2, 1, {"W", "U"}>>,
       <<"insert", pp2, 1, {"W"}>>,
       <<"insert", pp0, NPTENTRIES, {"W"}>>, \* no memory for a table
       <<"insert", pp1, 1, {"W"}>>,          \* replaces pp2, which is freed
       <<"alloc">>,
       <<"remove", 0>>,
       <<"insert", pp1, 1, {}>>,
       <<"remove", 1>>,                      \* frees pp1
       <<"alloc">> >>

InsertVerdict(r, pp0, pp1, pp2) ==
    [m |-> Last(r).m,
     ok |-> /\ NoMemory(r[1].m) /\ PageLookup(r[1].m, 0) = NULL
            /\ \A i \in {2, 9} : r[i].err
            /\ \A i \in {4, 5, 6, 7, 8, 10, 13} : ~r[i].err /\ ~r[i].m.panic
            /\ r[4].m.pgdir[0].pa = pp0 /\ Va2Pa(r[4].m, 0) = pp1
            /\ r[4].m.ref[pp1] = 1 /\ r[4].m.ref[pp0] = 1
            /\ \A i \in 5..7 : Va2Pa(r[i].m, 1) = pp2 /\ r[i].m.ref[pp2] = 1
            /\ \A i \in 5..6 : NoMemory(r[i].m)
            /\ PtePlace(r[6].m, 1) = <<r[6].m.pgdir[0].pa, 1>>
            /\ "U" \in Pte(r[7].m, 1).perm /\ "U" \in r[7].m.pgdir[0].perm
            /\ "W" \in Pte(r[8].m, 1).perm /\ "U" \notin Pte(r[8].m, 1).perm
            /\ "U" \notin Pte(r[10].m, 1).perm
            /\ Va2Pa(r[10].m, 0) = pp1 /\ Va2Pa(r[10].m, 1) = pp1
            /\ r[10].m.ref[pp1] = 2 /\ r[10].m.ref[pp2] = 0 /\ r[11].page = pp2
            /\ Va2Pa(r[12].m, 0) = NULL /\ Va2Pa(r[12].m, 1) = pp1
            /\ r[12].m.ref[pp1] = 1 /\ r[13].m.ref[pp1] # 0 /\ ~Linked(r[13].m, pp1)
            /\ \A va \in 0..1 : Va2Pa(r[14].m, va) = NULL
            /\ r[14].m.ref[pp1] = 0 /\ r[14].m.ref[pp2] = 0 /\ r[15].page = pp1
            /\ NoMemory(r[15].m) /\ r[15].m.pgdir[0].pa = pp0 /\ r[15].m.ref[pp0] = 1]

CheckPageInsert(mm, pp0, pp1, pp2) ==
    InsertVerdict(FoldLeft(Perform, <<[m |-> mm]>>, Calls(pp0, pp1, pp2)), pp0, pp1, pp2)

\* pgdir_walk with a table that is not the first, then with a reused page.
CheckPageTables(mm, pp0) ==
    LET va == NPTENTRIES + 1
        Verdict(w1, w2) ==
            [m |-> TakeTable(w2.m, 0, pp0),
             ok |-> /\ w1.pte = <<w1.m.pgdir[PDX(va)].pa, PTX(va)>>
                    /\ \A i \in 0..NPTENTRIES - 1 : ~Present(Cells(w2.m, pp0)[i])]
        Reuse(w1) ==
            Verdict(w1, PgdirWalk(PageFree(Memset(TakeTable(w1.m, PDX(va), pp0), pp0,
                                                  Word(-2, {"P", "W", "U"})), pp0), 0, TRUE))
    IN  Reuse(PgdirWalk(PageFree(TakeTable(mm, 0, pp0), pp0), va, TRUE))

\* The regions are at mm1 and at mm2.
CheckMmio(mm, mm1) ==
    LET Clear(x, va) == SetPte(x, PtePlace(x, va), Zero)
        Verdict(mm2, r) ==
            [m |-> Clear(Clear(Clear(r.m, mm1), mm1 + 1), mm2),
             base |-> r.base,
             ok |-> /\ mm1 >= MMIOBASE /\ mm2 + 2 < MMIOLIM /\ mm1 + 2 <= mm2
                    /\ Va2Pa(r.m, mm1) = 0 /\ Va2Pa(r.m, mm1 + 1) = 1
                    /\ Va2Pa(r.m, mm2) = 0 /\ Va2Pa(r.m, mm2 + 1) = NULL
                    /\ Pte(r.m, mm1).perm \cap {"W", "C"} # {}
                    /\ "U" \notin Pte(r.m, mm1).perm]
        Second(r) == Verdict(r.base, MmioMapRegion(r.m, r.base, 0, PGSIZE))
    IN  Second(MmioMapRegion(mm, mm1, 0, PGSIZE + 1))

CheckPageAll(mm, b) ==
    LET Also(ok, r)  == [r EXCEPT !.ok = ok /\ @]
        Mmio(r, a)   == Also(r.ok, CheckMmio(Free3(WithFree(r.m, a.m.free), a.pp), b))
        Tabled(r, a) == Mmio(Also(r.ok, CheckPageTables(r.m, a.pp[1])), a)
        With(a) ==
            IF ~Distinct3(a.pp) THEN [ok |-> FALSE, m |-> a.m, base |-> b]
            ELSE Tabled(CheckPageInsert(WithFree(a.m, <<>>), a.pp[1], a.pp[2], a.pp[3]), a)
    IN  With(Alloc3(mm))

CheckPage ==
    LET r == CheckPageAll(m, base)
    IN  /\ pc = "check_page"
        /\ m' = r.m /\ base' = r.base
        /\ pc' = IF r.ok /\ ~r.m.panic THEN "map" ELSE "monitor"
        /\ UNCHANGED machine

-----------------------------------------------------------------------------
(***************************************************************************)
(* The mappings above UTOP.  The size of the window at KERNBASE is one     *)
(* byte short of a whole number of pages.  mem_init_mp replaces the entry  *)
(* of bootstack by the stack of CPU 0 and adds the other stacks.           *)
(***************************************************************************)
kstacktop(i) == KSTACKTOP - i * (KSTKSIZE + KSTKGAP)

\* The calls of boot_map_region: address, size, first page, permissions.
Regions(n) ==
    << <<UPAGES, NPTENTRIES * PGSIZE, pages, {"U", "P"}>>,
       <<UENVS, NPTENTRIES * PGSIZE, envs(n), {"U", "P"}>>,
       <<KSTACKTOP - KSTKSIZE, KSTKSIZE * PGSIZE, bootstack, {"W"}>>,
       <<KERNBASE, (VaLimit - KERNBASE) * PGSIZE - 1, 0, {"W"}>> >>

MapRegion(mm, r) == BootMapRegion(mm, r[1], r[2], r[3], r[4])

MapKernel == Step("map", "map_mp", FoldLeft(MapRegion, m, Regions(m.npages)), TRUE)

MapStack(mm, i) ==
    BootMapRegion(mm, kstacktop(i) - KSTKSIZE, KSTKSIZE * PGSIZE, percpu_kstacks(i), {"W"})

MemInitMp ==
    Step("map_mp", "check_kern",
         FoldLeft(MapStack, m, [i \in 1..NCPU |-> i - 1]), TRUE)

(***************************************************************************)
(* check_kern_pgdir.  The addresses KERNBASE + i wrap around.              *)
(***************************************************************************)
CheckKernPgdir(mm) ==
    /\ \A i \in 0..PagesOf(PagesSize(mm.npages)) - 1 : Va2Pa(mm, UPAGES + i) = pages + i
    /\ \A i \in 0..PagesOf(EnvsSize) - 1 : Va2Pa(mm, UENVS + i) = envs(mm.npages) + i
    /\ \A i \in 0..mm.npages - 1 : Va2Pa(mm, page2kva(i)) = i
    /\ \A n \in 0..NCPU - 1 :
          /\ \A i \in 0..KSTKSIZE - 1 :
                Va2Pa(mm, kstacktop(n) - KSTKSIZE + i) = percpu_kstacks(n) + i
          /\ \A i \in 0..KSTKGAP - 1 : Va2Pa(mm, kstacktop(n + 1) + i) = NULL
    /\ \A i \in 0..NPDENTRIES - 1 :
          IF i \in {PDX(UVPT), PDX(KSTACKTOP - 1), PDX(UPAGES), PDX(UENVS), PDX(MMIOBASE)}
          THEN Present(mm.pgdir[i])
          ELSE IF i >= PDX(KERNBASE) THEN {"P", "W"} \subseteq mm.pgdir[i].perm
          ELSE mm.pgdir[i] = Zero

CheckKern == Step("check_kern", "lcr3", m, CheckKernPgdir(m))

Lcr3 ==
    StepTo("lcr3", "check_installed", CheckPageFreeList([m EXCEPT !.cr3 = "kern"], FALSE))

(***************************************************************************)
(* check_page_installed_pgdir writes through mappings that the processor   *)
(* now uses.  pp1 and pp2 come back by page_remove, pp0 by force.          *)
(***************************************************************************)
CheckInstalledPgdir(mm) ==
    LET W(n) == Word(n, {"P"})
        Verdict(pp, i1, i2, s2, r2) ==
            [m |-> PageFree(TakeTable(r2, 0, pp[1]), pp[1]),
             ok |-> /\ Distinct3(pp) /\ i1.ref[pp[2]] = 1 /\ Load(i1, 1) = W(1)
                    /\ Load(i2, 1) = W(2) /\ i2.ref[pp[3]] = 1 /\ i2.ref[pp[2]] = 0
                    /\ Cells(s2, pp[3])[0] = W(3) /\ r2.ref[pp[3]] = 0
                    /\ r2.pgdir[0].pa = pp[1] /\ r2.ref[pp[1]] = 1]
        Removed(pp, i1, i2, s2) == Verdict(pp, i1, i2, s2, PageRemove(s2, 1))
        Stored(pp, i1, i2)      == Removed(pp, i1, i2, Store(i2, 1, W(3)))
        Second(pp, i1)          == Stored(pp, i1, PageInsert(i1, pp[3], 1, {"W"}).m)
        First(pp, m1)           == Second(pp, PageInsert(m1, pp[2], 1, {"W"}).m)
        With(a) ==
            First(a.pp, Memset(Memset(PageFree(a.m, a.pp[1]), a.pp[2], W(1)), a.pp[3], W(2)))
    IN  With(Alloc3(mm))

CheckInstalled == StepTo("check_installed", "env_trap_init", CheckInstalledPgdir(m))

MemInitStep ==
    \/ I386DetectMemory \/ BootAllocs \/ PageInit \/ CheckFreeLow \/ CheckFreeEmpty
    \/ CheckAlloc \/ CheckPage \/ MapKernel \/ MemInitMp \/ CheckKern \/ Lcr3
    \/ CheckInstalled
=============================================================================
