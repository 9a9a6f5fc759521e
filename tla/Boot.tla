------------------------------- MODULE Boot -------------------------------
(***************************************************************************)
(* i386_init of src/kern/init.c on the boot CPU and mp_main on the others: *)
(* mem_init (MemInit), the MP table, the local APICs, and boot_aps, which  *)
(* starts the other CPUs one at a time.  Until a CPU takes the kernel lock *)
(* only this hand-over keeps two of them from the allocator, the console   *)
(* and the one variable that tells a new CPU its stack.                    *)
(***************************************************************************)
EXTENDS MemInit, FiniteSetsExt

CONSTANT MAXAPICID    \* the largest APIC id, 255 on this hardware

VARIABLES
    ncpu, bootcpu,    \* what mp_init found, bootcpu as an index into cpus[]
    lapicaddr,        \* whether there is a local APIC to map
    lapic,            \* where it is mapped, NULL before
    cpu_status,       \* of cpus[i]
    mpentry_kstack,   \* the stack for the CPU being started: its last page
    c,                \* the loop of boot_aps
    ap,               \* what each CPU but the boot CPU does, by APIC id
    esp,              \* the stack each CPU runs on: its last page
    esp0,             \* the kernel stack of its task state segment
    lint0,            \* the CPUs that receive external interrupts
    lock              \* the CPU that holds the kernel lock, or NULL

bootVars == <<ncpu, bootcpu, lapicaddr, lapic, cpu_status, mpentry_kstack, c,
              ap, esp, esp0, lint0, lock>>
vars == <<memVars, bootVars>>

CPUs == 0..MAXAPICID  \* APIC ids; there may be more of them than cpus[] holds
BSP  == machine.bsp
UNKNOWN == -1         \* an entry of the MP table of a type mp_init does not know
LAPIC_PA == 1000      \* the page of the APIC's registers, above all memory

(***************************************************************************)
(* The MP table is a sequence of APIC ids, one for each processor entry,   *)
(* with an unknown entry anywhere or none; the entries that mp_init skips  *)
(* are left out.  It may list any number of processors in any order, and   *)
(* any of them may be the boot CPU: one entry at most has the boot flag.   *)
(***************************************************************************)
ASSUME MachineAssumption ==
    /\ MAXAPICID \in Nat /\ NCPU <= MAXAPICID
    /\ \A x \in Machines :
          /\ x.bsp \in CPUs /\ x.procs \in Seq(CPUs \cup {UNKNOWN})
          /\ \A i, j \in DOMAIN x.procs : x.procs[i] = x.bsp /\ x.procs[j] = x.bsp => i = j

Init ==
    /\ MemInitInit
    /\ ncpu = 0 /\ bootcpu = 0 /\ lapicaddr = FALSE /\ lapic = NULL
    /\ cpu_status = [i \in 0..NCPU - 1 |-> "CPU_UNUSED"]
    /\ mpentry_kstack = NULL /\ c = 0
    /\ ap = [a \in CPUs |-> IF a \in Range(machine.procs) \ {BSP} THEN "reset" ELSE "none"]
    /\ esp = [a \in CPUs |-> IF a = BSP THEN bootstack ELSE NULL]
    /\ esp0 = [a \in CPUs |-> NULL]
    /\ lint0 = {BSP}
    /\ lock = NULL

(***************************************************************************)
(* cpunum() reads the APIC id, or is 0 before the APIC is mapped; so does  *)
(* thiscpu.  trap_init runs trap_init_percpu on the boot CPU before that.  *)
(***************************************************************************)
cpunum(a) == IF lapic = NULL THEN 0 ELSE a

\* Mutant: the example code of the lab, right for CPU 0 only.
TrapInitPercpuZero(a) == esp0' = [esp0 EXCEPT ![a] = kstacktop(0)]

TrapInitPercpu(a) == esp0' = [esp0 EXCEPT ![a] = kstacktop(cpunum(a))]

Goto(from, to) == pc = from /\ pc' = to

EnvTrapInit ==
    /\ Goto("env_trap_init", "mp_init")
    /\ TrapInitPercpu(BSP)
    /\ UNCHANGED <<machine, m, base, ncpu, bootcpu, lapicaddr, lapic, cpu_status,
                   mpentry_kstack, c, ap, esp, lint0, lock>>

(***************************************************************************)
(* mp_init: without a valid table it leaves ncpu at 0.  Otherwise every    *)
(* processor entry up to NCPU gets the next index, whatever its APIC id    *)
(* is; an entry of unknown type ends the walk and the use of other CPUs.   *)
(* A boot CPU that comes after NCPU others gets the index NCPU, and the    *)
(* write of its status is a write past the end of cpus[]: nothing is said  *)
(* of what the kernel does afterwards.                                     *)
(***************************************************************************)
Walked(procs) == {i \in DOMAIN procs : \A j \in 1..i : procs[j] # UNKNOWN}

AtMost(n, limit) == IF n < limit THEN n ELSE limit

\* Mutants: the boot flag of the entries is ignored; the limit NCPU is.
IndexOfZero(procs, a) == 0
CpuCountAll(procs) == Cardinality(Walked(procs))

CpuCount(procs) == AtMost(Cardinality(Walked(procs)), NCPU)

IndexOf(procs, a) ==
    LET entries == {i \in Walked(procs) : procs[i] = a}
    IN  IF entries = {} THEN 0 ELSE AtMost((CHOOSE i \in entries : TRUE) - 1, NCPU)

FallsBack(procs) == UNKNOWN \in Range(procs)

MpInit ==
    /\ pc = "mp_init"
    /\ IF machine.conf = "none"
       THEN pc' = "lapic_init" /\ UNCHANGED <<ncpu, bootcpu, lapicaddr, cpu_status>>
       ELSE /\ bootcpu' = IndexOf(machine.procs, BSP)
            /\ cpu_status' = [i \in 0..NCPU - 1 |->
                                IF i = bootcpu' THEN "CPU_STARTED" ELSE cpu_status[i]]
            /\ pc' = IF bootcpu' = NCPU THEN "wild" ELSE "lapic_init"
            /\ IF FallsBack(machine.procs)
               THEN ncpu' = 1 /\ lapicaddr' = FALSE
               ELSE ncpu' = CpuCount(machine.procs) /\ lapicaddr' = TRUE
    /\ UNCHANGED <<machine, m, base, lapic, mpentry_kstack, c, ap, esp, esp0, lint0, lock>>

(***************************************************************************)
(* lapic_init on CPU a maps the registers once more, at a new address, for *)
(* every CPU to use from then on.  All but the boot CPU mask LINT0.        *)
(***************************************************************************)
LapicInit(a) ==
    IF ~lapicaddr THEN UNCHANGED <<m, base, lapic, lint0>>
    ELSE /\ LET r == MmioMapRegion(m, base, LAPIC_PA, PGSIZE)
            IN  m' = r.m /\ base' = r.base
         /\ lapic' = base
         /\ lint0' = IF a = bootcpu THEN lint0 ELSE lint0 \ {a}

BspLapicInit ==
    /\ Goto("lapic_init", "lock_kernel")
    /\ LapicInit(BSP)
    /\ UNCHANGED <<machine, ncpu, bootcpu, lapicaddr, cpu_status, mpentry_kstack,
                   c, ap, esp, esp0, lock>>

LockKernel ==
    /\ Goto("lock_kernel", "boot_aps")
    /\ lock = NULL /\ lock' = BSP
    /\ UNCHANGED <<machine, m, base, ncpu, bootcpu, lapicaddr, lapic, cpu_status,
                   mpentry_kstack, c, ap, esp, esp0, lint0>>

(***************************************************************************)
(* boot_aps.  lapic_startap sends INIT and two STARTUPs; a CPU that runs   *)
(* already ignores the second one.                                         *)
(***************************************************************************)
CopyEntryCode ==
    /\ Goto("boot_aps", "next")
    /\ m' = Memset(m, MPENTRY, Word(MPENTRY, {"code"}))
    /\ UNCHANGED <<machine, base, bootVars>>

SkipSelf ==
    /\ Goto("next", "next")
    /\ c < ncpu /\ c = cpunum(BSP)
    /\ c' = c + 1
    /\ UNCHANGED <<machine, m, base, ncpu, bootcpu, lapicaddr, lapic, cpu_status,
                   mpentry_kstack, ap, esp, esp0, lint0, lock>>

Kstack(i) == percpu_kstacks(i) + KSTKSIZE - 1

SetStack ==
    /\ Goto("next", "startap")
    /\ c < ncpu /\ c # cpunum(BSP)
    /\ mpentry_kstack' = Kstack(c)
    /\ UNCHANGED <<machine, m, base, ncpu, bootcpu, lapicaddr, lapic, cpu_status, c,
                   ap, esp, esp0, lint0, lock>>

LapicStartap ==
    /\ Goto("startap", "startap_again")
    /\ ap' = [ap EXCEPT ![c] = IF @ = "none" THEN @ ELSE "entry"]
    /\ UNCHANGED <<machine, m, base, ncpu, bootcpu, lapicaddr, lapic, cpu_status,
                   mpentry_kstack, c, esp, esp0, lint0, lock>>

LapicStartapAgain ==
    /\ Goto("startap_again", "wait")
    /\ ap' = [ap EXCEPT ![c] = IF @ = "reset" THEN "entry" ELSE @]
    /\ UNCHANGED <<machine, m, base, ncpu, bootcpu, lapicaddr, lapic, cpu_status,
                   mpentry_kstack, c, esp, esp0, lint0, lock>>

\* Mutant: boot_aps does not wait.
WaitStartedNot ==
    /\ Goto("wait", "next")
    /\ c' = c + 1
    /\ UNCHANGED <<machine, m, base, ncpu, bootcpu, lapicaddr, lapic, cpu_status,
                   mpentry_kstack, ap, esp, esp0, lint0, lock>>

WaitStarted ==
    /\ Goto("wait", "next")
    /\ cpu_status[c] = "CPU_STARTED"
    /\ c' = c + 1
    /\ UNCHANGED <<machine, m, base, ncpu, bootcpu, lapicaddr, lapic, cpu_status,
                   mpentry_kstack, ap, esp, esp0, lint0, lock>>

(***************************************************************************)
(* ENV_CREATE, here its directory, and sched_yield, which gives the lock   *)
(* up.  ENV_CREATE is the first to read curenv, of the boot CPU's entry in *)
(* cpus[]: past its end when its APIC id is NCPU or more.                  *)
(***************************************************************************)
EnvCreate ==
    /\ Goto("next", IF cpunum(BSP) < NCPU THEN "sched_yield" ELSE "wild")
    /\ c >= ncpu
    /\ LET a == PageAlloc(m, TRUE)
       IN  m' = [a.m EXCEPT !.ref[a.page] = 1]
    /\ UNCHANGED <<machine, base, bootVars>>

BspSchedYield ==
    /\ Goto("sched_yield", "scheduler")
    /\ lock' = NULL
    /\ UNCHANGED <<machine, m, base, ncpu, bootcpu, lapicaddr, lapic, cpu_status,
                   mpentry_kstack, c, ap, esp, esp0, lint0>>

(***************************************************************************)
(* A CPU that was started: mpentry.S until it has a stack, then mp_main.   *)
(***************************************************************************)
ApGoto(a, from, to) == ap[a] = from /\ ap' = [ap EXCEPT ![a] = to]

MpEntry(a) ==
    /\ ApGoto(a, "entry", "mp_main")
    /\ esp' = [esp EXCEPT ![a] = mpentry_kstack]
    /\ m' = [m EXCEPT !.touched = @ \cup {mpentry_kstack}]
    /\ UNCHANGED <<machine, pc, base, ncpu, bootcpu, lapicaddr, lapic, cpu_status,
                   mpentry_kstack, c, esp0, lint0, lock>>

ApLapicInit(a) ==
    /\ ApGoto(a, "mp_main", "percpu")
    /\ LapicInit(a)
    /\ UNCHANGED <<machine, pc, ncpu, bootcpu, lapicaddr, cpu_status,
                   mpentry_kstack, c, esp, esp0, lock>>

ApInitPercpu(a) ==
    /\ ApGoto(a, "percpu", "up")
    /\ TrapInitPercpu(a)
    /\ UNCHANGED <<machine, pc, m, base, ncpu, bootcpu, lapicaddr, lapic, cpu_status,
                   mpentry_kstack, c, esp, lint0, lock>>

\* Mutant: a CPU does not report.
ApStartedSilent(a) ==
    /\ ApGoto(a, "up", "lock_kernel")
    /\ UNCHANGED <<memVars, ncpu, bootcpu, lapicaddr, lapic, cpu_status,
                   mpentry_kstack, c, esp, esp0, lint0, lock>>

ApStarted(a) ==
    /\ ApGoto(a, "up", "lock_kernel")
    /\ cpu_status' = [cpu_status EXCEPT ![cpunum(a)] = "CPU_STARTED"]
    /\ UNCHANGED <<machine, pc, m, base, ncpu, bootcpu, lapicaddr, lapic,
                   mpentry_kstack, c, esp, esp0, lint0, lock>>

ApLockKernel(a) ==
    /\ ApGoto(a, "lock_kernel", "sched_yield")
    /\ lock = NULL /\ lock' = a
    /\ UNCHANGED <<machine, pc, m, base, ncpu, bootcpu, lapicaddr, lapic, cpu_status,
                   mpentry_kstack, c, esp, esp0, lint0>>

ApSchedYield(a) ==
    /\ ApGoto(a, "sched_yield", "scheduler")
    /\ lock' = NULL
    /\ UNCHANGED <<machine, pc, m, base, ncpu, bootcpu, lapicaddr, lapic, cpu_status,
                   mpentry_kstack, c, esp, esp0, lint0>>

BspStep ==
    \/ EnvTrapInit \/ MpInit \/ BspLapicInit \/ LockKernel \/ CopyEntryCode
    \/ SkipSelf \/ SetStack \/ LapicStartap \/ LapicStartapAgain \/ WaitStarted
    \/ EnvCreate \/ BspSchedYield

ApStep(a) ==
    \/ MpEntry(a) \/ ApLapicInit(a) \/ ApInitPercpu(a) \/ ApStarted(a)
    \/ ApLockKernel(a) \/ ApSchedYield(a)

Next ==
    \/ MemInitStep /\ UNCHANGED bootVars
    \/ BspStep
    \/ \E a \in CPUs : ApStep(a)

\* Every CPU goes on executing; the lock is free whenever its holder is done.
Spec == Init /\ [][Next]_vars /\ WF_vars(BspStep) /\ \A a \in CPUs : WF_vars(ApStep(a))

-----------------------------------------------------------------------------
\* Types; bootcpu points past the end of cpus[] on the wild paths only.
TypeOK ==
    /\ machine \in Machines
    /\ ncpu \in 0..NCPU /\ bootcpu \in 0..NCPU /\ c \in 0..NCPU
    /\ bootcpu = NCPU => pc = "wild"
    /\ cpu_status \in [0..NCPU - 1 -> {"CPU_UNUSED", "CPU_STARTED"}]
    /\ base \in MMIOBASE..MMIOLIM - 1 /\ lapic \in {NULL} \cup MMIOBASE..MMIOLIM - 1
    /\ lint0 \subseteq CPUs /\ lock \in CPUs \cup {NULL}

(***************************************************************************)
(* What the kernel needs of the MP table and never tests: once the APIC is *)
(* in use, the place of the boot CPU among the entries is its APIC id, and *)
(* one that cpus[] has room for.  The others may come in any order.        *)
(***************************************************************************)
BootCpuInPlace ==
    machine.conf = "none" \/
        LET places == {i \in Walked(machine.procs) : machine.procs[i] = BSP}
        IN  places \subseteq 1..NCPU /\ (FallsBack(machine.procs) \/ places = {BSP + 1})

\* And, to be started, the ids below the number of CPUs are those of CPUs.
IdsAreIndices ==
    machine.conf = "none" \/ FallsBack(machine.procs)
        \/ 0..CpuCount(machine.procs) - 1 \subseteq Range(machine.procs)

(***************************************************************************)
(* entry_pgdir, loaded until mem_init or mp_main load kern_pgdir, maps one *)
(* page table at 0 and at KERNBASE.                                        *)
(***************************************************************************)
entry_pgtable == [i \in 0..NPTENTRIES - 1 |-> Word(i, {"P", "W"})]

EntryVa2Pa(va) ==
    IF PDX(va) \in {0, PDX(KERNBASE)} THEN entry_pgtable[PTX(va)].pa ELSE NULL

(***************************************************************************)
(* Everything the kernel reaches through KERNBASE before it has its own    *)
(* page tables is in the first 4MB: page tables come from page_alloc while *)
(* entry_pgdir is loaded, and a new CPU uses its stack under entry_pgdir.  *)
(***************************************************************************)
TouchedIsMapped ==
    pc # "monitor" => \A p \in m.touched : EntryVa2Pa(KERNBASE + p) = p

(***************************************************************************)
(* From page_init on the free list has every unreferenced page once, and   *)
(* no page that is something else: page 0, the I/O hole, the kernel and    *)
(* what boot_alloc gave out, the entry code of the CPUs, a page table.     *)
(***************************************************************************)
FreeListRight ==
    pc \notin {"detect", "boot_alloc", "page_init", "monitor"} =>
        /\ IsInjective(m.free)
        /\ Range(m.free) = {p \in DOMAIN m.ref : m.ref[p] = 0}
        /\ Range(m.free) \cap ({0, MPENTRY} \cup IOPHYSMEM..BootBreak(m.npages) - 1) = {}
        /\ \A i \in 0..NPDENTRIES - 1 :
              Present(m.pgdir[i]) => m.pgdir[i].pa \notin Range(m.free)

StackPages == UNION {kstacktop(i) - KSTKSIZE..kstacktop(i) - 1 : i \in 0..NCPU - 1}

(***************************************************************************)
(* The kernel's address space, once loaded, is the one of the figure in    *)
(* inc/memlayout.h: all of the window at KERNBASE whatever memory there    *)
(* is, one stack per CPU with nothing mapped between them, and nothing     *)
(* above UTOP for the user except what is read-only.                       *)
(***************************************************************************)
AddressSpaceRight ==
    m.cr3 = "kern" /\ pc # "monitor" =>
        /\ \A va \in KERNBASE..VaLimit - 1 : Pte(m, va) = Word(va - KERNBASE, {"P", "W"})
        /\ \A va \in MMIOLIM..KSTACKTOP - 1 : Present(Pte(m, va)) <=> va \in StackPages
        /\ \A va \in (UENVS..UVPT - 1) \cup (ULIM..VaLimit - 1) :
              "U" \in Pte(m, va).perm => va < ULIM /\ "W" \notin Pte(m, va).perm
        /\ \A va \in 0..UTOP - 1 : ~Present(Pte(m, va))

(***************************************************************************)
(* Each new CPU was given the stack that the hardware will switch to when  *)
(* it traps: the one is a page at KERNBASE, the other an address below     *)
(* KSTACKTOP that the page tables map to it.  That takes a boot CPU in its *)
(* place: see StackPrivate.                                                *)
(***************************************************************************)
StackMapped ==
    BootCpuInPlace => \A a \in CPUs \ {BSP} :
        esp[a] # NULL /\ esp0[a] # NULL => Va2Pa(m, esp0[a] - 1) = esp[a]

(***************************************************************************)
(* No two CPUs run on one stack: mpentry_kstack tells each CPU its own, as *)
(* boot_aps starts them one at a time (init.c:61-78).  Not so on a machine *)
(* whose boot CPU is not in its place, say first in the table with APIC id *)
(* 1: mp_init marks cpus[0] as started, so boot_aps does not wait for CPU  *)
(* 0 and gives the next CPU its stack while CPU 0 has yet to load its own. *)
(***************************************************************************)
StackPrivate == \A a, b \in CPUs : a # b /\ esp[a] # NULL => esp[a] # esp[b]

(***************************************************************************)
(* "Each CPU has its own kernel stack" to trap on (trap.c:150).  Not so    *)
(* when the boot CPU is not CPU 0: trap_init runs before its id can be     *)
(* read, and gives it the stack of CPU 0.                                  *)
(***************************************************************************)
TrapStackPrivate ==
    \A a, b \in CPUs : a # b /\ esp0[a] # NULL => esp0[a] # esp0[b]

(***************************************************************************)
(* What holds for every boot CPU: CPU 0 is the only one it may share with. *)
(***************************************************************************)
TrapStackSharing ==
    \A a, b \in CPUs : a # b /\ esp0[a] # NULL /\ esp0[a] = esp0[b] => {a, b} = {0, BSP}

(***************************************************************************)
(* bootcpu is "the boot-strap processor" (cpu.h:31), an element of cpus[]. *)
(* Not so when the table lists it after NCPU others: mp_init writes to the *)
(* element after the last.                                                 *)
(***************************************************************************)
BootCpuInArray == bootcpu < NCPU

Active ==
    {a \in CPUs : ap[a] \in {"mp_main", "percpu", "sched_yield"}}
        \cup (IF pc \in {"startap", "startap_again", "wait", "scheduler", "monitor"}
              THEN {} ELSE {BSP})

(***************************************************************************)
(* The code before lock_kernel uses the page tables, the device region and *)
(* the console without the lock.  Only one CPU at a time executes it or    *)
(* holds the lock, except while the boot CPU only waits.                   *)
(***************************************************************************)
OneActive == Cardinality(Active) <= 1

(***************************************************************************)
(* External interrupts keep reaching the boot CPU, and only it.            *)
(***************************************************************************)
BootCpuGetsInterrupts == lint0 = {BSP}

(***************************************************************************)
(* Every CPU maps the APIC's registers again and nothing is ever unmapped; *)
(* check_page has used three pages of the device region before.  There is  *)
(* room whenever a CPU gets to lapic_init, so mmio_map_region never panics *)
(* there.                                                                  *)
(***************************************************************************)
DeviceRoom ==
    pc = "lapic_init" \/ (\E a \in CPUs : ap[a] = "mp_main") => base + 1 < MMIOLIM

(***************************************************************************)
(* A machine with more than 4MB and no more than the window at KERNBASE    *)
(* passes all self tests of mem_init; one with more memory never gets past *)
(* them.                                                                   *)
(***************************************************************************)
SelfTestsPass ==
    /\ DetectMemory \in NPTENTRIES + 1..WINDOW * NPTENTRIES => pc # "monitor"
    /\ DetectMemory > WINDOW * NPTENTRIES => pc # "env_trap_init"

(***************************************************************************)
(* What mem_init promises: the free list, the address space with a stack   *)
(* for each CPU, and its own tests of both.                                *)
(***************************************************************************)
MemoryRight == FreeListRight /\ AddressSpaceRight /\ StackMapped /\ SelfTestsPass

(***************************************************************************)
(* What boot_aps and mp_main promise while CPUs start without the lock: no *)
(* two of them share a stack or are inside the kernel together, only CPU 0 *)
(* and the boot CPU may share a stack to trap on, each can map its APIC,   *)
(* and interrupts still reach the boot CPU, if the boot CPU is in its      *)
(* place in the MP table; and without that, the wild paths excepted, no    *)
(* index leaves cpus[].                                                    *)
(***************************************************************************)
CpusRight ==
    /\ TypeOK
    /\ BootCpuInPlace =>
          /\ pc # "wild" /\ StackPrivate /\ TrapStackSharing
          /\ OneActive /\ DeviceRoom /\ BootCpuGetsInterrupts

(***************************************************************************)
(* After mem_init, the boot CPU and every other CPU of the table that      *)
(* cpus[] has room for get to the scheduler, if the boot CPU is in its     *)
(* place and the others are those that their indices name: boot_aps waits  *)
(* for ever for a CPU that is not there.                                   *)
(***************************************************************************)
AllCpusStart ==
    (pc = "env_trap_init" /\ BootCpuInPlace /\ IdsAreIndices) ~>
        pc = "scheduler" /\ \A a \in 0..ncpu - 1 : a # cpunum(BSP) => ap[a] = "scheduler"

=====
