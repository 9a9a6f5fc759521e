----------------------------- MODULE BootProofs -----------------------------
(***************************************************************************)
(* Proofs about Boot: on every machine whose boot CPU is in its place in   *)
(* the MP table, whatever else the table lists, boot_aps and mp_main start *)
(* the CPUs without two of them sharing a stack or being in the kernel     *)
(* together before each has the lock; and on every other machine too, no   *)
(* index leaves cpus[] but on the paths that Boot marks wild.  The page    *)
(* tables (MemInit) stay opaque: nothing here depends on what they hold.   *)
(***************************************************************************)
EXTENDS Boot, FiniteSetTheorems, TLAPS

-----------------------------------------------------------------------------
(***************************************************************************)
(* The inductive invariant.  The boot CPU's program in four stretches: in  *)
(* mem_init, before boot_aps, in boot_aps with the lock, and afterwards.   *)
(***************************************************************************)
MemInitPcs ==
    {"detect", "boot_alloc", "page_init", "check_free_low", "check_alloc", "check_page",
     "map", "map_mp", "check_kern", "lcr3", "check_installed", "monitor"}
BeforeMp   == MemInitPcs \cup {"env_trap_init", "mp_init"}
BeforeAps  == BeforeMp \cup {"lapic_init", "lock_kernel"}
Handing    == {"startap", "startap_again", "wait"}
LockedPcs  == {"boot_aps", "next", "sched_yield"} \cup Handing

\* The stretches of mpentry.S and mp_main, in this order.
Asleep   == {"none", "reset"}
Starting == {"entry", "mp_main", "percpu", "up"}
Started  == {"lock_kernel", "sched_yield", "scheduler"}

Types ==
    /\ machine \in Machines
    /\ pc \in BeforeAps \cup LockedPcs \cup {"scheduler"}
    /\ base \in MMIOBASE .. MMIOLIM - 1
    /\ ncpu \in 0 .. NCPU /\ bootcpu \in 0 .. NCPU - 1 /\ c \in 0 .. NCPU
    /\ lapicaddr \in BOOLEAN
    /\ lapic \in {NULL} \cup MMIOBASE .. MMIOLIM - 1
    /\ cpu_status \in [0 .. NCPU - 1 -> {"CPU_UNUSED", "CPU_STARTED"}]
    /\ ap \in [CPUs -> Asleep \cup Starting \cup Started]
    /\ esp \in [CPUs -> Int] /\ esp0 \in [CPUs -> Int]
    /\ lock \in CPUs \cup {NULL}

\* What mp_init found; the APIC id is the index into cpus[] once it is mapped.
TableRead ==
    /\ pc \in BeforeMp => ncpu = 0 /\ ~lapicaddr
    /\ pc \in BeforeMp => \A i \in 0 .. NCPU - 1 : cpu_status[i] = "CPU_UNUSED"
    /\ pc \in BeforeAps \ {"lock_kernel"} => lapic = NULL
    /\ pc \in BeforeAps \cup {"boot_aps"} => c = 0
    /\ lapicaddr => bootcpu = BSP
    /\ ~lapicaddr => ncpu <= 1
    /\ pc \notin BeforeAps \ {"lock_kernel"} => (lapicaddr <=> lapic # NULL)
    /\ lint0 = {BSP}

\* The CPU that boot_aps waits for is the only one on its way.
HandOver ==
    /\ ap[BSP] = "none"
    /\ pc \in Handing =>
          c < ncpu /\ c # BSP /\ lapic # NULL /\ mpentry_kstack = Kstack(c)
    /\ \A a \in CPUs : ap[a] \in Starting => a = c /\ pc \in {"startap_again", "wait"}
    /\ \A a \in CPUs : ap[a] \in Started => a < c \/ (a = c /\ pc \in {"startap_again", "wait"})
    /\ \A i \in 0 .. NCPU - 1 :
          cpu_status[i] = "CPU_STARTED" => i = bootcpu \/ ap[i] \in Started

\* The lock is the boot CPU's until it is in the scheduler.
LockHanded ==
    /\ pc \in BeforeAps => lock = NULL
    /\ pc \in LockedPcs => lock = BSP
    /\ \A a \in CPUs : ap[a] = "sched_yield" => lock = a /\ pc = "scheduler"

\* Which stacks each CPU has, as far as it got.
StacksGiven ==
    /\ esp[BSP] = bootstack
    /\ \A a \in CPUs \ {BSP} :
          esp[a] = IF ap[a] \in Asleep \cup {"entry"} THEN NULL ELSE Kstack(a)
    /\ esp0[BSP] = IF pc \in MemInitPcs \cup {"env_trap_init"} THEN NULL ELSE kstacktop(0)
    /\ \A a \in CPUs \ {BSP} :
          esp0[a] = IF ap[a] \in Started \cup {"up"} THEN kstacktop(a) ELSE NULL

\* How much of the device region is used: by check_page, by lapic_init on the
\* boot CPU, and by lapic_init on each CPU before c but the boot CPU.
Turns == IF BSP < c THEN c - 1 ELSE c

BeforeCheck ==
    {"detect", "boot_alloc", "page_init", "check_free_low", "check_alloc", "check_page"}

RegionUsed ==
    /\ pc \in BeforeCheck => base = MMIOBASE
    /\ pc \in BeforeMp \cup {"lapic_init"} => base <= MMIOBASE + 3
    /\ base <= MMIOBASE + 4 + Turns
          + (IF ap[c] \in {"percpu", "up"} \cup Started THEN 1 ELSE 0)

BootInv == Types /\ TableRead /\ HandOver /\ LockHanded /\ StacksGiven /\ RegionUsed
-----------------------------------------------------------------------------
(***************************************************************************)
(* The layout: numbers, and stacks that do not meet.                       *)
(***************************************************************************)

\* The constants of inc/memlayout.h are numbers, and so are the addresses.
LEMMA Numbers ==
  /\ NCPU \in Nat \ {0} /\ KSTKSIZE \in Nat \ {0} /\ KSTKGAP \in Nat \ {0}
  /\ EXTPHYSMEM \in Nat \ {0} /\ NPTENTRIES \in Nat \ {0}
  /\ KSTACKTOP \in Int /\ MMIOLIM \in Int /\ MMIOBASE \in Int
  /\ MMIOBASE < MMIOLIM /\ MMIOBASE >= 0
  <1>1. /\ NCPU \in Nat \ {0} /\ KSTKSIZE \in Nat \ {0} /\ KSTKGAP \in Nat \ {0}
        /\ EXTPHYSMEM \in Nat \ {0} /\ NPTENTRIES \in Nat \ {0}
        /\ NPDENTRIES \in Nat \ {0} /\ WINDOW \in Nat \ {0}
        /\ NPDENTRIES - WINDOW >= 7
    BY LayoutAssumption
  <1>2. PICK k \in Nat : k = NPDENTRIES - WINDOW /\ k >= 7
    BY <1>1
  <1>3. k * NPTENTRIES \in Int /\ k * NPTENTRIES >= 7 * NPTENTRIES
    BY <1>1, <1>2
  <1>4. KERNBASE = k * NPTENTRIES
    BY <1>2 DEF KERNBASE
  <1>5. QED
    BY <1>1, <1>3, <1>4 DEF KSTACKTOP, MMIOLIM, MMIOBASE

\* Multiples of a positive number keep the order of their factors.
LEMMA Multiples ==
  ASSUME NEW i \in Int, NEW j \in Int, NEW s \in Nat \ {0}, i < j
  PROVE  i * s \in Int /\ j * s \in Int /\ i * s + s <= j * s
  <1>1. (i + 1) * s <= j * s
    OBVIOUS
  <1>2. (i + 1) * s = i * s + s
    OBVIOUS
  <1>3. i * s \in Int /\ j * s \in Int
    OBVIOUS
  <1>4. QED
    BY <1>1, <1>2, <1>3

\* The stacks of percpu_kstacks are different pages and none is bootstack.
LEMMA StacksApart ==
  ASSUME NEW a \in 0 .. NCPU - 1
  PROVE  /\ Kstack(a) \in Int /\ Kstack(a) # NULL
         /\ bootstack \in Int /\ bootstack # NULL
         /\ Kstack(a) # bootstack
         /\ \A b \in 0 .. NCPU - 1 : b # a => Kstack(a) # Kstack(b)
  <1>n. /\ NCPU \in Nat \ {0} /\ KSTKSIZE \in Nat \ {0} /\ EXTPHYSMEM \in Nat \ {0}
        /\ a \in Int
    BY Numbers
  <1>1. NCPU * KSTKSIZE \in Int /\ a * KSTKSIZE + KSTKSIZE <= NCPU * KSTKSIZE
    BY <1>n, Multiples
  <1>2. a * KSTKSIZE \in Int /\ a * KSTKSIZE >= 0
    BY <1>n
  <1>3. ASSUME NEW b \in 0 .. NCPU - 1, b # a
        PROVE  Kstack(a) # Kstack(b)
    <2>1. b \in Int /\ b * KSTKSIZE \in Int
      BY <1>n, <1>3
    <2>2. CASE a < b
      <3>1. a * KSTKSIZE + KSTKSIZE <= b * KSTKSIZE
        BY <1>n, <2>1, <2>2, Multiples
      <3>2. QED
        BY <1>n, <1>2, <2>1, <3>1 DEF Kstack, percpu_kstacks
    <2>3. CASE b < a
      <3>1. b * KSTKSIZE + KSTKSIZE <= a * KSTKSIZE
        BY <1>n, <2>1, <2>3, Multiples
      <3>2. QED
        BY <1>n, <1>2, <2>1, <3>1 DEF Kstack, percpu_kstacks
    <2>4. QED
      BY <1>n, <1>3, <2>1, <2>2, <2>3
  <1>4. QED
    BY <1>n, <1>1, <1>2, <1>3 DEF Kstack, percpu_kstacks, bootstack, NULL

\* The stacks below KSTACKTOP are at different addresses.
LEMMA TrapStacksApart ==
  ASSUME NEW a \in Nat, NEW b \in Nat, a # b
  PROVE  kstacktop(a) \in Int /\ kstacktop(b) \in Int /\ kstacktop(a) # kstacktop(b)
  <1>n. PICK s \in Nat \ {0} : s = KSTKSIZE + KSTKGAP
    BY Numbers
  <1>1. KSTACKTOP \in Int /\ a * s \in Int /\ b * s \in Int
    BY Numbers
  <1>2. a * s # b * s
    <2>1. CASE a < b
      BY <2>1, <1>1, Multiples
    <2>2. CASE b < a
      BY <2>2, <1>1, Multiples
    <2>3. QED
      BY <2>1, <2>2
  <1>3. kstacktop(a) = KSTACKTOP - a * s /\ kstacktop(b) = KSTACKTOP - b * s
    BY <1>n DEF kstacktop
  <1>4. QED
    BY <1>1, <1>2, <1>3

\* The device region has room for check_page and one page for each CPU.
LEMMA RegionSize ==
  NCPU + 4 <= NPTENTRIES /\ MMIOLIM = MMIOBASE + NPTENTRIES
  <1>1. /\ NCPU \in Nat \ {0} /\ KSTKSIZE \in Nat \ {0} /\ KSTKGAP \in Nat \ {0}
        /\ NPTENTRIES \in Nat \ {0} /\ MMIOLIM \in Int
    BY Numbers
  <1>2. NPTENTRIES >= 8
    BY LayoutAssumption
  <1>3. PICK s \in Nat : s = KSTKSIZE + KSTKGAP /\ s >= 2
    BY <1>1
  <1>4. NCPU * s >= NCPU * 2
    BY <1>1, <1>3
  <1>5. NCPU * s <= NPTENTRIES
    BY <1>3, LayoutAssumption
  <1>6. NCPU * s \in Int
    BY <1>1
  <1>7. QED
    BY <1>1, <1>2, <1>4, <1>5, <1>6 DEF MMIOBASE

\* mmio_map_region never moves base out of the device region, and no further
\* than the pages it maps.
LEMMA MmioStays ==
  ASSUME NEW x, NEW b \in MMIOBASE .. MMIOLIM - 1, NEW pa \in Nat, NEW size \in Nat
  PROVE  /\ MmioMapRegion(x, b, pa, size).base \in MMIOBASE .. MMIOLIM - 1
         /\ MmioMapRegion(x, b, pa, size).base <= b + (PagesOf(pa * PGSIZE + size) - pa)
  <1>1. MMIOBASE \in Int /\ MMIOLIM \in Int
    BY Numbers
  <1>2. (pa * PGSIZE + size + PGSIZE - 1) \div PGSIZE >= pa
    BY DEF PGSIZE
  <1>3. PICK n \in Nat : n = PagesOf(pa * PGSIZE + size) - pa
    BY <1>2 DEF PagesOf, PGSIZE
  <1>4. CASE b + n >= MMIOLIM
    <2>1. MmioMapRegion(x, b, pa, size).base = b
      BY <1>3, <1>4 DEF MmioMapRegion
    <2>2. QED
      BY <1>1, <1>3, <2>1
  <1>5. CASE ~(b + n >= MMIOLIM)
    <2>1. MmioMapRegion(x, b, pa, size).base = b + n
      BY <1>3, <1>5 DEF MmioMapRegion
    <2>2. QED
      BY <1>1, <1>3, <1>5, <2>1
  <1>6. QED
    BY <1>4, <1>5

\* One page is what lapic_init maps.
LEMMA LapicStays ==
  ASSUME NEW x, NEW b \in MMIOBASE .. MMIOLIM - 1
  PROVE  /\ MmioMapRegion(x, b, LAPIC_PA, PGSIZE).base \in MMIOBASE .. MMIOLIM - 1
         /\ MmioMapRegion(x, b, LAPIC_PA, PGSIZE).base <= b + 1
  <1>1. PagesOf(LAPIC_PA * PGSIZE + PGSIZE) - LAPIC_PA = 1
    BY DEF PagesOf, LAPIC_PA, PGSIZE
  <1>2. LAPIC_PA \in Nat /\ PGSIZE \in Nat
    BY DEF LAPIC_PA, PGSIZE
  <1>3. QED
    BY <1>1, <1>2, MmioStays

\* Nor do the two calls that check_page makes to try it.
LEMMA CheckPageStays ==
  ASSUME NEW x, NEW b \in MMIOBASE .. MMIOLIM - 1
  PROVE  CheckPageAll(x, b).base \in MMIOBASE .. MMIOLIM - 1 /\ CheckPageAll(x, b).base <= b + 3
  <1>n. MMIOBASE \in Int /\ MMIOLIM \in Int
    BY Numbers
  <1>p. PagesOf(0 * PGSIZE + (PGSIZE + 1)) - 0 = 2 /\ PagesOf(0 * PGSIZE + PGSIZE) - 0 = 1
    BY DEF PagesOf, PGSIZE
  <1>1. ASSUME NEW y
        PROVE  CheckMmio(y, b).base \in MMIOBASE .. MMIOLIM - 1 /\ CheckMmio(y, b).base <= b + 3
    <2>0. 0 \in Nat /\ PGSIZE \in Nat /\ PGSIZE + 1 \in Nat
      BY DEF PGSIZE
    <2>1. PICK r : r = MmioMapRegion(y, b, 0, PGSIZE + 1)
      OBVIOUS
    <2>2. r.base \in MMIOBASE .. MMIOLIM - 1 /\ r.base <= b + 2
      BY <1>p, <2>0, <2>1, MmioStays
    <2>3. PICK d : d = MmioMapRegion(r.m, r.base, 0, PGSIZE).base
      OBVIOUS
    <2>3a. d \in MMIOBASE .. MMIOLIM - 1 /\ d <= r.base + 1
      BY <1>p, <2>0, <2>2, <2>3, MmioStays
    <2>3b. d <= b + 3
      BY <1>n, <2>2, <2>3a
    <2>4. CheckMmio(y, b).base = MmioMapRegion(r.m, r.base, 0, PGSIZE).base
      BY <2>1 DEF CheckMmio
    <2>5. QED
      BY <2>3, <2>3a, <2>3b, <2>4, Zenon
  <1>2. ASSUME NEW y, NEW ok
        PROVE  [CheckMmio(y, b) EXCEPT !.ok = ok].base = CheckMmio(y, b).base
    BY DEF CheckMmio
  <1>3. CheckPageAll(x, b).base = b \/ \E y : CheckPageAll(x, b).base = CheckMmio(y, b).base
    BY <1>2, Zenon DEF CheckPageAll
  <1>4. QED
    BY <1>1, <1>3, <1>n
-----------------------------------------------------------------------------
(***************************************************************************)
(* The MP table, and mem_init seen from outside.                           *)
(***************************************************************************)

\* The boot CPU has an APIC id, and so does each index into cpus[].
LEMMA BootCpu ==
  ASSUME machine \in Machines
  PROVE  /\ BSP \in Nat /\ BSP \in CPUs
         /\ CPUs = 0 .. MAXAPICID /\ MAXAPICID \in Nat /\ NCPU <= MAXAPICID
  BY MachineAssumption DEF BSP, CPUs

\* mp_init counts no more than NCPU CPUs, and bootcpu is one of them or &cpus[NCPU].
LEMMA TableResult ==
  ASSUME machine \in Machines
  PROVE  /\ CpuCount(machine.procs) \in 0 .. NCPU
         /\ IndexOf(machine.procs, BSP) \in 0 .. NCPU
  <1>1. NCPU \in Nat
    BY Numbers
  <1>2. machine.procs \in Seq(CPUs \cup {UNKNOWN})
    BY MachineAssumption
  <1>3. Len(machine.procs) \in Nat /\ DOMAIN machine.procs = 1 .. Len(machine.procs)
    BY <1>2
  <1>4. Walked(machine.procs) \subseteq 1 .. Len(machine.procs)
    BY <1>3 DEF Walked
  <1>5. Cardinality(Walked(machine.procs)) \in Nat
    <2>1. IsFiniteSet(1 .. Len(machine.procs))
      BY <1>3, FS_Interval
    <2>2. QED
      BY <1>4, <2>1, FS_Subset, FS_CardinalityType
  <1>6. CpuCount(machine.procs) \in 0 .. NCPU
    BY <1>1, <1>5 DEF CpuCount, AtMost
  <1>7. IndexOf(machine.procs, BSP) \in 0 .. NCPU
    <2> DEFINE entries == {i \in Walked(machine.procs) : machine.procs[i] = BSP}
    <2>1. CASE entries = {}
      BY <1>1, <2>1 DEF IndexOf
    <2>2. CASE entries # {}
      <3>1. PICK k : k = (CHOOSE i \in entries : TRUE)
        OBVIOUS
      <3>2. k \in entries
        BY <2>2, <3>1
      <3>3. k \in Int /\ k >= 1
        BY <1>3, <1>4, <3>2
      <3>4. IndexOf(machine.procs, BSP) = AtMost(k - 1, NCPU)
        BY <2>2, <3>1 DEF IndexOf
      <3>5. QED
        BY <1>1, <3>3, <3>4 DEF AtMost
    <2>3. QED
      BY <2>1, <2>2
  <1>8. QED
    BY <1>6, <1>7

\* A boot CPU in its place is found there.
LEMMA InPlaceResult ==
  ASSUME machine \in Machines, machine.conf # "none", BootCpuInPlace
  PROVE  /\ IndexOf(machine.procs, BSP) < NCPU
         /\ FallsBack(machine.procs) \/ IndexOf(machine.procs, BSP) = BSP
  <1> DEFINE places == {i \in Walked(machine.procs) : machine.procs[i] = BSP}
  <1>1. NCPU \in Nat \ {0} /\ BSP \in Nat
    BY Numbers, BootCpu
  <1>2. places \subseteq 1 .. NCPU /\ (FallsBack(machine.procs) \/ places = {BSP + 1})
    BY DEF BootCpuInPlace
  <1>3. CASE places = {}
    BY <1>1, <1>2, <1>3 DEF IndexOf
  <1>4. CASE places # {}
    <2>1. PICK k : k = (CHOOSE i \in places : TRUE)
      OBVIOUS
    <2>2. k \in places
      BY <1>4, <2>1
    <2>3. k \in 1 .. NCPU /\ (FallsBack(machine.procs) \/ k = BSP + 1)
      BY <1>2, <2>2
    <2>4. IndexOf(machine.procs, BSP) = AtMost(k - 1, NCPU)
      BY <1>4, <2>1 DEF IndexOf
    <2>5. AtMost(k - 1, NCPU) = k - 1
      BY <1>1, <2>3 DEF AtMost
    <2>6. QED
      BY <1>1, <2>3, <2>4, <2>5
  <1>5. QED
    BY <1>3, <1>4

\* A step of mem_init stays in mem_init or ends it; base stays in its region.
LEMMA MemInitEffect ==
  ASSUME base \in MMIOBASE .. MMIOLIM - 1, MemInitStep
  PROVE  /\ pc \in MemInitPcs /\ pc' \in MemInitPcs \cup {"env_trap_init"}
         /\ machine' = machine /\ base' \in MMIOBASE .. MMIOLIM - 1
         /\ pc' \in BeforeCheck => pc \in BeforeCheck /\ base' = base
         /\ base' = base \/ (pc = "check_page" /\ base' <= base + 3)
  <1>b. base \in MMIOBASE .. MMIOLIM - 1
    OBVIOUS
  <1>s. ASSUME NEW from \in MemInitPcs, NEW to \in MemInitPcs \cup {"env_trap_init"},
               to \in BeforeCheck => from \in BeforeCheck,
               NEW new, NEW holds, Step(from, to, new, holds)
        PROVE  /\ pc \in MemInitPcs /\ pc' \in MemInitPcs \cup {"env_trap_init"}
               /\ machine' = machine /\ base' \in MMIOBASE .. MMIOLIM - 1
               /\ pc' \in BeforeCheck => pc \in BeforeCheck /\ base' = base
               /\ base' = base
    BY <1>b, <1>s DEF Step, MemInitPcs, BeforeCheck
  <1>1. CASE I386DetectMemory
    BY <1>1, <1>s DEF I386DetectMemory, MemInitPcs, BeforeCheck
  <1>2. CASE BootAllocs
    BY <1>2, <1>s DEF BootAllocs, MemInitPcs, BeforeCheck
  <1>3. CASE PageInit
    BY <1>3, <1>s DEF PageInit, MemInitPcs, BeforeCheck
  <1>4. CASE CheckFreeLow
    BY <1>4, <1>s DEF CheckFreeLow, StepTo, MemInitPcs, BeforeCheck
  <1>5. CASE CheckFreeEmpty
    BY <1>5, <1>s DEF CheckFreeEmpty, MemInitPcs, BeforeCheck
  <1>6. CASE CheckAlloc
    BY <1>6, <1>s DEF CheckAlloc, StepTo, MemInitPcs, BeforeCheck
  <1>7. CASE CheckPage
    <2>1. /\ CheckPageAll(m, base).base \in MMIOBASE .. MMIOLIM - 1
          /\ CheckPageAll(m, base).base <= base + 3
      BY <1>b, CheckPageStays
    <2>2. QED
      BY <1>7, <2>1 DEF CheckPage, MemInitPcs, BeforeCheck
  <1>8. CASE MapKernel
    BY <1>8, <1>s DEF MapKernel, MemInitPcs, BeforeCheck
  <1>9. CASE MemInitMp
    BY <1>9, <1>s DEF MemInitMp, MemInitPcs, BeforeCheck
  <1>10. CASE CheckKern
    BY <1>10, <1>s DEF CheckKern, MemInitPcs, BeforeCheck
  <1>11. CASE Lcr3
    BY <1>11, <1>s DEF Lcr3, StepTo, MemInitPcs, BeforeCheck
  <1>12. CASE CheckInstalled
    BY <1>12, <1>s DEF CheckInstalled, StepTo, MemInitPcs, BeforeCheck
  <1>13. QED
    BY <1>1, <1>2, <1>3, <1>4, <1>5, <1>6, <1>7, <1>8, <1>9, <1>10, <1>11, <1>12
       DEF MemInitStep
-----------------------------------------------------------------------------
(***************************************************************************)
(* The invariant holds at first and every step keeps it.                   *)
(***************************************************************************)

\* It holds when the boot CPU enters mem_init and the others are in reset.
LEMMA BootInvInit == Init => BootInv
  <1> SUFFICES ASSUME Init PROVE BootInv
    OBVIOUS
  <1> USE DEF Init, MemInitInit
  <1>n. NCPU \in Nat \ {0} /\ MMIOBASE \in Int /\ MMIOLIM \in Int /\ MMIOBASE < MMIOLIM
    BY Numbers
  <1>b. BSP \in Nat /\ BSP \in CPUs
    BY BootCpu
  <1>k. bootstack \in Int
    BY <1>n, StacksApart
  <1>1. Types
    <2>1. ap \in [CPUs -> Asleep \cup Starting \cup Started]
      BY DEF Asleep
    <2>2. esp \in [CPUs -> Int] /\ esp0 \in [CPUs -> Int]
      BY <1>k DEF NULL
    <2>3. pc \in BeforeAps
      BY DEF BeforeAps, BeforeMp, MemInitPcs
    <2>4. base \in MMIOBASE .. MMIOLIM - 1
      BY <1>n
    <2>5. cpu_status \in [0 .. NCPU - 1 -> {"CPU_UNUSED", "CPU_STARTED"}]
      OBVIOUS
    <2>6. /\ ncpu \in 0 .. NCPU /\ bootcpu \in 0 .. NCPU - 1 /\ c \in 0 .. NCPU
          /\ lapic = NULL /\ lock = NULL /\ machine \in Machines
      BY <1>n
    <2>7. lapicaddr \in BOOLEAN
      BY Zenon
    <2>8. QED
      BY <2>1, <2>2, <2>3, <2>4, <2>5, <2>6, <2>7 DEF Types
  <1>2. TableRead
    BY DEF TableRead
  <1>3. HandOver
    BY <1>b DEF HandOver, Handing, Asleep, Starting, Started
  <1>4. LockHanded
    BY DEF LockHanded, LockedPcs, Handing
  <1>5. StacksGiven
    BY <1>b DEF StacksGiven, Asleep, Started, MemInitPcs
  <1>6. RegionUsed
    BY <1>n, <1>b DEF RegionUsed, Turns
  <1>7. QED
    BY <1>1, <1>2, <1>3, <1>4, <1>5, <1>6 DEF BootInv

\* mem_init leaves alone what the rest of i386_init uses.
LEMMA MemInitKeeps ==
  ASSUME BootInv, MemInitStep, UNCHANGED bootVars
  PROVE  BootInv'
  <1>1. /\ pc \in MemInitPcs /\ pc' \in MemInitPcs \cup {"env_trap_init"}
        /\ machine' = machine /\ base' \in MMIOBASE .. MMIOLIM - 1
        /\ pc' \in BeforeCheck => pc \in BeforeCheck /\ base' = base
        /\ base' = base \/ (pc = "check_page" /\ base' <= base + 3)
    BY MemInitEffect DEF BootInv, Types
  <1>2. BSP' = BSP
    BY <1>1 DEF BSP
  <1> USE DEF bootVars, BeforeAps, BeforeMp, Handing, LockedPcs
  <1>3. Types'
    BY <1>1 DEF BootInv, Types
  <1>4. TableRead'
    BY <1>1, <1>2 DEF BootInv, TableRead, MemInitPcs
  <1>5. HandOver'
    BY <1>1, <1>2 DEF BootInv, HandOver, MemInitPcs
  <1>6. LockHanded'
    BY <1>1, <1>2 DEF BootInv, LockHanded, MemInitPcs
  <1>7. StacksGiven'
    BY <1>1, <1>2 DEF BootInv, StacksGiven, MemInitPcs
  <1>8. RegionUsed'
    <2>1. base' <= MMIOBASE + 3
      <3>1. MMIOBASE \in Int /\ MMIOLIM \in Int
        BY Numbers
      <3>2. /\ base \in Int /\ base <= MMIOBASE + 3
            /\ pc = "check_page" => base = MMIOBASE
        BY <1>1, <3>1 DEF BootInv, Types, RegionUsed, BeforeCheck
      <3>3. QED
        BY <1>1, <3>1, <3>2
    <2>2. c = 0 /\ Turns' = 0
      <3>1. c = 0
        BY <1>1 DEF BootInv, TableRead
      <3>2. BSP \in Nat /\ NCPU \in Nat
        BY BootCpu, Numbers DEF BootInv, Types
      <3>3. QED
        BY <1>2, <3>1, <3>2 DEF Turns
    <2>3. MMIOBASE \in Int /\ base' \in Int
      BY <1>1, Numbers
    <2>4. pc' \in BeforeCheck => base' = MMIOBASE
      BY <1>1 DEF BootInv, RegionUsed
    <2>5. QED
      BY <2>1, <2>2, <2>3, <2>4 DEF RegionUsed
  <1>9. QED
    BY <1>3, <1>4, <1>5, <1>6, <1>7, <1>8 DEF BootInv

\* The boot CPU before it has the lock: trap_init, mp_init, lapic_init.
LEMMA BspStartKeeps ==
  ASSUME BootCpuInPlace, BootInv, EnvTrapInit \/ MpInit \/ BspLapicInit \/ LockKernel
  PROVE  BootInv'
  <1>n. NCPU \in Nat \ {0} /\ MMIOBASE \in Int /\ MMIOLIM \in Int /\ MMIOBASE >= 0
    BY Numbers
  <1>b. BSP \in Nat /\ BSP \in CPUs
    BY BootCpu DEF BootInv, Types
  <1>c. machine' = machine /\ BSP' = BSP
    BY DEF EnvTrapInit, MpInit, BspLapicInit, LockKernel, BSP
  <1> USE DEF Goto, BeforeAps, BeforeMp, MemInitPcs, Handing, LockedPcs, Asleep, Starting, Started
  <1>1. CASE EnvTrapInit
    <2>1. lapic = NULL /\ cpunum(BSP) = 0
      BY <1>1 DEF EnvTrapInit, BootInv, TableRead, cpunum
    <2>2. esp0' = [esp0 EXCEPT ![BSP] = kstacktop(0)]
      BY <1>1, <2>1 DEF EnvTrapInit, TrapInitPercpu
    <2>3. kstacktop(0) \in Int
      BY TrapStacksApart
    <2>4. Types'
      BY <1>1, <2>2, <2>3 DEF EnvTrapInit, BootInv, Types
    <2>5. TableRead'
      BY <1>1, <1>c DEF EnvTrapInit, BootInv, TableRead
    <2>6. HandOver'
      BY <1>1, <1>c DEF EnvTrapInit, BootInv, HandOver
    <2>7. LockHanded'
      BY <1>1, <1>c DEF EnvTrapInit, BootInv, LockHanded
    <2>8. StacksGiven'
      BY <1>1, <1>b, <1>c, <2>2 DEF EnvTrapInit, BootInv, StacksGiven, Types
    <2>9. RegionUsed'
      BY <1>1, <1>c DEF EnvTrapInit, BootInv, RegionUsed, Turns, BeforeCheck
    <2>10. QED
      BY <2>4, <2>5, <2>6, <2>7, <2>8, <2>9 DEF BootInv
  <1>2. CASE MpInit
    <2>1. /\ CpuCount(machine.procs) \in 0 .. NCPU
          /\ IndexOf(machine.procs, BSP) \in 0 .. NCPU
      BY TableResult DEF BootInv, Types
    <2>2. /\ ncpu' \in 0 .. NCPU /\ bootcpu' \in 0 .. NCPU - 1 /\ lapicaddr' \in BOOLEAN
          /\ lapicaddr' => bootcpu' = BSP
          /\ ~lapicaddr' => ncpu' <= 1
          /\ pc' = "lapic_init"
      <3>t. ncpu = 0 /\ bootcpu \in 0 .. NCPU - 1 /\ ~lapicaddr /\ lapicaddr \in BOOLEAN
        BY <1>2 DEF MpInit, BootInv, Types, TableRead
      <3>1. CASE machine.conf = "none"
        <4>1. /\ ncpu' = 0 /\ bootcpu' = bootcpu /\ lapicaddr' = lapicaddr
              /\ pc' = "lapic_init"
          BY <1>2, <3>1, <3>t DEF MpInit
        <4>2. QED
          BY <1>n, <3>t, <4>1
      <3>2. CASE machine.conf # "none" /\ FallsBack(machine.procs)
        <4>1. /\ bootcpu' = IndexOf(machine.procs, BSP) /\ bootcpu' < NCPU
              /\ ncpu' = 1 /\ lapicaddr' = FALSE
          BY <1>2, <3>2, InPlaceResult DEF MpInit, BootInv, Types
        <4>2. /\ ncpu' <= 1 /\ ncpu' \in 0 .. NCPU /\ bootcpu' \in 0 .. NCPU - 1
              /\ bootcpu' # NCPU
          BY <1>n, <2>1, <4>1
        <4>3. pc' = "lapic_init"
          BY <1>2, <3>2, <4>2 DEF MpInit
        <4>4. QED
          BY <4>1, <4>2, <4>3, Zenon
      <3>3. CASE machine.conf # "none" /\ ~FallsBack(machine.procs)
        <4>1. /\ bootcpu' = IndexOf(machine.procs, BSP) /\ bootcpu' < NCPU /\ bootcpu' = BSP
              /\ ncpu' = CpuCount(machine.procs) /\ lapicaddr' = TRUE
          BY <1>2, <3>3, InPlaceResult DEF MpInit, BootInv, Types
        <4>2. ncpu' \in 0 .. NCPU /\ bootcpu' \in 0 .. NCPU - 1 /\ bootcpu' # NCPU
          BY <1>n, <2>1, <4>1
        <4>3. pc' = "lapic_init"
          BY <1>2, <3>3, <4>2 DEF MpInit
        <4>4. QED
          BY <4>1, <4>2, <4>3, Zenon
      <3>4. QED
        BY <3>1, <3>2, <3>3
    <2>3. /\ cpu_status' \in [0 .. NCPU - 1 -> {"CPU_UNUSED", "CPU_STARTED"}]
          /\ \A i \in 0 .. NCPU - 1 : cpu_status'[i] = "CPU_STARTED" => i = bootcpu'
      <3>1. /\ cpu_status \in [0 .. NCPU - 1 -> {"CPU_UNUSED", "CPU_STARTED"}]
            /\ \A i \in 0 .. NCPU - 1 : cpu_status[i] = "CPU_UNUSED"
        BY <1>2 DEF MpInit, BootInv, Types, TableRead
      <3>2. CASE UNCHANGED cpu_status
        BY <3>1, <3>2
      <3>3. CASE cpu_status' = [i \in 0 .. NCPU - 1 |->
                                  IF i = bootcpu' THEN "CPU_STARTED" ELSE cpu_status[i]]
        BY <2>2, <3>1, <3>3
      <3>4. QED
        BY <1>2, <3>2, <3>3 DEF MpInit
    <2>4. Types'
      BY <1>2, <1>c, <2>2, <2>3 DEF MpInit, BootInv, Types
    <2>5. TableRead'
      BY <1>2, <1>c, <2>2 DEF MpInit, BootInv, TableRead
    <2>6. HandOver'
      BY <1>2, <1>c, <2>3 DEF MpInit, BootInv, HandOver
    <2>7. LockHanded'
      BY <1>2, <1>c DEF MpInit, BootInv, LockHanded
    <2>8. StacksGiven'
      BY <1>2, <1>c DEF MpInit, BootInv, StacksGiven
    <2>9. RegionUsed'
      BY <1>2, <1>c DEF MpInit, BootInv, RegionUsed, Turns, BeforeCheck
    <2>10. QED
      BY <2>4, <2>5, <2>6, <2>7, <2>8, <2>9 DEF BootInv
  <1>3. CASE BspLapicInit
    <2>1. /\ base' \in MMIOBASE .. MMIOLIM - 1
          /\ lapic' \in {NULL} \cup MMIOBASE .. MMIOLIM - 1
          /\ lapicaddr <=> lapic' # NULL
          /\ lint0' = lint0
      <3>t. /\ base \in MMIOBASE .. MMIOLIM - 1 /\ lapicaddr \in BOOLEAN /\ lapic = NULL
            /\ lapicaddr => bootcpu = BSP
        BY <1>3 DEF BspLapicInit, BootInv, Types, TableRead
      <3>1. CASE ~lapicaddr
        BY <1>3, <3>1, <3>t DEF BspLapicInit, LapicInit
      <3>2. CASE lapicaddr
        <4>1. /\ base' = MmioMapRegion(m, base, LAPIC_PA, PGSIZE).base
              /\ lapic' = base /\ lint0' = lint0
          BY <1>3, <3>2, <3>t DEF BspLapicInit, LapicInit
        <4>2. base' \in MMIOBASE .. MMIOLIM - 1
          BY <4>1, <3>t, MmioStays DEF LAPIC_PA, PGSIZE
        <4>3. QED
          BY <1>n, <3>2, <3>t, <4>1, <4>2 DEF NULL
      <3>3. QED
        BY <3>1, <3>2
    <2>2. Types'
      BY <1>3, <1>c, <2>1 DEF BspLapicInit, BootInv, Types
    <2>3. TableRead'
      BY <1>3, <1>c, <2>1 DEF BspLapicInit, BootInv, TableRead
    <2>4. HandOver'
      BY <1>3, <1>c DEF BspLapicInit, BootInv, HandOver
    <2>5. LockHanded'
      BY <1>3, <1>c DEF BspLapicInit, BootInv, LockHanded
    <2>6. StacksGiven'
      BY <1>3, <1>c DEF BspLapicInit, BootInv, StacksGiven
    <2>7. RegionUsed'
      <3>1. base' <= base + 1
        <4>1. base \in MMIOBASE .. MMIOLIM - 1
          BY DEF BootInv, Types
        <4>2. CASE ~lapicaddr
          BY <1>3, <1>n, <4>1, <4>2 DEF BspLapicInit, LapicInit
        <4>3. CASE lapicaddr
          BY <1>3, <4>1, <4>3, LapicStays DEF BspLapicInit, LapicInit
        <4>4. QED
          BY <4>2, <4>3
      <3>2. base \in Int /\ base' \in Int /\ base <= MMIOBASE + 3 /\ c = 0
        BY <1>3, <1>n, <2>1 DEF BspLapicInit, BootInv, Types, RegionUsed, TableRead
      <3>3. base' <= MMIOBASE + 4 /\ Turns' = 0
        BY <1>3, <1>n, <1>b, <1>c, <3>1, <3>2 DEF BspLapicInit, Turns
      <3>4. QED
        BY <1>3, <1>n, <3>2, <3>3 DEF BspLapicInit, RegionUsed, BeforeCheck
    <2>8. QED
      BY <2>2, <2>3, <2>4, <2>5, <2>6, <2>7 DEF BootInv
  <1>4. CASE LockKernel
    <2>1. Types'
      BY <1>4, <1>b, <1>c DEF LockKernel, BootInv, Types
    <2>2. TableRead'
      BY <1>4, <1>c DEF LockKernel, BootInv, TableRead
    <2>3. HandOver'
      BY <1>4, <1>c DEF LockKernel, BootInv, HandOver
    <2>4. LockHanded'
      <3>1. \A a \in CPUs : ap'[a] # "sched_yield"
        BY <1>4 DEF LockKernel, BootInv, LockHanded
      <3>2. QED
        BY <1>4, <1>c, <3>1 DEF LockKernel, LockHanded
    <2>5. StacksGiven'
      BY <1>4, <1>c DEF LockKernel, BootInv, StacksGiven
    <2>6. RegionUsed'
      BY <1>4, <1>c DEF LockKernel, BootInv, RegionUsed, Turns, BeforeCheck
    <2>7. QED
      BY <2>1, <2>2, <2>3, <2>4, <2>5, <2>6 DEF BootInv
  <1>5. QED
    BY <1>1, <1>2, <1>3, <1>4
-----------------------------------------------------------------------------
\* boot_aps around the hand-over: the entry code, the boot CPU's own turn, the
\* stack for the next CPU, and the first environments and the lock at the end.
LEMMA BspLoopKeeps ==
  ASSUME BootInv, CopyEntryCode \/ SkipSelf \/ SetStack \/ EnvCreate \/ BspSchedYield
  PROVE  BootInv'
  <1>n. NCPU \in Nat \ {0}
    BY Numbers
  <1>b. BSP \in Nat /\ BSP \in CPUs
    BY BootCpu DEF BootInv, Types
  <1>c. machine' = machine /\ BSP' = BSP
    BY DEF CopyEntryCode, SkipSelf, SetStack, EnvCreate, BspSchedYield, BSP
  <1>k. /\ ncpu \in 0 .. NCPU /\ c \in 0 .. NCPU /\ CPUs = 0 .. MAXAPICID
        /\ MAXAPICID \in Nat /\ NCPU <= MAXAPICID
    BY BootCpu DEF BootInv, Types
  <1>o. \A a \in CPUs : ap[a] \in Started /\ pc \notin Handing => a < c
    BY DEF BootInv, HandOver, Handing
  <1> USE DEF Goto, BeforeAps, BeforeMp, MemInitPcs, Handing, LockedPcs, Asleep, Starting, Started,
              bootVars
  <1>1. CASE CopyEntryCode
    <2>1. Types'
      BY <1>1, <1>c DEF CopyEntryCode, BootInv, Types
    <2>2. TableRead'
      BY <1>1, <1>c DEF CopyEntryCode, BootInv, TableRead
    <2>3. HandOver'
      BY <1>1, <1>c DEF CopyEntryCode, BootInv, HandOver
    <2>4. LockHanded'
      BY <1>1, <1>c DEF CopyEntryCode, BootInv, LockHanded
    <2>5. StacksGiven'
      BY <1>1, <1>c DEF CopyEntryCode, BootInv, StacksGiven
    <2>6. RegionUsed'
      BY <1>1, <1>c DEF CopyEntryCode, BootInv, RegionUsed, Turns, BeforeCheck
    <2>7. QED
      BY <2>1, <2>2, <2>3, <2>4, <2>5, <2>6 DEF BootInv
  <1>2. CASE SkipSelf
    <2>1. c' = c + 1 /\ c < ncpu /\ c' \in 0 .. NCPU
      BY <1>2, <1>n, <1>k DEF SkipSelf
    <2>2. Types'
      BY <1>2, <1>c, <2>1 DEF SkipSelf, BootInv, Types
    <2>3. TableRead'
      BY <1>2, <1>c, <2>1 DEF SkipSelf, BootInv, TableRead
    <2>4. HandOver'
      <3>1. \A a \in CPUs : ap[a] \in Started => a < c'
        BY <1>2, <1>k, <1>o, <2>1 DEF SkipSelf
      <3>2. QED
        BY <1>2, <1>c, <3>1 DEF SkipSelf, BootInv, HandOver
    <2>5. LockHanded'
      BY <1>2, <1>c DEF SkipSelf, BootInv, LockHanded
    <2>6. StacksGiven'
      BY <1>2, <1>c DEF SkipSelf, BootInv, StacksGiven
    <2>7. RegionUsed'
      <3>1. MMIOBASE \in Int /\ base \in Int
        BY Numbers DEF BootInv, Types
      <3>2. ap[c] \notin {"percpu", "up"} \cup Started
        <4>1. c \in CPUs /\ ~(c < c)
          BY <1>n, <1>k
        <4>2. QED
          BY <1>2, <1>o, <4>1 DEF SkipSelf, BootInv, HandOver
      <3>3. Turns \in Int /\ Turns' \in Int /\ Turns <= Turns'
        BY <1>b, <1>c, <1>k, <2>1 DEF Turns
      <3>4. base <= MMIOBASE + 4 + Turns
        BY <3>1, <3>2, <3>3 DEF BootInv, RegionUsed
      <3>5. base <= MMIOBASE + 4 + Turns' + 0 /\ base <= MMIOBASE + 4 + Turns' + 1
        <4>1. PICK u \in Int : u = Turns
          BY <3>3
        <4>2. PICK v \in Int : v = Turns'
          BY <3>3
        <4>3. u <= v /\ base <= MMIOBASE + 4 + u
          BY <3>3, <3>4, <4>1, <4>2
        <4>4. base <= MMIOBASE + 4 + v + 0 /\ base <= MMIOBASE + 4 + v + 1
          BY <3>1, <4>3
        <4>5. QED
          BY <4>2, <4>4
      <3>6. QED
        BY <1>2, <3>5 DEF SkipSelf, RegionUsed, BeforeCheck
    <2>8. QED
      BY <2>2, <2>3, <2>4, <2>5, <2>6, <2>7 DEF BootInv
  <1>3. CASE SetStack
    <2>1. lapic # NULL /\ c < ncpu /\ c # BSP /\ mpentry_kstack' = Kstack(c)
      <3>1. c < ncpu /\ c # cpunum(BSP) /\ mpentry_kstack' = Kstack(c) /\ pc = "next"
        BY <1>3 DEF SetStack
      <3>2. lapic = NULL => ncpu <= 1
        BY <3>1 DEF BootInv, TableRead
      <3>3. lapic # NULL
        BY <1>k, <3>1, <3>2 DEF cpunum
      <3>4. QED
        BY <3>1, <3>3 DEF cpunum
    <2>2. Types'
      BY <1>3, <1>c DEF SetStack, BootInv, Types
    <2>3. TableRead'
      BY <1>3, <1>c DEF SetStack, BootInv, TableRead
    <2>4. HandOver'
      BY <1>3, <1>c, <1>o, <2>1 DEF SetStack, BootInv, HandOver
    <2>5. LockHanded'
      BY <1>3, <1>c DEF SetStack, BootInv, LockHanded
    <2>6. StacksGiven'
      BY <1>3, <1>c DEF SetStack, BootInv, StacksGiven
    <2>7. RegionUsed'
      BY <1>3, <1>c DEF SetStack, BootInv, RegionUsed, Turns, BeforeCheck
    <2>8. QED
      BY <2>2, <2>3, <2>4, <2>5, <2>6, <2>7 DEF BootInv
  <1>4. CASE EnvCreate
    <2>0. pc' = "sched_yield"
      <3>1. lapic # NULL => bootcpu = BSP /\ bootcpu \in 0 .. NCPU - 1
        BY <1>4 DEF EnvCreate, BootInv, TableRead, Types
      <3>2. cpunum(BSP) < NCPU
        BY <1>n, <3>1 DEF cpunum
      <3>3. QED
        BY <1>4, <3>2 DEF EnvCreate
    <2>1. Types'
      BY <1>4, <1>c, <2>0 DEF EnvCreate, BootInv, Types
    <2>2. TableRead'
      BY <1>4, <1>c DEF EnvCreate, BootInv, TableRead
    <2>3. HandOver'
      BY <1>4, <1>c DEF EnvCreate, BootInv, HandOver
    <2>4. LockHanded'
      BY <1>4, <1>c DEF EnvCreate, BootInv, LockHanded
    <2>5. StacksGiven'
      BY <1>4, <1>c DEF EnvCreate, BootInv, StacksGiven
    <2>6. RegionUsed'
      BY <1>4, <1>c DEF EnvCreate, BootInv, RegionUsed, Turns, BeforeCheck
    <2>7. QED
      BY <2>1, <2>2, <2>3, <2>4, <2>5, <2>6 DEF BootInv
  <1>5. CASE BspSchedYield
    <2>1. Types'
      BY <1>5, <1>c DEF BspSchedYield, BootInv, Types
    <2>2. TableRead'
      BY <1>5, <1>c DEF BspSchedYield, BootInv, TableRead
    <2>3. HandOver'
      BY <1>5, <1>c DEF BspSchedYield, BootInv, HandOver
    <2>4. LockHanded'
      <3>1. \A a \in CPUs : ap'[a] # "sched_yield"
        BY <1>5 DEF BspSchedYield, BootInv, LockHanded
      <3>2. QED
        BY <1>5, <1>c, <3>1 DEF BspSchedYield, LockHanded
    <2>5. StacksGiven'
      BY <1>5, <1>c DEF BspSchedYield, BootInv, StacksGiven
    <2>6. RegionUsed'
      BY <1>5, <1>c DEF BspSchedYield, BootInv, RegionUsed, Turns, BeforeCheck
    <2>7. QED
      BY <2>1, <2>2, <2>3, <2>4, <2>5, <2>6 DEF BootInv
  <1>6. QED
    BY <1>1, <1>2, <1>3, <1>4, <1>5

\* lapic_startap and the wait of boot_aps: the CPU that is started slept, and
\* the loop goes on when it reports, so when it uses mpentry_kstack no more.
LEMMA HandOverKeeps ==
  ASSUME BootInv, LapicStartap \/ LapicStartapAgain \/ WaitStarted
  PROVE  BootInv'
  <1>n. NCPU \in Nat \ {0}
    BY Numbers
  <1>b. BSP \in Nat /\ BSP \in CPUs
    BY BootCpu DEF BootInv, Types
  <1>c. machine' = machine /\ BSP' = BSP
    BY DEF LapicStartap, LapicStartapAgain, WaitStarted, BSP
  <1>k. /\ ncpu \in 0 .. NCPU /\ c \in 0 .. NCPU /\ CPUs = 0 .. MAXAPICID
        /\ MAXAPICID \in Nat /\ NCPU <= MAXAPICID
    BY BootCpu DEF BootInv, Types
  <1>p. pc \in Handing
    BY DEF LapicStartap, LapicStartapAgain, WaitStarted, Goto, Handing
  <1>h. /\ c < ncpu /\ c # BSP /\ lapic # NULL /\ mpentry_kstack = Kstack(c)
        /\ c \in 0 .. NCPU - 1 /\ c \in CPUs
    BY <1>n, <1>k, <1>p DEF BootInv, HandOver
  <1>t. ap \in [CPUs -> Asleep \cup Starting \cup Started]
    BY DEF BootInv, Types
  <1> USE DEF Goto, BeforeAps, BeforeMp, MemInitPcs, Handing, LockedPcs, Asleep, Starting, Started
  <1>1. CASE LapicStartap \/ LapicStartapAgain
    <2>1. /\ pc' \in {"startap_again", "wait"} /\ pc \in {"startap", "startap_again"}
          /\ UNCHANGED <<machine, base, ncpu, bootcpu, lapicaddr, lapic, cpu_status,
                         mpentry_kstack, c, esp, esp0, lint0, lock>>
      BY <1>1 DEF LapicStartap, LapicStartapAgain
    <2>2. /\ ap' \in [CPUs -> Asleep \cup Starting \cup Started]
          /\ \A a \in CPUs :
                \/ ap'[a] = ap[a]
                \/ a = c /\ ap[a] \in Asleep \cup {"entry"} /\ ap'[a] = "entry"
      <3>1. CASE LapicStartap
        <4>1. ap[c] \in Asleep
          BY <1>h, <1>k, <1>t, <3>1 DEF LapicStartap, BootInv, HandOver
        <4>2. QED
          BY <1>h, <1>t, <3>1, <4>1 DEF LapicStartap
      <3>2. CASE LapicStartapAgain
        BY <1>h, <1>t, <3>2 DEF LapicStartapAgain
      <3>3. QED
        BY <1>1, <3>1, <3>2
    <2>3. Types'
      BY <1>c, <2>1, <2>2 DEF BootInv, Types
    <2>4. TableRead'
      BY <1>c, <2>1 DEF BootInv, TableRead
    <2>5. HandOver'
      <3>1. \A a \in CPUs : ap'[a] \in Starting => a = c
        BY <2>2 DEF BootInv, HandOver
      <3>2. \A a \in CPUs : ap'[a] \in Started => a < c \/ a = c
        BY <2>2 DEF BootInv, HandOver
      <3>3. ap'[BSP] = "none"
        BY <1>b, <1>h, <2>2 DEF BootInv, HandOver
      <3>4. \A i \in 0 .. NCPU - 1 :
                cpu_status[i] = "CPU_STARTED" => i = bootcpu \/ ap'[i] \in Started
        <4>1. \A i \in 0 .. NCPU - 1 : i \in CPUs
          BY <1>n, <1>k
        <4>2. QED
          BY <2>2, <4>1 DEF BootInv, HandOver
      <3>5. QED
        BY <1>c, <1>h, <2>1, <3>1, <3>2, <3>3, <3>4 DEF HandOver
    <2>6. LockHanded'
      BY <1>c, <2>1, <2>2 DEF BootInv, LockHanded
    <2>7. StacksGiven'
      <3>1. \A a \in CPUs : /\ ap'[a] \in Asleep \cup {"entry"} <=> ap[a] \in Asleep \cup {"entry"}
                            /\ ap'[a] \in Started \cup {"up"} <=> ap[a] \in Started \cup {"up"}
        BY <2>2
      <3>2. QED
        BY <1>c, <2>1, <3>1 DEF BootInv, StacksGiven
    <2>8. RegionUsed'
      <3>1. ap'[c'] \in {"percpu", "up"} \cup Started <=> ap[c] \in {"percpu", "up"} \cup Started
        BY <1>h, <2>1, <2>2
      <3>2. QED
        BY <1>c, <2>1, <3>1 DEF BootInv, RegionUsed, Turns, BeforeCheck
    <2>9. QED
      BY <2>3, <2>4, <2>5, <2>6, <2>7, <2>8 DEF BootInv
  <1>2. CASE WaitStarted
    <2>1. c' = c + 1 /\ c' \in 0 .. NCPU
      BY <1>2, <1>n, <1>k, <1>h DEF WaitStarted
    <2>2. c # bootcpu
      BY <1>2, <1>h DEF WaitStarted, BootInv, TableRead
    <2>3. ap[c] \in Started
      BY <1>2, <1>h, <2>2 DEF WaitStarted, BootInv, HandOver
    <2>4. Types'
      BY <1>2, <1>c, <2>1 DEF WaitStarted, BootInv, Types
    <2>5. TableRead'
      BY <1>2, <1>c DEF WaitStarted, BootInv, TableRead
    <2>6. HandOver'
      <3>1. \A a \in CPUs : ap[a] \notin Starting
        BY <2>3 DEF BootInv, HandOver
      <3>2. \A a \in CPUs : ap[a] \in Started => a < c'
        BY <1>k, <2>1 DEF BootInv, HandOver
      <3>3. QED
        BY <1>2, <1>c, <3>1, <3>2 DEF WaitStarted, BootInv, HandOver
    <2>7. LockHanded'
      BY <1>2, <1>c DEF WaitStarted, BootInv, LockHanded
    <2>8. StacksGiven'
      BY <1>2, <1>c DEF WaitStarted, BootInv, StacksGiven
    <2>9. RegionUsed'
      <3>1. MMIOBASE \in Int /\ base \in Int
        BY Numbers DEF BootInv, Types
      <3>2. Turns \in Int /\ Turns' \in Int /\ Turns' = Turns + 1
        BY <1>b, <1>c, <1>h, <1>k, <2>1 DEF Turns
      <3>3. base <= MMIOBASE + 4 + Turns + 1
        BY <2>3, <3>1, <3>2 DEF BootInv, RegionUsed
      <3>4. QED
        BY <1>2, <3>1, <3>2, <3>3 DEF WaitStarted, RegionUsed, BeforeCheck
    <2>10. QED
      BY <2>4, <2>5, <2>6, <2>7, <2>8, <2>9 DEF BootInv
  <1>3. QED
    BY <1>1, <1>2

\* A CPU on its way through mpentry.S and mp_main, until it has reported: it
\* is the one boot_aps waits for, its number is c and its stack Kstack(c).
LEMMA ApStartKeeps ==
  ASSUME BootInv, NEW a \in CPUs,
         MpEntry(a) \/ ApLapicInit(a) \/ ApInitPercpu(a) \/ ApStarted(a)
  PROVE  BootInv'
  <1>n. NCPU \in Nat \ {0} /\ MMIOBASE \in Int /\ MMIOLIM \in Int /\ MMIOBASE >= 0
    BY Numbers
  <1>b. BSP \in Nat /\ BSP \in CPUs
    BY BootCpu DEF BootInv, Types
  <1>c. machine' = machine /\ BSP' = BSP
    BY DEF MpEntry, ApLapicInit, ApInitPercpu, ApStarted, BSP
  <1>k. /\ ncpu \in 0 .. NCPU /\ c \in 0 .. NCPU /\ CPUs = 0 .. MAXAPICID
        /\ MAXAPICID \in Nat /\ NCPU <= MAXAPICID
    BY BootCpu DEF BootInv, Types
  <1>t. /\ ap \in [CPUs -> Asleep \cup Starting \cup Started]
        /\ esp \in [CPUs -> Int] /\ esp0 \in [CPUs -> Int]
    BY DEF BootInv, Types
  <1> USE DEF ApGoto, BeforeAps, BeforeMp, MemInitPcs, Handing, LockedPcs, Asleep, Starting, Started
  <1>p. ap[a] \in Starting
    BY DEF MpEntry, ApLapicInit, ApInitPercpu, ApStarted
  <1>h. /\ a = c /\ pc \in {"startap_again", "wait"}
        /\ c < ncpu /\ a # BSP /\ lapic # NULL /\ mpentry_kstack = Kstack(a)
    BY <1>p DEF BootInv, HandOver
  <1>i. a \in 0 .. NCPU - 1 /\ lapicaddr /\ bootcpu = BSP /\ cpunum(a) = a
    BY <1>n, <1>k, <1>h DEF BootInv, TableRead, cpunum
  <1>e. Kstack(a) \in Int /\ kstacktop(a) \in Int
    <2>1. Kstack(a) \in Int
      BY <1>i, StacksApart
    <2>2. a \in Nat /\ a + 1 \in Nat /\ a # a + 1
      BY <1>i
    <2>3. QED
      BY <2>1, <2>2, TrapStacksApart
  <1>1. CASE MpEntry(a)
    <2>1. /\ ap' = [ap EXCEPT ![a] = "mp_main"] /\ ap[a] = "entry"
          /\ esp' = [esp EXCEPT ![a] = Kstack(a)]
      BY <1>1, <1>h DEF MpEntry
    <2>2. Types'
      BY <1>1, <1>c, <1>e, <2>1 DEF MpEntry, BootInv, Types
    <2>3. TableRead'
      BY <1>1, <1>c DEF MpEntry, BootInv, TableRead
    <2>4. HandOver'
      BY <1>1, <1>c, <1>h, <1>t, <2>1 DEF MpEntry, BootInv, HandOver, CPUs
    <2>5. LockHanded'
      BY <1>1, <1>c, <1>t, <2>1 DEF MpEntry, BootInv, LockHanded
    <2>6. StacksGiven'
      BY <1>1, <1>b, <1>c, <1>h, <1>t, <2>1 DEF MpEntry, BootInv, StacksGiven
    <2>7. RegionUsed'
      <3>1. ap'[c'] \in {"percpu", "up"} \cup Started <=> ap[c] \in {"percpu", "up"} \cup Started
        BY <1>1, <1>h, <1>t, <2>1 DEF MpEntry
      <3>2. QED
        BY <1>c, <1>1, <3>1 DEF MpEntry, BootInv, RegionUsed, Turns, BeforeCheck
    <2>8. QED
      BY <2>2, <2>3, <2>4, <2>5, <2>6, <2>7 DEF BootInv
  <1>2. CASE ApLapicInit(a)
    <2>1. ap' = [ap EXCEPT ![a] = "percpu"] /\ ap[a] = "mp_main"
      BY <1>2 DEF ApLapicInit
    <2>2. /\ base' = MmioMapRegion(m, base, LAPIC_PA, PGSIZE).base
          /\ lapic' = base /\ lint0' = lint0 \ {a}
      BY <1>2, <1>h, <1>i DEF ApLapicInit, LapicInit
    <2>3. base \in MMIOBASE .. MMIOLIM - 1
      BY DEF BootInv, Types
    <2>4. base' \in MMIOBASE .. MMIOLIM - 1
      BY <2>2, <2>3, MmioStays DEF LAPIC_PA, PGSIZE
    <2>5. lapic' \in MMIOBASE .. MMIOLIM - 1 /\ lapic' # NULL
      BY <1>n, <2>2, <2>3 DEF NULL
    <2>6. lint0' = {BSP}
      BY <1>h, <2>2 DEF BootInv, TableRead
    <2>7. Types'
      BY <1>2, <1>c, <2>1, <2>4, <2>5 DEF ApLapicInit, BootInv, Types
    <2>8. TableRead'
      BY <1>2, <1>c, <1>h, <1>i, <2>5, <2>6 DEF ApLapicInit, BootInv, TableRead
    <2>9. HandOver'
      BY <1>2, <1>c, <1>h, <1>t, <2>1, <2>5 DEF ApLapicInit, BootInv, HandOver, CPUs
    <2>10. LockHanded'
      BY <1>2, <1>c, <1>t, <2>1 DEF ApLapicInit, BootInv, LockHanded
    <2>11. StacksGiven'
      BY <1>2, <1>b, <1>c, <1>h, <1>t, <2>1 DEF ApLapicInit, BootInv, StacksGiven
    <2>12. RegionUsed'
      <3>1. base' <= base + 1
        BY <2>2, <2>3, LapicStays
      <3>2. base <= MMIOBASE + 4 + Turns + 0
        BY <1>h, <2>1 DEF BootInv, RegionUsed
      <3>3. Turns \in Int /\ Turns' = Turns /\ c' = c /\ pc' = pc
        BY <1>2, <1>b, <1>c, <1>k DEF ApLapicInit, Turns
      <3>4. ap'[c'] = "percpu"
        BY <1>h, <1>t, <2>1, <3>3
      <3>5. base' <= MMIOBASE + 4 + Turns' + 1
        BY <1>n, <2>3, <2>4, <3>1, <3>2, <3>3
      <3>6. QED
        BY <1>h, <3>3, <3>4, <3>5 DEF RegionUsed, BeforeCheck
    <2>13. QED
      BY <2>7, <2>8, <2>9, <2>10, <2>11, <2>12 DEF BootInv
  <1>3. CASE ApInitPercpu(a)
    <2>1. /\ ap' = [ap EXCEPT ![a] = "up"] /\ ap[a] = "percpu"
          /\ esp0' = [esp0 EXCEPT ![a] = kstacktop(a)]
      BY <1>3, <1>i DEF ApInitPercpu, TrapInitPercpu
    <2>2. Types'
      BY <1>3, <1>c, <1>e, <2>1 DEF ApInitPercpu, BootInv, Types
    <2>3. TableRead'
      BY <1>3, <1>c DEF ApInitPercpu, BootInv, TableRead
    <2>4. HandOver'
      BY <1>3, <1>c, <1>h, <1>t, <2>1 DEF ApInitPercpu, BootInv, HandOver, CPUs
    <2>5. LockHanded'
      BY <1>3, <1>c, <1>t, <2>1 DEF ApInitPercpu, BootInv, LockHanded
    <2>6. StacksGiven'
      BY <1>3, <1>b, <1>c, <1>h, <1>t, <2>1 DEF ApInitPercpu, BootInv, StacksGiven
    <2>7. RegionUsed'
      <3>1. ap'[c'] \in {"percpu", "up"} \cup Started <=> ap[c] \in {"percpu", "up"} \cup Started
        BY <1>3, <1>h, <1>t, <2>1 DEF ApInitPercpu
      <3>2. QED
        BY <1>c, <1>3, <3>1 DEF ApInitPercpu, BootInv, RegionUsed, Turns, BeforeCheck
    <2>8. QED
      BY <2>2, <2>3, <2>4, <2>5, <2>6, <2>7 DEF BootInv
  <1>4. CASE ApStarted(a)
    <2>1. /\ ap' = [ap EXCEPT ![a] = "lock_kernel"] /\ ap[a] = "up"
          /\ cpu_status' = [cpu_status EXCEPT ![a] = "CPU_STARTED"]
      BY <1>4, <1>i DEF ApStarted
    <2>2. Types'
      BY <1>4, <1>c, <1>i, <2>1 DEF ApStarted, BootInv, Types
    <2>3. TableRead'
      BY <1>4, <1>c, <1>h DEF ApStarted, BootInv, TableRead
    <2>4. HandOver'
      <3>1. \A i \in 0 .. NCPU - 1 :
                cpu_status'[i] = "CPU_STARTED" => i = bootcpu \/ ap'[i] \in Started
        <4>1. cpu_status \in [0 .. NCPU - 1 -> {"CPU_UNUSED", "CPU_STARTED"}]
          BY DEF BootInv, Types
        <4>2. \A i \in 0 .. NCPU - 1 : i \in CPUs
          BY <1>n, <1>k
        <4>3. QED
          BY <1>i, <1>t, <2>1, <4>1, <4>2 DEF BootInv, HandOver
      <3>2. QED
        BY <1>4, <1>c, <1>h, <1>t, <2>1, <3>1 DEF ApStarted, BootInv, HandOver, CPUs
    <2>5. LockHanded'
      BY <1>4, <1>c, <1>t, <2>1 DEF ApStarted, BootInv, LockHanded
    <2>6. StacksGiven'
      BY <1>4, <1>b, <1>c, <1>h, <1>t, <2>1 DEF ApStarted, BootInv, StacksGiven
    <2>7. RegionUsed'
      <3>1. ap'[c'] \in {"percpu", "up"} \cup Started <=> ap[c] \in {"percpu", "up"} \cup Started
        BY <1>4, <1>h, <1>t, <2>1 DEF ApStarted
      <3>2. QED
        BY <1>c, <1>4, <3>1 DEF ApStarted, BootInv, RegionUsed, Turns, BeforeCheck
    <2>8. QED
      BY <2>2, <2>3, <2>4, <2>5, <2>6, <2>7 DEF BootInv
  <1>5. QED
    BY <1>1, <1>2, <1>3, <1>4

\* A CPU that has reported takes the lock when the boot CPU gave it up, runs
\* sched_yield with it and gives it up in turn.
LEMMA ApLockKeeps ==
  ASSUME BootInv, NEW a \in CPUs, ApLockKernel(a) \/ ApSchedYield(a)
  PROVE  BootInv'
  <1>b. BSP \in Nat /\ BSP \in CPUs
    BY BootCpu DEF BootInv, Types
  <1>c. machine' = machine /\ BSP' = BSP
    BY DEF ApLockKernel, ApSchedYield, BSP
  <1>t. ap \in [CPUs -> Asleep \cup Starting \cup Started]
    BY DEF BootInv, Types
  <1> USE DEF ApGoto, BeforeAps, BeforeMp, MemInitPcs, Handing, LockedPcs, Asleep, Starting, Started
  <1>u. UNCHANGED <<machine, pc, base, ncpu, bootcpu, lapicaddr, lapic, cpu_status,
                    mpentry_kstack, c, esp, esp0, lint0>>
    BY DEF ApLockKernel, ApSchedYield
  <1>1. /\ ap[a] \in Started /\ ap' \in [CPUs -> Asleep \cup Starting \cup Started]
        /\ ap'[a] \in Started /\ \A b \in CPUs : b # a => ap'[b] = ap[b]
        /\ lock' \in CPUs \cup {NULL}
    BY <1>t DEF ApLockKernel, ApSchedYield
  <1>2. a # BSP
    BY <1>1 DEF BootInv, HandOver
  <1>3. pc = "scheduler"
    <2>1. CASE ApLockKernel(a)
      <3>1. lock = NULL /\ ap[a] = "lock_kernel"
        BY <2>1 DEF ApLockKernel
      <3>2. pc \notin LockedPcs
        <4>1. BSP # NULL
          BY <1>b, Numbers DEF NULL
        <4>2. QED
          BY <3>1, <4>1 DEF BootInv, LockHanded
      <3>3. pc \notin BeforeAps
        <4>1. c \in Int /\ a \in Nat
          BY Numbers DEF BootInv, Types, CPUs
        <4>2. a < c \/ pc \in {"startap_again", "wait"}
          BY <3>1 DEF BootInv, HandOver
        <4>3. QED
          BY <4>1, <4>2 DEF BootInv, TableRead
      <3>4. QED
        BY <3>2, <3>3 DEF BootInv, Types
    <2>2. CASE ApSchedYield(a)
      BY <2>2 DEF ApSchedYield, BootInv, LockHanded
    <2>3. QED
      BY <2>1, <2>2
  <1>4. Types'
    BY <1>1, <1>u DEF BootInv, Types
  <1>5. TableRead'
    BY <1>c, <1>u DEF BootInv, TableRead
  <1>6. HandOver'
    <2>1. \A b \in CPUs : /\ ap'[b] \in Starting <=> ap[b] \in Starting
                          /\ ap'[b] \in Started <=> ap[b] \in Started
      BY <1>1
    <2>2. \A i \in 0 .. NCPU - 1 : i \in CPUs
      BY Numbers, BootCpu DEF BootInv, Types
    <2>3. ap'[BSP] = "none"
      BY <1>1, <1>2, <1>b DEF BootInv, HandOver
    <2>4. QED
      BY <1>c, <1>u, <2>1, <2>2, <2>3 DEF BootInv, HandOver
  <1>7. LockHanded'
    <2>1. CASE ApLockKernel(a)
      <3>1. lock = NULL /\ lock' = a /\ ap'[a] = "sched_yield"
        BY <1>t, <2>1 DEF ApLockKernel
      <3>2. \A b \in CPUs : ap[b] # "sched_yield"
        <4>1. \A b \in CPUs : b # NULL
          BY Numbers DEF CPUs, NULL
        <4>2. QED
          BY <3>1, <4>1 DEF BootInv, LockHanded
      <3>3. QED
        BY <1>1, <1>3, <1>u, <3>1, <3>2 DEF LockHanded
    <2>2. CASE ApSchedYield(a)
      <3>1. lock = a /\ ap[a] = "sched_yield" /\ ap'[a] = "scheduler"
        BY <1>t, <2>2 DEF ApSchedYield, BootInv, LockHanded
      <3>2. \A b \in CPUs : ap[b] = "sched_yield" => b = a
        BY <3>1 DEF BootInv, LockHanded
      <3>3. \A b \in CPUs : ap'[b] # "sched_yield"
        BY <1>1, <3>1, <3>2
      <3>4. QED
        BY <1>3, <1>u, <3>3 DEF LockHanded
    <2>3. QED
      BY <2>1, <2>2
  <1>8. StacksGiven'
    <2>1. \A b \in CPUs :
              /\ ap'[b] \in Asleep \cup {"entry"} <=> ap[b] \in Asleep \cup {"entry"}
              /\ ap'[b] \in Started \cup {"up"} <=> ap[b] \in Started \cup {"up"}
      BY <1>1
    <2>2. QED
      BY <1>c, <1>u, <2>1 DEF BootInv, StacksGiven
  <1>9. RegionUsed'
    <2>1. c \in CPUs
      BY Numbers, BootCpu DEF BootInv, Types
    <2>2. ap'[c] \in {"percpu", "up"} \cup Started <=> ap[c] \in {"percpu", "up"} \cup Started
      BY <1>1, <2>1
    <2>3. QED
      BY <1>c, <1>u, <2>2 DEF BootInv, RegionUsed, Turns, BeforeCheck
  <1>10. QED
    BY <1>4, <1>5, <1>6, <1>7, <1>8, <1>9 DEF BootInv

\* Every step of the boot CPU and of the others keeps the invariant.
LEMMA BootInvNext == BootCpuInPlace /\ BootInv /\ [Next]_vars => BootInv'
  <1> SUFFICES ASSUME BootCpuInPlace, BootInv, [Next]_vars PROVE BootInv'
    OBVIOUS
  <1>1. CASE MemInitStep /\ UNCHANGED bootVars
    BY <1>1, MemInitKeeps
  <1>2. CASE BspStep
    BY <1>2, BspStartKeeps, BspLoopKeeps, HandOverKeeps DEF BspStep
  <1>3. ASSUME NEW a \in CPUs, ApStep(a) PROVE BootInv'
    BY <1>3, ApStartKeeps, ApLockKeeps DEF ApStep
  <1>4. CASE UNCHANGED vars
    <2>1. BSP' = BSP
      BY <1>4 DEF vars, memVars, BSP
    <2>2. Types' /\ TableRead' /\ HandOver' /\ LockHanded' /\ StacksGiven' /\ RegionUsed'
      BY <1>4, <2>1
         DEF BootInv, Types, TableRead, HandOver, LockHanded, StacksGiven, RegionUsed, Turns,
             vars, memVars, bootVars
    <2>3. QED
      BY <2>2 DEF BootInv
  <1>5. QED
    BY <1>1, <1>2, <1>3, <1>4 DEF Next

\* The invariant says what boot_aps and mp_main promise.
LEMMA BootInvMeans ==
  ASSUME BootInv
  PROVE  /\ pc # "wild" /\ StackPrivate /\ TrapStackSharing
         /\ OneActive /\ DeviceRoom /\ BootCpuGetsInterrupts
  <1>n. NCPU \in Nat \ {0}
    BY Numbers
  <1>b. BSP \in Nat /\ BSP \in CPUs
    BY BootCpu DEF BootInv, Types
  <1>k. /\ c \in 0 .. NCPU /\ ncpu \in 0 .. NCPU /\ CPUs = 0 .. MAXAPICID
        /\ MAXAPICID \in Nat /\ NCPU <= MAXAPICID
    BY BootCpu DEF BootInv, Types
  <1>t. ap \in [CPUs -> Asleep \cup Starting \cup Started]
    BY DEF BootInv, Types
  <1>u. \A a \in CPUs : ap[a] \in Starting \cup Started => a \in 0 .. NCPU - 1 /\ a # BSP
    <2>1. \A a \in CPUs : ap[a] \in Starting \cup Started => a < c \/ (a = c /\ pc \in Handing)
      BY DEF BootInv, HandOver, Handing
    <2>2. pc \in Handing => c < ncpu
      BY DEF BootInv, HandOver
    <2>3. \A a \in CPUs : ap[a] \in Starting \cup Started => a \in 0 .. NCPU - 1
      BY <1>n, <1>k, <2>1, <2>2
    <2>4. ap[BSP] \notin Starting \cup Started
      BY DEF BootInv, HandOver, Starting, Started
    <2>5. QED
      BY <2>3, <2>4
  <1>1. pc # "wild"
    BY DEF BootInv, Types, BeforeAps, BeforeMp, MemInitPcs, LockedPcs, Handing
  <1>2. StackPrivate
    <2> SUFFICES ASSUME NEW a \in CPUs, NEW b \in CPUs, a # b, esp[a] # NULL
                 PROVE  esp[a] # esp[b]
      BY DEF StackPrivate
    <2>1. ASSUME NEW d \in CPUs
          PROVE  \/ d = BSP /\ esp[d] = bootstack
                 \/ esp[d] = NULL
                 \/ d \in 0 .. NCPU - 1 /\ esp[d] = Kstack(d)
      <3>1. CASE d = BSP
        BY <3>1 DEF BootInv, StacksGiven
      <3>2. CASE d # BSP /\ ap[d] \in Asleep \cup {"entry"}
        BY <3>2 DEF BootInv, StacksGiven
      <3>3. CASE d # BSP /\ ap[d] \notin Asleep \cup {"entry"}
        <4>1. ap[d] \in Starting \cup Started
          BY <1>t, <3>3
        <4>2. esp[d] = Kstack(d)
          BY <3>3 DEF BootInv, StacksGiven
        <4>3. QED
          BY <1>u, <4>1, <4>2
      <3>4. QED
        BY <3>1, <3>2, <3>3
    <2>2. CASE esp[b] = NULL
      BY <2>2
    <2>3. CASE a = BSP
      <3>1. esp[a] = bootstack /\ (esp[b] = NULL \/ (b \in 0 .. NCPU - 1 /\ esp[b] = Kstack(b)))
        BY <2>1, <2>3 DEF BootInv, StacksGiven
      <3>2. QED
        BY <2>2, <3>1, StacksApart
    <2>4. CASE b = BSP
      <3>1. esp[b] = bootstack /\ a \in 0 .. NCPU - 1 /\ esp[a] = Kstack(a)
        BY <2>1, <2>4 DEF BootInv, StacksGiven
      <3>2. QED
        BY <3>1, StacksApart
    <2>5. CASE a # BSP /\ b # BSP /\ esp[b] # NULL
      <3>1. /\ a \in 0 .. NCPU - 1 /\ esp[a] = Kstack(a)
            /\ b \in 0 .. NCPU - 1 /\ esp[b] = Kstack(b)
        BY <2>1, <2>5
      <3>2. QED
        BY <3>1, StacksApart
    <2>6. QED
      BY <2>2, <2>3, <2>4, <2>5
  <1>3. TrapStackSharing
    <2> SUFFICES ASSUME NEW a \in CPUs, NEW b \in CPUs, a # b, esp0[a] # NULL,
                        esp0[a] = esp0[b]
                 PROVE  {a, b} = {0, BSP}
      BY DEF TrapStackSharing
    <2>1. ASSUME NEW d \in CPUs, esp0[d] # NULL
          PROVE  d \in Nat /\ esp0[d] = kstacktop(IF d = BSP THEN 0 ELSE d)
      <3>1. d \in Nat
        BY <1>k
      <3>2. QED
        BY <2>1, <3>1 DEF BootInv, StacksGiven
    <2>2. CASE a # BSP /\ b # BSP
      BY <2>1, <2>2, TrapStacksApart
    <2>3. CASE a = BSP /\ b # 0
      BY <2>1, <2>3, TrapStacksApart
    <2>4. CASE b = BSP /\ a # 0
      BY <2>1, <2>4, TrapStacksApart
    <2>5. QED
      BY <2>2, <2>3, <2>4
  <1>4. OneActive
    <2>1. \E x : Active \subseteq {x}
      <3>1. ASSUME NEW a \in CPUs, ap[a] \in {"mp_main", "percpu"}
            PROVE  a = c /\ pc \in {"startap_again", "wait"}
        BY <3>1 DEF BootInv, HandOver, Starting
      <3>2. ASSUME NEW a \in CPUs, ap[a] = "sched_yield"
            PROVE  a = lock /\ pc = "scheduler"
        BY <3>2 DEF BootInv, LockHanded
      <3>3. CASE pc \in {"startap_again", "wait"}
        <4>1. Active \subseteq {c}
          BY <3>1, <3>2, <3>3 DEF Active
        <4>2. QED
          BY <4>1
      <3>4. CASE pc = "scheduler"
        <4>1. Active \subseteq {lock}
          BY <3>1, <3>2, <3>4 DEF Active
        <4>2. QED
          BY <4>1
      <3>5. CASE pc \notin {"startap_again", "wait", "scheduler"}
        <4>1. Active \subseteq {BSP}
          BY <3>1, <3>2, <3>5 DEF Active
        <4>2. QED
          BY <4>1
      <3>6. QED
        BY <3>3, <3>4, <3>5
    <2>2. PICK x : Active \subseteq {x}
      BY <2>1
    <2>3. IsFiniteSet({x}) /\ Cardinality({x}) = 1
      BY FS_Singleton
    <2>4. Cardinality(Active) <= Cardinality({x})
      BY <2>2, <2>3, FS_Subset
    <2>5. QED
      BY <2>3, <2>4 DEF OneActive
  <1>5. BootCpuGetsInterrupts
    BY DEF BootInv, TableRead, BootCpuGetsInterrupts
  <1>6. DeviceRoom
    <2>n. /\ MMIOBASE \in Int /\ base \in Int /\ MMIOLIM = MMIOBASE + NPTENTRIES
          /\ NPTENTRIES \in Int /\ NCPU + 4 <= NPTENTRIES
      BY Numbers, RegionSize DEF BootInv, Types
    <2>1. CASE pc = "lapic_init"
      <3>1. base <= MMIOBASE + 3
        BY <2>1 DEF BootInv, RegionUsed
      <3>2. QED
        BY <1>n, <2>n, <3>1 DEF DeviceRoom
    <2>2. ASSUME NEW a \in CPUs, ap[a] = "mp_main"
          PROVE  base + 1 < MMIOLIM
      <3>1. a = c /\ pc \in Handing
        BY <2>2 DEF BootInv, HandOver, Starting, Handing
      <3>2. c < ncpu /\ c # BSP
        BY <3>1 DEF BootInv, HandOver
      <3>3. Turns \in Int /\ Turns <= NCPU - 2
        <4>1. BSP \in 0 .. NCPU - 1
          BY <3>1 DEF BootInv, HandOver, TableRead, Types, Handing, BeforeAps, BeforeMp, MemInitPcs
        <4>2. QED
          BY <1>n, <1>k, <3>2, <4>1 DEF Turns
      <3>4. base <= MMIOBASE + 4 + Turns + 0
        BY <2>2, <3>1 DEF BootInv, RegionUsed, Started
      <3>5. QED
        BY <1>n, <2>n, <3>3, <3>4
    <2>3. QED
      BY <2>1, <2>2 DEF DeviceRoom
  <1>7. QED
    BY <1>1, <1>2, <1>3, <1>4, <1>5, <1>6
-----------------------------------------------------------------------------
(***************************************************************************)
(* The types, on every machine: whatever the MP table lists.               *)
(***************************************************************************)
TypeInv ==
    /\ TypeOK
    /\ pc \in Handing => c < ncpu
    /\ pc \in MemInitPcs => bootcpu < NCPU

\* They hold at first.
LEMMA TypeInvInit == Init => TypeInv
  <1> SUFFICES ASSUME Init PROVE TypeInv
    OBVIOUS
  <1>n. NCPU \in Nat \ {0} /\ MMIOBASE \in Int /\ MMIOLIM \in Int /\ MMIOBASE < MMIOLIM
    BY Numbers
  <1>b. BSP \in CPUs
    BY BootCpu DEF Init, MemInitInit
  <1>1. QED
    BY <1>n, <1>b DEF Init, MemInitInit, TypeInv, TypeOK, Handing, MemInitPcs

\* lapic_init keeps to the device region on any CPU.
LEMMA LapicTypes ==
  ASSUME TypeOK, NEW a \in CPUs, LapicInit(a)
  PROVE  /\ base' \in MMIOBASE .. MMIOLIM - 1
         /\ lapic' \in {NULL} \cup MMIOBASE .. MMIOLIM - 1
         /\ lint0' \subseteq CPUs
  <1>1. /\ base \in MMIOBASE .. MMIOLIM - 1 /\ lint0 \subseteq CPUs
        /\ lapic \in {NULL} \cup MMIOBASE .. MMIOLIM - 1
    BY DEF TypeOK
  <1>2. MmioMapRegion(m, base, LAPIC_PA, PGSIZE).base \in MMIOBASE .. MMIOLIM - 1
    BY <1>1, LapicStays
  <1>3. QED
    BY <1>1, <1>2 DEF LapicInit

\* A step of the boot CPU keeps them; none is taken on a wild path.
LEMMA BspTypes ==
  ASSUME TypeInv, BspStep
  PROVE  TypeInv'
  <1>n. NCPU \in Nat \ {0}
    BY Numbers
  <1>b. BSP \in CPUs
    BY BootCpu DEF TypeInv, TypeOK
  <1>t. /\ machine \in Machines
        /\ ncpu \in 0 .. NCPU /\ bootcpu \in 0 .. NCPU /\ c \in 0 .. NCPU
        /\ cpu_status \in [0 .. NCPU - 1 -> {"CPU_UNUSED", "CPU_STARTED"}]
        /\ base \in MMIOBASE .. MMIOLIM - 1 /\ lapic \in {NULL} \cup MMIOBASE .. MMIOLIM - 1
        /\ lint0 \subseteq CPUs /\ lock \in CPUs \cup {NULL}
        /\ bootcpu = NCPU => pc = "wild"
    BY DEF TypeInv, TypeOK
  <1> USE DEF Goto, Handing, MemInitPcs
  <1>1. CASE MpInit
    <2>1. /\ CpuCount(machine.procs) \in 0 .. NCPU
          /\ IndexOf(machine.procs, BSP) \in 0 .. NCPU
      BY <1>t, TableResult
    <2>2. CASE machine.conf = "none"
      BY <1>1, <1>t, <2>2 DEF MpInit, TypeInv, TypeOK
    <2>3. CASE machine.conf # "none"
      <3>1. /\ bootcpu' \in 0 .. NCPU /\ ncpu' \in 0 .. NCPU
            /\ pc' = IF bootcpu' = NCPU THEN "wild" ELSE "lapic_init"
        BY <1>1, <1>n, <2>1, <2>3 DEF MpInit
      <3>2. cpu_status' \in [0 .. NCPU - 1 -> {"CPU_UNUSED", "CPU_STARTED"}]
        BY <1>1, <1>t, <2>3 DEF MpInit
      <3>3. QED
        BY <1>1, <1>t, <3>1, <3>2 DEF MpInit, TypeInv, TypeOK
    <2>4. QED
      BY <2>2, <2>3
  <1>2. CASE BspLapicInit
    BY <1>2, <1>b, <1>t, LapicTypes DEF BspLapicInit, TypeInv, TypeOK
  <1>3. CASE EnvTrapInit \/ LockKernel \/ BspSchedYield
    BY <1>3, <1>b, <1>t DEF EnvTrapInit, LockKernel, BspSchedYield, TypeInv, TypeOK
  <1>4. CASE CopyEntryCode \/ EnvCreate
    BY <1>4, <1>t DEF CopyEntryCode, EnvCreate, bootVars, TypeInv, TypeOK
  <1>5. CASE SkipSelf \/ SetStack
    BY <1>5, <1>n, <1>t DEF SkipSelf, SetStack, TypeInv, TypeOK
  <1>6. CASE LapicStartap \/ LapicStartapAgain
    BY <1>6, <1>t DEF LapicStartap, LapicStartapAgain, TypeInv, TypeOK
  <1>7. CASE WaitStarted
    <2>1. c < ncpu
      BY <1>7 DEF WaitStarted, TypeInv
    <2>2. QED
      BY <1>7, <1>n, <1>t, <2>1 DEF WaitStarted, TypeInv, TypeOK
  <1>8. QED
    BY <1>1, <1>2, <1>3, <1>4, <1>5, <1>6, <1>7 DEF BspStep

\* So does a step of mem_init or of another CPU.
LEMMA TypeInvNext == TypeInv /\ [Next]_vars => TypeInv'
  <1> SUFFICES ASSUME TypeInv, [Next]_vars PROVE TypeInv'
    OBVIOUS
  <1>1. CASE MemInitStep /\ UNCHANGED bootVars
    <2>1. /\ pc \in MemInitPcs /\ pc' \in MemInitPcs \cup {"env_trap_init"}
          /\ machine' = machine /\ base' \in MMIOBASE .. MMIOLIM - 1
      BY <1>1, MemInitEffect DEF TypeInv, TypeOK
    <2>2. NCPU \in Nat
      BY Numbers
    <2>3. QED
      BY <1>1, <2>1, <2>2 DEF TypeInv, TypeOK, bootVars, MemInitPcs, Handing
  <1>2. CASE BspStep
    BY <1>2, BspTypes
  <1>3. ASSUME NEW a \in CPUs, ApStep(a) PROVE TypeInv'
    <2>1. CASE ApLapicInit(a)
      BY <2>1, LapicTypes DEF ApLapicInit, TypeInv, TypeOK
    <2>2. CASE MpEntry(a) \/ ApInitPercpu(a)
      BY <2>2 DEF MpEntry, ApInitPercpu, TypeInv, TypeOK
    <2>3. CASE ApStarted(a)
      BY <2>3 DEF ApStarted, TypeInv, TypeOK
    <2>4. CASE ApLockKernel(a) \/ ApSchedYield(a)
      BY <2>4 DEF ApLockKernel, ApSchedYield, TypeInv, TypeOK
    <2>5. QED
      BY <1>3, <2>1, <2>2, <2>3, <2>4 DEF ApStep
  <1>4. CASE UNCHANGED vars
    BY <1>4 DEF vars, memVars, bootVars, TypeInv, TypeOK
  <1>5. QED
    BY <1>1, <1>2, <1>3, <1>4 DEF Next

\* The machine, and so whether the boot CPU is in its place, never changes.
LEMMA MachineStays ==
  ASSUME TypeInv, [Next]_vars
  PROVE  BootCpuInPlace' <=> BootCpuInPlace
  <1>1. machine' = machine
    <2>1. CASE MemInitStep /\ UNCHANGED bootVars
      BY <2>1, MemInitEffect DEF TypeInv, TypeOK
    <2>2. CASE BspStep
      BY <2>2 DEF BspStep, EnvTrapInit, MpInit, BspLapicInit, LockKernel, CopyEntryCode,
                  SkipSelf, SetStack, LapicStartap, LapicStartapAgain, WaitStarted,
                  EnvCreate, BspSchedYield
    <2>3. ASSUME NEW a \in CPUs, ApStep(a) PROVE machine' = machine
      BY <2>3 DEF ApStep, MpEntry, ApLapicInit, ApInitPercpu, ApStarted, ApLockKernel,
                  ApSchedYield
    <2>4. CASE UNCHANGED vars
      BY <2>4 DEF vars, memVars
    <2>5. QED
      BY <2>1, <2>2, <2>3, <2>4 DEF Next
  <1>2. QED
    BY <1>1 DEF BootCpuInPlace, BSP

(***************************************************************************)
(* While boot_aps starts the CPUs, before each of them takes the lock, no  *)
(* two share a stack or are inside the kernel together, only CPU 0 and the *)
(* boot CPU may share a stack to trap on, each finds room to map its APIC, *)
(* and interrupts reach the boot CPU, on every machine whose boot CPU is   *)
(* at the place in the MP table that its APIC id says, however many other  *)
(* CPUs the table lists and in whatever order; and on every machine at     *)
(* all, bootcpu points past cpus[] on the wild paths only.                 *)
(***************************************************************************)
THEOREM CpusStartSafely == Spec => []CpusRight
  <1> DEFINE Inv == TypeInv /\ (BootCpuInPlace => BootInv)
  <1>1. Init => Inv
    BY TypeInvInit, BootInvInit
  <1>2. Inv /\ [Next]_vars => Inv'
    BY TypeInvNext, BootInvNext, MachineStays
  <1>3. Inv => CpusRight
    BY BootInvMeans DEF TypeInv, CpusRight
  <1>4. QED
    BY <1>1, <1>2, <1>3, PTL DEF Spec
=============================================================================
