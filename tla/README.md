# A TLA+ verification of pmake-os

The repository is a small multiprocessor x86 kernel in the style of JOS (MIT
6.828, labs 1 to 4) with its user library and test programs. This directory
holds TLA+ models of it, the TLC configurations that check them on small
instances, and TLAPS proofs for every value of the constants. `PROJECT.json`
maps each definition to the lines it models, and lists the runs, the mutants
that show that each property can fail, the hazards and the theorems.

Running: `tlc -config MCKernelFork.cfg Kernel`, `tlapm KernelProofs.tla`, and
so on; the table of runs below names the module of each configuration.

## 1. Inventory

| Component | Source | State it keeps | Operations |
|---|---|---|---|
| big kernel lock | `kern/spinlock.[ch]` | `locked`, `cpu` (debugging) | `spin_lock`, `spin_unlock`, `holding` |
| environments | `kern/env.c`, `inc/env.h` | `envs[]`, `env_free_list`, `curenv` of each CPU | `env_alloc`, `env_create`, `env_free`, `env_destroy`, `env_run`, `env_pop_tf`, `envid2env` |
| scheduler | `kern/sched.c` | none of its own | `sched_yield`, `sched_halt` |
| traps | `kern/trap.c`, `kern/trapentry.S` | IDT, `cpu_status`, saved frames | `trap`, `trap_dispatch`, `page_fault_handler` |
| system calls | `kern/syscall.c` | the IPC fields of `struct Env` | `sys_*`, `syscall` |
| memory | `kern/pmap.c` | `page_free_list`, `pp_ref`, page directories and tables, the TLBs | `page_alloc` ... `page_remove`, `pgdir_walk`, `user_mem_check`, `boot_alloc`, `page_init`, `mem_init` |
| start of the processors | `kern/init.c`, `mpentry.S`, `mpconfig.c`, `lapic.c` | `cpus[]`, `mpentry_kstack` | `i386_init`, `boot_aps`, `mp_main`, `mp_init` |
| copy-on-write fork | `lib/fork.c`, `lib/pgfault.c`, `lib/pfentry.S` | page permissions, the exception stack, `_pgfault_handler` | `fork`, `duppage`, `pgfault`, `set_pgfault_handler`, `_pgfault_upcall` |
| IPC library | `lib/ipc.c` | none | `ipc_send`, `ipc_recv`, `ipc_find_env` |
| console | `kern/console.c` | input ring, keyboard shift state, CGA buffer | `cons_intr`, `cons_getc`, `cons_putc` |
| line input | `lib/readline.c` | a static line buffer | `readline` |
| output, strings | `lib/printfmt.c`, `lib/printf.c`, `lib/string.c` | none | pure functions |
| monitor, symbol lookup | `kern/monitor.c`, `kern/kdebug.c` | none | `runcmd`, commands that print; `stab_binsearch`, `debuginfo_eip` |
| boot loader, tables | `boot/main.c`, `kern/entrypgdir.c` | memory, `entry_pgdir` | `bootmain`, `readseg` |
| device registers | `kclock.c`, `picirq.c` | device registers | port I/O |
| user programs | `user/` | their own | examples of how calls are used |

How they interact. A CPU enters the kernel through `trap()`, takes the lock,
runs one handler and leaves through `env_run` (which releases the lock and then
pops a saved frame) or through `sched_halt`. Handlers call each other and never
return to a caller that has to be resumed: everything under the lock is one
transaction. The program library is built of system calls, between which a
program may be preempted, and of page faults that the kernel reflects to it.
Before any of this, `i386_init` builds the kernel's memory on the boot CPU and
starts the other CPUs one at a time, without the lock. Input reaches the console
through a ring that both device handlers fill and `cons_getc` polls.

What is hard here, and which property watches it (several of the names are parts
of an invariant that a run checks as a whole, see section 3):

- the lock is taken and released in different functions and on two different
  conditions, and its debugging checks are racy (`MutualExclusion`,
  `NoFalsePanic`, `LockOncePerTrap`);
- the windows outside the lock: `trap()` before `lock_kernel`, `env_pop_tf`
  after `unlock_kernel` (`ExecutingIsMarked`, `NoneLost`, `FrameStable`);
- an environment destroyed by one CPU while another executes it (`OneCpu`,
  `ZombieFreed`, `FreeListExact`; for its memory `WellFormed`);
- a system call that never returns and is completed by somebody else
  (`WaitingIsBlocked`, `NoSpuriousReceive`, `DeliveredIsKept`);
- ids that wrap around (`IdNamesSlot`), slots and pages that run out;
- starvation by the round robin (`RunnableRuns`);
- reference counts when a page is mapped over itself, when a table cannot be
  allocated, and when an environment with shared pages ends (`RefCountExact`,
  `FreeIsUnreferenced`, `TablesArePrivate`);
- translations cached by another CPU (`TlbFresh`, `StaleOnlyByParent`);
- a `fork()` that takes away write permission from the stack it runs on, in
  a dozen and more preemptible steps (`Private`, `IsACopy`, `FaultsAreHandled`,
  `ForkEnds`);
- faults inside fault handlers, on one page of stack (`StackIntact`,
  `ReturnRestores`);
- memory management that works on itself while only 4MB are mapped
  (`TouchedIsMapped`, `FreeListRight`, `AddressSpaceRight`, `SelfTestsPass`);
- CPUs that start on a stack handed over in one variable, before they can take
  the lock, and tables that number them otherwise than their APIC ids do
  (`StackPrivate`, `TrapStackPrivate`, `BootCpuInArray`, `OneActive`,
  `AllCpusStart`);
- a send that is retried until the receiver happens to wait, and a receive whose
  results are loaded after the call (`IpcIsRendezvous`, `SieveIsRight`,
  `SieveFinds`, `ReceiverServed`);
- an input ring without a test for full, two-byte scan codes, and a screen that
  scrolls under the line being edited (`RingIsQueue`, `NoStuckModifier`,
  `EchoShowsLine`), and a mouse byte in front of the keys (`KeysAreRead`,
  `InputIsConsumed`);
- boundaries of copies, buffers, fields, searches and sectors (the properties of
  `Algorithms`).

## 2. Modules

| Module | Models | Uses |
|---|---|---|
| `KernelLock` | abstract: a lock with a set of waiting CPUs and one owner | |
| `Spinlock` | `spinlock.c`, one step per memory access | refines `KernelLock` |
| `Kernel` | environments, scheduler, traps, system calls, start of the APs | relies on `KernelLock`: a handler is one step |
| `Pmap`, `MCPmap` | pages, page tables, TLBs, the memory of environments and of the system calls | relies on `Kernel!OneCpu` and on the deferred destruction |
| `ForkMemory` | abstract: programs with memories; fork copies | |
| `CowFork`, `MCCowFork` | `fork.c`, `pgfault.c`, and the kernel as they see it | refines `ForkMemory` |
| `UxStack` | `page_fault_handler` and `pfentry.S`, word by word | |
| `PageTables` | the functions of `pmap.c` on a page directory and tables of words | |
| `MemInit` | `mem_init` and its self tests, one step per call | `PageTables` |
| `Boot`, `MCBoot` | `i386_init`, `mp_init`, `boot_aps`, `mpentry.S`, `mp_main`, `entry_pgdir` | `MemInit` |
| `InputQueue` | abstract: a bounded queue that loses everything when it overflows | |
| `Console`, `MCConsole` | `console.c` and `readline.c` | refines `InputQueue` |
| `Rendezvous` | abstract: offers, waiting receivers and mailboxes | |
| `UserIpc` | `ipc.c` under the programs `primes`, `pingpong` and `fairness` | refines `Rendezvous`; relies on `Kernel!RunnableRuns` |
| `Strings`, `Printf`, `Monitor`, `Stabs`, `BootLoader` | pure functions of `string.c`, `printfmt.c` and `printf.c`, `monitor.c`, `kdebug.c`, `boot/main.c` | `Printf` and `Monitor` use `Strings` |
| `Algorithms`, `MCAlgorithms` | one action per function, over the inputs that it enumerates | the five above |
| `*Proofs` | theorems about the module they are named after | |

The MC modules only give values to constants that a configuration cannot write
(a function, a set of pairs or records) and the symmetry of physical pages, which
the code treats alike.

### Spinlock

`locked` and `lkcpu` are the two fields of `struct spinlock`, `pc` the place of
each CPU. `spin_lock` is `CallLock`, the two reads of `holding()`
(`LockHoldingLocked`, `LockHoldingCpu`), `XchgAcquire`/`XchgBusy` and
`RecordCpu`; `spin_unlock` likewise ends with `XchgRelease`. A panic of the
debugging code is the place `"panic"`.

### Kernel

One variable per field: `env_status`, `env_id`, `env_parent_id`, the IPC fields,
the free list as a sequence, `cpu_env` (`curenv`), `cpu_status`, and of a saved
frame the register `%eax`, up to what matters (0, "still the number of
sys_ipc_recv", other). `cpu_mode` says what a CPU is doing; the modes outside
the lock (`trap`, `wake`, `pop`, `user`, `halt`) are what other CPUs interleave
with. `kernel_lock` is `NULL` between steps unless a CPU keeps the lock for good
(boot, the monitor, a panic).

Actions: `StartAp`, `EnvCreate`, `BootYield`, `MpYield` (start); `PopTf`,
`TrapEntry`, `TrapAfterPanic`, `WakeYield`, `WakePanic`, `ReapZombie` (the parts
of `trap()`); `Timer`, `Resume`, `Fault`, `Breakpoint` and the system calls. Each
ends in one of `EnvRun`, `SchedYield`, `SchedHalt`, `Monitor`, as the code does.
Memory is abstracted: an operation that needs some may fail.

`Dispatched` is the set of calls that `syscall()` has a case for. In the
repository `syscall()` dispatches only `cputs`, `cgetc`, `getenvid`,
`env_destroy` and `yield` (`kern/syscall.c:388-405`; for every other number it
returns `-E_INVAL`, and for the ones it has it returns 0 whatever the handler
returned), while the handlers of lab 4 are written. The runs dispatch them too,
because they are the code that is to be right; with the smaller set the same
module is the kernel as it is linked. Likewise `trap_init` installs handlers
that `trapentry.S` does not define, so the IDT is outside of the model.

`Disciplined` names the calls whose use is restricted to what the library does:
`lib/fork.c` starts a child once, before which nobody else knows it
(`MaySetStatus`), and a program does not destroy again what it has destroyed
(`MayDestroy`). Section 4 shows what happens without.

### Pmap

`page_free_list` (a set), `pp_ref` (modulo `REFLIMIT`), the directory page of
each environment, its tables and mappings, and a TLB per CPU. `PageInsert` and
`PageRemove` are the functions of `pmap.c` with the allocation of a table inside
`pgdir_walk`; `SysPage*`, `SysIpcTrySend`, `SysExofork`, `DestroySelf` and
`DestroyOther` are the handlers that use them. `Touch` is the hardware filling a
TLB (external). `tlb_invalidate` drops one translation from the TLB of the CPU that
executes it, if the address space is that of its own `curenv` (`TlbInvalidate`,
`TlbAfterRemove`), and `lcr3` in `env_run` and `sched_halt` empties it (`Enter`). A
call may change any environment that `envid2env` lets it (`Target`): its own or a
child's, also a child that is running on another CPU. Permission bits and what lies above `UTOP` are left out.

### CowFork

Each system call of `fork()`, `duppage`, `pgfault` and `set_pgfault_handler` is
one step (`SetHandlerAlloc`, `SetHandlerUpcall`, `Exofork`, `DupChild`, `DupSelf`,
`ForkXstack`, `ForkUpcall`, `ForkStart`, `PfMap`, `PfAlloc`, `PfCopy`, `PfUnmap`),
with `ForkPanic`/`PfPanic` for the ones that find no memory. `Write` is a program
writing, `Fault` a write to a page that is copy-on-write, `FaultDestroys` what
`page_fault_handler` does with a program that has no handler, `Exit` its end.
`At` requires the stack to be writable: a call pushes on it, and `fork()` makes
that very page copy-on-write. `perm` is the class of a page table entry as
`duppage` tells them apart; a free page is one that is mapped nowhere, which
`Pmap!FreeIsUnreferenced` justifies.

### UxStack

Registers, flags and the words of the exception stack. `PageFault` writes the 13
words of a `UTrapframe` where `page_fault_handler` puts it; `Pushl`, `Call`,
`Load`, `StoreFaults` and `Return` are the instructions of `_pgfault_upcall`;
`BodyPush` and `BodyReturn` the compiled C handler. `saved` is a history of the
interrupted activations against which the properties compare.

### PageTables, MemInit, Boot

Addresses are page numbers, and the sizes of tables, window, I/O hole and stacks
are constants, so that a machine of some tens of pages has every region of the
real one. `m` is memory as `pmap.c` sees it: `pages[]` (counts and the free list),
the kernel's page directory, the tables in the pages they occupy, what `%cr3`
holds, and (a history) which pages the kernel has touched through `KERNBASE` before
it left `entry_pgdir`. `base` is the static variable of `mmio_map_region`. `MemInit` has one step per call in `mem_init`
(`I386DetectMemory`, `BootAllocs`, `PageInit`, `CheckFreeLow`, `CheckAlloc`,
`CheckPage`, `MapKernel`, `MemInitMp`, `CheckKern`, `Lcr3`, `CheckInstalled`); the
`check_*` functions allocate, map and free as the code does and a failed assertion
ends in the monitor, so the model runs the repository's own tests. `Boot` goes on
with `EnvTrapInit`, `MpInit`, `BspLapicInit`, `LockKernel`, the loop of `boot_aps`
(`CopyEntryCode`, `SkipSelf`, `SetStack`, `LapicStartap`, `LapicStartapAgain`,
`WaitStarted`), `EnvCreate` and `BspSchedYield`, interleaved with the steps of each
new CPU (`MpEntry`, `ApLapicInit`, `ApInitPercpu`, `ApStarted`, `ApLockKernel`,
`ApSchedYield`). The second STARTUP message to a CPU that already runs is ignored
by it, as the hardware does. The MP table of a machine is the sequence of the APIC
ids it lists, in any order, possibly more of them than `cpus[]` holds, with an entry
of unknown type at any place (`mp_init` stops there and falls back to one CPU);
finding it in the BIOS areas is reduced to whether it is there. When `mp_init` or
`env_create` uses an element behind `cpus[]` the boot CPU goes to the place
`"wild"`, after which nothing is claimed. `check_page_free_list` compares addresses,
not page numbers, so `page2kva` wraps as 32-bit addresses do.

### Console

`KeyDown`, `KeyUp`, `SerialLine` and `MouseByte` are the devices (external). With a
byte of the mouse in the controller (`aux`) `kbd_proc_data` returns before it has
read anything (`KeyData`, `KbdEmpty`). `KbdIntr` and
`SerialIntr` are one turn of `cons_intr`'s loop each, in the order in which
`cons_getc` polls them, `Take` is the rest of `cons_getc`, and `Readline` what
`readline` does with the character, echo included. The keyboard has the tables
of the source for the keys of the run, both shift keys and control keys sharing a
bit as there, and Ctrl-Alt-Del (`Reboot`). The screen is `CRT_ROWS` lines of
`CRT_COLS`. Nothing fills the ring except polling: `kbd_intr` and `serial_intr`
are not called from `trap_dispatch`.

### UserIpc

`lib` is where a program is inside the library: `"send"` and `"yield"` are the
retry loop of `ipc_send`, `"recv"`, `"blocked"`, `"woken"`, `"sender"` the way of
`ipc_recv` through the system call and the two loads from `thisenv`. `at` is the
place in the program; its local variables are `i`, `id`, `p`. The initial state
chooses one of the programs and one of two kernels. `"linked"` is the kernel of this
commit: `syscall()` answers `sys_exofork`, `sys_ipc_try_send` and `sys_ipc_recv` with
`-E_INVAL`, so that `fork` and `ipc_send` panic, `ipc_recv` returns the error, and
`sys_getenvid` returns 0, so that `thisenv` is `&envs[0]` in every program
(`ThisEnv`). `"dispatching"` is the kernel with the cases that the library is written
for. Of the kernel's state there are the fields of `struct Env` that `sys_ipc_*`
use; its handlers are those of `Kernel`.

### Algorithms

A behaviour is one call: an action per function chooses inputs and stores the
result, and each invariant compares it with a definition of what the function
returns, written without looking at how it is computed. Where a comment promises
more than the function does, the invariants of the passing run say what it does,
and section 4 names the property that has the comment. `Printf` keeps the characters of formats and
fields, because what is printed is the result: padding, precision and sign are told
apart by nothing else. Characters are their codes. A message of `%e` is one symbol.
`int` and `long` have `LONGBITS` bits.

## 3. Runs that pass

Some runs check a conjunction of named parts: `KernelInv` (with `OneCpu`,
`ExecutingIsMarked`, `NoneLost`, `FreeListExact`, `WaitingIsBlocked`), `WellFormed`
(with `TablesArePrivate`), `LockProgress` (`LockIsUsed`, `EveryWaiterServed`),
`MemoryRight` (`FreeListRight`, `AddressSpaceRight`, `StackMapped`, `SelfTestsPass`),
`CpusRight` (`TypeOK` and, where the boot CPU is in its place (`BootCpuInPlace`),
that the run does not go wild, `StackPrivate`, `TrapStackSharing`, `OneActive`,
`DeviceRoom` and `BootCpuGetsInterrupts`),
`ConsoleInv` (`TypeOK`, `EchoShowsLine`, `NoStuckModifier`), `ProgramsRight`
(`TypeOK`, `SieveIsRight`), `ProgramsSucceed` (`SieveFinds`, `PingPongEnds`,
`ReceiverServed`; `Outcome` says that they hold on the dispatching kernel and that
every program panics on the linked one), `CopiesRight` (`MoveIsSimultaneous`,
`CopyIsBounded`),
`OutputRight` (`NumbersReadBack`, `FieldsFit`, `BufferHoldsPrefix`, `NothingLost`) and
`LookupRight` (`ArgsAreWords`, `SearchFindsRegion`, `DebugInfoRight`). The mutants
break most of the parts one by one.

| Run | Configuration, module | Instance | Shows |
|---|---|---|---|
| `spinlock` | `MCSpinlock.cfg`, `Spinlock` | 3 CPUs; 351 states | exclusion, no false panic, progress, service under `Arbiter`, refinement of `KernelLock` |
| `kernel_fork` | `MCKernelFork.cfg`, `Kernel` | 2 CPUs, 3 slots; 88,000 states | scheduling, destruction and the free list while programs fork, start and destroy; zombies are freed; every runnable environment gets to run |
| `kernel_all` | `MCKernelAll.cfg`, `Kernel` | 2 CPUs, 2 slots, all calls, ids that wrap; 1,310,000 states | the inductive invariant, `FrameStable`, ids across a wrap, messages neither lost, overwritten nor invented |
| `pmap` | `MCPmap.cfg`, `MCPmap` | 2 CPUs, 2 environments, 5 pages; 22,147 states up to symmetry | counts, leaks, private tables; a translation goes stale only by a parent's call on a running child |
| `cow_fork` | `MCCowFork.cfg`, `MCCowFork` | 2 slots, 7 pages, 3 program pages; 28,044 states | `fork()` is a copy, faults are handled, `fork()` ends |
| `ux_stack` | `MCUxStack.cfg`, `UxStack` | stack of 50 words; 32,589 states | nested faults keep the frames and return to the right place |
| `boot` | `MCBoot.cfg`, `MCBoot` | 35 machines, up to 4 CPUs of which 3 are supported; 1,002 states | the start from `mem_init` to the scheduler on every CPU |
| `console` | `MCConsole.cfg`, `MCConsole` | 7 keys, a serial character and a mouse byte, 4 events, ring of 3, screen of 3 by 3; 467,342 states | the ring is a queue, modifiers, echo, progress |
| `user_ipc` | `MCUserIpc.cfg`, `UserIpc` | 5 environments, numbers to 9, both kernels; 8,696 states | `ipc_send` and `ipc_recv` are a rendezvous; the programs do what they are for where their calls are dispatched, and panic where not |
| `algorithms` | `MCAlgorithms.cfg`, `MCAlgorithms` | the inputs named below; 92,297 states, one per call | what each function computes |

Why the bounds are enough for the cases that matter.

- Two CPUs are what a race outside the lock needs; under the lock there is one.
  The lock itself is checked with three, so that a waiter can lose to another.
- Three slots let a parent have two children, and are one more than the CPUs, so
  that somebody has to wait. With `GENSTEP = NENV` and `IDLIMIT` of two or three
  generations a slot's id wraps within the run. In `kernel_all` the second message
  that must not overwrite the first comes from the same sender or from a sender's
  successor; `sys_ipc_try_send` does not tell senders apart.
- Five pages are a directory, a table and a page for each of two environments
  minus one: memory runs out in every one of the three allocations. Two
  directory indices make the missing table happen, two table indices a table
  that is shared by mappings. `REFLIMIT` is above what is reachable there (section 4
  has a lower one).
- Seven pages hold two programs with one read-only, one shared and one private
  page (the stack), their exception stacks and a copy in progress; the run
  reaches `Stopped` (out of memory) as well. `Values` of two elements tells a
  stale page from a fresh one.
- 50 words hold three nested frames; the fourth destroys the program.
- The machines have less memory than the kernel needs (it stops in the monitor),
  just enough, more than 4MB (scaled: 20 pages), and more than the window at
  `KERNBASE`; none to four CPUs, with ids up to 4, for three places in `cpus[]`, listed in and out of the
  order of their ids, with the boot CPU first, in the middle and behind the others;
  and MP tables that are missing or have an entry of unknown type, at the end or in
  the middle.
- Four events fill a ring of three and wrap it; a line of three characters and the
  prompt are longer than a row, so that echoing scrolls. The screen must be larger
  than the longest line (25 by 80 against 1024 in the source), which the bounds keep.
- Five environments make the sieve run out of them before it reaches the limit,
  and leave `fairness` with more senders than receivers.
- The inputs of `algorithms` contain every alignment and overlap of `memmove`
  within 8 bytes, every 7-bit integer, every field up to a width of 5, texts
  shorter than, as long as and longer than the buffer, and all lines of up to five
  characters with room for three arguments. For `stab_binsearch`: six ascending
  stabs of two types, each one or two bytes behind the one before, and every address
  from before the first to behind the last. For `debuginfo_eip`: the tables of an
  empty stab and six others that a compiler can write, with parameters, lines,
  assembly files and lines of an included file, all one byte apart or all two. For
  `bootmain`: two segments in increasing order, in different sectors or meeting in
  one.

`CHECK_DEADLOCK FALSE` appears where the system may stop: the monitor that
`sched_halt` enters when nothing can run, a panic, a program that was destroyed.

### Fairness

- `Spinlock!FairSpec`: a CPU goes on executing, and every kernel path releases
  the lock (they all end in `env_run`, `sched_halt` or a stop). Service of each
  waiter needs more, and only as a hypothesis of that property (`Arbiter`):
  `xchg` is not fair by itself.
- `Kernel!Fairness`: weak fairness for the steps that only need CPU time and the
  lock, strong fairness for `Timer` on each CPU: the local APIC timer is
  periodic and user mode runs with interrupts enabled (`FL_IF`, `env.c`), so a
  program cannot keep the timer away with other traps.
- `Boot!Spec`: every CPU goes on executing. `mem_init` is deterministic and
  sequential and needs none (`AllCpusStart` begins after it).
- `Console!Spec`: the monitor goes on polling; nobody has to type.
- `UserIpc!Spec`: every environment that can run goes on, which is
  `Kernel!RunnableRuns`. No fairness among senders is assumed.
- `CowFork!Fairness`: a program that is inside `fork()` or `pgfault()` goes on,
  which is `RunnableRuns`. Nothing is assumed of programs outside.

## 4. Where the code disagrees with a comment

Each property below says what a comment or a test of the repository says, and TLC
finds the sequence of steps with which the code violates it. All of these are as the
functions are written. The traces marked † use calls that `syscall()` does not
dispatch at this commit (`syscall.c:386-407`), so they show once it does.

Two of them are runs:

| Run | Configuration, module | Property | What the code does, against which line |
|---|---|---|---|
| `kernel_destroy_twice` † | `MCKernelDestroyTwice.cfg`, `Kernel` | `ExecutingIsMarked` | `env_destroy` of a zombie frees it although its CPU still executes it; `env.c:471` says it is freed when it next traps |
| `ux_stack_deep` † | `MCUxStackDeep.cfg`, `UxStack` | `StackIntact` | a handler that fills the exception stack to the last word faults with `%esp` at `UXSTACKTOP - PGSIZE`; the comparison in `trap.c:398` is strict, so the new frame is put at the top, over the frames in use, instead of destroying the program (`trap.c:384`) |

The others are stated in the modules and are violated when they take the place of
the properties of the named configuration. The passing runs check what is left of
each (`StaleOnlyByParent` of `TlbFresh`, `InputIsConsumed` of `KeysAreRead`,
`TrapStackSharing` of `TrapStackPrivate`, `Outcome` of `ProgramsSucceed`, and so on).

| Property | Configuration | What the code does, against which line |
|---|---|---|
| `OneCpu` † | `MCKernelFork.cfg` with `Disciplined = {"env_destroy"}` | `sys_env_set_status` accepts any old status (`syscall.c:120`), so a RUNNING child becomes RUNNABLE and a second CPU takes it; `sched.c:26` and `user/stresssched.c:33` exclude this |
| `PermTellsPage` † | `MCKernelAll.cfg` | `env_ipc_perm` is assigned only when a page is transferred (`syscall.c:340`), so after a message without one it still says what an earlier message brought; `syscall.c:287` and `lib/ipc.c:11` say it becomes 0 |
| `CallsNeverPanic` † | `MCKernelAll.cfg` | `sys_ipc_try_send` reads `*pte` before it tests whether the page is mapped (`syscall.c:328`); `syscall.c:305` promises `-E_INVAL` |
| `TlbFresh` † | `MCPmap.cfg` | `tlb_invalidate` reaches one CPU (`pmap.c:658`), so changing the mappings of a child that runs elsewhere leaves a stale translation; `pmap.c:633` |
| `RefCountExact` † | `MCPmap.cfg` with `REFLIMIT = 4` | `pp_ref` has 16 bits (2 in the run) and no check (`pmap.c:583`); `inc/memlayout.h:189` says it counts the pointers |
| `ProgramsSucceed` | `MCUserIpc.cfg` | on the linked kernel every program ends in a panic of its first `fork` or `ipc_send` (`syscall.c:405`); `grade-lab4:160-174` expects ping-pong to end |
| `TrapStackPrivate` | `MCBoot.cfg` | a boot CPU whose APIC id is not 0 gets the task state segment and the trap stack of CPU 0, because `trap_init` runs before the local APIC is mapped and `cpunum()` is 0 until then; `trap.c:149` wants a stack per CPU |
| `StackPrivate` | `MCBoot.cfg` | `mp_init` numbers CPUs by their order and not by their APIC ids (`mpconfig.c:187`) and marks the boot CPU's place as started; with the table 1, 0, 2 and CPU 1 booting, `boot_aps` does not wait for CPU 0 and both new CPUs read one `mpentry_kstack`; `cpu.h:22`, `init.c:78` |
| `BootCpuInArray` | `MCBoot.cfg` | `mp_init` takes `&cpus[ncpu]` for the boot CPU before it tests `ncpu < NCPU` (`mpconfig.c:185`) and stores to it (`mpconfig.c:208`); `cpu.h:29-31` |
| `KeysAreRead` | `MCConsole.cfg` | a byte with the mouse's flag is not read from the controller (`console.c:318`) and stops keyboard input for good; `console.c:317` means to ignore it |
| `WidthForNumbersOnly` | `MCAlgorithms.cfg` | `%s` honours width and padding (`printfmt.c:185`); `printfmt.c:12` says that only numeric formats do |
| `OneCall` | `MCAlgorithms.cfg` | the user's `putch` flushes at 255 characters (`printf.c:32`), so 256 take two system calls; `printf.c:14` says one |
| `SearchContains` | `MCAlgorithms.cfg` | `stab_binsearch` goes on with `addr + 1` after an exact match (`kdebug.c:96`), so that a stab one byte further, as for the pushes in `trapentry.S:88-90`, is taken for an exact match as well; `kdebug.c:38` |
| `SearchRejects` | `MCAlgorithms.cfg` | for an address before every stab of the type the search leaves `left <= right`; `kdebug.c:39` says the opposite |
| `LineIsRight` | `MCAlgorithms.cfg` | with an `N_SOL` stab in a function `debuginfo_eip` skips the search for the line (`kdebug.c:226`) and returns the function's first stab; `kdebug.c:214` |

Met while modelling, and kept in the models as the code has them, without a run
of their own.

- On machines whose boot CPU is not in the place of the MP table that its APIC id
  says, `boot_aps` may run two CPUs in `mp_main` at once. `lapic_init` then is not
  atomic (the static `base` of `mmio_map_region` is read and written without the
  lock), which the model's one step for it does not show; `CpusRight` claims nothing
  there but types.
- Loading segments in increasing order, as `boot/main.c:87-89` explains, repairs what
  the end of a read overwrites but not the beginning: reading a second segment from
  the start of a sector replaces zeros that the first one has there.
  `SegmentsLoaded` leaves that case out, and the kernel's linker script
  aligns the data segment to a page, where it cannot arise.
- `page_init` takes the I/O hole from `IOPHYSMEM` and not from `npages_basemem`
  (comment at `pmap.c:345`); `boot_alloc` never panics (comment at `pmap.c:88`) and
  too little memory is found out by the self tests.
- `mmio_map_region` refuses a region that ends exactly at `MMIOLIM`
  (`pmap.c:698`). The page table of the region exists when the boot CPU maps its
  APIC because `check_page` has created it.
- The kernel's `putch` increments the pointer (`*cnt++`, `kern/printf.c:13`), so its
  `cprintf` returns 0.
- `printfmt` pads numbers on the left with `-` when the flag `-` asks for padding
  on the right (`printfmt.c:113`); a negative number is filled between sign and
  digits.
- `runcmd` accepts 15 arguments and says that 16 are the maximum
  (`monitor.c:102`); no command returns a negative value, so the monitor never
  ends.
- In the keyboard's tables both shift keys share a bit, so that releasing one turns
  shift off while the other is held; a DEL on an empty line is stored as a character.
- `trapentry.S` names its handlers otherwise than `trap_init` expects.
- `sched_yield` starts at slot 0 whenever the CPU has no current environment:
  while low slots keep ending and being created a high one starves. That is why
  `RunnableRuns` has the premise that creation stops.
- `duppage` ignores the result of `sys_page_map` for shared and read-only pages
  (`fork.c:70,77`).
- A parent destroyed in the middle of `fork()` leaves a child that is never
  started and that nobody may destroy.

## 5. Proofs

| Theorem | Says | Assumes |
|---|---|---|
| `SpinlockMutex`, `SpinlockNoPanic` | `MutualExclusion`, `NoFalsePanic` always | `NULL` is no CPU |
| `SpinlockRefinement` | every step is a step of `KernelLock` or a stutter | as above |
| `KernelInvariant` | `KernelInv`, types included | `ConstAssumption`, `LibraryUse` |
| `NeverOnTwoCpus`, `RunningIsOnACpu`, `ReceiveIsCompleted`, `PoppedFrameIsStable` | `OneCpu`; `ExecutingIsMarked` and `NoneLost`; `NoSpuriousReceive`; `FrameStable` | as above |
| `FreeListIsExact`, `ForkedChildReturnsZero`, `DeliveredMessageIsKept` | `FreeListExact`, `ChildReturnsZero`, `DeliveredIsKept` | as above |
| `IdsNameTheirSlots` | `IdNamesSlot` | as above, and `IdAssumption` |
| `TrapLocksOnce` | `LockOncePerTrap` | `ConstAssumption` |
| `TranslationsGoStaleByParentOnly` | `StaleOnlyByParent`: the only step that leaves a stale translation is a call of the parent that changes a child running on another CPU | `PmapAssumption` |
| `RefCountsFollow` | `pp_ref` is the number of pointers modulo `REFLIMIT` | `PmapAssumption`, `SizeAssumption` |
| `RefCountsAreExact`, `FreeListIsUnreferenced`, `MemoryIsWellFormed` | `RefCountExact`, `FreeIsUnreferenced`, `WellFormed` | as above, and `[]NoOverflow` |
| `CowInvariant`, `WritableIsPrivate`, `CowFaultsAreHandled` | `CowInv`; `Private`; `FaultsAreHandled` | `CowAssumption` |
| `ForkIsACopy` | `IsACopy`: every step is a step of `ForkMemory` or a stutter | `CowAssumption` |
| `FramesStayIntact`, `UpcallRestores` | `StackIntact`, `ReturnRestores` | `UxAssumption`, `~Deep` |
| `RingImplementsQueue`, `ConsoleIsRight` | `RingIsQueue` (refinement of `InputQueue`), `ConsoleInv` | `ConsoleAssumption`, `InputAssumption` |
| `LibraryIsRendezvous` | `IpcIsRendezvous` (refinement of `Rendezvous`), on both kernels | `UserIpcAssumption` |
| `NobodySendsToTheDead`, `ProgramsAreRight` | the target of a send is alive (`TargetsLive`); `ProgramsRight`, with the correctness of the sieve | as above |
| `CpusStartSafely` | `CpusRight`, for MP tables of any length and order; beyond types it speaks of the machines with `BootCpuInPlace` | `LayoutAssumption`, `MachineAssumption` |

The modules are `SpinlockProofs`, `KernelProofs`, `PmapProofs`, `CowForkProofs`,
`UxStackProofs`, `ConsoleProofs`, `UserIpcProofs` and `BootProofs`. The provers do
not compute with a symbolic modulus, so the four modules in which `%` matters begin
with the facts about it that they need (`ModNear`, `ModOfSum` and so on).

What is assumed.

- `LibraryUse`: programs use `sys_env_set_status` and `sys_env_destroy` in a
  disciplined way (both are in `Disciplined`). `~Deep`: a handler leaves the last word
  of the exception stack alone. Section 4 shows that each is needed.
- `[]NoOverflow`: no page gets `REFLIMIT` pointers (2^16 in the source). It is a
  hypothesis on the behaviour, which the kernel does not enforce; without it only
  `RefCountsFollow` holds.
- `IdAssumption`: the number of slots divides the id space (1024 and 2^31 in the
  source), so that the first generation after a wrap has room for every slot.
- `SizeAssumption`: finitely many environments and addresses, so that pointers can
  be counted. `InputAssumption`: a key sends one scan code, or 0xE0 and one, and no
  key's code is that of the prefix without its top bit.
- `MachineAssumption`: a machine's MP table is a sequence of APIC ids and unknown
  entries, with one entry at most for the boot CPU; nothing is assumed of length and
  order. What the kernel depends on is the premise `BootCpuInPlace` inside
  `CpusRight`: the boot CPU's place in the table is its APIC id and is below `NCPU`.
  Section 4 shows that it is needed. `LayoutAssumption`: the
  regions of `inc/memlayout.h` have the place in their page tables that the source's
  numbers give them.

The arguments.

- Lock: the word is 1 exactly while somebody owns the lock, and `lk->cpu` names
  the owner from `record` to `clear` and nobody otherwise. Without the second
  part `NoFalsePanic` is not inductive: `holding()` reads in two steps.
- Kernel: `OneCpu` needs that a RUNNABLE environment is current on no CPU, which
  follows from `ExecutingIsMarked` and from what the modes say of `curenv`
  (`ModeInv`); that a sender does not touch a frame being popped needs that a
  waiting environment is blocked (`WaitingIsBlocked`), and that in turn that the
  frame of a waiting environment is that of the unfinished call (`FrameInv`).
  `KernelInv` is their conjunction. The proof first shows what each way to leave
  the kernel (`EnvRun`, `SchedYield`, ...) makes of statuses that satisfy
  `HandlerInv`, the invariant inside a handler, and then has one lemma per
  handler. `ChildReturnsZero`, `DeliveredIsKept` and `IdNamesSlot` are shown on top
  of it: only the child's own CPU, its parent and a sender write its frame, and a
  child that was never started is on no CPU and waits for no message; a new id is
  the old one plus a multiple of the number of slots, and stays so when it wraps.
- TLB: every handler returns through `lcr3`, which empties the TLB of its own CPU, and
  an environment is current on one CPU (`OneCpu`), so only another CPU's translations
  of an environment that is current there can become stale; of the steps that change
  mappings only the calls of its parent reach it.
- Pages: `MemInv` counts. Pointers to a page are the directories, table entries and
  mappings that hold it, three finite sets, and each of `page_insert`,
  `page_remove`, `pgdir_walk`, `env_setup_vm` and `env_free` is followed pointer by
  pointer: the counts change as the cardinalities do, modulo `REFLIMIT`. Nothing
  points into a directory that is gone (`TablesHang`). `UseInv` is what needs exact
  counts: a page is freed when its count becomes 0, so a wrapped count would free a
  page in use.
- Fork, safety: `Private` needs that pages and permissions agree (`MapInv`), that
  between the two mappings of `duppage` nothing else happens to the parent
  (`DupInv`: the stack stays writable there), and that a child under construction
  has one parent (`ChildInv`); that faults are handled needs the handler to be
  followed from step to step (`HandlerInv`).
- Fork, refinement: the child's memory is a copy at one instant, that of
  `sys_env_set_status`, although it is put together over many steps. `SnapInv`
  says that each page the child has been given so far holds what the parent reads
  there *now*; it lasts because the parent writes nothing meanwhile but through
  `pgfault()`, which copies first, and because a shared page is the same page for
  both (`ShareInv`). What a program reads is, during the copy of `pgfault()`, still
  at `PFTEMP` (`TempInv`). `LayoutInv` and `FullInv` say which permissions a page may
  have and that a running program has all of its pages. Every step but `Write`,
  `ForkStart`, `Exit` and `FaultDestroys` is seen by nobody (`Calm`).
- Exception stack: `UxInv` says of every unfinished fault where its frame is and
  what it holds, that frames of later faults are below those of earlier ones with
  the scratch word in between (`Stacked`), and of the running activation how far it
  is in `_pgfault_upcall`. `ReturnRestores` compares the state after `ret` with the
  one that `page_fault_handler` saved.
- Console: the positions of the ring are at a distance below its size; the new
  queue is the old one with a character more, one less, or empty. `NoStuckModifier`
  is about the state after the codes still unread have been processed (`LeftOn`,
  `Settled`), so the invariant speaks of the whole sequence. The screen shows prompt
  and line up to the cursor (`Text`), which scrolling shifts and `cga_putc` extends.
- IPC library: an environment is in the kernel's receiving state exactly while the
  library is at `"blocked"` (`RecvInv`); a receiver's mailbox is written only then.
  That no send goes to a process that is gone depends on the programs: the sieve's
  processes never end and are the first of the table (`PrimesInv`), `fairness` sends
  to one that stays, and in `pingpong` exactly one of the two has the number
  (`PongInv`, as a case for each place the number can be).
- Sieve: the processes are the first slots of the table, in the order in which they
  were forked (`SieveInv`, `Chain`). The invariant says which number a process has
  received last (`Latest`) and up to which one it has passed them on or dropped them
  (`Handled`), and of two neighbours that every number that gets through the filters
  up to the first and that the first has handled has arrived at the second (`Link`).
  So the number that a process takes for its prime is the least one that gets to it
  (`Least`). It is prime: a proper divisor is smaller, so one of the primes held
  before divides it, and hence the number, which then would not have arrived
  (`HeldIsPrime`); no prime is left out, since a prime gets through every filter
  (`HeldAreThePrimes`). This needs only that divisibility is transitive and that a
  divisor is not greater (`DividesOn`, `DivisorBelow`); the induction is over the
  steps of the programs, not over numbers.
- Start of the CPUs: the invariant says how far each CPU can be at each place of
  `boot_aps`. Those before `c` have reported; the one at `c` is the only one between
  its STARTUP message and its report, and as long as it is there `mpentry_kstack` is
  its stack (`HandOver`). `cpu_status` is not evidence enough by itself: the boot CPU
  is marked STARTED by `mp_init`, so the loop must not wait for it, which is where
  `cpunum()` has to be right (`TableRead`). The lock passes from nobody to the boot
  CPU, which keeps it until all have reported, and then from CPU to CPU
  (`LockHanded`). `StacksGiven` follows both stacks of a CPU, `RegionUsed` counts the
  pages of the device region by `c`. What the page tables hold never matters, so
  `mem_init` is one lemma (`MemInitEffect`) about where it can go and what it leaves
  alone. For the machines without `BootCpuInPlace` there is only the type invariant.

TLC has checked the strengthenings on the instances of the runs (`CopyInv`, `UxInv`,
`UserIpcProofs!Inv`, `SieveInv`, `BootInv`, and `KernelInv`, which a run keeps
checking).

Only model-checked:

- the liveness properties (`LockProgress`, `ZombieFreed`, `RunnableRuns`, `ForkEnds`,
  `AllCpusStart`, `InputIsConsumed`, `Outcome`), which are out of the
  prover's reach;
- the results of `Algorithms`, whose definitions are recursive;
- `TouchedIsMapped` and `MemoryRight` of `Boot`: they are about what loops over
  the words of page tables and the free list compute (folds over sequences), which
  is induction too.

## 6. Not modelled

- The assembly of `boot.S` and `entry.S`, the 8259A, serial and parallel output:
  straight-line register set-up and port I/O.
- The IDT and `trapentry.S`: tables and register saving. The GDT's contents.
- The ELF format in `load_icode`; its effect on an address space is in `Pmap` and
  `CowFork`.
- The monitor's commands and the backtrace, which print.
- `long long` arguments of `printf`, `strcpy`, `strcat`, `strncmp`, `memset`,
  `memcmp`, `memfind`: loops of a line.
- `debuginfo_eip` for user addresses: the same search after `user_mem_check`.
- The user programs other than `primes`, `pingpong`, `fairness` and the handler of
  `faultalloc`: they make single calls. The models let a program make any call at
  any time and take the intended use from them.

## 7. State

The lock, the kernel, pages and TLBs, copy-on-write fork, the exception stack, the
start of the machine, the console, the IPC library with its programs and the pure
functions are modelled and checked. All safety invariants, action properties and
refinements are proved except those that section 5 lists as only model-checked:
liveness, the pure functions, and what `mem_init` computes.
