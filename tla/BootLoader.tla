----------------------------- MODULE BootLoader -----------------------------
(***************************************************************************)
(* bootmain of src/boot/main.c: it reads the kernel's segments sector by   *)
(* sector.  disk is a function from byte numbers to bytes whose first      *)
(* sector is the boot loader's; mem is the memory outside the scratch      *)
(* space of the ELF header; elf is that header, read before.               *)
(***************************************************************************)
EXTENDS Integers, Sequences, SequencesExt

CONSTANT SECTSIZE   \* 512 in the source

\* Mutant: the sector of the boot loader is not counted.
SectorFromZero(offset) == offset \div SECTSIZE

Sector(offset) == (offset \div SECTSIZE) + 1

\* readsect: one whole sector.
Readsect(mem, disk, dst, sect) ==
    [a \in DOMAIN mem |-> IF a \in dst..dst + SECTSIZE - 1
                          THEN disk[sect * SECTSIZE + a - dst] ELSE mem[a]]

\* readseg, from pa rounded down until pa + count is reached.
Readseg(mem, disk, pa, count, offset) ==
    LET first   == pa - (pa % SECTSIZE)
        sectors == (pa + count - first + SECTSIZE - 1) \div SECTSIZE
        Read(mm, k) == Readsect(mm, disk, first + k * SECTSIZE, Sector(offset) + k)
    IN  FoldLeft(Read, mem, [k \in 1..sectors |-> k - 1])

\* memsz bytes are read, and those that are not in the file set to 0.
Load(mem, disk, ph) ==
    LET read == Readseg(mem, disk, ph.pa, ph.memsz, ph.offset)
    IN  [a \in DOMAIN mem |-> IF a - ph.pa \in (ph.filesz)..(ph.memsz - 1) THEN 0 ELSE read[a]]

\* Mutant: the last segment is loaded first.
InOrderReversed(ph) == Reverse(ph)

InOrder(ph) == ph

Bootmain(mem, disk, elf) ==
    IF ~elf.magic THEN [out |-> "bad", mem |-> mem]
    ELSE [out |-> "entry", mem |-> FoldLeft(LAMBDA mm, ph : Load(mm, disk, ph), mem, InOrder(elf.ph))]
=============================================================================
