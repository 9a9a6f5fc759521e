----------------------------- MODULE Algorithms -----------------------------
(***************************************************************************)
(* Calls of the pure functions of the library, the monitor, the symbol     *)
(* lookup and the boot loader: a behaviour is one call, an action one      *)
(* function with its inputs, and each invariant compares the result with a *)
(* definition of what the function is for.                                 *)
(***************************************************************************)
EXTENDS Printf, Monitor, Stabs, BootLoader

CONSTANTS
    MEMSIZE,    \* bytes of memory for memmove and the copies of strings
    MAXWIDTH,   \* largest width and precision of a format
    MAXSTR,     \* longest string
    MAXLINE,    \* longest command line
    NSTAB,      \* stabs in a table, besides the first, empty one
    MAXSEG      \* largest size of a segment

ASSUME SizesAssumption ==
    /\ WORD \in Nat \ {0} /\ SECTSIZE \in Nat \ {0} /\ LONGBITS \in Nat \ {0}
    /\ BUFSIZE > 1 /\ MAXARGS > 1

VARIABLES call, result
vars == <<call, result>>

None == [f |-> "none"]

Init == call = None /\ result = None

Calls(c, r) == call' = c /\ result' = r

Strs(chars, n) == UNION {[1..k -> chars] : k \in 0..n}
Ints == -(2^(LONGBITS - 1))..2^(LONGBITS - 1) - 1
Decimal(n) == IF n < 0 THEN <<>> ELSE Printnum(n, 10, 0, 0)

(***************************************************************************)
(* The calls.                                                              *)
(***************************************************************************)
CallMemmove ==
    call = None /\ \E d, s \in 0..MEMSIZE - 1, n \in 0..MEMSIZE :
        LET mem == [a \in 0..MEMSIZE - 1 |-> a]
        IN  /\ d + n <= MEMSIZE /\ s + n <= MEMSIZE
            /\ Calls([f |-> "memmove", mem |-> mem, d |-> d, s |-> s, n |-> n],
                     Memmove(mem, d, s, n))

\* The destination is the lower half of memory, filled with 9.
CallCopy ==
    call = None /\ \E str \in Strs(1..2, MAXSTR), size \in 0..MAXSTR + 1 :
        LET src == MAXSTR + 2
            mem == [a \in 0..2 * MAXSTR + 2 |-> IF a < src THEN 9 ELSE CharAt(str, a - src + 1)]
        IN  Calls([f |-> "copy", str |-> str, size |-> size, mem |-> mem],
                  [l |-> Strlcpy(mem, 0, src, size), n |-> Strncpy(mem, 0, src, size)])

CallNumber ==
    call = None /\ \E n \in Ints, width \in -1..MAXWIDTH, pad \in {<<>>, <<48>>}, conv \in {100, 117, 111, 120, 112} :
        Calls([f |-> "number", n |-> n, width |-> width, zero |-> pad # <<>>, conv |-> conv],
              Text(<<PCT>> \o pad \o Decimal(width) \o <<conv>>, <<n>>))

CallString ==
    call = None /\ \E str \in Strs({7, 65}, MAXSTR) \cup {NULL}, width, precision \in -1..MAXWIDTH,
       flag \in {<<>>, <<45>>, <<48>>}, alt \in {<<>>, <<35>>} :
        Calls([f |-> "string", str |-> str, width |-> width, precision |-> precision,
               left |-> flag = <<45>>, alt |-> alt # <<>>],
              Text(<<PCT>> \o flag \o alt \o Decimal(width)
                     \o (IF precision < 0 THEN <<>> ELSE <<46, 42>>) \o <<115>>,
                   (IF precision < 0 THEN <<>> ELSE <<precision>>) \o <<str>>))

\* Formats of all kinds of characters, with enough arguments for each, printed
\* to a buffer of n bytes, and with n characters more to the console.
CallPrint ==
    call = None /\ \E format \in Strs({PCT, 42, 35, 65, 99, 101}, MAXSTR), n \in 0..BUFSIZE :
        LET text == Text(format, [k \in 1..2 * MAXSTR |-> 2])
        IN  Calls([f |-> "print", text |-> text, n |-> n],
                  [s |-> Vsnprintf(n, text), c |-> Vcprintf(text \o Times(65, n))])

CallRuncmd ==
    call = None /\ \E line \in Strs({32, 9, 97, 98}, MAXLINE) :
        Calls([f |-> "runcmd", line |-> line], Runcmd(line))

\* Stabs that ascend, one or two bytes apart; addresses from before the first.
CallSearch ==
    call = None /\ \E types \in [1..NSTAB -> {"FUN", "SLINE"}], step \in [1..NSTAB -> 1..2], addr \in 0..2 * NSTAB + 1 :
        LET Value(i) == FoldLeft(LAMBDA a, k : a + step[k], 0, [k \in 1..i |-> k])
            stabs    == [i \in 1..NSTAB |-> [type |-> types[i], value |-> Value(i)]]
        IN  Calls([f |-> "search", stabs |-> stabs, addr |-> addr],
                  StabBinsearch(stabs, 0, NSTAB - 1, "FUN", addr))

(***************************************************************************)
(* Tables as a compiler writes them: an empty first stab, then files with  *)
(* functions that have parameters and lines, or files of assembly code     *)
(* that have lines only; lines of another file, inlined from a header, are *)
(* preceded by a SOL stab.  Stab i is for address width * i: one byte      *)
(* apart, as the lines of one-byte instructions in trapentry.S, or two.    *)
(* Lines of a function are relative to it, the first of them at 0.         *)
(***************************************************************************)
Tables ==
    LET Then(a, b) == CASE a = "SO"    -> b \in {"FUN", "SLINE"}
                        [] a = "FUN"   -> b \in {"PSYM", "SLINE"}
                        [] a = "PSYM"  -> b \in {"PSYM", "SLINE"}
                        [] a = "SOL"   -> b = "SLINE"
                        [] OTHER       -> b \in {"SLINE", "SOL", "FUN", "SO"}
        Shapes == {t \in [1..NSTAB -> {"SO", "FUN", "PSYM", "SLINE", "SOL"}] :
                      /\ t[1] = "SO" /\ t[NSTAB] = "SLINE"
                      /\ \A i \in 1..NSTAB - 1 : Then(t[i], t[i + 1])}
        Head1(t, i) == CHOOSE h \in 1..i : /\ t[h] \in {"SO", "FUN"}
                                           /\ \A j \in h + 1..i : t[j] \notin {"SO", "FUN"}
        Place(t, i) == CASE t[i] # "SLINE" \/ t[Head1(t, i)] = "SO" -> i
                         [] OTHER -> IF t[i - 1] \in {"FUN", "PSYM"} THEN 0 ELSE i - Head1(t, i)
    IN  {<<[type |-> "UNDF", value |-> 0]>>
            \o [i \in 1..NSTAB |-> [type |-> t[i], value |-> width * Place(t, i)]] :
            t \in Shapes, width \in 1..2}

CallDebuginfo ==
    call = None /\ \E stabs \in Tables, addr \in 0..2 * NSTAB + 3 :
        Calls([f |-> "debuginfo", stabs |-> stabs, addr |-> addr], DebuginfoEip(stabs, addr))

(***************************************************************************)
(* Two segments in increasing order, each with its place in a sector kept: *)
(* the second in sectors that the first does not reach, or as far from the *)
(* first in memory as it is in the file, by gap bytes, in the same sector. *)
(***************************************************************************)
CallBootmain ==
    call = None /\ \E size1, size2 \in 1..MAXSEG, bss1, bss2 \in 0..MAXSEG, start1, start2 \in 0..SECTSIZE - 1,
       gap \in 0..1, magic, adjoin \in BOOLEAN :
        LET Up(x) == ((x + SECTSIZE - 1) \div SECTSIZE) * SECTSIZE
            ph1   == [pa |-> start1, filesz |-> size1, memsz |-> size1 + bss1, offset |-> SECTSIZE + start1]
            next  == IF adjoin THEN ph1.pa + ph1.memsz + gap
                     ELSE Up(start1 + size1 + bss1) + gap * SECTSIZE + start2
            ph2   == [pa |-> next, filesz |-> size2, memsz |-> size2 + bss2,
                      offset |-> IF adjoin THEN SECTSIZE + next ELSE Up(ph1.offset + size1) + start2]
            mem   == [a \in 0..7 * MAXSEG + 2 * SECTSIZE |-> -1]
            disk  == [a \in 0..9 * MAXSEG + 4 * SECTSIZE |-> a]
        IN  /\ adjoin => start2 = 0
            /\ Calls([f |-> "bootmain", magic |-> magic, ph |-> <<ph1, ph2>>],
                     Bootmain(mem, disk, [magic |-> magic, ph |-> <<ph1, ph2>>]))

Next ==
    \/ CallMemmove \/ CallCopy \/ CallNumber \/ CallString \/ CallPrint
    \/ CallRuncmd \/ CallSearch \/ CallDebuginfo \/ CallBootmain

Spec == Init /\ [][Next]_vars

(***************************************************************************)
(* The properties.                                                         *)
(***************************************************************************)
Result(f) == call.f = f

\* memmove, also by words and for overlapping regions, leaves in the
\* destination what was in the source before the call, and all else alone.
MoveIsSimultaneous ==
    Result("memmove") =>
        \A a \in DOMAIN call.mem :
            result[a] = call.mem[IF a \in call.d..call.d + call.n - 1 THEN a - call.d + call.s ELSE a]

\* strlcpy and strncpy write no byte behind the size they are given; strlcpy
\* always ends the string and tells its length, strncpy fills up with zeros.
CopyIsBounded ==
    Result("copy") =>
        LET n == IF Len(call.str) < call.size - 1 THEN Len(call.str) ELSE call.size - 1
        IN  /\ \A a \in DOMAIN call.mem : a >= call.size =>
                    result.l.mem[a] = call.mem[a] /\ result.n[a] = call.mem[a]
            /\ call.size > 0 => /\ result.l.ret = n /\ result.l.mem[n] = 0
                                /\ \A i \in 1..n : result.l.mem[i - 1] = call.str[i]
            /\ \A a \in 0..call.size - 1 : result.n[a] = CharAt(call.str, a + 1)

\* What %d, %u, %o, %x and %p print is at least as wide as asked for, and
\* strtol reads it back as the same number, the smallest one included.  The
\* sign and %p's prefix come before the blanks that fill a field: only there
\* is the number not read back.
NumbersReadBack ==
    Result("number") =>
        LET base   == CASE call.conv \in {100, 117} -> 10 [] call.conv = 111 -> 8 [] OTHER -> 16
            prefix == CASE call.conv = 112 -> 2 [] call.conv = 100 /\ call.n < 0 -> 1 [] OTHER -> 0
        IN  /\ Len(result) >= call.width + prefix
            /\ prefix = 0 \/ call.zero \/ call.width < 2 =>
                    Strtol(result, base) = [val |-> call.n, end |-> Len(result)]

\* %s prints exactly the field that width, precision, '-' and '#' ask for; a
\* width and zeros to fill it too, which the comment on printfmt.c:12-13 denies.
FieldsFit ==
    Result("string") =>
        LET str   == IF call.str = NULL THEN <<40, 110, 117, 108, 108, 41>> ELSE call.str
            n     == IF call.precision < 0 \/ Len(str) < call.precision THEN Len(str) ELSE call.precision
            width == IF call.width < n THEN n ELSE call.width
            from  == IF call.left THEN 0 ELSE width - n
        IN  /\ Len(result) = width
            /\ \A i \in 1..n : result[from + i] = IF call.alt /\ str[i] = 7 THEN 63 ELSE str[i]
            /\ \A i \in 1..width : i \notin from + 1..from + n => result[i] \in {32, 48}

\* snprintf keeps as much as fits with the final 0, and returns the length
\* that the whole text has.
BufferHoldsPrefix ==
    Result("print") /\ call.n > 0 =>
        /\ Len(result.s.buf) < call.n
        /\ IsPrefix(result.s.buf, call.text)
        /\ Len(result.s.buf) = call.n - 1 \/ result.s.buf = call.text
        /\ result.s.cnt = Len(call.text)

\* printfmt.c:12-13: padding and a field width "are supported for the numeric
\* formats only", so that %s prints the characters of its string and no more.
\* Not so: it fills the field.
WidthForNumbersOnly ==
    Result("string") =>
        Len(result) <= IF call.str = NULL THEN Len("(null)") ELSE Len(call.str)

\* The user's cprintf prints each character once and in order, in calls that
\* fill the buffer up to its last byte and one more for the rest, or for none.
NothingLost ==
    Result("print") =>
        LET text == call.text \o Times(65, call.n)
        IN  /\ FlattenSeq(result.c.calls) = text /\ result.c.cnt = Len(text)
            /\ \A i \in DOMAIN result.c.calls : Len(result.c.calls[i]) < BUFSIZE
            /\ Len(result.c.calls) = 1 + Len(text) \div (BUFSIZE - 1)

\* printf.c:14-16: up to 256 characters are printed by "ONE system call".  Not
\* so for 256 of them: the buffer is flushed when one byte of it is left.
OneCall ==
    Result("print") =>
        LET text == call.text \o Times(65, call.n)
        IN  Len(text) <= BUFSIZE => \E i \in DOMAIN result.c.calls : result.c.calls[i] = text

\* The arguments that runcmd finds are the longest runs of the line without
\* white space, in order, and the command called is named exactly so.
ArgsAreWords ==
    Result("runcmd") =>
        LET line   == call.line
            Ends(i, j) == /\ \A k \in i..j : line[k] \notin WHITESPACE
                          /\ i = 1 \/ line[i - 1] \in WHITESPACE
                          /\ j = Len(line) \/ line[j + 1] \in WHITESPACE
            begins == {i \in DOMAIN line : \E j \in i..Len(line) : Ends(i, j)}
            Word(i) == SubSeq(line, i, CHOOSE j \in i..Len(line) : Ends(i, j))
            words  == [k \in 1..Cardinality(begins) |->
                          Word(CHOOSE i \in begins : Cardinality({h \in begins : h <= i}) = k)]
        IN  CASE words = <<>>             -> result.out = "empty"
              [] Len(words) > MAXARGS - 1 -> result.out = "too many"
              [] OTHER -> /\ result.out = "run" /\ result.args = words
                          /\ \A i \in DOMAIN Commands : (result.cmd = i) <=> (Commands[i] = words[1])

Funs == {i \in 0..NSTAB - 1 : At(call.stabs, i).type = "FUN"}
Containing == {i \in Funs : At(call.stabs, i).value <= call.addr}
RegionOf(g) == [left |-> g, right |-> Min({i \in Funs : i > g} \cup {NSTAB}) - 1]

\* The places of S with stabs at addr, addr + 1, ... without a gap.
Gapless(stabs, S, addr) ==
    {g \in S : /\ At(stabs, g).value >= addr
               /\ \A v \in addr..At(stabs, g).value : \E k \in S : At(stabs, k).value = v}

\* What stab_binsearch finds: the last stab of the type that is not behind the
\* address, up to the next one.  If a stab is at the address itself and the
\* next one a byte behind, it may be that one or a later one of such a run; and
\* for an address before all stabs, a region that has none of them.
SearchFindsRegion ==
    Result("search") =>
        CASE Funs = {} -> result.left > result.right
          [] Funs # {} /\ Containing = {} ->
                result.right = Min(Funs) - 1 /\ result.left <= result.right
          [] OTHER ->
                \E g \in {Max(Containing)} \cup Gapless(call.stabs, Funs, call.addr) :
                    result = RegionOf(g)

\* kdebug.c:38-39: region_left is "the matching stab that contains 'addr'" and
\* region_right is "just before the next stab".  Not so for stabs that are one
\* byte apart: the search for the right end goes on with addr + 1.
SearchContains ==
    Result("search") /\ Containing # {} => result = RegionOf(Max(Containing))

\* kdebug.c:39-41: region_left > region_right if no stab contains the address.
\* Not so for an address before all stabs of the type.
SearchRejects ==
    Result("search") /\ Containing = {} => result.left > result.right

(***************************************************************************)
(* What debuginfo_eip should say, by scanning the table: the last file not *)
(* behind the address, in it the last function, in that the lines that are *)
(* not behind the address.                                                 *)
(***************************************************************************)
Answer ==
    LET stabs   == call.stabs
        OfType(type, i, j) == {k \in i..j : At(stabs, k).type = type}
        UpTo(S, addr)      == {k \in S : At(stabs, k).value <= addr}
        Before(S, i, end)  == Min({k \in S : k > i} \cup {end + 1}) - 1
        files   == UpTo(OfType("SO", 0, NSTAB), call.addr)
        file    == Max(files)
        last    == Before(OfType("SO", 0, NSTAB), file, NSTAB)
        funs    == OfType("FUN", file, last)
        asm     == funs = {}
        fn      == IF asm THEN file ELSE Max(UpTo(funs, call.addr))
        rel     == IF asm THEN call.addr ELSE call.addr - At(stabs, fn).value
        end     == Before(funs, fn, last)
        slines  == OfType("SLINE", fn, end)
    IN  IF files = {} \/ (~asm /\ UpTo(funs, call.addr) = {}) \/ UpTo(slines, rel) = {}
        THEN [found |-> FALSE, anyfile |-> files # {}]
        ELSE [found |-> TRUE, file |-> file, fn |-> IF asm THEN -1 ELSE fn, first |-> fn,
              narg |-> IF asm THEN 0 ELSE Cardinality(OfType("PSYM", fn, end)),
              line |-> Max(UpTo(slines, rel)), run |-> Gapless(stabs, slines, rel),
              included |-> OfType("SOL", fn, end) # {}]

\* debuginfo_eip names the function and the line that the address belongs to
\* and the file named last before that line, and counts the function's
\* parameters.  The line may be a later
\* one of a run of lines one byte apart; and it is the function's own, or the
\* file's, if any line of the function or the file comes from another file.
DebugInfoRight ==
    Result("debuginfo") =>
        LET a == Answer
        IN  IF ~a.found THEN a.anyfile \/ result = NotFound
            ELSE /\ result.ret = 0 /\ result.fn = a.fn /\ result.narg = a.narg
                 /\ result.line \in IF a.included THEN {a.first} ELSE {a.line} \cup a.run
                 /\ result.file = Max({k \in a.file..result.line :
                                          At(call.stabs, k).type \in {"SO", "SOL"}})

\* kdebug.c:215: "set info->eip_line to the right line number".  Not so in a
\* function with lines from another file: the lines are then not looked at.
LineIsRight ==
    Result("debuginfo") =>
        LET a == Answer
        IN  a.found /\ a.run \subseteq {a.line} => result.line = a.line

\* When the kernel is entered every segment holds its bytes of the file (which
\* begins in the disk's second sector) and zeros behind them; if two segments
\* meet in a sector, because they are loaded in increasing order and the first
\* has no zeros there, which reading the second would overwrite.
SegmentsLoaded ==
    Result("bootmain") /\ call.magic =>
        /\ result.out = "entry"
        /\ \A s \in DOMAIN call.ph : \A i \in 0..call.ph[s].memsz - 1 :
               LET ph     == call.ph[s]
                   shared == s = 1 /\ (ph.pa + i) \div SECTSIZE >= call.ph[2].pa \div SECTSIZE
               IN  IF i < ph.filesz THEN result.mem[ph.pa + i] = SECTSIZE + ph.offset + i
                   ELSE shared \/ result.mem[ph.pa + i] = 0

\* string.c: copies write what they are asked to, where they are asked to.
CopiesRight == MoveIsSimultaneous /\ CopyIsBounded

\* printfmt.c, printf.c: fields, numbers and buffers hold what was printed.
OutputRight == NumbersReadBack /\ FieldsFit /\ BufferHoldsPrefix /\ NothingLost

\* monitor.c, kdebug.c: words, commands, functions, files and lines are found.
LookupRight == ArgsAreWords /\ SearchFindsRegion /\ DebugInfoRight
=============================================================================
