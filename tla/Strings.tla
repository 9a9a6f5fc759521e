------------------------------ MODULE Strings ------------------------------
(***************************************************************************)
(* The routines of src/lib/string.c whose results are not obvious.         *)
(* Memory is a function from addresses to bytes; a C string that is only   *)
(* read is a sequence without its final 0.                                 *)
(***************************************************************************)
EXTENDS Integers, Sequences, SequencesExt

CONSTANTS
    WORD,     \* bytes moved at once when addresses and length allow it
    LONGBITS  \* bits of int and long

\* The value that is left of x in a signed variable.
Wrap(x) == ((x + 2^(LONGBITS - 1)) % 2^LONGBITS) - 2^(LONGBITS - 1)

\* Character i of the C string s, counted from 1.
CharAt(s, i) == IF i <= Len(s) THEN s[i] ELSE 0

(***************************************************************************)
(* memmove copies unit by unit, from the end when the destination begins   *)
(* inside the source.                                                      *)
(***************************************************************************)
\* Mutant: only a destination just behind the source's begin counts.
OverlapsLate(d, s, n) == s < d /\ d - s = 1

Overlaps(d, s, n) == s < d /\ s + n > d

\* Addresses and length allow words; end is n for a copy from the end.
UnitSize(d, s, n, end) ==
    IF (s + end) % WORD = 0 /\ (d + end) % WORD = 0 /\ n % WORD = 0 THEN WORD ELSE 1

Ascending(n) == [k \in 1..n |-> k - 1]

CopyUnits(mem, d, s, unit, order) ==
    LET Unit(mm, k) ==
            [a \in DOMAIN mm |-> IF a \in d + k * unit..d + k * unit + unit - 1
                                 THEN mm[a - d + s] ELSE mm[a]]
    IN  FoldLeft(Unit, mem, order)

Memmove(mem, d, s, n) ==
    LET Down(unit)   == CopyUnits(mem, d, s, unit, Reverse(Ascending(n \div unit)))
        Upward(unit) == CopyUnits(mem, d, s, unit, Ascending(n \div unit))
    IN  IF Overlaps(d, s, n) THEN Down(UnitSize(d, s, n, n)) ELSE Upward(UnitSize(d, s, n, 0))

(***************************************************************************)
(* strlcpy and strncpy; strlcpy's result is the length it has copied.      *)
(***************************************************************************)
\* Mutant: the 0 is not counted.
RoomForAll(size) == size > 0

Room(size) == size - 1 > 0

RECURSIVE StrlcpyLoop(_, _, _, _)
StrlcpyLoop(mem, d, s, size) ==
    IF Room(size) /\ mem[s] # 0
    THEN StrlcpyLoop([mem EXCEPT ![d] = mem[s]], d + 1, s + 1, size - 1)
    ELSE [mem |-> [mem EXCEPT ![d] = 0], end |-> d]

Strlcpy(mem, d, s, size) ==
    IF size = 0 THEN [mem |-> mem, ret |-> 0]
    ELSE LET r == StrlcpyLoop(mem, d, s, size) IN [mem |-> r.mem, ret |-> r.end - d]

RECURSIVE Strncpy(_, _, _, _)
Strncpy(mem, d, s, size) ==
    IF size = 0 THEN mem
    ELSE Strncpy([mem EXCEPT ![d] = mem[s]], d + 1, IF mem[s] # 0 THEN s + 1 ELSE s, size - 1)

\* The difference at the first place where the strings differ or end.
Strcmp(p, q) ==
    LET i == CHOOSE k \in 1..Len(p) + 1 :
                /\ CharAt(p, k) = 0 \/ CharAt(p, k) # CharAt(q, k)
                /\ \A j \in 1..k - 1 : CharAt(p, j) # 0 /\ CharAt(p, j) = CharAt(q, j)
    IN  CharAt(p, i) - CharAt(q, i)

(***************************************************************************)
(* strtol: blanks, a sign, a prefix, and digits up to the first character  *)
(* that is none in this base.  The value wraps around.                     *)
(***************************************************************************)
Digit(ch) ==
    CASE ch \in 48..57  -> ch - 48
      [] ch \in 97..122 -> ch - 97 + 10
      [] ch \in 65..90  -> ch - 65 + 10
      [] OTHER          -> 99

\* The first place from i on where P holds; it does at the end.
FirstFrom(s, i, P(_)) ==
    CHOOSE k \in i..Len(s) + 1 : P(CharAt(s, k)) /\ \A j \in i..k - 1 : ~P(CharAt(s, j))

\* Digits of base b from place i on.
Digits(s, i, b) ==
    LET end == FirstFrom(s, i, LAMBDA ch : Digit(ch) >= b)
    IN  [val |-> FoldLeft(LAMBDA v, ch : Wrap(v * b + Digit(ch)), 0, SubSeq(s, i, end - 1)),
         end |-> end - 1]

Unprefixed(s, i, base) ==
    CASE base \in {0, 16} /\ CharAt(s, i) = 48 /\ CharAt(s, i + 1) = 120 -> Digits(s, i + 2, 16)
      [] base = 0 /\ CharAt(s, i) = 48 /\ CharAt(s, i + 1) # 120 -> Digits(s, i + 1, 8)
      [] base = 0 /\ CharAt(s, i) # 48 -> Digits(s, i, 10)
      [] OTHER -> Digits(s, i, base)

Signed(s, i, base) ==
    CASE CharAt(s, i) = 43 -> Unprefixed(s, i + 1, base)
      [] CharAt(s, i) = 45 -> [Unprefixed(s, i + 1, base) EXCEPT !.val = Wrap(-@)]
      [] OTHER             -> Unprefixed(s, i, base)

Strtol(s, base) == Signed(s, FirstFrom(s, 1, LAMBDA ch : ch \notin {32, 9}), base)
=============================================================================
