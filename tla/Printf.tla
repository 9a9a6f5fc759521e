------------------------------- MODULE Printf -------------------------------
(***************************************************************************)
(* vprintfmt of src/lib/printfmt.c: the characters it gives to putch for a *)
(* format (a sequence of characters) and a list of arguments; and the two  *)
(* putch functions with a buffer, of vsnprintf and of the user's cprintf   *)
(* in src/lib/printf.c.                                                    *)
(***************************************************************************)
EXTENDS Strings

CONSTANTS
    BUFSIZE,  \* size of struct printbuf's buffer, 256 in the source
    MAXERROR, \* the errors with a text are 1..MAXERROR - 1
    NULL      \* a null pointer for %s

PCT == 37

Times(ch, n) == [k \in 1..n |-> ch]   \* no character if n is negative

(***************************************************************************)
(* printnum recurses to the most significant digit and pads before it.     *)
(***************************************************************************)
DigitChar(d) == IF d < 10 THEN 48 + d ELSE 97 + d - 10

\* Mutant: the digit is taken before the division.
MoreFrom(num, base) == num > base

More(num, base) == num >= base

RECURSIVE Printnum(_, _, _, _)
Printnum(num, base, width, padc) ==
    (IF More(num, base) THEN Printnum(num \div base, base, width - 1, padc)
     ELSE Times(padc, width - 1))
      \o <<DigitChar(num % base)>>

(***************************************************************************)
(* %s: padc before the string, or blanks behind it for '-'; at most        *)
(* precision characters of it.                                             *)
(***************************************************************************)
\* Mutant: the padding does not know of the precision.
PrintedAll(s, precision) == Len(s)

Printed(s, precision) == IF precision >= 0 /\ precision < Len(s) THEN precision ELSE Len(s)

PrintString(p, o) ==
    LET s    == IF p = NULL THEN <<40, 110, 117, 108, 108, 41>> ELSE p   \* "(null)"
        n    == Printed(s, o.precision)
        text == SubSeq(s, 1, IF o.precision >= 0 /\ o.precision < Len(s) THEN o.precision ELSE Len(s))
        Show(ch) == IF o.alt /\ ch \notin 32..126 THEN 63 ELSE ch
    IN  Times(o.padc, IF o.padc # 45 THEN o.width - n ELSE 0)
          \o [k \in DOMAIN text |-> Show(text[k])]
          \o Times(32, IF o.padc = 45 THEN o.width - n ELSE 0)

\* getuint and getint; an int and a long have the same size, long long is left out.
Unsigned(n) == n % 2^LONGBITS
Negative(n) == n < 0

\* %d puts the sign first; the field is as wide without it.
Number(n, base, o) == Printnum(n, base, o.width, o.padc)

SignedNumber(n, o) ==
    IF Negative(n) THEN <<45>> \o Number(-n, 10, o) ELSE Number(n, 10, o)

NoOptions == [padc |-> 32, width |-> -1, precision |-> -1, alt |-> FALSE]

\* %e; the text of an error is one symbol here, its number.
PrintError(n) ==
    LET err == IF n < 0 THEN -n ELSE n
    IN  IF err \in 1..MAXERROR - 1 THEN <<1000 + err>>
        ELSE <<2000>> \o SignedNumber(err, NoOptions)

\* process_precision: the first number is the width.
Numeral(o, n) == IF o.width < 0 THEN [o EXCEPT !.width = n] ELSE [o EXCEPT !.precision = n]

(***************************************************************************)
(* Text is the outer loop, Conversion the switch behind a '%', with after  *)
(* the rest of the format; what is no conversion is printed as it stands.  *)
(***************************************************************************)
RECURSIVE Text(_, _), Conversion(_, _, _, _)

Text(f, ap) ==
    CASE f = <<>>                    -> <<>>
      [] f # <<>> /\ Head(f) # PCT   -> <<Head(f)>> \o Text(Tail(f), ap)
      [] OTHER                       -> Conversion(Tail(f), ap, NoOptions, Tail(f))

Conversion(f, ap, o, after) ==
    LET ch   == CharAt(f, 1)
        end  == FirstFrom(f, 1, LAMBDA d : d \notin 48..57)
        Done(text, args) == text \o Text(Tail(f), args)
    IN  CASE ch = 45       -> Conversion(Tail(f), ap, [o EXCEPT !.padc = 45], after)
          [] ch = 48       -> Conversion(Tail(f), ap, [o EXCEPT !.padc = 48], after)
          [] ch \in 49..57 -> Conversion(SubSeq(f, end, Len(f)), ap,
                                   Numeral(o, Strtol(SubSeq(f, 1, end - 1), 10).val), after)
          [] ch = 42       -> Conversion(Tail(f), Tail(ap), Numeral(o, Head(ap)), after)
          [] ch = 46       -> Conversion(Tail(f), ap, [o EXCEPT !.width = IF @ < 0 THEN 0 ELSE @], after)
          [] ch = 35       -> Conversion(Tail(f), ap, [o EXCEPT !.alt = TRUE], after)
          [] ch = 108      -> Conversion(Tail(f), ap, o, after)
          [] ch = 99       -> Done(<<Head(ap)>>, Tail(ap))
          [] ch = 101      -> Done(PrintError(Head(ap)), Tail(ap))
          [] ch = 115      -> Done(PrintString(Head(ap), o), Tail(ap))
          [] ch = 100      -> Done(SignedNumber(Head(ap), o), Tail(ap))
          [] ch = 117      -> Done(Number(Unsigned(Head(ap)), 10, o), Tail(ap))
          [] ch = 111      -> Done(Number(Unsigned(Head(ap)), 8, o), Tail(ap))
          [] ch = 112      -> Done(<<48, 120>> \o Number(Unsigned(Head(ap)), 16, o), Tail(ap))
          [] ch = 120      -> Done(Number(Unsigned(Head(ap)), 16, o), Tail(ap))
          [] ch = PCT      -> Done(<<PCT>>, ap)
          [] OTHER         -> <<PCT>> \o Text(after, ap)

(***************************************************************************)
(* sprintputch and vsnprintf.                                              *)
(***************************************************************************)
\* Mutant: the last byte is given away.
HasRoomForNone(b, n) == Len(b.buf) <= n - 1

HasRoom(b, n) == Len(b.buf) < n - 1

Vsnprintf(n, text) ==
    LET Sprintputch(b, ch) ==
            [buf |-> IF HasRoom(b, n) THEN Append(b.buf, ch) ELSE b.buf, cnt |-> b.cnt + 1]
    IN  IF n < 1 THEN [buf |-> <<>>, cnt |-> -1]   \* -E_INVAL
        ELSE FoldLeft(Sprintputch, [buf |-> <<>>, cnt |-> 0], text)

(***************************************************************************)
(* putch and vcprintf of the user library; calls are the arguments of the  *)
(* sys_cputs calls.                                                        *)
(***************************************************************************)
\* Mutant: the buffer is not emptied.
FlushedKeeps(b) == [b EXCEPT !.calls = Append(@, b.buf)]

Flushed(b) == [b EXCEPT !.calls = Append(@, b.buf), !.buf = <<>>]

Vcprintf(text) ==
    LET Putch(b, ch) ==
            LET b1 == [b EXCEPT !.buf = Append(@, ch), !.cnt = @ + 1]
            IN  IF Len(b1.buf) = BUFSIZE - 1 THEN Flushed(b1) ELSE b1
    IN  Flushed(FoldLeft(Putch, [buf |-> <<>>, calls |-> <<>>, cnt |-> 0], text))
=============================================================================
