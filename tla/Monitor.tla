------------------------------ MODULE Monitor ------------------------------
(***************************************************************************)
(* runcmd of src/kern/monitor.c: a line is cut into arguments in place, by *)
(* zeros written over its white space, and the first argument is looked up *)
(* among the commands.                                                     *)
(***************************************************************************)
EXTENDS Strings

CONSTANTS
    MAXARGS,   \* 16 in the source
    Commands   \* sequence of the commands' names

WHITESPACE == {9, 13, 10, 32}

(***************************************************************************)
(* The two inner loops, from place i of buf: white space becomes 0, then   *)
(* an argument is passed over.                                             *)
(***************************************************************************)
\* Mutant: the separators stay.
GobbleKeeps(buf, i) ==
    [buf |-> buf, i |-> FirstFrom(buf, i, LAMBDA ch : ch \notin WHITESPACE)]

Gobble(buf, i) ==
    LET Zeroed(e) ==
            [buf |-> [k \in DOMAIN buf |-> IF k \in i..e - 1 THEN 0 ELSE buf[k]], i |-> e]
    IN  Zeroed(FirstFrom(buf, i, LAMBDA ch : ch \notin WHITESPACE))

PastArg(buf, i) == FirstFrom(buf, i, LAMBDA ch : ch = 0 \/ ch \in WHITESPACE)

\* argv holds places in buf.
RECURSIVE Parse(_, _)
Parse(g, argv) ==
    CASE CharAt(g.buf, g.i) = 0 -> [out |-> "parsed", buf |-> g.buf, argv |-> argv]
      [] CharAt(g.buf, g.i) # 0 /\ Len(argv) = MAXARGS - 1
                                -> [out |-> "too many", buf |-> g.buf, argv |-> argv]
      [] OTHER -> Parse(Gobble(g.buf, PastArg(g.buf, g.i)), Append(argv, g.i))

\* The C string that begins at place i.
Arg(buf, i) == SubSeq(buf, i, FirstFrom(buf, i, LAMBDA ch : ch = 0) - 1)

(***************************************************************************)
(* run is the number of the command called, 0 for an unknown one.          *)
(***************************************************************************)
Lookup(name) ==
    LET hits == {i \in DOMAIN Commands : Strcmp(name, Commands[i]) = 0}
    IN  IF hits = {} THEN 0 ELSE CHOOSE i \in hits : \A j \in hits : i <= j

Run(p) ==
    CASE p.out = "too many" -> [out |-> "too many"]
      [] p.out = "parsed" /\ p.argv = <<>> -> [out |-> "empty"]
      [] OTHER -> [out  |-> "run",
                   args |-> [k \in DOMAIN p.argv |-> Arg(p.buf, p.argv[k])],
                   cmd  |-> Lookup(Arg(p.buf, p.argv[1]))]

Runcmd(line) == Run(Parse(Gobble(line, 1), <<>>))
=============================================================================
