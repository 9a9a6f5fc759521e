------------------------------- MODULE Stabs -------------------------------
(***************************************************************************)
(* The symbol lookup of src/kern/kdebug.c for kernel addresses: the binary *)
(* search in the stabs table and debuginfo_eip, which uses it for file,    *)
(* function and line.  A stab is a record [type, value]; the name and line *)
(* number that a stab holds are represented by its place in the table,     *)
(* counted from 0 as in the source.                                        *)
(***************************************************************************)
EXTENDS Integers, Sequences

At(stabs, i) == stabs[i + 1]

\* The last place in l..m with a stab of the type, or l - 1.
Earliest(stabs, l, m, type) ==
    CHOOSE k \in l - 1..m : /\ k >= l => At(stabs, k).type = type
                            /\ \A j \in k + 1..m : At(stabs, j).type # type

\* Mutant: the search ends at an exact match.
ExactEnds(b, m) == [b EXCEPT !.any = TRUE, !.left = m, !.l = b.r + 1]

\* An exact match; the search goes on for the right end, past this stab.
Exact(b, m) == [b EXCEPT !.any = TRUE, !.left = m, !.l = m, !.addr = @ + 1]

(***************************************************************************)
(* One turn of the loop of stab_binsearch, and what follows it.  b holds   *)
(* l, r, addr, any_matches and the two results left and right.             *)
(***************************************************************************)
Turn(stabs, b, true_m, m) ==
    CASE m < b.l -> [b EXCEPT !.l = true_m + 1]
      [] m >= b.l /\ At(stabs, m).value < b.addr ->
            [b EXCEPT !.any = TRUE, !.left = m, !.l = true_m + 1]
      [] m >= b.l /\ At(stabs, m).value > b.addr ->
            [b EXCEPT !.any = TRUE, !.right = m - 1, !.r = m - 1]
      [] OTHER -> Exact(b, m)

RECURSIVE Search(_, _, _)
Search(stabs, type, b) ==
    LET true_m == (b.l + b.r) \div 2
    IN  IF b.l > b.r THEN b
        ELSE Search(stabs, type, Turn(stabs, b, true_m, Earliest(stabs, b.l, true_m, type)))

Region(stabs, type, b) ==
    CASE ~b.any -> [left |-> b.left, right |-> b.left - 1]
      [] b.any /\ b.right <= b.left -> [left |-> b.right, right |-> b.right]
      [] OTHER -> [left |-> Earliest(stabs, b.left + 1, b.right, type), right |-> b.right]

StabBinsearch(stabs, left, right, type, addr) ==
    Region(stabs, type,
           Search(stabs, type, [l |-> left, r |-> right, left |-> left, right |-> right,
                                addr |-> addr, any |-> FALSE]))

(***************************************************************************)
(* debuginfo_eip.  Line stabs inside a function are relative to its start. *)
(* fn is -1 when no function was found, file is -1 when no name was.       *)
(***************************************************************************)
NotFound == [ret |-> -1]

\* Mutant: the address stays absolute.
AbsoluteAddr(addr, start) == addr

RelativeAddr(addr, start) == addr - start

\* The last of the places that name a file.
FileName(named) == IF named = {} THEN -1 ELSE CHOOSE i \in named : \A j \in named : j <= i

\* The PSYM stabs that follow fun.left; the last stab of fun is not looked at.
Narg(stabs, fun) ==
    IF fun.left >= fun.right THEN 0
    ELSE CHOOSE n \in 0..fun.right - fun.left - 1 :
            /\ \A j \in 1..n : At(stabs, fun.left + j).type = "PSYM"
            /\ \/ fun.left + n + 1 = fun.right
               \/ At(stabs, fun.left + n + 1).type # "PSYM"

Names(stab) == stab.type = "SOL" \/ (stab.type = "SO" /\ stab.value # 0)

Info(stabs, file, fun, line) ==
    IF line.left > line.right THEN NotFound
    ELSE [ret  |-> 0,
          fn   |-> IF fun.left <= fun.right THEN fun.left ELSE -1,
          line |-> line.left,
          file |-> FileName({i \in file.left..line.left : Names(At(stabs, i))}),
          narg |-> Narg(stabs, fun)]

\* The lines of range, unless it has stabs of an included file.
LineIn(stabs, range, sol, addr) ==
    IF sol.left <= sol.right THEN range
    ELSE StabBinsearch(stabs, range.left, range.right, "SLINE", addr)

\* In a function, whose first stab gives its address, or in the whole file.
InFunction(stabs, file, fun, addr, start) ==
    LET sol == StabBinsearch(stabs, fun.left, fun.right, "SOL",
                             IF fun = file THEN start ELSE RelativeAddr(addr, start) + start)
    IN  Info(stabs, file, fun, LineIn(stabs, fun, sol, RelativeAddr(addr, start)))

InFile(stabs, file, fun, addr) ==
    LET sol == StabBinsearch(stabs, file.left, file.right, "SOL", addr)
    IN  Info(stabs, file, fun, LineIn(stabs, file, sol, addr))

SearchLine(stabs, file, fun, addr) ==
    IF fun.left <= fun.right
    THEN InFunction(stabs, file, fun, addr, At(stabs, fun.left).value)
    ELSE InFile(stabs, file, fun, addr)

SearchFun(stabs, file, addr) ==
    IF file.left = 0 THEN NotFound
    ELSE SearchLine(stabs, file,
                    StabBinsearch(stabs, file.left, file.right, "FUN", addr), addr)

DebuginfoEip(stabs, addr) ==
    SearchFun(stabs, StabBinsearch(stabs, 0, Len(stabs) - 1, "SO", addr), addr)
=============================================================================
