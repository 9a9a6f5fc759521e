------------------------------- MODULE MCBoot -------------------------------
(***************************************************************************)
(* Machines for Boot: memory below, at and above what the kernel expects,  *)
(* one CPU to one more than it supports, MP tables it rejects, and tables  *)
(* whose order, ids or boot CPU are not those that the kernel needs.       *)
(***************************************************************************)
EXTENDS Boot

\* CMOS registers for basemem, ext and ext16 kilobytes, low byte first.
Cmos(basemem, ext, ext16) ==
    <<basemem % 256, basemem \div 256, ext % 256, ext \div 256, ext16 % 256, ext16 \div 256>>

Ids(n) == [i \in 1..n |-> i - 1]

MCMachines ==
    {[cmos |-> Cmos(20, e, x), procs |-> Ids(1), bsp |-> 0, conf |-> "ok"] :
        e \in {0, 16, 36, 48, 60, 260}, x \in {0, 1, 3}}
    \cup {[cmos |-> Cmos(4, 0, 0), procs |-> Ids(1), bsp |-> 0, conf |-> "ok"]}
    \cup {[cmos |-> Cmos(18, 132, 0), procs |-> Ids(n), bsp |-> b, conf |-> "ok"] :
        n \in 2..4, b \in 0..1}
    \cup {[cmos |-> Cmos(20, 64, 0), procs |-> p, bsp |-> 0, conf |-> "ok"] :
        p \in {<<0, UNKNOWN, 1>>, <<UNKNOWN>>, <<0, 2, 1>>, <<0, 2>>}}
    \cup {[cmos |-> Cmos(20, 64, 0), procs |-> Ids(2), bsp |-> 0, conf |-> "none"]}
    \cup {[cmos |-> Cmos(20, 64, 0), procs |-> p, bsp |-> p[1], conf |-> "ok"] :
        p \in {<<1, 0, 2>>, <<2, UNKNOWN, 0>>, <<4, 0>>}}
    \cup {[cmos |-> Cmos(20, 64, 0), procs |-> p, bsp |-> 3, conf |-> "ok"] :
        p \in {Ids(4), Append(Ids(4), UNKNOWN)}}
=============================================================================
