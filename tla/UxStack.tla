------------------------------ MODULE UxStack -------------------------------
(***************************************************************************)
(* The user exception stack: page_fault_handler (kern/trap.c), the         *)
(* assembly upcall _pgfault_upcall (lib/pfentry.S) and the C handler that  *)
(* it calls, which may fault again.                                        *)
(*                                                                         *)
(* Addresses are in words.  0 .. XWORDS - 1 is the page of the exception   *)
(* stack, so UXSTACKTOP is XWORDS; the page below, -XWORDS .. -1, is not   *)
(* mapped; below that is the normal stack.  The layout of a UTrapframe is  *)
(* the one of the code, 13 words.  One program is enough: its stacks are   *)
(* its own (CowFork), and the saved registers survive a preemption         *)
(* (Kernel!FrameStable).                                                   *)
(***************************************************************************)
EXTENDS Integers, Sequences

CONSTANTS
    XWORDS,     \* words of the exception stack             (1024 in the code)
    LOCALS,     \* words that a handler pushes, at most
    Deep        \* handlers may use the exception stack to its last word

ASSUME UxAssumption ==
    XWORDS \in Nat /\ XWORDS > 16 /\ LOCALS \in Nat /\ Deep \in BOOLEAN

USP  == -XWORDS - 2                         \* the program's %esp
Addr == (USP - 1 .. USP) \cup (0 .. XWORDS - 1)

\* A word: a number, and what it is, which tells garbage from what was saved.
Word == {"reg", "esp", "eflags", "local", "ret", "va",
         "run", "pushl", "call", "body", "store"} \X Int

\* struct UTrapframe: utf_fault_va, utf_err, the registers of popal (the saved
\* %esp among them is ignored), utf_eip, utf_eflags, utf_esp.
Reg == {2, 3, 4, 6, 7, 8, 9}
EBP == 4
ECX == 8
EAX == 9
UTF_EIP    == 10
UTF_EFLAGS == 11
UTF_ESP    == 12

VARIABLES
    eip, esp, regs, eflags,     \* the processor, in user mode
    mem,                        \* the words at Addr
    alive,                      \* not destroyed by the kernel
    saved                       \* history: the state at each unfinished fault

vars == <<eip, esp, regs, eflags, mem, alive, saved>>

\* The activation that executes: 0 the program, i the handler of fault i.
Depth == Len(saved)

Fresh(d) == [r \in Reg |-> <<"reg", d>>]

Init ==
    /\ eip = <<"run", 0>>
    /\ esp = USP
    /\ regs = Fresh(0)
    /\ eflags = <<"eflags", 0>>
    /\ mem = [a \in Addr |-> <<"local", 0>>]
    /\ alive = TRUE
    /\ saved = <<>>

At(label) == alive /\ eip[1] = label

\* What a program without Deep never does to its exception stack.
Roomy(sp) == Deep \/ sp > 0

-----------------------------------------------------------------------------
(* The kernel *)

\* Mutant: a nested fault starts at the top again.
StackTopAlways(sp) == XWORDS

\* Where page_fault_handler pushes: below the trap-time stack pointer if that
\* is on the exception stack.
StackTop(sp) == IF 0 < sp /\ sp < XWORDS THEN sp ELSE XWORDS

\* Mutant: no scratch word.
UtfSizeBare == 13

\* sizeof(struct UTrapframe) and the scratch word.
UtfSize == 14

\* The word at offset i of the UTrapframe that the kernel writes.
Utf(i) == CASE i \in Reg       -> regs[i]
            [] i = UTF_EIP     -> eip
            [] i = UTF_EFLAGS  -> eflags
            [] i = UTF_ESP     -> <<"esp", esp>>
            [] OTHER           -> <<"va", Depth>>

\* user_mem_assert of the frame at utr: it must not reach into the page below
\* the exception stack.
UserMemCheck(utr) == utr >= 0

\* page_fault_handler: without room the environment is destroyed.
PageFault ==
    LET utr == StackTop(esp) - UtfSize
    IN  IF ~UserMemCheck(utr)
        THEN alive' = FALSE /\ UNCHANGED <<eip, esp, regs, eflags, mem, saved>>
        ELSE /\ Roomy(utr - 2)
             /\ mem' = [a \in Addr |->
                    IF a \in utr .. utr + 12 THEN Utf(a - utr) ELSE mem[a]]
             /\ esp' = utr
             /\ eip' = <<"pushl", Depth + 1>>
             /\ saved' = Append(saved, [esp |-> esp, eip |-> eip, regs |-> regs,
                                        eflags |-> eflags, utr |-> utr])
             /\ UNCHANGED <<regs, eflags, alive>>

-----------------------------------------------------------------------------
(* The program and its handlers *)

\* An instruction that faults: the program or a handler touches a page that
\* is not there, or pushes below the exception stack.
Faulting ==
    \/ At("run") \/ At("body")
    \/ (At("pushl") \/ At("call")) /\ esp - 1 \notin Addr

Touch == Faulting /\ PageFault

Pushed(w) ==
    /\ mem' = [mem EXCEPT ![esp - 1] = w]
    /\ esp' = esp - 1

\* _pgfault_upcall: pushl %esp, the argument of the handler.
Pushl ==
    /\ At("pushl") /\ esp - 1 \in Addr
    /\ Pushed(<<"esp", esp>>)
    /\ eip' = <<"call", Depth>>
    /\ UNCHANGED <<regs, eflags, alive, saved>>

\* _pgfault_upcall: call *%eax.  The handler uses all registers, %ebp for its
\* frame.
Call ==
    /\ At("call") /\ esp - 1 \in Addr
    /\ Pushed(<<"ret", Depth>>)
    /\ eip' = <<"body", Depth>>
    /\ regs' = [Fresh(Depth) EXCEPT ![EBP] = <<"esp", esp - 1>>]
    /\ eflags' = <<"eflags", Depth>>
    /\ UNCHANGED <<alive, saved>>

\* The handler pushes something: locals, the arguments of a call.
BodyPush ==
    /\ At("body") /\ esp - 1 \in Addr /\ Roomy(esp - 1)
    /\ regs[EBP][2] - esp < LOCALS
    /\ Pushed(<<"local", Depth>>)
    /\ UNCHANGED <<eip, regs, eflags, alive, saved>>

\* The handler returns: its frame is popped, and ret.
BodyReturn ==
    /\ At("body")
    /\ LET ebp == regs[EBP][2]
       IN  /\ ebp \in Addr
           /\ eip' = mem[ebp]
           /\ esp' = ebp + 1
    /\ UNCHANGED <<regs, eflags, mem, alive, saved>>

\* _pgfault_upcall: the argument, utf_fault_va and utf_err are skipped; the
\* trap-time %esp and %eip go to %eax and %ecx.
Load ==
    /\ At("ret")
    /\ esp' = esp + 3
    /\ regs' = [regs EXCEPT ![EAX] = mem[esp + 1 + UTF_ESP],
                            ![ECX] = mem[esp + 1 + UTF_EIP]]
    /\ eip' = <<"store", Depth>>
    /\ UNCHANGED <<eflags, mem, alive, saved>>

\* _pgfault_upcall: movl %ecx, -4(%eax) faults on the normal stack.
StoreFaults ==
    /\ At("store") /\ regs[EAX][2] <= 0
    /\ PageFault

\* _pgfault_upcall: movl %ecx, -4(%eax); popal; popfl; popl %esp; and ret, which
\* takes the trap-time %eip from the trap-time stack.
Return ==
    /\ At("store")
    /\ regs[EAX][2] - 1 \in Addr
    /\ LET m   == [mem EXCEPT ![regs[EAX][2] - 1] = regs[ECX]]
           utr == esp - 2
           sp  == m[utr + UTF_ESP][2]
       IN  /\ sp - 1 \in Addr
           /\ mem' = m
           /\ regs' = [r \in Reg |-> m[utr + r]]
           /\ eflags' = m[utr + UTF_EFLAGS]
           /\ esp' = sp
           /\ eip' = m[sp - 1]
    /\ saved' = SubSeq(saved, 1, Depth - 1)
    /\ UNCHANGED alive

Next == \/ Touch \/ Pushl \/ Call \/ BodyPush \/ BodyReturn
        \/ Load \/ StoreFaults \/ Return

Spec == Init /\ [][Next]_vars

-----------------------------------------------------------------------------
(* Properties *)

\* page_fault_handler: the frame of every fault that is not finished is in
\* memory as it was saved, and the handlers that were interrupted by a further
\* fault still have their return addresses.
StackIntact ==
    \A i \in 1 .. Depth :
        /\ \A r \in Reg : mem[saved[i].utr + r] = saved[i].regs[r]
        /\ mem[saved[i].utr + UTF_EIP] = saved[i].eip
        /\ mem[saved[i].utr + UTF_EFLAGS] = saved[i].eflags
        /\ mem[saved[i].utr + UTF_ESP] = <<"esp", saved[i].esp>>
        /\ saved[i].eip[1] = "body" =>
                mem[saved[i].regs[EBP][2]] = <<"ret", i - 1>>

\* _pgfault_upcall: the instruction that faulted is executed again with the
\* registers, the flags and the stack it had, also after nested faults.
ReturnRestores ==
    [][Len(saved') < Depth =>
            /\ esp' = saved[Depth].esp /\ eip' = saved[Depth].eip
            /\ regs' = saved[Depth].regs /\ eflags' = saved[Depth].eflags]_vars
=============================================================================
