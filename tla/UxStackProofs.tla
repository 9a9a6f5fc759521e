---------------------------- MODULE UxStackProofs ----------------------------
(***************************************************************************)
(* Page faults that are handled in user mode, nested to any depth and on   *)
(* an exception stack of any size.  The hypothesis ~Deep says that the     *)
(* handlers leave the last word of the stack alone: then no fault happens  *)
(* in the upcall's own pushes (src/lib/pfentry.S).                         *)
(*                                                                         *)
(* The argument: each unfinished activation has words of the stack that it *)
(* will read again, the saved registers of its frame and, once its handler *)
(* has been called, the return address.  The activations are stacked       *)
(* downwards (Stacked), and what executes writes below all of these words. *)
(***************************************************************************)
EXTENDS UxStack, TLAPS

Frame == [esp : Int, eip : Word, regs : [Reg -> Word], eflags : Word, utr : Int]

StateOK ==
    /\ eip \in Word /\ eflags \in Word /\ regs \in [Reg -> Word]
    /\ esp \in Int
    /\ mem \in [Addr -> Word]
    /\ saved \in Seq(Frame)

\* Where activation n is in _pgfault_upcall or in its handler, with its frame
\* at u, and what it then has in its registers; s is the interrupted state.
InUpcall(n, u, s, pc, sp, rg) ==
    \/ pc = <<"pushl", n>> /\ sp = u
    \/ pc = <<"call", n>> /\ sp = u - 1
    \/ pc = <<"body", n>> /\ sp \in 1 .. u - 2 /\ rg[EBP] = <<"esp", u - 2>>
    \/ pc = <<"ret", n>> /\ sp = u - 1
    \/ /\ pc = <<"store", n>> /\ sp = u + 2
       /\ rg[EAX] = <<"esp", s.esp>> /\ rg[ECX] = s.eip

Active(n, pc, sp, rg) ==
    IF n = 0 THEN pc = <<"run", 0>> /\ sp = USP
    ELSE InUpcall(n, saved[n].utr, saved[n], pc, sp, rg)

\* Activation i - 1 was interrupted by fault i in its program or handler, or
\* in the store of the upcall.
Interrupted(i) ==
    LET s == saved[i]
    IN  /\ s.eip[1] \in {"run", "body", "store"}
        /\ Active(i - 1, s.eip, s.esp, s.regs)
        /\ s.utr = StackTop(s.esp) - 14
        /\ s.utr \in 3 .. XWORDS - 14

\* Frame j is below what activation i will read again.
Stacked(i, j) ==
    /\ saved[j].utr + 12 <= saved[i].utr
    /\ saved[i + 1].eip[1] = "body" => saved[j].utr + 16 <= saved[i].utr

\* The memory m has the frame of the interrupted state s.
FrameIn(m, s) ==
    /\ \A r \in Reg : m[s.utr + r] = s.regs[r]
    /\ m[s.utr + UTF_EIP] = s.eip
    /\ m[s.utr + UTF_EFLAGS] = s.eflags
    /\ m[s.utr + UTF_ESP] = <<"esp", s.esp>>

FrameIntact(i) == FrameIn(mem, saved[i])

\* The return address of activation i's handler.
RetIntact(i) == mem[saved[i].utr - 2] = <<"ret", i>>

UxInv ==
    /\ StateOK
    /\ Active(Depth, eip, esp, regs)
    /\ \A i \in 1 .. Depth : Interrupted(i) /\ FrameIntact(i)
    /\ \A i, j \in 1 .. Depth : i < j => Stacked(i, j)
    /\ \A i \in 1 .. Depth - 1 : saved[i + 1].eip[1] = "body" => RetIntact(i)
    /\ eip[1] = "body" => RetIntact(Depth)

\* The invariant says what StackIntact says.
LEMMA IntactFromInv == UxInv => StackIntact
  <1> SUFFICES ASSUME UxInv, NEW i \in 1 .. Depth
               PROVE  /\ FrameIntact(i)
                      /\ saved[i].eip[1] = "body" =>
                            mem[saved[i].regs[EBP][2]] = <<"ret", i - 1>>
    BY DEF StackIntact, FrameIntact, FrameIn
  <1>1. Depth \in Nat /\ saved \in Seq(Frame) /\ saved[i] \in Frame
    BY DEF UxInv, StateOK, Depth
  <1>2. FrameIntact(i) /\ Interrupted(i)
    BY DEF UxInv
  <1>3. ASSUME saved[i].eip[1] = "body"
        PROVE  mem[saved[i].regs[EBP][2]] = <<"ret", i - 1>>
    <2>1. i # 1 /\ saved[i].regs[EBP] = <<"esp", saved[i - 1].utr - 2>>
      BY <1>2, <1>3 DEF Interrupted, Active, InUpcall
    <2>2. i - 1 \in 1 .. Depth - 1 /\ (i - 1) + 1 = i
      BY <1>1, <2>1
    <2>3. RetIntact(i - 1)
      BY <1>3, <2>2 DEF UxInv
    <2>4. QED
      BY <2>1, <2>3 DEF RetIntact
  <1>4. QED
    BY <1>2, <1>3

\* The types and the place of frame i.
LEMMA FramePlace ==
  ASSUME UxInv, NEW i \in 1 .. Depth
  PROVE  /\ Depth \in Nat /\ saved[i] \in Frame /\ XWORDS \in Nat
         /\ saved[i].utr \in 3 .. XWORDS - 14
         /\ \A k \in -2 .. 13 : saved[i].utr + k \in Addr
  <1>1. Depth \in Nat /\ saved[i] \in Frame
    BY DEF UxInv, StateOK, Depth
  <1>2. saved[i].utr \in 3 .. XWORDS - 14 /\ XWORDS \in Nat
    BY UxAssumption DEF UxInv, Interrupted
  <1>3. QED
    BY <1>1, <1>2 DEF Addr

\* What is written below the frame of activation m leaves the frames from
\* there up, and the return addresses above it, as they are.
LEMMA BelowKeeps ==
  ASSUME UxInv, NEW m \in 1 .. Depth, NEW B \in Int, B <= saved[m].utr + 1,
         \A a \in Addr : a > B => mem'[a] = mem[a]
  PROVE  /\ \A i \in 1 .. m : FrameIn(mem', saved[i])
         /\ \A i \in 1 .. m - 1 : saved[i + 1].eip[1] = "body" =>
                mem'[saved[i].utr - 2] = <<"ret", i>>
  <1>0. Depth \in Nat /\ saved[m].utr \in Int
    BY FramePlace
  <1>1. ASSUME NEW i \in 1 .. m
        PROVE  FrameIn(mem', saved[i])
    <2>1. i \in 1 .. Depth
      BY <1>0
    <2>2. saved[m].utr <= saved[i].utr
      <3>1. CASE i = m
        BY <1>0, <3>1
      <3>2. CASE i < m
        BY <1>0, <2>1, <3>2, FramePlace DEF UxInv, Stacked
      <3>3. QED
        BY <1>0, <3>1, <3>2
    <2>3. /\ saved[i].utr \in Int
          /\ \A k \in -2 .. 13 : saved[i].utr + k \in Addr
      BY <2>1, FramePlace
    <2>4. \A k \in 2 .. 12 : mem'[saved[i].utr + k] = mem[saved[i].utr + k]
      BY <1>0, <2>2, <2>3
    <2>5. FrameIn(mem, saved[i])
      BY <2>1 DEF UxInv, FrameIntact
    <2>6. QED
      BY <2>4, <2>5 DEF FrameIn, Reg, UTF_EIP, UTF_EFLAGS, UTF_ESP
  <1>2. ASSUME NEW i \in 1 .. m - 1, saved[i + 1].eip[1] = "body"
        PROVE  mem'[saved[i].utr - 2] = <<"ret", i>>
    <2>1. i \in 1 .. Depth /\ i \in 1 .. Depth - 1 /\ i < m
      BY <1>0
    <2>2. saved[m].utr + 16 <= saved[i].utr
      BY <1>2, <2>1 DEF UxInv, Stacked
    <2>3. saved[i].utr \in Int /\ saved[i].utr - 2 \in Addr
      BY <2>1, FramePlace
    <2>4. mem'[saved[i].utr - 2] = mem[saved[i].utr - 2]
      BY <1>0, <2>2, <2>3
    <2>5. mem[saved[i].utr - 2] = <<"ret", i>>
      BY <1>2, <2>1 DEF UxInv, RetIntact
    <2>6. QED
      BY <2>4, <2>5
  <1>3. QED
    BY <1>1, <1>2

\* A step of an activation that neither faults nor returns keeps the invariant
\* if it writes below its own frame.
LEMMA SameSaved ==
  ASSUME UxInv, saved' = saved, StateOK', Depth # 0,
         Active(Depth, eip', esp', regs'),
         \A a \in Addr : a > saved[Depth].utr + 1 => mem'[a] = mem[a],
         eip'[1] = "body" => mem'[saved[Depth].utr - 2] = <<"ret", Depth>>
  PROVE  UxInv'
  <1>1. Depth \in Nat /\ Depth \in 1 .. Depth /\ Depth' = Depth
    BY DEF UxInv, StateOK, Depth
  <1>2. saved[Depth].utr + 1 \in Int /\ saved[Depth].utr + 1 <= saved[Depth].utr + 1
    BY <1>1, FramePlace
  <1>3. /\ \A i \in 1 .. Depth : FrameIn(mem', saved[i])
        /\ \A i \in 1 .. Depth - 1 : saved[i + 1].eip[1] = "body" =>
               mem'[saved[i].utr - 2] = <<"ret", i>>
    BY <1>1, <1>2, BelowKeeps
  <1>4. Active(Depth, eip, esp, regs)'
    BY <1>1 DEF Active
  <1>5. \A i \in 1 .. Depth' : Interrupted(i)' /\ FrameIntact(i)'
    BY <1>1, <1>3 DEF UxInv, Interrupted, FrameIntact, Active
  <1>6. \A i, j \in 1 .. Depth' : i < j => Stacked(i, j)'
    BY <1>1 DEF UxInv, Stacked
  <1>7. /\ \A i \in 1 .. Depth' - 1 : saved'[i + 1].eip[1] = "body" => RetIntact(i)'
        /\ eip'[1] = "body" => RetIntact(Depth)'
    BY <1>1, <1>3 DEF RetIntact
  <1>8. QED
    BY <1>4, <1>5, <1>6, <1>7 DEF UxInv

\* page_fault_handler pushes a frame below everything that will be read again.
LEMMA FaultKeeps ==
  ASSUME ~Deep, UxInv, eip[1] \in {"run", "body", "store"}, PageFault
  PROVE  UxInv'
  <1> DEFINE n == Depth
             utr == StackTop(esp) - 14
             s == [esp |-> esp, eip |-> eip, regs |-> regs, eflags |-> eflags, utr |-> utr]
  <1>0. /\ n \in Nat /\ XWORDS \in Nat /\ XWORDS > 16 /\ esp \in Int
        /\ n # 0 => n \in 1 .. n
    BY UxAssumption DEF UxInv, StateOK, Depth
  <1>1. CASE ~UserMemCheck(StackTop(esp) - UtfSize)
    <2>1. UNCHANGED <<eip, esp, regs, eflags, mem, saved>>
      BY <1>1 DEF PageFault
    <2>2. QED
      BY <2>1 DEF UxInv, StateOK, Active, Depth, Interrupted, FrameIntact, Stacked, RetIntact
  <1>2. CASE UserMemCheck(StackTop(esp) - UtfSize)
    <2>1. /\ utr > 2
          /\ mem' = [a \in Addr |-> IF a \in utr .. utr + 12 THEN Utf(a - utr) ELSE mem[a]]
          /\ esp' = utr
          /\ eip' = <<"pushl", n + 1>>
          /\ saved' = Append(saved, s)
          /\ UNCHANGED <<regs, eflags>>
      <3>1. StackTop(esp) - UtfSize = utr
        BY DEF UtfSize
      <3>2. Roomy(utr - 2)
        BY <1>2, <3>1 DEF PageFault
      <3>3. utr \in Int
        BY <1>0 DEF StackTop
      <3>4. utr > 2
        BY <3>2, <3>3 DEF Roomy
      <3>5. QED
        BY <1>2, <3>1, <3>4 DEF PageFault
    <2>2. utr \in 3 .. XWORDS - 14
      BY <1>0, <2>1 DEF StackTop
    <2>3. s \in Frame /\ saved \in Seq(Frame)
      BY <2>2 DEF UxInv, StateOK, Frame
    <2>4. /\ saved' \in Seq(Frame) /\ Depth' = n + 1
          /\ saved'[n + 1] = s
          /\ \A i \in 1 .. n : saved'[i] = saved[i]
      BY <2>1, <2>3 DEF Depth
    <2>5. \A k \in 0 .. 12 : Utf(k) \in Word
      <3>1. \A k \in Reg : regs[k] \in Word
        BY DEF UxInv, StateOK
      <3>2. eip \in Word /\ eflags \in Word /\ <<"esp", esp>> \in Word
            /\ <<"va", Depth>> \in Word
        BY <1>0 DEF UxInv, StateOK, Word
      <3>3. QED
        BY <3>1, <3>2 DEF Utf
    <2>6. StateOK'
      <3>1. \A a \in Addr : mem'[a] \in Word
        <4>1. Addr \subseteq Int
          BY <1>0 DEF Addr, USP
        <4>2. \A a \in Addr : a \in utr .. utr + 12 => a - utr \in 0 .. 12
          BY <2>2, <4>1
        <4>3. \A a \in Addr : mem[a] \in Word
          BY DEF UxInv, StateOK
        <4>4. QED
          BY <2>1, <2>5, <4>2, <4>3, Zenon
      <3>2. mem' \in [Addr -> Word]
        BY <2>1, <3>1
      <3>3. eip' \in Word
        BY <1>0, <2>1 DEF Word
      <3>4. QED
        BY <2>1, <2>2, <2>4, <3>2, <3>3 DEF UxInv, StateOK
    <2>7. FrameIn(mem', s)
      <3>1. \A k \in 0 .. 12 : utr + k \in Addr /\ mem'[utr + k] = Utf(k)
        BY <1>0, <2>1, <2>2 DEF Addr
      <3>2. \A r \in Reg : Utf(r) = regs[r]
        BY DEF Utf, Reg, UTF_EIP, UTF_EFLAGS, UTF_ESP
      <3>3. Utf(10) = eip /\ Utf(11) = eflags /\ Utf(12) = <<"esp", esp>>
        BY DEF Utf, Reg, UTF_EIP, UTF_EFLAGS, UTF_ESP
      <3>4. QED
        BY <3>1, <3>2, <3>3 DEF FrameIn, Reg, UTF_EIP, UTF_EFLAGS, UTF_ESP
    <2>8. n # 0 => /\ utr = esp - 14 /\ saved[n].utr \in 3 .. XWORDS - 14
                   /\ utr + 12 <= saved[n].utr
                   /\ eip[1] = "body" => utr + 16 <= saved[n].utr
      <3>1. ASSUME n # 0
            PROVE  /\ saved[n].utr \in 3 .. XWORDS - 14
                   /\ \/ eip[1] = "body" /\ esp \in 1 .. saved[n].utr - 2
                      \/ eip[1] # "body" /\ esp = saved[n].utr + 2
        BY <1>0, <3>1, FramePlace DEF UxInv, Active, InUpcall
      <3>2. QED
        BY <1>0, <3>1 DEF StackTop
    <2> HIDE DEF n, utr, s
    <2>9. /\ \A i \in 1 .. n : FrameIn(mem', saved[i])
          /\ \A i \in 1 .. n - 1 : saved[i + 1].eip[1] = "body" =>
                 mem'[saved[i].utr - 2] = <<"ret", i>>
      <3>1. CASE n = 0
        BY <3>1
      <3>2. CASE n # 0
        <4>1. n \in 1 .. Depth /\ utr + 12 \in Int /\ utr + 12 <= saved[n].utr + 1
          BY <1>0, <2>2, <2>8, <3>2 DEF n
        <4>2. \A a \in Addr : a > utr + 12 => mem'[a] = mem[a]
          BY <2>1, <2>2
        <4>3. QED
          BY <4>1, <4>2, BelowKeeps
      <3>3. QED
        BY <3>1, <3>2
    <2>10. n # 0 /\ eip[1] = "body" => mem'[saved[n].utr - 2] = <<"ret", n>>
      <3>1. SUFFICES ASSUME n # 0, eip[1] = "body"
                     PROVE  mem'[saved[n].utr - 2] = <<"ret", n>>
        OBVIOUS
      <3>2. mem[saved[n].utr - 2] = <<"ret", n>>
        BY <3>1 DEF UxInv, RetIntact, n
      <3>3. saved[n].utr - 2 \in Addr /\ saved[n].utr - 2 > utr + 12
        BY <1>0, <2>2, <2>8, <3>1 DEF Addr
      <3>4. QED
        BY <2>1, <2>2, <2>8, <3>1, <3>2, <3>3
    <2>11. s.esp = esp /\ s.eip = eip /\ s.regs = regs /\ s.utr = utr
      BY DEF s
    <2>12. Active(Depth, eip, esp, regs)'
      BY <1>0, <2>1, <2>4, <2>11 DEF Active, InUpcall
    <2>13. ASSUME NEW i \in 1 .. n + 1
           PROVE  Interrupted(i)' /\ FrameIntact(i)'
      <3>1. CASE i \in 1 .. n
        <4>1. saved'[i] = saved[i] /\ i \in 1 .. Depth
          BY <2>4, <3>1 DEF n
        <4>2. i - 1 # 0 => saved'[i - 1] = saved[i - 1]
          BY <1>0, <2>4, <3>1
        <4>3. Interrupted(i)
          BY <4>1 DEF UxInv
        <4>4. Interrupted(i)'
          BY <4>1, <4>2, <4>3 DEF Interrupted, Active
        <4>5. QED
          BY <2>9, <3>1, <4>1, <4>4 DEF FrameIntact
      <3>2. CASE i = n + 1
        <4>1. Active(n, eip, esp, regs)
          BY DEF UxInv, n
        <4>2. n # 0 => saved'[n] = saved[n]
          BY <1>0, <2>4
        <4>3. i - 1 = n /\ saved'[i] = s
          BY <1>0, <2>4, <3>2
        <4>4. Interrupted(i)'
          BY <2>2, <2>11, <4>1, <4>2, <4>3 DEF Interrupted, Active, utr
        <4>5. QED
          BY <2>7, <4>3, <4>4 DEF FrameIntact
      <3>3. QED
        BY <1>0, <3>1, <3>2
    <2>14. ASSUME NEW i \in 1 .. n + 1, NEW j \in 1 .. n + 1, i < j
           PROVE  Stacked(i, j)'
      <3>1. CASE j \in 1 .. n
        <4>1. i \in 1 .. Depth /\ j \in 1 .. Depth /\ i + 1 \in 1 .. n
          BY <1>0, <2>14, <3>1 DEF n
        <4>2. Stacked(i, j)
          BY <2>14, <4>1 DEF UxInv
        <4>3. saved'[i] = saved[i] /\ saved'[j] = saved[j] /\ saved'[i + 1] = saved[i + 1]
          BY <1>0, <2>4, <2>14, <3>1, <4>1
        <4>4. QED
          BY <4>2, <4>3 DEF Stacked
      <3>2. CASE j = n + 1 /\ i = n
        <4>1. n # 0 /\ saved'[j] = s /\ saved'[i + 1] = s /\ saved'[i] = saved[n]
          BY <1>0, <2>4, <3>2
        <4>2. QED
          BY <2>8, <2>11, <4>1 DEF Stacked
      <3>3. CASE j = n + 1 /\ i \in 1 .. n - 1
        <4>1. /\ n # 0 /\ saved'[j] = s /\ saved'[i + 1] = saved[i + 1]
              /\ saved'[i] = saved[i]
          BY <1>0, <2>4, <3>3
        <4>2. Stacked(i, n)
          <5>1. i \in 1 .. Depth /\ n \in 1 .. Depth /\ i < n
            BY <1>0, <3>3 DEF n
          <5>2. QED
            BY <5>1 DEF UxInv
        <4>3. saved[i].utr \in Int /\ saved[n].utr \in Int
          <5>1. i \in 1 .. Depth /\ n \in 1 .. Depth
            BY <1>0, <3>3 DEF n
          <5>2. QED
            BY <5>1, FramePlace
        <4>4. QED
          BY <2>2, <2>8, <2>11, <4>1, <4>2, <4>3 DEF Stacked
      <3>4. QED
        BY <1>0, <2>14, <3>1, <3>2, <3>3
    <2>15. ASSUME NEW i \in 1 .. n, saved'[i + 1].eip[1] = "body"
           PROVE  RetIntact(i)'
      <3>1. CASE i \in 1 .. n - 1
        <4>1. saved'[i + 1] = saved[i + 1] /\ saved'[i] = saved[i]
          BY <1>0, <2>4, <3>1
        <4>2. QED
          BY <2>9, <2>15, <3>1, <4>1 DEF RetIntact
      <3>2. CASE i = n
        <4>1. saved'[i + 1] = s /\ saved'[i] = saved[n] /\ n # 0
          BY <1>0, <2>4, <3>2
        <4>2. QED
          BY <2>10, <2>11, <2>15, <3>2, <4>1 DEF RetIntact
      <3>3. QED
        BY <1>0, <3>1, <3>2
    <2>16. eip'[1] # "body" /\ Depth' - 1 = n
      BY <1>0, <2>1, <2>4
    <2>17. QED
      BY <1>0, <2>4, <2>6, <2>12, <2>13, <2>14, <2>15, <2>16 DEF UxInv
  <1>3. QED
    BY <1>1, <1>2

\* _pgfault_upcall restores the state of the fault, and what the interrupted
\* activation will read is as it was.
LEMMA ReturnKeeps ==
  ASSUME UxInv, Return
  PROVE  /\ UxInv' /\ Depth # 0
         /\ esp' = saved[Depth].esp /\ eip' = saved[Depth].eip
         /\ regs' = saved[Depth].regs /\ eflags' = saved[Depth].eflags
  <1> DEFINE n == Depth
             s == saved[n]
             top == regs[EAX][2] - 1
             m == [mem EXCEPT ![top] = regs[ECX]]
  <1>1. eip[1] = "store" /\ n # 0 /\ n \in Nat /\ n \in 1 .. Depth
    BY DEF Return, At, UxInv, StateOK, Depth, Active
  <1>2. esp = s.utr + 2 /\ regs[EAX] = <<"esp", s.esp>> /\ regs[ECX] = s.eip
    BY <1>1 DEF UxInv, Active, InUpcall
  <1>3. /\ s \in Frame /\ s.utr \in 3 .. XWORDS - 14 /\ XWORDS \in Nat
        /\ \A k \in -2 .. 13 : s.utr + k \in Addr
        /\ Interrupted(n)
    BY <1>1, FramePlace DEF UxInv
  <1>4. top = s.esp - 1 /\ s.esp \in Int /\ esp - 2 = s.utr
    BY <1>2, <1>3 DEF Frame
  <1>5. top \in Addr
    BY DEF Return
  <1>6. top = s.utr + 13 \/ top < 0
    <2>1. s.utr = StackTop(s.esp) - 14
      BY <1>3 DEF Interrupted
    <2>2. CASE n = 1
      <3>1. s.esp = USP
        BY <1>3, <2>2 DEF Interrupted, Active
      <3>2. QED
        BY <1>3, <1>4, <3>1 DEF USP
    <2>3. CASE n # 1
      <3>1. n - 1 \in 1 .. Depth /\ n - 1 # 0
        BY <1>1, <2>3
      <3>2. saved[n - 1].utr \in 3 .. XWORDS - 14
        BY <3>1, FramePlace
      <3>3. s.esp \in 1 .. saved[n - 1].utr - 2 \/ s.esp = saved[n - 1].utr + 2
        BY <1>3, <3>1 DEF Interrupted, Active, InUpcall
      <3>4. 0 < s.esp /\ s.esp < XWORDS
        BY <1>3, <3>2, <3>3
      <3>5. QED
        BY <1>4, <2>1, <3>4 DEF StackTop
    <2>4. QED
      BY <2>2, <2>3
  <1>7. FrameIn(m, s)
    <2>1. \A k \in 2 .. 12 : m[s.utr + k] = mem[s.utr + k]
      <3>1. \A k \in 2 .. 12 : s.utr + k \in Addr /\ s.utr + k # top
        BY <1>3, <1>6
      <3>2. mem \in [Addr -> Word]
        BY DEF UxInv, StateOK
      <3> HIDE DEF top, s
      <3>3. QED
        BY <3>1, <3>2
    <2>2. FrameIn(mem, s)
      BY <1>1 DEF UxInv, FrameIntact
    <2> HIDE DEF m, s
    <2>3. QED
      BY <2>1, <2>2 DEF FrameIn, Reg, UTF_EIP, UTF_EFLAGS, UTF_ESP
  <1>8. m[top] = s.eip
    BY <1>2, <1>5 DEF UxInv, StateOK
  <1>9. /\ mem' = m /\ saved' = SubSeq(saved, 1, n - 1)
        /\ regs' = [r \in Reg |-> m[s.utr + r]]
        /\ eflags' = m[s.utr + UTF_EFLAGS]
        /\ esp' = m[s.utr + UTF_ESP][2]
        /\ eip' = m[m[s.utr + UTF_ESP][2] - 1]
    BY <1>4 DEF Return
  <1> HIDE DEF m
  <1>10. esp' = s.esp /\ eip' = s.eip /\ regs' = s.regs /\ eflags' = s.eflags
    <2>1. m[s.utr + UTF_ESP][2] = s.esp
      BY <1>7 DEF FrameIn
    <2>2. eip' = s.eip
      BY <1>4, <1>8, <1>9, <2>1
    <2>3. s.regs \in [Reg -> Word]
      BY <1>3 DEF Frame
    <2>4. regs' = s.regs
      BY <1>7, <1>9, <2>3 DEF FrameIn
    <2>5. QED
      BY <1>7, <1>9, <2>1, <2>2, <2>4 DEF FrameIn
  <1>11. /\ saved' \in Seq(Frame) /\ Depth' = n - 1
         /\ \A i \in 1 .. n - 1 : saved'[i] = saved[i]
    <2>1. saved \in Seq(Frame) /\ Len(saved) = n /\ n - 1 \in 0 .. Len(saved)
      BY <1>1 DEF UxInv, StateOK, Depth
    <2> HIDE DEF n
    <2>2. /\ SubSeq(saved, 1, n - 1) \in Seq(Frame)
          /\ Len(SubSeq(saved, 1, n - 1)) = n - 1
          /\ \A i \in 1 .. n - 1 : SubSeq(saved, 1, n - 1)[i] = saved[i]
      BY <1>1, <2>1
    <2>3. QED
      BY <1>9, <2>2 DEF Depth
  <1>12. StateOK'
    <2>1. mem' \in [Addr -> Word]
      BY <1>9 DEF m, UxInv, StateOK, ECX, Reg
    <2>2. QED
      BY <1>3, <1>10, <1>11, <2>1 DEF StateOK, Frame
  <1>13. \A a \in Addr : a # top => mem'[a] = mem[a]
    BY <1>9 DEF m, UxInv, StateOK
  <1>14. n - 1 # 0 => /\ saved[n - 1].utr \in 3 .. XWORDS - 14
                      /\ top <= saved[n - 1].utr + 1
                      /\ s.eip[1] = "body" => top < saved[n - 1].utr - 2
    <2>1. ASSUME n - 1 # 0
          PROVE  /\ saved[n - 1].utr \in 3 .. XWORDS - 14
                 /\ \/ s.eip[1] = "body" /\ s.esp \in 1 .. saved[n - 1].utr - 2
                    \/ s.eip[1] # "body" /\ s.esp = saved[n - 1].utr + 2
      <3>1. n - 1 \in 1 .. Depth
        BY <1>1, <2>1
      <3>2. saved[n - 1].utr \in 3 .. XWORDS - 14
        BY <3>1, FramePlace
      <3>3. QED
        BY <1>3, <2>1, <3>2 DEF Interrupted, Active, InUpcall
    <2>2. QED
      BY <1>3, <1>4, <2>1
  <1> HIDE DEF top, s
  <1>15. /\ \A i \in 1 .. n - 1 : FrameIn(mem', saved[i])
         /\ \A i \in 1 .. n - 2 : saved[i + 1].eip[1] = "body" =>
                mem'[saved[i].utr - 2] = <<"ret", i>>
    <2>1. CASE n = 1
      BY <2>1
    <2>2. CASE n # 1
      <3>1. n - 1 \in 1 .. Depth /\ top \in Int /\ top <= saved[n - 1].utr + 1
        BY <1>1, <1>4, <1>14, <2>2
      <3>2. \A a \in Addr : a > top => mem'[a] = mem[a]
        BY <1>13, <3>1
      <3>3. (n - 1) - 1 = n - 2
        BY <1>1
      <3> HIDE DEF n
      <3>4. /\ \A i \in 1 .. n - 1 : FrameIn(mem', saved[i])
            /\ \A i \in 1 .. (n - 1) - 1 : saved[i + 1].eip[1] = "body" =>
                   mem'[saved[i].utr - 2] = <<"ret", i>>
        BY <3>1, <3>2, BelowKeeps
      <3>5. QED
        BY <3>3, <3>4
    <2>3. QED
      BY <2>1, <2>2
  <1>16. n - 1 # 0 /\ s.eip[1] = "body" => mem'[saved[n - 1].utr - 2] = <<"ret", n - 1>>
    <2>1. SUFFICES ASSUME n - 1 # 0, s.eip[1] = "body"
                   PROVE  mem'[saved[n - 1].utr - 2] = <<"ret", n - 1>>
      OBVIOUS
    <2>2. n - 1 \in 1 .. Depth - 1 /\ (n - 1) + 1 = n /\ n - 1 \in 1 .. Depth
      BY <1>1, <2>1
    <2>3. RetIntact(n - 1)
      BY <2>1, <2>2 DEF UxInv, s
    <2>4. saved[n - 1].utr - 2 \in Addr /\ saved[n - 1].utr - 2 # top
      <3>1. \A k \in -2 .. 13 : saved[n - 1].utr + k \in Addr
        BY <2>2, FramePlace
      <3>2. saved[n - 1].utr + (-2) \in Addr /\ saved[n - 1].utr \in Int /\ top \in Int
        BY <1>4, <1>14, <2>1, <3>1
      <3>3. QED
        BY <1>14, <2>1, <3>2
    <2>5. QED
      BY <1>13, <2>3, <2>4 DEF RetIntact
  <1>17. Active(Depth, eip, esp, regs)'
    <2>1. Active(n - 1, s.eip, s.esp, s.regs)
      BY <1>3 DEF Interrupted, s
    <2>2. n - 1 # 0 => saved'[n - 1] = saved[n - 1]
      BY <1>1, <1>11
    <2>3. QED
      BY <1>10, <1>11, <2>1, <2>2 DEF Active
  <1>18. ASSUME NEW i \in 1 .. n - 1
         PROVE  Interrupted(i)' /\ FrameIntact(i)'
    <2>1. saved'[i] = saved[i] /\ i \in 1 .. Depth
      BY <1>1, <1>11
    <2>2. i - 1 # 0 => saved'[i - 1] = saved[i - 1]
      BY <1>1, <1>11
    <2>3. Interrupted(i)
      BY <2>1 DEF UxInv
    <2>4. QED
      BY <1>15, <2>1, <2>2, <2>3 DEF Interrupted, Active, FrameIntact
  <1>19. ASSUME NEW i \in 1 .. n - 1, NEW j \in 1 .. n - 1, i < j
         PROVE  Stacked(i, j)'
    <2>1. i \in 1 .. Depth /\ j \in 1 .. Depth /\ i + 1 \in 1 .. n - 1
      BY <1>1, <1>19
    <2>2. Stacked(i, j)
      BY <1>19, <2>1 DEF UxInv
    <2>3. saved'[i] = saved[i] /\ saved'[j] = saved[j] /\ saved'[i + 1] = saved[i + 1]
      BY <1>11, <2>1
    <2>4. QED
      BY <2>2, <2>3 DEF Stacked
  <1>20. ASSUME NEW i \in 1 .. n - 2, saved'[i + 1].eip[1] = "body"
         PROVE  RetIntact(i)'
    <2>1. saved'[i] = saved[i] /\ saved'[i + 1] = saved[i + 1]
      BY <1>1, <1>11
    <2>2. QED
      BY <1>15, <1>20, <2>1 DEF RetIntact
  <1>21. eip'[1] = "body" => RetIntact(Depth)'
    <2>1. eip'[1] = "body" => n - 1 # 0
      BY <1>3, <1>10 DEF Interrupted, Active, s
    <2>2. n - 1 # 0 => saved'[n - 1] = saved[n - 1]
      BY <1>1, <1>11
    <2>3. QED
      BY <1>10, <1>11, <1>16, <2>1, <2>2 DEF RetIntact
  <1>22. UxInv'
    <2>1. Depth' - 1 = n - 2 /\ Depth' = n - 1
      BY <1>1, <1>11
    <2> HIDE DEF n
    <2>2. QED
      BY <1>12, <1>17, <1>18, <1>19, <1>20, <1>21, <2>1 DEF UxInv
  <1>23. QED
    BY <1>1, <1>10, <1>22 DEF s

\* Where the executing activation is, by its label.
LEMMA ActiveAt ==
  ASSUME UxInv
  PROVE  /\ Depth \in Nat /\ esp \in Int
         /\ eip[1] \in {"run", "pushl", "call", "body", "ret", "store"}
         /\ eip[1] = "run" <=> Depth = 0
         /\ Depth # 0 =>
               /\ Depth \in 1 .. Depth
               /\ saved[Depth].utr \in 3 .. XWORDS - 14
               /\ \A k \in -2 .. 13 : saved[Depth].utr + k \in Addr
               /\ eip[1] = "pushl" => esp = saved[Depth].utr
               /\ eip[1] \in {"call", "ret"} => esp = saved[Depth].utr - 1
               /\ eip[1] = "body" => /\ esp \in 1 .. saved[Depth].utr - 2
                                     /\ regs[EBP] = <<"esp", saved[Depth].utr - 2>>
  <1>1. Depth \in Nat /\ esp \in Int /\ Active(Depth, eip, esp, regs)
    BY DEF UxInv, StateOK, Depth
  <1>2. CASE Depth = 0
    BY <1>1, <1>2 DEF Active
  <1>3. CASE Depth # 0
    <2>1. Depth \in 1 .. Depth
      BY <1>1, <1>3
    <2>2. /\ saved[Depth].utr \in 3 .. XWORDS - 14
          /\ \A k \in -2 .. 13 : saved[Depth].utr + k \in Addr
      BY <2>1, FramePlace
    <2>3. QED
      BY <1>1, <1>3, <2>1, <2>2 DEF Active, InUpcall
  <1>4. QED
    BY <1>2, <1>3

\* A push of the executing activation.
LEMMA PushKeeps ==
  ASSUME UxInv, Depth # 0, NEW w \in Word, Pushed(w), saved' = saved,
         esp <= saved[Depth].utr, esp - 1 \in Addr,
         eip' \in Word, regs' \in [Reg -> Word], eflags' \in Word,
         Active(Depth, eip', esp - 1, regs'),
         eip'[1] = "body" => \/ eip[1] = "body" /\ esp - 1 # saved[Depth].utr - 2
                             \/ esp - 1 = saved[Depth].utr - 2 /\ w = <<"ret", Depth>>
  PROVE  UxInv'
  <1>1. mem \in [Addr -> Word] /\ esp \in Int /\ saved \in Seq(Frame)
    BY DEF UxInv, StateOK
  <1>2. /\ mem' = [mem EXCEPT ![esp - 1] = w] /\ esp' = esp - 1
        /\ mem' \in [Addr -> Word]
    BY <1>1 DEF Pushed
  <1>3. /\ saved[Depth].utr \in Int
        /\ \A k \in -2 .. 13 : saved[Depth].utr + k \in Addr
    BY ActiveAt
  <1>4. StateOK'
    BY <1>1, <1>2 DEF StateOK
  <1>5. \A a \in Addr : a # esp - 1 => mem'[a] = mem[a]
    BY <1>1, <1>2
  <1>6. \A a \in Addr : a > saved[Depth].utr + 1 => mem'[a] = mem[a]
    <2>1. ASSUME NEW a \in Addr, a > saved[Depth].utr + 1 PROVE a # esp - 1
      <3>1. a \in Int
        BY UxAssumption DEF Addr, USP
      <3>2. PICK v \in Int : v = saved[Depth].utr
        BY <1>3
      <3>3. QED
        BY <1>1, <2>1, <3>1, <3>2
    <2>2. QED
      BY <1>5, <2>1
  <1>7. ASSUME eip'[1] = "body" PROVE mem'[saved[Depth].utr - 2] = <<"ret", Depth>>
    <2>1. CASE eip[1] = "body" /\ esp - 1 # saved[Depth].utr - 2
      <3>1. saved[Depth].utr + (-2) \in Addr /\ saved[Depth].utr + (-2) = saved[Depth].utr - 2
        BY <1>3
      <3>2. mem[saved[Depth].utr - 2] = <<"ret", Depth>>
        BY <2>1 DEF UxInv, RetIntact
      <3>3. QED
        BY <1>5, <2>1, <3>1, <3>2
    <2>2. CASE esp - 1 = saved[Depth].utr - 2 /\ w = <<"ret", Depth>>
      BY <1>1, <1>2, <2>2
    <2>3. QED
      BY <1>7, <2>1, <2>2
  <1>8. Active(Depth, eip', esp', regs')
    BY <1>2
  <1>9. QED
    BY <1>4, <1>6, <1>7, <1>8, SameSaved

\* Every step keeps the invariant.
LEMMA NextUx ==
  ASSUME ~Deep, UxInv, [Next]_vars
  PROVE  UxInv'
  <1> DEFINE n == Depth
             u == saved[n].utr
  <1>0. /\ n \in Nat /\ esp \in Int
        /\ eip \in Word /\ eflags \in Word /\ regs \in [Reg -> Word]
        /\ mem \in [Addr -> Word] /\ saved \in Seq(Frame)
    BY DEF UxInv, StateOK, Depth
  <1>1. CASE UNCHANGED vars
    BY <1>1 DEF vars, UxInv, StateOK, Active, Depth, Interrupted, FrameIntact,
                Stacked, RetIntact
  <1>2. CASE Touch
    <2>1. eip[1] \in {"run", "body"}
      <3>1. CASE At("run") \/ At("body")
        BY <3>1 DEF At
      <3>2. CASE (At("pushl") \/ At("call")) /\ esp - 1 \notin Addr
        <4>1. n # 0 /\ (esp - 1 = u + (-1) \/ esp - 1 = u + (-2))
          BY <3>2, ActiveAt DEF At
        <4>2. u + (-1) \in Addr /\ u + (-2) \in Addr
          BY <4>1, ActiveAt
        <4>3. QED
          BY <3>2, <4>1, <4>2
      <3>3. QED
        BY <1>2, <3>1, <3>2 DEF Touch, Faulting
    <2>2. QED
      BY <1>2, <2>1, FaultKeeps DEF Touch
  <1>3. CASE Pushl
    <2>1. /\ n # 0 /\ esp = u /\ esp - 1 \in Addr
          /\ Pushed(<<"esp", esp>>) /\ eip' = <<"call", n>>
          /\ UNCHANGED <<regs, eflags, saved>>
      BY <1>3, ActiveAt DEF Pushl, At
    <2>2. <<"esp", esp>> \in Word /\ eip' \in Word /\ esp <= u
      BY <1>0, <2>1 DEF Word
    <2>3. Active(n, eip', esp - 1, regs')
      BY <2>1 DEF Active, InUpcall
    <2>4. eip'[1] # "body"
      BY <2>1
    <2>5. QED
      BY <1>0, <2>1, <2>2, <2>3, <2>4, PushKeeps
  <1>4. CASE Call
    <2>1. /\ n # 0 /\ esp = u - 1 /\ esp - 1 \in Addr
          /\ Pushed(<<"ret", n>>) /\ eip' = <<"body", n>>
          /\ regs' = [Fresh(n) EXCEPT ![EBP] = <<"esp", esp - 1>>]
          /\ eflags' = <<"eflags", n>>
          /\ UNCHANGED saved
          /\ u \in 3 .. XWORDS - 14
      BY <1>4, ActiveAt DEF Call, At
    <2>2. <<"ret", n>> \in Word /\ eip' \in Word /\ eflags' \in Word /\ esp <= u
      BY <1>0, <2>1 DEF Word
    <2>3. regs' \in [Reg -> Word] /\ regs'[EBP] = <<"esp", esp - 1>>
      <3>1. Fresh(n) \in [Reg -> Word]
        BY <1>0 DEF Fresh, Word
      <3>2. <<"esp", esp - 1>> \in Word
        BY <1>0 DEF Word
      <3>3. EBP \in Reg
        BY DEF EBP, Reg
      <3>4. QED
        BY <2>1, <3>1, <3>2, <3>3
    <2>4. esp - 1 = u - 2 /\ esp - 1 \in 1 .. u - 2
      BY <1>0, <2>1
    <2>5. Active(n, eip', esp - 1, regs')
      BY <2>1, <2>3, <2>4 DEF Active, InUpcall
    <2>6. QED
      BY <1>0, <2>1, <2>2, <2>3, <2>4, <2>5, PushKeeps
  <1>5. CASE BodyPush
    <2>1. /\ n # 0 /\ esp \in 1 .. u - 2 /\ esp - 1 \in Addr /\ Roomy(esp - 1)
          /\ regs[EBP] = <<"esp", u - 2>>
          /\ eip[1] = "body"
          /\ Pushed(<<"local", n>>)
          /\ UNCHANGED <<eip, regs, eflags, saved>>
          /\ u \in 3 .. XWORDS - 14
      BY <1>5, ActiveAt DEF BodyPush, At
    <2>2. <<"local", n>> \in Word /\ esp <= u /\ esp - 1 # u - 2 /\ esp - 1 \in 1 .. u - 2
      BY <1>0, <2>1 DEF Word, Roomy
    <2>3. eip = <<"body", n>>
      BY <2>1 DEF UxInv, Active, InUpcall
    <2>4. Active(n, eip', esp - 1, regs')
      BY <2>1, <2>2, <2>3 DEF Active, InUpcall
    <2>5. QED
      BY <1>0, <2>1, <2>2, <2>4, PushKeeps
  <1>6. CASE BodyReturn
    <2>1. /\ n # 0 /\ regs[EBP][2] = u - 2 /\ eip[1] = "body"
          /\ eip' = mem[u - 2] /\ esp' = (u - 2) + 1
          /\ UNCHANGED <<regs, eflags, mem, saved>>
          /\ u \in 3 .. XWORDS - 14
      BY <1>6, ActiveAt DEF BodyReturn, At
    <2>2. eip' = <<"ret", n>> /\ esp' = u - 1
      BY <2>1 DEF UxInv, RetIntact
    <2>3. eip' \in Word /\ esp' \in Int
      BY <1>0, <2>1, <2>2 DEF Word
    <2>4. StateOK' /\ Active(n, eip', esp', regs')
      BY <1>0, <2>1, <2>2, <2>3 DEF StateOK, Active, InUpcall
    <2>5. eip'[1] # "body"
      BY <2>2
    <2>6. QED
      BY <2>1, <2>4, <2>5, SameSaved
  <1>7. CASE Load
    <2>1. /\ n # 0 /\ esp = u - 1 /\ u \in 3 .. XWORDS - 14 /\ n \in 1 .. Depth
          /\ esp' = esp + 3 /\ eip' = <<"store", n>>
          /\ regs' = [regs EXCEPT ![EAX] = mem[esp + 1 + UTF_ESP],
                                  ![ECX] = mem[esp + 1 + UTF_EIP]]
          /\ UNCHANGED <<eflags, mem, saved>>
      BY <1>7, ActiveAt DEF Load, At
    <2>2. esp + 1 + UTF_ESP = u + UTF_ESP /\ esp + 1 + UTF_EIP = u + UTF_EIP
          /\ esp' = u + 2
      BY <2>1 DEF UTF_ESP, UTF_EIP
    <2>3. mem[u + UTF_ESP] = <<"esp", saved[n].esp>> /\ mem[u + UTF_EIP] = saved[n].eip
      BY <2>1 DEF UxInv, FrameIntact, FrameIn
    <2>4. saved[n].eip \in Word /\ <<"esp", saved[n].esp>> \in Word
      <3>1. saved[n] \in Frame
        BY <2>1, FramePlace
      <3>2. QED
        BY <3>1 DEF Frame, Word
    <2>5. /\ regs' \in [Reg -> Word]
          /\ regs'[EAX] = <<"esp", saved[n].esp>> /\ regs'[ECX] = saved[n].eip
      <3>1. EAX \in Reg /\ ECX \in Reg /\ EAX # ECX
        BY DEF EAX, ECX, Reg
      <3>2. regs' = [regs EXCEPT ![EAX] = <<"esp", saved[n].esp>>, ![ECX] = saved[n].eip]
        BY <2>1, <2>2, <2>3, Zenon
      <3>3. QED
        BY <1>0, <2>4, <3>1, <3>2
    <2>6. eip' \in Word /\ eip'[1] # "body" /\ esp' \in Int
      <3>1. eip' = <<"store", n>>
        BY <2>1
      <3>2. eip' \in Word /\ eip'[1] # "body"
        BY <1>0, <3>1 DEF Word
      <3>3. QED
        BY <2>1, <2>2, <3>2
    <2>7. StateOK' /\ Active(n, eip', esp', regs')
      BY <1>0, <2>1, <2>2, <2>5, <2>6 DEF StateOK, Active, InUpcall
    <2>8. QED
      BY <2>1, <2>6, <2>7, SameSaved
  <1>8. CASE StoreFaults
    BY <1>8, FaultKeeps DEF StoreFaults, At
  <1>9. CASE Return
    BY <1>9, ReturnKeeps
  <1>10. QED
    BY <1>1, <1>2, <1>3, <1>4, <1>5, <1>6, <1>7, <1>8, <1>9 DEF Next

\* A program starts without faults.
LEMMA InitUx == Init => UxInv
  <1> SUFFICES ASSUME Init PROVE UxInv
    OBVIOUS
  <1>1. StateOK
    BY UxAssumption DEF Init, StateOK, Word, Fresh, USP
  <1>2. Depth = 0
    BY DEF Init, Depth
  <1>3. QED
    BY <1>1, <1>2 DEF Init, UxInv, Active

\* page_fault_handler: whatever the nesting, the frame of every unfinished fault
\* and the return address of every interrupted handler stay in memory.
THEOREM FramesStayIntact ==
  ASSUME ~Deep
  PROVE  Spec => []StackIntact
  <1>1. UxInv /\ [Next]_vars => UxInv'
    BY NextUx
  <1>2. QED
    BY <1>1, InitUx, IntactFromInv, PTL DEF Spec

\* No step but the last one of _pgfault_upcall ends a fault.
LEMMA OnlyReturnEnds ==
  ASSUME UxInv, [Next]_vars, Len(saved') < Depth
  PROVE  Return
  <1>1. Depth \in Nat /\ saved \in Seq(Frame)
    BY DEF UxInv, StateOK, Depth
  <1>2. saved' # saved
    BY <1>1 DEF Depth
  <1>3. ~PageFault
    <2>1. SUFFICES ASSUME PageFault PROVE FALSE
      OBVIOUS
    <2>2. saved' = saved \/ \E s : saved' = Append(saved, s)
      BY <2>1 DEF PageFault
    <2>3. Len(saved') >= Depth
      BY <1>1, <2>2 DEF Depth
    <2>4. QED
      BY <1>1, <2>2, <2>3 DEF Depth
  <1>4. QED
    BY <1>2, <1>3 DEF Next, vars, Touch, Pushl, Call, BodyPush, BodyReturn, Load,
                      StoreFaults

\* _pgfault_upcall: the instruction that faulted is executed again with exactly
\* the registers, flags, stack pointer and program counter it had.
THEOREM UpcallRestores ==
  ASSUME ~Deep
  PROVE  Spec => ReturnRestores
  <1>1. UxInv /\ [Next]_vars => UxInv'
    BY NextUx
  <1>2. UxInv /\ [Next]_vars =>
            [Len(saved') < Depth =>
                /\ esp' = saved[Depth].esp /\ eip' = saved[Depth].eip
                /\ regs' = saved[Depth].regs /\ eflags' = saved[Depth].eflags]_vars
    BY OnlyReturnEnds, ReturnKeeps
  <1>3. QED
    BY <1>1, <1>2, InitUx, PTL DEF Spec, ReturnRestores
=============================================================================
