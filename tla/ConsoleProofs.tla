---------------------------- MODULE ConsoleProofs ----------------------------
(***************************************************************************)
(* The console, for a ring, a screen and a line buffer of any size, any    *)
(* keys and any amount of typing.                                          *)
(***************************************************************************)
EXTENDS Console, TLAPS

N == CONSBUFSIZE

-----------------------------------------------------------------------------
(* The ring buffer is a queue *)

\* Two sequences with the same elements are the same.
LEMMA SeqEqual ==
  ASSUME NEW S, NEW s \in Seq(S), NEW t \in Seq(S), Len(s) = Len(t),
         \A i \in 1 .. Len(s) : s[i] = t[i]
  PROVE  s = t
  <1>1. /\ s \in [1 .. Len(s) -> S]
        /\ t \in [1 .. Len(s) -> S]
    OBVIOUS
  <1>2. QED
    BY <1>1

RingOK ==
    /\ buf \in [0 .. N - 1 -> Char]
    /\ rpos \in 0 .. N - 1 /\ wpos \in 0 .. N - 1
    /\ serial \in Seq(Char)

\* The size of the ring.
LEMMA RingSize == N \in Nat \ {0} /\ N >= 2
  BY ConsoleAssumption DEF N

\* Remainders of positions in the ring, of those that passed its end once and
\* of those that fell below its beginning once.
LEMMA ModNear ==
  ASSUME NEW n \in Nat \ {0}, NEW x \in Int
  PROVE  /\ x \in 0 .. n - 1 => x % n = x
         /\ x \in n .. n + n - 1 => x % n = x - n
         /\ x \in -n .. -1 => x % n = x + n
  <1>1. PICK q \in Int, r \in 0 .. n - 1 : r = x % n /\ q = x \div n
    OBVIOUS
  <1>2. x = n * q + r /\ n * q \in Int
    BY <1>1
  <1>3. (q >= 1 => n * q >= n * 1) /\ (q <= -1 => n * q <= n * (-1))
    OBVIOUS
  <1>4. (q >= 2 => n * q >= n * 2) /\ (q <= -2 => n * q <= n * (-2))
    OBVIOUS
  <1>5. (q = 0 => n * q = 0) /\ (q = 1 => n * q = n) /\ (q = -1 => n * q = -n)
    OBVIOUS
  <1>6. QED
    BY <1>1, <1>2, <1>3, <1>4, <1>5

\* Positions of the ring without the modulus: the distance from r to w, the
\* place i places after r, and the place after r.
LEMMA RingArithmetic ==
  ASSUME NEW r \in 0 .. N - 1, NEW w \in 0 .. N - 1
  PROVE  /\ (w - r) % N = IF r <= w THEN w - r ELSE w - r + N
         /\ \A i \in 1 .. N : (r + i - 1) % N =
                IF r + i - 1 < N THEN r + i - 1 ELSE r + i - 1 - N
         /\ (r + 1) % N = IF r + 1 < N THEN r + 1 ELSE 0
  <1>0. N \in Nat \ {0} /\ r \in Int /\ w \in Int
    BY RingSize
  <1>1. (w - r) % N = IF r <= w THEN w - r ELSE w - r + N
    <2>1. w - r \in Int /\ (r <= w => w - r \in 0 .. N - 1)
          /\ (~(r <= w) => w - r \in -N .. -1)
      BY <1>0
    <2>2. QED
      BY <1>0, <2>1, ModNear
  <1>2. ASSUME NEW i \in 1 .. N
        PROVE  (r + i - 1) % N = IF r + i - 1 < N THEN r + i - 1 ELSE r + i - 1 - N
    <2>1. /\ r + i - 1 \in Int
          /\ r + i - 1 < N => r + i - 1 \in 0 .. N - 1
          /\ ~(r + i - 1 < N) => r + i - 1 \in N .. N + N - 1
      BY <1>0
    <2>2. QED
      BY <1>0, <2>1, ModNear
  <1>3. (r + 1) % N = IF r + 1 < N THEN r + 1 ELSE 0
    <2>1. /\ r + 1 \in Int
          /\ r + 1 < N => r + 1 \in 0 .. N - 1
          /\ ~(r + 1 < N) => r + 1 \in N .. N + N - 1 /\ r + 1 - N = 0
      BY <1>0
    <2>2. QED
      BY <1>0, <2>1, ModNear
  <1>4. QED
    BY <1>1, <1>2, <1>3

\* How much is in the ring b from r to w, and the i-th character of it.
Held(r, w) == IF r <= w THEN w - r ELSE w - r + N

Place(r, i) == IF r + i - 1 < N THEN r + i - 1 ELSE r + i - 1 - N

RingSeq(b, r, w) == [i \in 1 .. Held(r, w) |-> b[Place(r, i)]]

ModSeq(b, r, w) ==
    [i \in 1 .. (w - r) % CONSBUFSIZE |-> b[(r + i - 1) % CONSBUFSIZE]]

\* Contents without the modulus.
LEMMA ContentsSeq ==
  ASSUME NEW b \in [0 .. N - 1 -> Char], NEW r \in 0 .. N - 1, NEW w \in 0 .. N - 1
  PROVE  /\ ModSeq(b, r, w) = RingSeq(b, r, w)
         /\ Held(r, w) \in 0 .. N - 1
         /\ RingSeq(b, r, w) \in Seq(Char) /\ Len(RingSeq(b, r, w)) = Held(r, w)
  <1>0. N \in Nat \ {0}
    BY RingSize
  <1>1. Held(r, w) \in 0 .. N - 1
    BY <1>0 DEF Held
  <1>2. (w - r) % CONSBUFSIZE = Held(r, w)
    BY <1>0, RingArithmetic DEF Held, N
  <1>3. \A i \in 1 .. Held(r, w) : (r + i - 1) % CONSBUFSIZE = Place(r, i)
    BY <1>0, <1>1, RingArithmetic DEF Place, N
  <1>4. ModSeq(b, r, w) = RingSeq(b, r, w)
    BY <1>2, <1>3, Zenon DEF ModSeq, RingSeq
  <1>5. \A i \in 1 .. Held(r, w) : Place(r, i) \in 0 .. N - 1
    BY <1>0, <1>1 DEF Place
  <1>6. RingSeq(b, r, w) \in Seq(Char) /\ Len(RingSeq(b, r, w)) = Held(r, w)
    <2>1. \A i \in 1 .. Held(r, w) : b[Place(r, i)] \in Char
      BY <1>5
    <2>2. Held(r, w) \in Nat
      BY <1>1
    <2>3. QED
      BY <2>1, <2>2 DEF RingSeq
  <1>7. QED
    BY <1>1, <1>4, <1>6

\* The same for the state before and after a step.
LEMMA ContentsNow ==
  ASSUME RingOK
  PROVE  /\ Contents = RingSeq(buf, rpos, wpos)
         /\ Held(rpos, wpos) \in 0 .. N - 1
         /\ Contents \in Seq(Char) /\ Len(Contents) = Held(rpos, wpos)
  <1>1. Contents = ModSeq(buf, rpos, wpos)
    BY DEF Contents, ModSeq
  <1>2. QED
    BY <1>1, ContentsSeq DEF RingOK

\* cons_intr stores a character: a queue operation, also across the wrap and
\* when the write position catches up with the read position.
LEMMA PutRing ==
  ASSUME RingOK, RingOK', NEW ch \in Char,
         buf' = [buf EXCEPT ![wpos] = ch],
         wpos' = (wpos + 1) % CONSBUFSIZE, rpos' = rpos
  PROVE  Queue!Put(ch)
  <1>0. N \in Nat \ {0} /\ rpos \in 0 .. N - 1 /\ wpos \in 0 .. N - 1 /\ N >= 2
    BY RingSize DEF RingOK
  <1> DEFINE L == Held(rpos, wpos)
             L2 == Held(rpos, wpos')
  <1>1. wpos' = IF wpos + 1 < N THEN wpos + 1 ELSE 0
    BY <1>0, RingArithmetic DEF N
  <1>2. /\ Contents = RingSeq(buf, rpos, wpos) /\ L \in 0 .. N - 1
        /\ Contents \in Seq(Char) /\ Len(Contents) = L
    BY ContentsNow
  <1>3. /\ Contents' = RingSeq(buf', rpos, wpos') /\ L2 \in 0 .. N - 1
        /\ Contents' \in Seq(Char) /\ Len(Contents') = L2
    <2>1. Contents' = ModSeq(buf', rpos, wpos')
      BY DEF Contents, ModSeq
    <2>2. buf' \in [0 .. N - 1 -> Char] /\ wpos' \in 0 .. N - 1
      BY DEF RingOK, N
    <2>3. /\ ModSeq(buf', rpos, wpos') = RingSeq(buf', rpos, wpos')
          /\ Held(rpos, wpos') \in 0 .. N - 1
          /\ RingSeq(buf', rpos, wpos') \in Seq(Char)
          /\ Len(RingSeq(buf', rpos, wpos')) = Held(rpos, wpos')
      BY <1>0, <2>2, ContentsSeq
    <2>4. QED
      BY <2>1, <2>3
  <1>4. CASE L = N - 1
    <2>1. L2 = 0
      BY <1>0, <1>1, <1>4 DEF Held
    <2>2. Contents' = <<>>
      BY <1>3, <2>1
    <2>3. QED
      BY <1>2, <1>4, <2>2 DEF Queue!Put, N
  <1>5. CASE L # N - 1
    <2>1. L2 = L + 1 /\ L + 1 \in 1 .. N - 1
      BY <1>0, <1>1, <1>2, <1>5 DEF Held
    <2>2. Place(rpos, L + 1) = wpos
      BY <1>0, <1>5 DEF Held, Place
    <2>3. \A i \in 1 .. L : Place(rpos, i) # wpos /\ Place(rpos, i) \in 0 .. N - 1
      BY <1>0 DEF Held, Place
    <2>4. \A i \in 1 .. L : buf'[Place(rpos, i)] = buf[Place(rpos, i)]
      BY <2>3 DEF RingOK
    <2>5. buf'[Place(rpos, L + 1)] = ch
      BY <1>0, <2>2 DEF RingOK
    <2> HIDE DEF L, L2
    <2>6. \A i \in 1 .. L : Contents'[i] = Contents[i]
      <3>1. \A i \in 1 .. L : Contents[i] = buf[Place(rpos, i)]
        BY <1>2 DEF RingSeq, L
      <3>2. \A i \in 1 .. L : i \in 1 .. L2
        BY <1>2, <2>1
      <3>3. \A i \in 1 .. L : Contents'[i] = buf'[Place(rpos, i)]
        BY <1>3, <3>2 DEF RingSeq, L2
      <3>4. QED
        BY <2>4, <3>1, <3>3
    <2>7. Contents'[L + 1] = ch
      BY <1>2, <1>3, <2>1, <2>5 DEF RingSeq, L2
    <2>8. Contents' = Append(Contents, ch)
      <3>1. Append(Contents, ch) \in Seq(Char) /\ Len(Append(Contents, ch)) = L2
        BY <1>2, <2>1
      <3>2. \A i \in 1 .. L2 : Append(Contents, ch)[i] = Contents'[i]
        BY <1>2, <2>1, <2>6, <2>7
      <3>3. QED
        BY <1>3, <3>1, <3>2, SeqEqual
    <2>9. QED
      BY <1>2, <1>5, <2>8 DEF Queue!Put, N
  <1>6. QED
    BY <1>4, <1>5

\* cons_getc takes a character: the oldest one.
LEMMA GetRing ==
  ASSUME RingOK, RingOK', rpos # wpos,
         rpos' = (rpos + 1) % CONSBUFSIZE, UNCHANGED <<buf, wpos>>
  PROVE  Queue!Get
  <1>0. N \in Nat \ {0} /\ rpos \in 0 .. N - 1 /\ wpos \in 0 .. N - 1 /\ N >= 2
    BY RingSize DEF RingOK
  <1> DEFINE L == Held(rpos, wpos)
             L2 == Held(rpos', wpos)
  <1>1. rpos' = IF rpos + 1 < N THEN rpos + 1 ELSE 0
    BY <1>0, RingArithmetic DEF N
  <1>2. /\ Contents = RingSeq(buf, rpos, wpos) /\ L \in 0 .. N - 1
        /\ Contents \in Seq(Char) /\ Len(Contents) = L
    BY ContentsNow
  <1>3. /\ Contents' = RingSeq(buf, rpos', wpos) /\ L2 \in 0 .. N - 1
        /\ Contents' \in Seq(Char) /\ Len(Contents') = L2
    <2>1. Contents' = ModSeq(buf, rpos', wpos)
      BY DEF Contents, ModSeq
    <2>2. QED
      BY <2>1, ContentsSeq DEF RingOK
  <1>4. L2 = L - 1 /\ L >= 1
    BY <1>0, <1>1 DEF Held
  <1>5. \A i \in 1 .. L2 : Place(rpos', i) = Place(rpos, i + 1)
    BY <1>0, <1>1, <1>3, <1>4 DEF Place
  <1> HIDE DEF L, L2
  <1>6. \A i \in 1 .. L2 : Contents'[i] = Contents[i + 1]
    <2>1. \A i \in 1 .. L2 : Contents'[i] = buf[Place(rpos', i)]
      BY <1>3 DEF RingSeq, L2
    <2>2. \A i \in 1 .. L2 : i + 1 \in 1 .. L
      BY <1>2, <1>3, <1>4
    <2>3. \A i \in 1 .. L2 : Contents[i + 1] = buf[Place(rpos, i + 1)]
      BY <1>2, <2>2 DEF RingSeq, L
    <2>4. QED
      BY <1>5, <2>1, <2>3
  <1>7. Contents # <<>>
    BY <1>2, <1>4
  <1>8. Contents' = Tail(Contents)
    <2>1. /\ Tail(Contents) \in Seq(Char) /\ Len(Tail(Contents)) = L2
          /\ \A i \in 1 .. L2 : Tail(Contents)[i] = Contents[i + 1]
      BY <1>2, <1>4, <1>7
    <2>2. QED
      BY <1>3, <1>6, <2>1
  <1>9. QED
    BY <1>7, <1>8 DEF Queue!Get

\* The maps of kbd_proc_data give characters.
LEMMA KbdGivesChar ==
  ASSUME NEW flags, NEW data
  PROVE  KbdProcData(flags, data).ch \in Char
  <1>1. ASSUME NEW g, NEW d
        PROVE  CapsLock(g, CharCode(g, d)) \in Char
    <2>1. NormalMap(d) \in {0, 8, 10, 49, 97, 233}
      BY DEF NormalMap, BS, NL, KEY_DEL
    <2>2. ShiftMap(d) \in {0, 8, 10, 33, 49, 65, 97, 233}
      BY <2>1 DEF ShiftMap
    <2>3. CtlMap(d) \in {0, 1, 13, 233}
      BY DEF CtlMap, CR, KEY_DEL
    <2>4. CharCode(g, d) \in Char
      BY <2>1, <2>2, <2>3 DEF CharCode, Char
    <2>5. QED
      BY <2>4 DEF CapsLock, Char, LETTERS
  <1>2. QED
    BY <1>1 DEF KbdProcData, Char

\* A step of cons_intr keeps the positions in the ring and is a step of the
\* queue; a 0 leaves both alone.
LEMMA ConsIntrRing ==
  ASSUME RingOK, NEW ch \in Char, ConsIntr(ch), rpos' = rpos, serial' \in Seq(Char)
  PROVE  RingOK' /\ [Queue!Next]_Contents
  <1>0. N \in Nat \ {0} /\ rpos \in 0 .. N - 1 /\ wpos \in 0 .. N - 1
    BY RingSize DEF RingOK
  <1>1. CASE ch = 0
    <2>1. UNCHANGED <<buf, wpos, rpos>>
      BY <1>1 DEF ConsIntr
    <2>2. QED
      BY <2>1 DEF RingOK, Contents
  <1>2. CASE ch # 0
    <2>1. buf' = [buf EXCEPT ![wpos] = ch] /\ wpos' = (wpos + 1) % CONSBUFSIZE
      BY <1>2 DEF ConsIntr
    <2>2. wpos' \in 0 .. N - 1
      BY <1>0, <2>1, RingArithmetic DEF N
    <2>3. buf' \in [0 .. N - 1 -> Char]
      BY <2>1 DEF RingOK
    <2>4. RingOK'
      BY <1>0, <2>2, <2>3 DEF RingOK
    <2>5. Queue!Put(ch)
      BY <2>1, <2>4, PutRing
    <2>6. QED
      BY <1>2, <2>4, <2>5 DEF Queue!Next
  <1>3. QED
    BY <1>1, <1>2

\* Every step of the console is a step of the queue, or none.
LEMMA RingStep ==
  ASSUME RingOK, [Next]_vars
  PROVE  RingOK' /\ [Queue!Next]_Contents
  <1> DEFINE Ring == <<buf, rpos, wpos>>
  <1>0. N \in Nat \ {0} /\ rpos \in 0 .. N - 1 /\ wpos \in 0 .. N - 1
    BY RingSize DEF RingOK
  <1>1. ASSUME UNCHANGED Ring, serial' \in Seq(Char)
        PROVE  RingOK' /\ [Queue!Next]_Contents
    BY <1>1 DEF RingOK, Contents
  <1>2. ASSUME NEW k \in Keys, KeyDown(k) \/ KeyUp(k)
        PROVE  RingOK' /\ [Queue!Next]_Contents
    BY <1>1, <1>2 DEF KeyDown, KeyUp, ProgramSame, RingOK
  <1>3. ASSUME NEW ch \in SerialChars, SerialLine(ch)
        PROVE  RingOK' /\ [Queue!Next]_Contents
    <2>1. ch \in Char /\ serial' \in Seq(Char)
      BY <1>3, InputAssumption DEF SerialLine, RingOK
    <2>2. QED
      BY <1>1, <1>3, <2>1 DEF SerialLine, ProgramSame
  <1>4. CASE SerialIntr
    <2>1. Head(serial) \in Char /\ serial' \in Seq(Char)
      BY <1>4 DEF SerialIntr, RingOK
    <2>2. QED
      BY <1>4, <2>1, ConsIntrRing DEF SerialIntr
  <1>5. CASE SerialEmpty \/ Reboot \/ KbdEmpty \/ Readline
    BY <1>1, <1>5 DEF SerialEmpty, Reboot, KbdEmpty, Readline, RingOK
  <1>6. CASE KbdIntr
    <2>1. Pressed.ch \in Char
      BY KbdGivesChar DEF Pressed
    <2>2. serial' \in Seq(Char)
      BY <1>6 DEF KbdIntr, RingOK
    <2>3. QED
      BY <1>6, <2>1, <2>2, ConsIntrRing DEF KbdIntr
  <1>7. CASE Take
    <2>0. serial' \in Seq(Char) /\ UNCHANGED <<buf, wpos>>
      BY <1>7 DEF Take, RingOK
    <2>1. CASE Waiting
      <3>1. rpos # wpos /\ rpos' = (rpos + 1) % CONSBUFSIZE
        BY <1>7, <2>1 DEF Take, Waiting
      <3>2. rpos' \in 0 .. N - 1
        BY <1>0, <3>1, RingArithmetic DEF N
      <3>3. RingOK'
        BY <2>0, <3>2 DEF RingOK
      <3>4. QED
        BY <2>0, <3>1, <3>3, GetRing DEF Queue!Next
    <2>2. CASE ~Waiting
      BY <1>1, <1>7, <2>0, <2>2 DEF Take
    <2>3. QED
      BY <2>1, <2>2
  <1>8. CASE UNCHANGED vars
    BY <1>1, <1>8 DEF vars, RingOK
  <1>9. CASE MouseByte
    BY <1>1, <1>9 DEF MouseByte, ProgramSame, RingOK
  <1>10. QED
    BY <1>2, <1>3, <1>4, <1>5, <1>6, <1>7, <1>8, <1>9 DEF Next, Program

\* The ring of console.c implements a queue, for a ring of any size: characters
\* come out in the order they went in, each once, and a full ring that gets one
\* more is empty again.
THEOREM RingImplementsQueue == Spec => RingIsQueue
  <1>1. Init => RingOK /\ Queue!Init
    <2> SUFFICES ASSUME Init PROVE RingOK /\ Queue!Init
      OBVIOUS
    <2>1. RingOK
      BY RingSize DEF Init, RingOK, Char, N
    <2>2. Len(Contents) = 0 /\ Contents \in Seq(Char)
      BY <2>1, ContentsNow, RingSize DEF Init, Held
    <2>3. QED
      BY <2>1, <2>2 DEF Queue!Init
  <1>2. RingOK /\ [Next]_vars => RingOK' /\ [Queue!Next]_Contents
    BY RingStep
  <1>3. QED
    BY <1>1, <1>2, PTL DEF Spec, RingIsQueue, Queue!Spec

-----------------------------------------------------------------------------
(* The screen shows the line *)

\* The screen has more cells than the line buffer and a row together.
LEMMA ScreenSize ==
    /\ CRT_SIZE \in Nat \ {0} /\ CRT_COLS \in Nat \ {0} /\ BUFLEN \in Nat \ {0}
    /\ BUFLEN < CRT_SIZE - CRT_COLS
  <1>1. CRT_SIZE \in Nat
    BY ConsoleAssumption DEF CRT_SIZE
  <1>2. QED
    BY <1>1, ConsoleAssumption

\* On the screen b the prompt and the line l end before position p, and there
\* is nothing from p on; p is CRT_SIZE when the screen is about to scroll.
Blank(b, p) ==
    /\ b \in [0 .. CRT_SIZE - 1 -> Char] /\ p \in 0 .. CRT_SIZE
    /\ \A q \in p .. CRT_SIZE - 1 : b[q] = SPACE

Text(b, p, l) ==
    /\ Blank(b, p)
    /\ l \in Seq(Char) /\ Len(l) < BUFLEN
    /\ p >= Len(l) + 1
    /\ \A i \in 1 .. Len(l) : b[p - Len(l) + i - 1] = l[i]
    /\ b[p - Len(l) - 1] = PROMPT

\* What a full screen becomes when it scrolls: a row up, and a blank row.
Scrolled(b) ==
    [i \in 0 .. CRT_SIZE - 1 |->
       IF i < CRT_SIZE - CRT_COLS THEN b[i + CRT_COLS] ELSE SPACE]

\* The screen scrolls when the cursor has left it.
LEMMA ScrollUp ==
  ASSUME NEW b, NEW p, ~(p < CRT_SIZE), NEW s, s = Scroll([buf |-> b, pos |-> p])
  PROVE  s.buf = Scrolled(b) /\ s.pos = p - CRT_COLS
  BY DEF Scroll, Scrolled

\* Scrolling moves prompt, line and cursor together and keeps all of the line.
LEMMA ScrollKeeps ==
  ASSUME NEW b, NEW p, NEW l, Text(b, p, l),
         NEW s, s = Scroll([buf |-> b, pos |-> p])
  PROVE  Text(s.buf, s.pos, l) /\ s.pos < CRT_SIZE
  <1>0. /\ b \in [0 .. CRT_SIZE - 1 -> Char] /\ p \in 0 .. CRT_SIZE
        /\ \A q \in p .. CRT_SIZE - 1 : b[q] = SPACE
        /\ Len(l) \in Nat /\ Len(l) < BUFLEN /\ p >= Len(l) + 1
        /\ \A i \in 1 .. Len(l) : b[p - Len(l) + i - 1] = l[i]
        /\ b[p - Len(l) - 1] = PROMPT /\ l \in Seq(Char)
    BY DEF Text, Blank
  <1>1. CASE p < CRT_SIZE
    BY <1>1 DEF Scroll
  <1>2. CASE ~(p < CRT_SIZE)
    <2> DEFINE b2 == Scrolled(b)
               p2 == p - CRT_COLS
    <2>1. s.buf = b2 /\ s.pos = p2
      BY <1>2, ScrollUp
    <2>2. p = CRT_SIZE
      BY <1>0, <1>2, ScreenSize
    <2>3. b2 \in [0 .. CRT_SIZE - 1 -> Char]
      BY <1>0, ScreenSize DEF Char, SPACE, Scrolled
    <2>4. \A i \in 0 .. p2 - 1 : b2[i] = b[i + CRT_COLS]
      BY <2>2, ScreenSize DEF Scrolled
    <2>5. \A q \in p2 .. CRT_SIZE - 1 : b2[q] = SPACE
      BY <2>2, ScreenSize DEF Scrolled
    <2>6. p2 \in 0 .. CRT_SIZE /\ p2 < CRT_SIZE /\ p2 >= Len(l) + 1
      BY <1>0, <2>2, ScreenSize
    <2> HIDE DEF b2
    <2>7. ASSUME NEW i \in 1 .. Len(l) PROVE b2[p2 - Len(l) + i - 1] = l[i]
      <3>1. /\ p2 - Len(l) + i - 1 \in 0 .. p2 - 1
            /\ p2 - Len(l) + i - 1 + CRT_COLS = p - Len(l) + i - 1
        BY <1>0, <2>6, ScreenSize
      <3>2. QED
        BY <1>0, <2>4, <3>1
    <2>8. b2[p2 - Len(l) - 1] = PROMPT
      <3>1. /\ p2 - Len(l) - 1 \in 0 .. p2 - 1
            /\ p2 - Len(l) - 1 + CRT_COLS = p - Len(l) - 1
        BY <1>0, <2>6, ScreenSize
      <3>2. QED
        BY <1>0, <2>4, <3>1
    <2>9. QED
      BY <1>0, <2>1, <2>3, <2>5, <2>6, <2>7, <2>8 DEF Text, Blank
  <1>3. QED
    BY <1>1, <1>2

\* A character of the line is echoed where the line ends.
LEMMA WriteKeeps ==
  ASSUME NEW b, NEW p, NEW l, Text(b, p, l), p < CRT_SIZE, Len(l) + 1 < BUFLEN,
         NEW ch \in Char, NEW s, s = Write([buf |-> b, pos |-> p], ch)
  PROVE  Text(s.buf, s.pos, Append(l, ch)) /\ s.pos < CRT_SIZE
  <1> DEFINE b2 == [b EXCEPT ![p] = ch]
             m == Append(l, ch)
  <1>0. /\ b \in [0 .. CRT_SIZE - 1 -> Char] /\ p \in 0 .. CRT_SIZE - 1
        /\ \A q \in p .. CRT_SIZE - 1 : b[q] = SPACE
        /\ Len(l) \in Nat /\ Len(l) < BUFLEN /\ p >= Len(l) + 1
        /\ \A i \in 1 .. Len(l) : b[p - Len(l) + i - 1] = l[i]
        /\ b[p - Len(l) - 1] = PROMPT /\ l \in Seq(Char)
    BY ScreenSize DEF Text, Blank
  <1>1. /\ m \in Seq(Char) /\ Len(m) = Len(l) + 1 /\ m[Len(l) + 1] = ch
        /\ \A i \in 1 .. Len(l) : m[i] = l[i]
    BY <1>0
  <1>2. /\ b2 \in [0 .. CRT_SIZE - 1 -> Char] /\ b2[p] = ch
        /\ \A q \in 0 .. CRT_SIZE - 1 : q # p => b2[q] = b[q]
    BY <1>0
  <1> HIDE DEF b2, m
  <1>3. Blank(b2, p + 1)
    <2>1. p + 1 \in 0 .. CRT_SIZE
          /\ \A q \in p + 1 .. CRT_SIZE - 1 : q \in p .. CRT_SIZE - 1 /\ q \in 0 .. CRT_SIZE - 1 /\ q # p
      BY <1>0, ScreenSize
    <2>2. QED
      BY <1>0, <1>2, <2>1 DEF Blank
  <1>4. ASSUME NEW i \in 1 .. Len(m) PROVE b2[(p + 1) - Len(m) + i - 1] = m[i]
    <2>1. CASE i = Len(l) + 1
      <3>1. (p + 1) - Len(m) + i - 1 = p
        BY <1>0, <1>1, <2>1
      <3>2. QED
        BY <1>1, <1>2, <2>1, <3>1
    <2>2. CASE i # Len(l) + 1
      <3>1. /\ i \in 1 .. Len(l) /\ (p + 1) - Len(m) + i - 1 = p - Len(l) + i - 1
            /\ p - Len(l) + i - 1 \in 0 .. CRT_SIZE - 1 /\ p - Len(l) + i - 1 # p
        BY <1>0, <1>1, <2>2, ScreenSize
      <3>2. QED
        BY <1>0, <1>1, <1>2, <3>1
    <2>3. QED
      BY <2>1, <2>2
  <1>5. b2[(p + 1) - Len(m) - 1] = PROMPT
    <2>1. /\ (p + 1) - Len(m) - 1 = p - Len(l) - 1
          /\ p - Len(l) - 1 \in 0 .. CRT_SIZE - 1 /\ p - Len(l) - 1 # p
      BY <1>0, <1>1, ScreenSize
    <2>2. QED
      BY <1>0, <1>2, <2>1
  <1>6. Len(m) < BUFLEN /\ p + 1 >= Len(m) + 1
    BY <1>0, <1>1
  <1>7. Text(b2, p + 1, m)
    <2>1. \A i \in 1 .. Len(m) : b2[(p + 1) - Len(m) + i - 1] = m[i]
      BY <1>4
    <2>2. QED
      BY <1>1, <1>3, <1>5, <1>6, <2>1, Zenon DEF Text
  <1>8. s = Scroll([buf |-> b2, pos |-> p + 1])
    BY DEF Write, b2
  <1>9. QED
    BY <1>7, <1>8, ScrollKeeps DEF m

\* On a blank rest of the screen the prompt starts an empty line.
LEMMA PromptShown ==
  ASSUME NEW b, NEW p, Blank(b, p), p < CRT_SIZE,
         NEW s, s = Write([buf |-> b, pos |-> p], PROMPT)
  PROVE  Text(s.buf, s.pos, <<>>) /\ s.pos < CRT_SIZE
  <1> DEFINE b2 == [b EXCEPT ![p] = PROMPT]
  <1>0. /\ b \in [0 .. CRT_SIZE - 1 -> Char] /\ p \in 0 .. CRT_SIZE - 1
        /\ \A q \in p .. CRT_SIZE - 1 : b[q] = SPACE /\ PROMPT \in Char
    BY ScreenSize DEF Blank, PROMPT, Char
  <1>2. /\ b2 \in [0 .. CRT_SIZE - 1 -> Char] /\ b2[p] = PROMPT
        /\ \A q \in 0 .. CRT_SIZE - 1 : q # p => b2[q] = b[q]
    BY <1>0
  <1> HIDE DEF b2
  <1>3. Blank(b2, p + 1)
    <2>1. p + 1 \in 0 .. CRT_SIZE
          /\ \A q \in p + 1 .. CRT_SIZE - 1 : q \in p .. CRT_SIZE - 1 /\ q \in 0 .. CRT_SIZE - 1 /\ q # p
      BY <1>0, ScreenSize
    <2>2. QED
      BY <1>0, <1>2, <2>1 DEF Blank
  <1>4. Len(<<>>) = 0 /\ <<>> \in Seq(Char) /\ (p + 1) - 0 - 1 = p /\ p + 1 >= 0 + 1 /\ 0 < BUFLEN
    BY <1>0, ScreenSize
  <1>5. Text(b2, p + 1, <<>>)
    <2>1. \A i \in 1 .. Len(<<>>) : b2[(p + 1) - Len(<<>>) + i - 1] = <<>>[i]
      BY <1>4
    <2>2. b2[(p + 1) - Len(<<>>) - 1] = PROMPT
      BY <1>2, <1>4, Zenon
    <2>3. p + 1 >= Len(<<>>) + 1 /\ Len(<<>>) < BUFLEN
      BY <1>4, Zenon
    <2>4. QED
      BY <1>3, <1>4, <2>1, <2>2, <2>3, Zenon DEF Text
  <1>6. s = Scroll([buf |-> b2, pos |-> p + 1])
    BY DEF Write, b2
  <1>7. QED
    BY <1>5, <1>6, ScrollKeeps

\* A backspace erases the last character of the line and nothing else.
LEMMA EraseKeeps ==
  ASSUME NEW b, NEW p, NEW l, Text(b, p, l), p < CRT_SIZE, l # <<>>,
         NEW s, s = CgaPutc([buf |-> b, pos |-> p], BS)
  PROVE  Text(s.buf, s.pos, Front(l)) /\ s.pos < CRT_SIZE
  <1> DEFINE b2 == [b EXCEPT ![p - 1] = SPACE]
             m == Front(l)
  <1>0. /\ b \in [0 .. CRT_SIZE - 1 -> Char] /\ p \in 0 .. CRT_SIZE - 1
        /\ \A q \in p .. CRT_SIZE - 1 : b[q] = SPACE
        /\ Len(l) \in Nat /\ Len(l) < BUFLEN /\ p >= Len(l) + 1
        /\ \A i \in 1 .. Len(l) : b[p - Len(l) + i - 1] = l[i]
        /\ b[p - Len(l) - 1] = PROMPT /\ l \in Seq(Char) /\ Len(l) >= 1
    BY ScreenSize DEF Text, Blank
  <1>1. /\ m \in Seq(Char) /\ Len(m) = Len(l) - 1
        /\ \A i \in 1 .. Len(l) - 1 : m[i] = l[i]
    <2>1. m = [i \in 1 .. Len(l) - 1 |-> l[i]]
      BY DEF Front
    <2>2. QED
      BY <1>0, <2>1
  <1>2. /\ b2 \in [0 .. CRT_SIZE - 1 -> Char] /\ b2[p - 1] = SPACE
        /\ \A q \in 0 .. CRT_SIZE - 1 : q # p - 1 => b2[q] = b[q]
    <2>1. SPACE \in Char /\ p - 1 \in 0 .. CRT_SIZE - 1
      BY <1>0, ScreenSize DEF SPACE, Char
    <2>2. QED
      BY <1>0, <2>1
  <1>3. s = [buf |-> b2, pos |-> p - 1]
    BY <1>0 DEF CgaPutc, BS, NL, CR, TAB
  <1> HIDE DEF b2, m
  <1>4. Blank(b2, p - 1)
    <2>1. /\ p - 1 \in 0 .. CRT_SIZE
          /\ \A q \in p - 1 .. CRT_SIZE - 1 : q = p - 1 \/ (q \in p .. CRT_SIZE - 1 /\ q \in 0 .. CRT_SIZE - 1 /\ q # p - 1)
      BY <1>0, ScreenSize
    <2>2. QED
      BY <1>0, <1>2, <2>1 DEF Blank
  <1>5. ASSUME NEW i \in 1 .. Len(m) PROVE b2[p - 1 - Len(m) + i - 1] = m[i]
    <2>1. /\ i \in 1 .. Len(l) /\ p - 1 - Len(m) + i - 1 = p - Len(l) + i - 1
          /\ p - Len(l) + i - 1 \in 0 .. CRT_SIZE - 1 /\ p - Len(l) + i - 1 # p - 1
      BY <1>0, <1>1, ScreenSize
    <2>2. QED
      BY <1>0, <1>1, <1>2, <2>1
  <1>6. b2[p - 1 - Len(m) - 1] = PROMPT
    <2>1. /\ p - 1 - Len(m) - 1 = p - Len(l) - 1
          /\ p - Len(l) - 1 \in 0 .. CRT_SIZE - 1 /\ p - Len(l) - 1 # p - 1
      BY <1>0, <1>1, ScreenSize
    <2>2. QED
      BY <1>0, <1>2, <2>1
  <1>7. Len(m) < BUFLEN /\ p - 1 >= Len(m) + 1 /\ p - 1 < CRT_SIZE
    BY <1>0, <1>1, ScreenSize
  <1>8. Text(b2, p - 1, m)
    BY <1>1, <1>4, <1>5, <1>6, <1>7 DEF Text
  <1>9. QED
    BY <1>3, <1>7, <1>8 DEF m

\* A newline moves to a row with nothing on it.
LEMMA NewlineBlank ==
  ASSUME NEW b, NEW p, Blank(b, p), p < CRT_SIZE,
         NEW s, s = CgaPutc([buf |-> b, pos |-> p], NL)
  PROVE  Blank(s.buf, s.pos) /\ s.pos < CRT_SIZE
  <1> DEFINE t == LineStart(p + CRT_COLS)
  <1>0. /\ b \in [0 .. CRT_SIZE - 1 -> Char] /\ p \in 0 .. CRT_SIZE - 1
        /\ \A q \in p .. CRT_SIZE - 1 : b[q] = SPACE
    BY ScreenSize DEF Blank
  <1>1. t \in p + 1 .. p + CRT_COLS
    <2>1. p + CRT_COLS \in Int /\ CRT_COLS \in Nat \ {0}
      BY <1>0, ScreenSize
    <2>2. (p + CRT_COLS) % CRT_COLS \in 0 .. CRT_COLS - 1
      BY <2>1
    <2>3. QED
      BY <1>0, <2>1, <2>2 DEF LineStart
  <1>2. s = Scroll([buf |-> b, pos |-> t])
    BY DEF CgaPutc, BS, NL, CR, TAB
  <1> HIDE DEF t
  <1>3. CASE t < CRT_SIZE
    <2>1. s.buf = b /\ s.pos = t
      BY <1>2, <1>3 DEF Scroll
    <2>2. t \in 0 .. CRT_SIZE /\ \A q \in t .. CRT_SIZE - 1 : q \in p .. CRT_SIZE - 1
      BY <1>0, <1>1, <1>3, ScreenSize
    <2>3. QED
      BY <1>0, <1>3, <2>1, <2>2 DEF Blank
  <1>4. CASE ~(t < CRT_SIZE)
    <2> DEFINE b2 == Scrolled(b)
    <2>1. s.buf = b2 /\ s.pos = t - CRT_COLS
      BY <1>2, <1>4, ScrollUp
    <2>2. b2 \in [0 .. CRT_SIZE - 1 -> Char]
      BY <1>0, ScreenSize DEF Char, SPACE, Scrolled
    <2>3. t - CRT_COLS \in 0 .. CRT_SIZE - 1
      BY <1>0, <1>1, <1>4, ScreenSize
    <2>4. \A q \in t - CRT_COLS .. CRT_SIZE - 1 :
             q \in 0 .. CRT_SIZE - 1
             /\ (q < CRT_SIZE - CRT_COLS => q + CRT_COLS \in p .. CRT_SIZE - 1)
      BY <1>0, <1>1, <1>4, ScreenSize
    <2>5. \A q \in t - CRT_COLS .. CRT_SIZE - 1 : b2[q] = SPACE
      BY <1>0, <2>4 DEF Scrolled
    <2>6. QED
      <3>1. t - CRT_COLS \in 0 .. CRT_SIZE /\ t - CRT_COLS < CRT_SIZE
        BY <2>3, ScreenSize
      <3>2. QED
        BY <2>1, <2>2, <2>5, <3>1 DEF Blank
  <1>5. QED
    BY <1>3, <1>4

-----------------------------------------------------------------------------
(* No modifier is stuck *)

Mod == {"SHIFT", "CTL", "ALT"}
Flags == Mod \cup {"CAPSLOCK", "E0ESC"}
Code == 0 .. 255

\* The modifiers a scan code turns on or off, with 0xE0 before it or not.
Make(d, e0) == IF d < 128 THEN ShiftCode(IF e0 THEN d + 128 ELSE d) ELSE {}
Break(d, e0) == IF d >= 128 /\ d # E0
                THEN ShiftCode(IF e0 THEN d ELSE d - 128) ELSE {}

\* Of the unread codes sc, under the flags fl: whether code j follows 0xE0, and
\* what it turns on and off.  Code 0 stands for the flags that are on already.
Esc(sc, fl, j) == IF j = 1 THEN "E0ESC" \in fl ELSE sc[j - 1] = E0
Makes(sc, fl, j) ==
    IF j = 0 THEN fl \cap Mod ELSE Make(sc[j], Esc(sc, fl, j))
Breaks(sc, fl, j) == Break(sc[j], Esc(sc, fl, j))

Down(f) == \E k \in held : f \in MadeBy(k)

\* A modifier that will be on once all codes are read has a key that is down;
\* and no 0xE0 is left without its code.
Settled(sc, fl) ==
    IF sc = <<>> THEN "E0ESC" \notin fl ELSE sc[Len(sc)] # E0

LeftOn(sc, fl, f) ==
    \E j \in 0 .. Len(sc) :
       /\ f \in Makes(sc, fl, j)
       /\ \A i \in j + 1 .. Len(sc) : f \notin Breaks(sc, fl, i)

ModifierInv ==
    /\ held \subseteq Keys
    /\ scan \in Seq(Code) /\ shift \subseteq Flags
    /\ Settled(scan, shift)
    /\ \A f \in Mod : LeftOn(scan, shift, f) => Down(f)

\* The codes that name modifiers.
LEMMA ShiftCodes ==
  ASSUME NEW d
  PROVE  ShiftCode(d) \subseteq Mod
  BY DEF ShiftCode, Mod

\* kbd_proc_data: 0xE0 is remembered for one code, and a modifier that is on
\* afterwards was made by this code or was on and not released by it.
LEMMA KbdFlags ==
  ASSUME NEW fl \in SUBSET Flags, NEW d \in Code
  PROVE  /\ KbdProcData(fl, d).flags \subseteq Flags
         /\ "E0ESC" \in KbdProcData(fl, d).flags <=> d = E0
         /\ \A f \in Mod : f \in KbdProcData(fl, d).flags =>
               \/ f \in Make(d, "E0ESC" \in fl)
               \/ f \in fl /\ f \notin Break(d, "E0ESC" \in fl)
  <1> DEFINE e0 == "E0ESC" \in fl
             up == IF e0 THEN d ELSE d - 128
             down == IF e0 THEN d + 128 ELSE d
             r == KbdProcData(fl, d).flags
  <1>1. CASE d = E0
    <2>1. r = fl \cup {"E0ESC"}
      BY <1>1 DEF KbdProcData
    <2>2. Break(d, e0) = {}
      BY <1>1 DEF Break
    <2>3. QED
      BY <1>1, <2>1, <2>2 DEF Flags, Mod
  <1>2. CASE d # E0 /\ d >= 128
    <2>1. r = fl \ (ShiftCode(up) \cup {"E0ESC"})
      BY <1>2 DEF KbdProcData, Released
    <2>2. Break(d, e0) = ShiftCode(up)
      BY <1>2 DEF Break
    <2>3. QED
      BY <1>2, <2>1, <2>2, Zenon
  <1>3. CASE d # E0 /\ ~(d >= 128)
    <2>1. r = SymDiff((fl \ {"E0ESC"}) \cup ShiftCode(down), ToggleCode(down))
      BY <1>3 DEF KbdProcData
    <2>2. Make(d, e0) = ShiftCode(down) /\ Break(d, e0) = {}
      BY <1>3 DEF Make, Break, Code
    <2>3. ToggleCode(down) \subseteq {"CAPSLOCK"}
      BY DEF ToggleCode
    <2>4. ShiftCode(down) \subseteq Mod
      BY ShiftCodes
    <2> HIDE DEF up, down
    <2>5. \A f : f \in r =>
             (f \in fl /\ f # "E0ESC") \/ f \in ShiftCode(down) \/ f = "CAPSLOCK"
      BY <2>1, <2>3 DEF SymDiff
    <2> HIDE DEF r, e0
    <2>6. r \subseteq Flags
      BY <2>4, <2>5 DEF Flags
    <2>7. "E0ESC" \notin r
      BY <2>4, <2>5 DEF Mod
    <2>8. \A f \in Mod : f \in r => f \in Make(d, e0) \/ (f \in fl /\ f \notin Break(d, e0))
      BY <2>2, <2>5 DEF Mod
    <2>9. QED
      BY <1>3, <2>6, <2>7, <2>8 DEF r, e0
  <1>4. QED
    BY <1>1, <1>2, <1>3

\* The codes a key sends when it is pressed and when it is released.
KeyCode(k, d, pre) == k = IF pre THEN <<E0, d>> ELSE <<d>>

\* Every key sends such codes, and they make and release that key.
LEMMA KeyCodes ==
  ASSUME NEW k \in Keys
  PROVE  \E d \in 1 .. 127, pre \in BOOLEAN :
            /\ d + 128 # E0
            /\ KeyCode(k, d, pre)
            /\ KeyCode([k EXCEPT ![Len(k)] = @ + 128], d + 128, pre)
            /\ MadeBy(k) = Make(d, pre) /\ MadeBy(k) = Break(d + 128, pre)
  <1>1. PICK d \in 1 .. 127 : d # 96 /\ (k = <<d>> \/ k = <<224, d>>)
    BY InputAssumption
  <1>2. d + 128 # E0 /\ d < 128 /\ d + 128 >= 128 /\ d + 128 - 128 = d
    BY <1>1 DEF E0
  <1>3. CASE k = <<d>>
    <2>1. Len(k) = 1 /\ k[1] = d
      BY <1>3
    <2>2. [k EXCEPT ![1] = @ + 128] = <<d + 128>>
      BY <1>3
    <2>3. MadeBy(k) = ShiftCode(d)
      BY <2>1 DEF MadeBy
    <2>4. Make(d, FALSE) = ShiftCode(d) /\ Break(d + 128, FALSE) = ShiftCode(d)
      BY <1>2 DEF Make, Break
    <2>5. KeyCode(k, d, FALSE) /\ KeyCode([k EXCEPT ![Len(k)] = @ + 128], d + 128, FALSE)
      BY <1>3, <2>1, <2>2 DEF KeyCode
    <2>6. QED
      BY <1>2, <2>3, <2>4, <2>5
  <1>4. CASE k = <<224, d>>
    <2>1. Len(k) = 2 /\ k[2] = d
      BY <1>4
    <2>2. [k EXCEPT ![2] = @ + 128] = <<224, d + 128>>
      BY <1>4
    <2>3. MadeBy(k) = ShiftCode(d + 128)
      BY <2>1 DEF MadeBy
    <2>4. Make(d, TRUE) = ShiftCode(d + 128) /\ Break(d + 128, TRUE) = ShiftCode(d + 128)
      BY <1>2 DEF Make, Break
    <2>5. KeyCode(k, d, TRUE) /\ KeyCode([k EXCEPT ![Len(k)] = @ + 128], d + 128, TRUE)
      BY <1>4, <2>1, <2>2 DEF KeyCode, E0
    <2>6. QED
      BY <1>2, <2>3, <2>4, <2>5
  <1>5. QED
    BY <1>1, <1>3, <1>4

\* The sequence t has after the unread codes sc those of one more key event.
Appended(sc, fl, d, pre, k, t) ==
    /\ sc \in Seq(Code) /\ fl \subseteq Flags /\ Settled(sc, fl)
    /\ d \in Code /\ d # E0 /\ pre \in BOOLEAN /\ KeyCode(k, d, pre)
    /\ t = sc \o k

\* A key's codes put after the unread ones leave what those do alone, and do
\* themselves what the key does.
LEMMA CodesAppended ==
  ASSUME NEW sc, NEW fl, NEW d, NEW pre, NEW k, NEW t, Appended(sc, fl, d, pre, k, t)
  PROVE  /\ t \in Seq(Code) /\ Settled(t, fl) /\ Len(t) > Len(sc)
         /\ \A j \in 0 .. Len(sc) : Makes(t, fl, j) = Makes(sc, fl, j)
         /\ \A j \in 1 .. Len(sc) : Breaks(t, fl, j) = Breaks(sc, fl, j)
         /\ \A j \in Len(sc) + 1 .. Len(t) - 1 : Makes(t, fl, j) = {}
         /\ Makes(t, fl, Len(t)) = Make(d, pre)
         /\ Breaks(t, fl, Len(t)) = Break(d, pre)
  <1> DEFINE L == Len(sc)
             L2 == Len(t)
  <1> USE DEF Appended
  <1>0. L \in Nat
    OBVIOUS
  <1>1. /\ t \in Seq(Code) /\ L2 = L + (IF pre THEN 2 ELSE 1)
        /\ \A i \in 1 .. L : t[i] = sc[i]
        /\ t[L2] = d
        /\ pre => t[L + 1] = E0
    <2>1. CASE pre
      <3>1. k = <<E0, d>> /\ E0 \in Code
        BY <2>1 DEF KeyCode, E0, Code
      <3>2. QED
        BY <2>1, <3>1
    <2>2. CASE ~pre
      <3>1. k = <<d>>
        BY <2>2 DEF KeyCode
      <3>2. QED
        BY <2>2, <3>1
    <2>3. QED
      BY <2>1, <2>2
  <1>2. \A j \in 1 .. L : Esc(t, fl, j) = Esc(sc, fl, j)
    <2>1. \A j \in 1 .. L : j # 1 => j - 1 \in 1 .. L
      BY <1>0
    <2>2. QED
      BY <1>1, <2>1 DEF Esc
  <1>3. Esc(t, fl, L2) = pre
    <2>1. CASE pre
      <3>1. L2 # 1 /\ L2 - 1 = L + 1
        BY <1>0, <1>1, <2>1
      <3>2. QED
        BY <1>1, <2>1, <3>1 DEF Esc
    <2>2. CASE ~pre /\ sc = <<>>
      <3>1. L2 = 1 /\ "E0ESC" \notin fl
        BY <1>1, <2>2 DEF Settled
      <3>2. QED
        BY <2>2, <3>1 DEF Esc
    <2>3. CASE ~pre /\ sc # <<>>
      <3>1. L2 # 1 /\ L2 - 1 = L /\ L \in 1 .. L
        BY <1>0, <1>1, <2>3
      <3>2. t[L] # E0
        BY <1>1, <2>3, <3>1 DEF Settled
      <3>3. QED
        BY <2>3, <3>1, <3>2 DEF Esc
    <2>4. QED
      BY <2>1, <2>2, <2>3
  <1> HIDE DEF L, L2
  <1>4. L2 > L /\ L2 # 0 /\ L2 \in Nat
    BY <1>0, <1>1
  <1>5. Settled(t, fl)
    BY <1>1, <1>4 DEF Settled, L2
  <1>6. \A j \in 0 .. L : Makes(t, fl, j) = Makes(sc, fl, j)
    <2>1. \A j \in 0 .. L : j = 0 \/ j \in 1 .. L
      BY <1>0
    <2>2. QED
      BY <1>1, <1>2, <2>1 DEF Makes
  <1>7. \A j \in 1 .. L : Breaks(t, fl, j) = Breaks(sc, fl, j)
    BY <1>1, <1>2 DEF Breaks
  <1>8. ASSUME NEW j \in L + 1 .. L2 - 1 PROVE Makes(t, fl, j) = {}
    <2>1. j = L + 1 /\ pre /\ j # 0
      BY <1>0, <1>1
    <2>2. t[j] = E0
      BY <1>1, <2>1
    <2>3. QED
      BY <2>1, <2>2 DEF Makes, Make, E0
  <1>9. Makes(t, fl, L2) = Make(d, pre) /\ Breaks(t, fl, L2) = Break(d, pre)
    BY <1>1, <1>3, <1>4 DEF Makes, Breaks
  <1>10. QED
    BY <1>1, <1>4, <1>5, <1>6, <1>7, <1>8, <1>9 DEF L, L2

\* So a modifier is left on by the longer sequence only if the key makes it, or
\* if it was left on before and the key does not break it.
LEMMA LeftOnAppended ==
  ASSUME NEW sc, NEW fl, NEW d, NEW pre, NEW k, NEW t, Appended(sc, fl, d, pre, k, t),
         NEW f \in Mod, LeftOn(t, fl, f)
  PROVE  f \in Make(d, pre) \/ (LeftOn(sc, fl, f) /\ f \notin Break(d, pre))
  <1> DEFINE L == Len(sc)
             L2 == Len(t)
  <1>1. /\ t \in Seq(Code) /\ L2 > L
        /\ \A j \in 0 .. L : Makes(t, fl, j) = Makes(sc, fl, j)
        /\ \A j \in 1 .. L : Breaks(t, fl, j) = Breaks(sc, fl, j)
        /\ \A j \in L + 1 .. L2 - 1 : Makes(t, fl, j) = {}
        /\ Makes(t, fl, L2) = Make(d, pre) /\ Breaks(t, fl, L2) = Break(d, pre)
    BY CodesAppended
  <1>2. L \in Nat /\ L2 \in Nat
    BY <1>1 DEF Appended
  <1>3. PICK j \in 0 .. L2 : /\ f \in Makes(t, fl, j)
                             /\ \A i \in j + 1 .. L2 : f \notin Breaks(t, fl, i)
    BY DEF LeftOn
  <1> HIDE DEF L, L2
  <1>4. CASE j \in 0 .. L
    <2>1. L2 \in j + 1 .. L2
      BY <1>1, <1>2, <1>4
    <2>2. f \notin Break(d, pre)
      BY <1>1, <1>3, <2>1
    <2>3. \A i \in j + 1 .. L : i \in 1 .. L /\ i \in j + 1 .. L2
      BY <1>1, <1>2, <1>4
    <2>4. \A i \in j + 1 .. L : f \notin Breaks(sc, fl, i)
      BY <1>1, <1>3, <2>3
    <2>5. f \in Makes(sc, fl, j)
      BY <1>1, <1>3, <1>4
    <2>6. LeftOn(sc, fl, f)
      BY <1>4, <2>4, <2>5 DEF LeftOn, L
    <2>7. QED
      BY <2>2, <2>6
  <1>5. CASE j \in L + 1 .. L2 - 1
    BY <1>1, <1>3, <1>5
  <1>6. CASE j = L2
    BY <1>1, <1>3, <1>6
  <1>7. QED
    BY <1>2, <1>4, <1>5, <1>6

\* Pressing a key: what it makes is made by a key that is down.
LEMMA KeyDownModifiers ==
  ASSUME ModifierInv, NEW k \in Keys, KeyDown(k)
  PROVE  ModifierInv'
  <1>0. /\ held \subseteq Keys /\ scan \in Seq(Code) /\ shift \in SUBSET Flags
        /\ Settled(scan, shift)
        /\ \A f \in Mod : LeftOn(scan, shift, f) => Down(f)
    BY DEF ModifierInv
  <1>1. held' = held \cup {k} /\ scan' = scan \o k /\ shift' = shift
    BY DEF KeyDown, ProgramSame
  <1>2. PICK d \in 1 .. 127, pre \in BOOLEAN :
           d + 128 # E0 /\ KeyCode(k, d, pre) /\ MadeBy(k) = Make(d, pre)
    BY KeyCodes
  <1>3. d \in Code /\ d # E0
    BY DEF Code, E0
  <1>4. PICK t : t = scan \o k
    OBVIOUS
  <1>5. t \in Seq(Code) /\ Settled(t, shift) /\ Appended(scan, shift, d, pre, k, t)
    <2>1. Appended(scan, shift, d, pre, k, t)
      BY <1>0, <1>2, <1>3, <1>4 DEF Appended
    <2>2. QED
      BY <2>1, CodesAppended
  <1>6. ASSUME NEW f \in Mod, LeftOn(t, shift, f) PROVE Down(f)'
    <2>1. f \in Make(d, pre) \/ LeftOn(scan, shift, f)
      BY <1>5, <1>6, LeftOnAppended
    <2>2. CASE f \in Make(d, pre)
      BY <1>1, <1>2, <2>2 DEF Down
    <2>3. CASE LeftOn(scan, shift, f)
      <3>1. Down(f)
        BY <1>0, <2>3
      <3>2. QED
        BY <1>1, <3>1 DEF Down
    <2>4. QED
      BY <2>1, <2>2, <2>3
  <1>7. held' \subseteq Keys /\ scan' = t
    BY <1>0, <1>1, <1>4
  <1>8. QED
    BY <1>0, <1>1, <1>5, <1>6, <1>7 DEF ModifierInv

\* Releasing a key: a modifier it breaks will be off; another has another key.
LEMMA KeyUpModifiers ==
  ASSUME ModifierInv, NEW k \in Keys, KeyUp(k)
  PROVE  ModifierInv'
  <1> DEFINE k2 == [k EXCEPT ![Len(k)] = @ + 128]
  <1>0. /\ held \subseteq Keys /\ scan \in Seq(Code) /\ shift \in SUBSET Flags
        /\ Settled(scan, shift)
        /\ \A f \in Mod : LeftOn(scan, shift, f) => Down(f)
    BY DEF ModifierInv
  <1>1. held' = held \ {k} /\ scan' = scan \o k2 /\ shift' = shift
    BY DEF KeyUp, ProgramSame
  <1>2. PICK d \in 1 .. 127, pre \in BOOLEAN :
           /\ d + 128 # E0 /\ KeyCode(k2, d + 128, pre)
           /\ MadeBy(k) = Break(d + 128, pre)
    BY KeyCodes
  <1> HIDE DEF k2
  <1>3. PICK e \in Code : e = d + 128
    BY DEF Code
  <1>4. e # E0 /\ KeyCode(k2, e, pre) /\ MadeBy(k) = Break(e, pre) /\ Make(e, pre) = {}
    BY <1>2, <1>3 DEF Make
  <1>5. PICK t : t = scan \o k2
    OBVIOUS
  <1>6. t \in Seq(Code) /\ Settled(t, shift) /\ Appended(scan, shift, e, pre, k2, t)
    <2>1. Appended(scan, shift, e, pre, k2, t)
      BY <1>0, <1>2, <1>4, <1>5 DEF Appended
    <2>2. QED
      BY <2>1, CodesAppended
  <1>7. ASSUME NEW f \in Mod, LeftOn(t, shift, f) PROVE Down(f)'
    <2>1. LeftOn(scan, shift, f) /\ f \notin MadeBy(k)
      BY <1>4, <1>6, <1>7, LeftOnAppended
    <2>2. PICK g \in held : f \in MadeBy(g)
      BY <1>0, <2>1 DEF Down
    <2>3. QED
      BY <1>1, <2>1, <2>2 DEF Down
  <1>8. held' \subseteq Keys /\ scan' = t
    BY <1>0, <1>1, <1>5
  <1>9. QED
    BY <1>0, <1>1, <1>6, <1>7, <1>8 DEF ModifierInv

\* kbd_proc_data on a code: it does what was foreseen when the code was unread.
LEMMA KbdModifiers ==
  ASSUME ModifierInv, scan # <<>>, scan' = Tail(scan),
         shift' = KbdProcData(shift, Head(scan)).flags, held' = held
  PROVE  ModifierInv'
  <1> DEFINE d == Head(scan)
             sc == Tail(scan)
             fl == KbdProcData(shift, d).flags
             L == Len(scan)
  <1>0. /\ held \subseteq Keys /\ scan \in Seq(Code) /\ shift \in SUBSET Flags
        /\ Settled(scan, shift)
        /\ \A f \in Mod : LeftOn(scan, shift, f) => Down(f)
    BY DEF ModifierInv
  <1>1. /\ d \in Code /\ sc \in Seq(Code) /\ L \in Nat \ {0} /\ Len(sc) = L - 1
        /\ d = scan[1] /\ \A j \in 1 .. L - 1 : sc[j] = scan[j + 1]
    BY <1>0
  <1>2. /\ fl \subseteq Flags /\ ("E0ESC" \in fl <=> d = E0)
        /\ \A f \in Mod : f \in fl =>
              \/ f \in Make(d, "E0ESC" \in shift)
              \/ f \in shift /\ f \notin Break(d, "E0ESC" \in shift)
    BY <1>0, <1>1, KbdFlags
  <1> HIDE DEF d, sc, fl, L
  <1>3. \A j \in 1 .. L - 1 : Esc(sc, fl, j) = Esc(scan, shift, j + 1)
    <2>1. ASSUME NEW j \in 1 .. L - 1 PROVE Esc(sc, fl, j) = Esc(scan, shift, j + 1)
      <3>1. CASE j = 1
        <4>1. j + 1 # 1 /\ j + 1 - 1 = 1
          BY <3>1
        <4>2. QED
          BY <1>1, <1>2, <3>1, <4>1 DEF Esc
      <3>2. CASE j # 1
        <4>1. j + 1 # 1 /\ j + 1 - 1 = j /\ j - 1 \in 1 .. L - 1 /\ j - 1 + 1 = j
          BY <1>1, <3>2
        <4>2. sc[j - 1] = scan[j]
          BY <1>1, <4>1
        <4>3. QED
          BY <3>2, <4>1, <4>2 DEF Esc
      <3>3. QED
        BY <3>1, <3>2
    <2>2. QED
      BY <2>1
  <1>4. ASSUME NEW j \in 1 .. L - 1
        PROVE  /\ Makes(sc, fl, j) = Makes(scan, shift, j + 1)
               /\ Breaks(sc, fl, j) = Breaks(scan, shift, j + 1)
    <2>1. j # 0 /\ j + 1 # 0
      OBVIOUS
    <2>2. QED
      BY <1>1, <1>3, <2>1 DEF Makes, Breaks
  <1>5. Settled(sc, fl)
    <2>1. CASE L = 1
      <3>1. sc = <<>> /\ scan[Len(scan)] = d
        BY <1>1, <2>1 DEF L
      <3>2. d # E0
        BY <1>0, <3>1 DEF Settled
      <3>3. QED
        BY <1>2, <3>1, <3>2 DEF Settled
    <2>2. CASE L # 1
      <3>1. sc # <<>> /\ Len(sc) \in 1 .. L - 1 /\ Len(sc) + 1 = Len(scan)
        BY <1>1, <2>2 DEF L
      <3>2. sc[Len(sc)] = scan[Len(scan)]
        BY <1>1, <3>1
      <3>3. QED
        BY <1>0, <3>1, <3>2 DEF Settled
    <2>3. QED
      BY <2>1, <2>2
  <1>6. ASSUME NEW f \in Mod, LeftOn(sc, fl, f) PROVE LeftOn(scan, shift, f)
    <2>1. PICK j \in 0 .. L - 1 :
             /\ f \in Makes(sc, fl, j)
             /\ \A i \in j + 1 .. L - 1 : f \notin Breaks(sc, fl, i)
      BY <1>1, <1>6 DEF LeftOn
    <2>2. ASSUME NEW i \in j + 2 .. L PROVE f \notin Breaks(scan, shift, i)
      <3>1. i - 1 \in j + 1 .. L - 1 /\ i - 1 \in 1 .. L - 1 /\ (i - 1) + 1 = i
        BY <1>1, <2>1
      <3>2. QED
        BY <1>4, <2>1, <3>1
    <2>3. ASSUME NEW m \in 0 .. L, f \in Makes(scan, shift, m),
                 \A i \in m + 1 .. L : f \notin Breaks(scan, shift, i)
          PROVE  LeftOn(scan, shift, f)
      BY <2>3 DEF LeftOn, L
    <2>4. CASE j # 0
      <3>1. j \in 1 .. L - 1 /\ j + 1 \in 0 .. L
        BY <1>1, <2>4
      <3>2. f \in Makes(scan, shift, j + 1)
        BY <1>4, <2>1, <3>1
      <3>3. \A i \in (j + 1) + 1 .. L : i \in j + 2 .. L
        BY <3>1
      <3>4. QED
        BY <2>2, <2>3, <3>1, <3>2, <3>3
    <2>5. CASE j = 0
      <3>1. f \in fl
        BY <2>1, <2>5 DEF Makes
      <3>2. CASE f \in Make(d, "E0ESC" \in shift)
        <4>1. f \in Makes(scan, shift, 1)
          BY <1>1, <3>2 DEF Makes, Esc
        <4>2. 1 \in 0 .. L /\ \A i \in 1 + 1 .. L : i \in j + 2 .. L
          BY <1>1, <2>5
        <4>3. QED
          BY <2>2, <2>3, <4>1, <4>2
      <3>3. CASE f \in shift /\ f \notin Break(d, "E0ESC" \in shift)
        <4>1. f \in Makes(scan, shift, 0) /\ f \notin Breaks(scan, shift, 1)
          BY <1>1, <3>3 DEF Makes, Breaks, Esc
        <4>2. 0 \in 0 .. L /\ \A i \in 0 + 1 .. L : i = 1 \/ i \in j + 2 .. L
          BY <1>1, <2>5
        <4>3. QED
          BY <2>2, <2>3, <4>1, <4>2
      <3>4. QED
        BY <1>2, <3>1, <3>2, <3>3
    <2>6. QED
      BY <2>4, <2>5
  <1>7. \A f : Down(f)' = Down(f)
    BY DEF Down
  <1>8. scan' = sc /\ shift' = fl
    BY DEF sc, fl, d
  <1>9. QED
    BY <1>0, <1>1, <1>2, <1>5, <1>6, <1>7, <1>8 DEF ModifierInv

-----------------------------------------------------------------------------
(* The console *)

ScreenInv ==
    c \in Char /\ Text(crt_buf, crt_pos, line) /\ crt_pos < CRT_SIZE

Inv ==
    RingOK /\ ModifierInv /\ ScreenInv /\ events \in 0 .. MAXEVENTS /\ aux \in BOOLEAN

\* Whichever row the BIOS left the cursor on, the prompt is shown.
LEMMA InitScreen ==
  ASSUME Init
  PROVE  ScreenInv
  <1> DEFINE b == [i \in 0 .. CRT_SIZE - 1 |-> SPACE]
  <1>1. PICK row \in 0 .. CRT_ROWS - 1 :
           LET s == CgaPutc([buf |-> b, pos |-> row * CRT_COLS], PROMPT)
           IN  crt_buf = s.buf /\ crt_pos = s.pos
    BY DEF Init
  <1>2. PICK p : p = row * CRT_COLS
    OBVIOUS
  <1>3. p \in 0 .. CRT_SIZE - 1
    <2>1. /\ row \in Nat /\ CRT_COLS \in Nat /\ CRT_ROWS \in Nat /\ row <= CRT_ROWS - 1
          /\ CRT_COLS >= 1
      BY ConsoleAssumption
    <2>2. row * CRT_COLS \in Nat /\ row * CRT_COLS <= (CRT_ROWS - 1) * CRT_COLS
      BY <2>1
    <2>3. (CRT_ROWS - 1) * CRT_COLS = CRT_COLS * CRT_ROWS - CRT_COLS
      BY <2>1
    <2>4. QED
      BY <1>2, <2>1, <2>2, <2>3, ScreenSize DEF CRT_SIZE
  <1>4. Blank(b, p) /\ p < CRT_SIZE
    <2>1. b \in [0 .. CRT_SIZE - 1 -> Char] /\ \A q \in 0 .. CRT_SIZE - 1 : b[q] = SPACE
      BY DEF Char, SPACE
    <2>2. p \in 0 .. CRT_SIZE /\ p < CRT_SIZE
          /\ \A q \in p .. CRT_SIZE - 1 : q \in 0 .. CRT_SIZE - 1
      BY <1>3, ScreenSize
    <2> HIDE DEF b
    <2>3. QED
      BY <2>1, <2>2 DEF Blank
  <1> HIDE DEF b
  <1>5. PICK s : s = CgaPutc([buf |-> b, pos |-> p], PROMPT)
    OBVIOUS
  <1>6. crt_buf = s.buf /\ crt_pos = s.pos
    BY <1>1, <1>2, <1>5
  <1>7. s = Write([buf |-> b, pos |-> p], PROMPT)
    BY <1>5 DEF CgaPutc, PROMPT, BS, NL, CR, TAB
  <1>8. Text(s.buf, s.pos, <<>>) /\ s.pos < CRT_SIZE
    BY <1>4, <1>7, PromptShown
  <1>9. QED
    BY <1>6, <1>8 DEF ScreenInv, Init, Char

\* readline on a character: erase, echo, end of line, or nothing.
LEMMA ReadlineScreen ==
  ASSUME ScreenInv, Readline
  PROVE  ScreenInv'
  <1>0. /\ c \in Char /\ Text(crt_buf, crt_pos, line) /\ crt_pos < CRT_SIZE
        /\ c' = 0 /\ c' \in Char
        /\ line \in Seq(Char) /\ Len(line) < BUFLEN /\ BUFLEN \in Nat
    BY ScreenSize DEF ScreenInv, Readline, Char, Text
  <1>1. CASE Erase
    <2>1. line' = Front(line) /\ Show(CgaPutc(Screen, BS)) /\ line # <<>>
      BY <1>1 DEF Readline, Erase, BS, DELETE, NL, CR, SPACE
    <2>2. PICK s : s = CgaPutc([buf |-> crt_buf, pos |-> crt_pos], BS)
      OBVIOUS
    <2>3. crt_buf' = s.buf /\ crt_pos' = s.pos
      BY <2>1, <2>2 DEF Show, Screen
    <2>4. Text(s.buf, s.pos, Front(line)) /\ s.pos < CRT_SIZE
      BY <1>0, <2>1, <2>2, EraseKeeps
    <2>5. QED
      BY <1>0, <2>1, <2>3, <2>4 DEF ScreenInv
  <1>2. CASE ~Erase /\ c >= SPACE /\ Room
    <2>1. line' = Append(line, c) /\ Show(CgaPutc(Screen, c))
      BY <1>0, <1>2 DEF Readline, NL, CR, SPACE, Char
    <2>2. PICK s : s = CgaPutc([buf |-> crt_buf, pos |-> crt_pos], c)
      OBVIOUS
    <2>3. crt_buf' = s.buf /\ crt_pos' = s.pos
      BY <2>1, <2>2 DEF Show, Screen
    <2>4. s = Write([buf |-> crt_buf, pos |-> crt_pos], c)
      BY <1>0, <1>2, <2>2 DEF CgaPutc, SPACE, BS, NL, CR, TAB, Char
    <2>5. Len(line) + 1 < BUFLEN
      BY <1>0, <1>2 DEF Room
    <2>6. Text(s.buf, s.pos, Append(line, c)) /\ s.pos < CRT_SIZE
      BY <1>0, <2>4, <2>5, WriteKeeps
    <2>7. QED
      BY <1>0, <2>1, <2>3, <2>6 DEF ScreenInv
  <1>3. CASE ~Erase /\ ~(c >= SPACE /\ Room) /\ c \in {NL, CR}
    <2>1. line' = <<>> /\ Show(CgaPutc(CgaPutc(Screen, NL), PROMPT))
      BY <1>3 DEF Readline
    <2>2. PICK s : s = CgaPutc([buf |-> crt_buf, pos |-> crt_pos], NL)
      OBVIOUS
    <2>3. Blank(s.buf, s.pos) /\ s.pos < CRT_SIZE
      BY <1>0, <2>2, NewlineBlank DEF Text
    <2>4. s = [buf |-> s.buf, pos |-> s.pos]
      <3>1. s = Scroll([buf |-> crt_buf, pos |-> LineStart(crt_pos + CRT_COLS)])
        BY <2>2 DEF CgaPutc, BS, NL, CR, TAB
      <3>2. QED
        BY <3>1 DEF Scroll
    <2>5. PICK u : u = CgaPutc(s, PROMPT)
      OBVIOUS
    <2>6. u = Write(s, PROMPT)
      BY <2>5 DEF CgaPutc, PROMPT, BS, NL, CR, TAB
    <2>7. u = Write([buf |-> s.buf, pos |-> s.pos], PROMPT)
      BY <2>4, <2>6, Zenon
    <2>8. Text(u.buf, u.pos, <<>>) /\ u.pos < CRT_SIZE
      BY <2>3, <2>7, PromptShown
    <2>9. crt_buf' = u.buf /\ crt_pos' = u.pos
      BY <2>1, <2>2, <2>5 DEF Show, Screen
    <2>10. QED
      BY <1>0, <2>1, <2>8, <2>9 DEF ScreenInv
  <1>4. CASE ~Erase /\ ~(c >= SPACE /\ Room) /\ c \notin {NL, CR}
    <2>1. UNCHANGED <<line, crt_buf, crt_pos>>
      BY <1>4 DEF Readline, ScreenSame
    <2>2. QED
      BY <1>0, <2>1 DEF ScreenInv
  <1>5. QED
    BY <1>1, <1>2, <1>3, <1>4

\* The invariant holds at first.
LEMMA InitConsole == Init => Inv
  <1> SUFFICES ASSUME Init PROVE Inv
    OBVIOUS
  <1>1. RingOK
    BY RingSize DEF Init, RingOK, Char, N
  <1>2. ModifierInv
    <2>1. held = {} /\ scan = <<>> /\ shift = {}
      BY DEF Init
    <2>2. Settled(scan, shift) /\ scan \in Seq(Code) /\ Len(scan) = 0
      BY <2>1 DEF Settled
    <2>3. \A f \in Mod : ~LeftOn(scan, shift, f)
      BY <2>1, <2>2 DEF LeftOn, Makes
    <2>4. QED
      BY <2>1, <2>2, <2>3 DEF ModifierInv
  <1>3. events \in 0 .. MAXEVENTS
    BY InputAssumption DEF Init
  <1>4. aux \in BOOLEAN
    BY Zenon DEF Init
  <1>5. QED
    BY <1>1, <1>2, <1>3, <1>4, InitScreen DEF Inv

\* The mouse is the only one to set aux.
LEMMA AuxStep ==
  ASSUME aux \in BOOLEAN, [Next]_vars
  PROVE  aux' \in BOOLEAN
  <1>1. UNCHANGED aux \/ aux' = TRUE
    BY DEF Next, Program, KeyDown, KeyUp, SerialLine, MouseByte, SerialIntr,
           SerialEmpty, KbdIntr, Reboot, KbdEmpty, Take, Readline, InputSame, vars
  <1>2. QED
    BY <1>1, Zenon

\* Every step keeps it.
LEMMA ConsoleStep == Inv /\ [Next]_vars => Inv'
  <1> SUFFICES ASSUME Inv, [Next]_vars PROVE Inv'
    OBVIOUS
  <1>0. RingOK /\ ModifierInv /\ ScreenInv /\ events \in 0 .. MAXEVENTS
    BY DEF Inv
  <1>1. RingOK'
    BY <1>0, RingStep
  <1> SUFFICES ModifierInv' /\ ScreenInv' /\ events' \in 0 .. MAXEVENTS
    BY <1>1, AuxStep DEF Inv
  <1>a. UNCHANGED <<held, scan, shift>> => ModifierInv'
    <2>1. ASSUME UNCHANGED <<held, scan, shift>>, NEW f
          PROVE  Down(f)' = Down(f)
      BY <2>1 DEF Down
    <2>2. QED
      BY <1>0, <2>1 DEF ModifierInv
  <1>b. UNCHANGED <<crt_buf, crt_pos, line>> /\ c' \in Char => ScreenInv'
    BY <1>0 DEF ScreenInv
  <1>c. c \in Char
    BY <1>0 DEF ScreenInv
  <1>2. ASSUME NEW k \in Keys, KeyDown(k) \/ KeyUp(k)
        PROVE  ModifierInv' /\ ScreenInv' /\ events' \in 0 .. MAXEVENTS
    <2>1. ModifierInv'
      BY <1>0, <1>2, KeyDownModifiers, KeyUpModifiers
    <2>2. ScreenInv'
      BY <1>b, <1>c, <1>2 DEF KeyDown, KeyUp, ProgramSame
    <2>3. events' \in 0 .. MAXEVENTS
      BY <1>0, <1>2, InputAssumption DEF KeyDown, KeyUp, Typing
    <2>4. QED
      BY <2>1, <2>2, <2>3
  <1>3. ASSUME NEW ch \in SerialChars, SerialLine(ch)
        PROVE  ModifierInv' /\ ScreenInv' /\ events' \in 0 .. MAXEVENTS
    <2>1. ModifierInv' /\ ScreenInv'
      BY <1>a, <1>b, <1>c, <1>3 DEF SerialLine, ProgramSame
    <2>2. events' \in 0 .. MAXEVENTS
      BY <1>0, <1>3, InputAssumption DEF SerialLine, Typing
    <2>3. QED
      BY <2>1, <2>2
  <1>d. CASE MouseByte
    BY <1>0, <1>a, <1>b, <1>c, <1>d, InputAssumption DEF MouseByte, Typing, ProgramSame
  <1>4. CASE SerialIntr \/ SerialEmpty \/ Reboot \/ KbdEmpty \/ UNCHANGED vars
    BY <1>0, <1>a, <1>b, <1>c, <1>4
       DEF SerialIntr, SerialEmpty, Reboot, KbdEmpty, InputSame, ScreenSame, vars
  <1>5. CASE KbdIntr
    <2>1. ModifierInv'
      BY <1>0, <1>5, KbdModifiers DEF KbdIntr, KeyData, Pressed, InputSame
    <2>2. QED
      BY <1>0, <1>b, <1>c, <1>5, <2>1 DEF KbdIntr, InputSame, ScreenSame
  <1>6. CASE Take
    <2>1. c' \in Char
      <3>1. buf[rpos] \in Char
        BY <1>0 DEF RingOK
      <3>2. QED
        BY <1>c, <1>6, <3>1 DEF Take
    <2>2. QED
      BY <1>0, <1>a, <1>b, <1>6, <2>1 DEF Take, InputSame, ScreenSame
  <1>7. CASE Readline
    <2>1. ScreenInv'
      BY <1>0, <1>7, ReadlineScreen
    <2>2. QED
      BY <1>0, <1>a, <1>7, <2>1 DEF Readline, InputSame
  <1>8. QED
    BY <1>2, <1>3, <1>4, <1>5, <1>6, <1>7, <1>d DEF Next, Program

\* The invariant implies the property.
LEMMA InvImpliesConsole == Inv => ConsoleInv
  <1> SUFFICES ASSUME Inv PROVE ConsoleInv
    OBVIOUS
  <1>1. EchoShowsLine /\ Len(line) < BUFLEN
    BY DEF Inv, ScreenInv, Text, Blank, EchoShowsLine
  <1>2. TypeOK
    <2>1. crt_pos \in 0 .. CRT_SIZE - 1 /\ crt_buf \in [0 .. CRT_SIZE - 1 -> Char]
      BY ScreenSize DEF Inv, ScreenInv, Text, Blank
    <2>2. shift \subseteq {"SHIFT", "CTL", "ALT", "CAPSLOCK", "E0ESC"} /\ held \subseteq Keys
      BY DEF Inv, ModifierInv, Flags, Mod
    <2>3. /\ buf \in [0 .. CONSBUFSIZE - 1 -> Char]
          /\ rpos \in 0 .. CONSBUFSIZE - 1 /\ wpos \in 0 .. CONSBUFSIZE - 1
      BY DEF Inv, RingOK, N
    <2>4. aux \in BOOLEAN /\ events \in 0 .. MAXEVENTS
      BY Zenon DEF Inv
    <2>5. QED
      BY <1>1, <2>1, <2>2, <2>3, <2>4, Zenon DEF TypeOK
  <1>3. NoStuckModifier
    <2> SUFFICES ASSUME scan = <<>>
                 PROVE  /\ "E0ESC" \notin shift
                        /\ \A f \in shift \ {"CAPSLOCK"} : Down(f)
      BY DEF NoStuckModifier, Down
    <2>1. "E0ESC" \notin shift
      BY DEF Inv, ModifierInv, Settled
    <2>2. ASSUME NEW f \in shift \ {"CAPSLOCK"} PROVE Down(f)
      <3>1. f \in Mod
        BY <2>1 DEF Inv, ModifierInv, Flags
      <3>2. Len(scan) = 0 /\ f \in Makes(scan, shift, 0)
        BY <3>1 DEF Makes
      <3>3. LeftOn(scan, shift, f)
        BY <3>2 DEF LeftOn
      <3>4. QED
        BY <3>1, <3>3 DEF Inv, ModifierInv
    <2>3. QED
      BY <2>1, <2>2
  <1>4. QED
    BY <1>1, <1>2, <1>3 DEF ConsoleInv

\* After any keys, on any screen and ring: positions stay in their arrays, no
\* modifier is stuck, and the screen shows the line that readline returns.
THEOREM ConsoleIsRight == Spec => []ConsoleInv
  BY InitConsole, ConsoleStep, InvImpliesConsole, PTL DEF Spec
=============================================================================
