------------------------------ MODULE Console ------------------------------
(***************************************************************************)
(* The console of src/kern/console.c under the line editor of              *)
(* src/lib/readline.c, as the kernel monitor uses them: a person presses   *)
(* and releases keys and types on the serial line, the keyboard delivers   *)
(* scan codes, cons_getc polls both devices into a ring buffer, readline   *)
(* takes characters from it and echoes them on the text screen.            *)
(***************************************************************************)
EXTENDS Integers, Sequences, SequencesExt

CONSTANTS
    CONSBUFSIZE,   \* size of the ring
    CRT_COLS, CRT_ROWS,
    BUFLEN,        \* size of readline's buffer
    Keys,          \* keys of the keyboard, as sequences of make codes
    SerialChars,   \* characters typed on the serial line
    MAXEVENTS      \* bound: keys pressed or released and characters typed

CRT_SIZE == CRT_COLS * CRT_ROWS

ASSUME ConsoleAssumption ==
    /\ CONSBUFSIZE \in Nat \ {0, 1} /\ CRT_COLS \in Nat \ {0} /\ CRT_ROWS \in Nat \ {0, 1}
    /\ BUFLEN \in Nat \ {0}
    /\ BUFLEN < CRT_SIZE - CRT_COLS  \* 1024 characters fit on 24 lines of 80

VARIABLES
    held, events,     \* the keys held down, and how much was typed
    scan, serial,     \* scan codes and serial characters not yet read
    aux,              \* a byte of the mouse is in front of the scan codes
    shift,            \* kbd_proc_data's modifier flags
    buf, rpos, wpos,  \* the ring
    crt_buf, crt_pos, \* the screen
    pc,               \* where cons_getc, called by readline, is
    c,                \* the character readline has got
    line              \* readline's buf[0..i)

vars == <<held, events, scan, serial, aux, shift, buf, rpos, wpos, crt_buf,
          crt_pos, pc, c, line>>

(***************************************************************************)
(* The characters and scan codes the maps tell apart.                      *)
(***************************************************************************)
BS == 8
TAB == 9
NL == 10
CR == 13
SPACE == 32
PROMPT == 62
DELETE == 127
KEY_DEL == 233
Char == 0..255

\* A key has one make code, with 0xE0 before it or not; no break code is 0xE0.
\* The receive register of the serial port has 8 bits.
ASSUME InputAssumption ==
    /\ \A k \in Keys : \E m \in 1..127 : m # 96 /\ (k = <<m>> \/ k = <<224, m>>)
    /\ SerialChars \subseteq Char /\ MAXEVENTS \in Nat

LETTERS == [upper |-> 65..90, lower |-> 97..122]

\* shiftcode and togglecode: the flags of a key; E0 keys have bit 7 set.
ShiftCode(data) ==
    CASE data \in {29, 157} -> {"CTL"}      \* 0x1D, 0x9D
      [] data \in {42, 54}  -> {"SHIFT"}    \* 0x2A, 0x36
      [] data \in {56, 184} -> {"ALT"}      \* 0x38, 0xB8
      [] OTHER -> {}

ToggleCode(data) == IF data = 58 THEN {"CAPSLOCK"} ELSE {}

\* normalmap, shiftmap and ctlmap of the keys 1, backspace, enter, a, Del.
NormalMap(data) ==
    CASE data = 2 -> 49 [] data = 14 -> BS [] data = 28 -> NL [] data = 30 -> 97
      [] data = 211 -> KEY_DEL [] OTHER -> 0
ShiftMap(data) ==
    CASE data = 2 -> 33 [] data = 30 -> 65 [] OTHER -> NormalMap(data)
CtlMap(data) ==
    CASE data = 28 -> CR [] data = 30 -> 1 [] data = 211 -> KEY_DEL [] OTHER -> 0

CharCode(flags, data) ==
    CASE "CTL" \in flags -> CtlMap(data)
      [] "CTL" \notin flags /\ "SHIFT" \in flags -> ShiftMap(data)
      [] OTHER -> NormalMap(data)

CapsLock(flags, ch) ==
    CASE "CAPSLOCK" \in flags /\ ch \in LETTERS.lower -> ch - 32
      [] "CAPSLOCK" \in flags /\ ch \in LETTERS.upper -> ch + 32
      [] OTHER -> ch

(***************************************************************************)
(* kbd_proc_data on one scan code: the new flags and the character, 0 if   *)
(* there is none.  0xE0 announces that the next code is of a second set;   *)
(* bit 7 of a code is set when a key is released.                          *)
(***************************************************************************)
E0 == 224

ReleasedKeepsE0(flags, data) == flags \ ShiftCode(data)  \* mutant

Released(flags, data) == flags \ (ShiftCode(data) \cup {"E0ESC"})

KbdProcData(flags, data) ==
    LET e0      == "E0ESC" \in flags
        up      == IF e0 THEN data ELSE data - 128
        down    == IF e0 THEN data + 128 ELSE data
        pressed == SymDiff((flags \ {"E0ESC"}) \cup ShiftCode(down), ToggleCode(down))
    IN  CASE data = E0 -> [flags |-> flags \cup {"E0ESC"}, ch |-> 0]
          [] data # E0 /\ data >= 128 ->
                [flags |-> Released(flags, up), ch |-> 0]
          [] OTHER ->
                [flags |-> pressed, ch |-> CapsLock(pressed, CharCode(pressed, down))]

(***************************************************************************)
(* cga_putc on the screen s = [buf, pos]; a tab is five spaces.            *)
(***************************************************************************)
ScrollForgets(s) ==  \* mutant: the text stays
    IF s.pos < CRT_SIZE THEN s ELSE [s EXCEPT !.pos = @ - CRT_COLS]

Scroll(s) ==
    IF s.pos < CRT_SIZE THEN s
    ELSE [buf |-> [i \in 0..CRT_SIZE - 1 |->
                     IF i < CRT_SIZE - CRT_COLS THEN s.buf[i + CRT_COLS] ELSE SPACE],
          pos |-> s.pos - CRT_COLS]

LineStart(p) == p - (p % CRT_COLS)

Write(s, ch) ==
    Scroll([buf |-> [s.buf EXCEPT ![s.pos] = ch], pos |-> s.pos + 1])

Tab(s) == FoldLeft(Write, s, <<SPACE, SPACE, SPACE, SPACE, SPACE>>)

CgaPutc(s, ch) ==
    CASE ch = BS  -> IF s.pos = 0 THEN s
                     ELSE [buf |-> [s.buf EXCEPT ![s.pos - 1] = SPACE], pos |-> s.pos - 1]
      [] ch = NL  -> Scroll([s EXCEPT !.pos = LineStart(@ + CRT_COLS)])
      [] ch = CR  -> [s EXCEPT !.pos = LineStart(@)]
      [] ch = TAB -> Tab(s)
      [] OTHER    -> Write(s, ch)

Screen == [buf |-> crt_buf, pos |-> crt_pos]

Show(s) == crt_buf' = s.buf /\ crt_pos' = s.pos

-----------------------------------------------------------------------------
\* After cons_init, whose drain of the keyboard finds nothing, and the prompt;
\* the BIOS left the cursor at the start of some line.
Init ==
    /\ held = {} /\ events = 0 /\ scan = <<>> /\ serial = <<>> /\ aux = FALSE
    /\ shift = {}
    /\ buf = [i \in 0..CONSBUFSIZE - 1 |-> 0] /\ rpos = 0 /\ wpos = 0
    /\ \E row \in 0..CRT_ROWS - 1 :
          LET s == CgaPutc([buf |-> [i \in 0..CRT_SIZE - 1 |-> SPACE],
                            pos |-> row * CRT_COLS], PROMPT)
          IN  crt_buf = s.buf /\ crt_pos = s.pos
    /\ pc = "serial" /\ c = 0 /\ line = <<>>

Typing == pc # "rebooted" /\ events < MAXEVENTS /\ events' = events + 1

ProgramSame == UNCHANGED <<shift, buf, rpos, wpos, crt_buf, crt_pos, pc, c, line>>

KeyDown(k) ==
    /\ Typing
    /\ held' = held \cup {k}
    /\ scan' = scan \o k
    /\ UNCHANGED <<serial, aux>> /\ ProgramSame

KeyUp(k) ==
    /\ Typing
    /\ k \in held /\ held' = held \ {k}
    /\ scan' = scan \o [k EXCEPT ![Len(k)] = @ + 128]
    /\ UNCHANGED <<serial, aux>> /\ ProgramSame

SerialLine(ch) ==
    /\ Typing
    /\ serial' = Append(serial, ch)
    /\ UNCHANGED <<held, scan, aux>> /\ ProgramSame

\* The mouse sends a byte; the controller's output register is free for it.
MouseByte ==
    /\ Typing
    /\ scan = <<>> /\ ~aux /\ aux' = TRUE
    /\ UNCHANGED <<held, scan, serial>> /\ ProgramSame

InputSame == UNCHANGED <<held, events, aux>>
ScreenSame == UNCHANGED <<crt_buf, crt_pos>>

(***************************************************************************)
(* cons_intr stores a character that is not 0.                             *)
(***************************************************************************)
ConsIntrNul(ch) ==  \* mutant: stores the 0 as well
    /\ buf' = [buf EXCEPT ![wpos] = ch]
    /\ wpos' = (wpos + 1) % CONSBUFSIZE

ConsIntr(ch) ==
    IF ch = 0 THEN UNCHANGED <<buf, wpos>>
    ELSE /\ buf' = [buf EXCEPT ![wpos] = ch]
         /\ wpos' = (wpos + 1) % CONSBUFSIZE

SerialIntr ==
    /\ pc = "serial" /\ serial # <<>>
    /\ ConsIntr(Head(serial))
    /\ serial' = Tail(serial)
    /\ UNCHANGED <<scan, shift, rpos, pc, c, line>> /\ InputSame /\ ScreenSame

SerialEmpty ==
    /\ pc = "serial" /\ serial = <<>> /\ pc' = "kbd"
    /\ UNCHANGED <<scan, serial, shift, buf, rpos, wpos, c, line>>
    /\ InputSame /\ ScreenSame

\* The status register: there is a byte, and KBS_TERR is clear.
KeyData == scan # <<>> /\ ~aux

Pressed == KbdProcData(shift, Head(scan))
CtrlAltDel == {"CTL", "ALT"} \subseteq Pressed.flags /\ Pressed.ch = KEY_DEL

KbdIntr ==
    /\ pc = "kbd" /\ KeyData /\ ~CtrlAltDel
    /\ shift' = Pressed.flags /\ ConsIntr(Pressed.ch)
    /\ scan' = Tail(scan)
    /\ UNCHANGED <<serial, rpos, pc, c, line>> /\ InputSame /\ ScreenSame

\* kbd_proc_data resets the machine.
Reboot ==
    /\ pc = "kbd" /\ KeyData /\ CtrlAltDel /\ pc' = "rebooted"
    /\ UNCHANGED <<scan, serial, shift, buf, rpos, wpos, c, line>>
    /\ InputSame /\ ScreenSame

\* kbd_proc_data returns -1: no data, or data of the mouse, which stays in the
\* controller.
KbdEmpty ==
    /\ pc = "kbd" /\ ~KeyData /\ pc' = "take"
    /\ UNCHANGED <<scan, serial, shift, buf, rpos, wpos, c, line>>
    /\ InputSame /\ ScreenSame

\* The rest of cons_getc; getchar calls it again while it returns 0.
WaitingAhead == rpos < wpos  \* mutant: not across the wrap
Waiting == rpos # wpos

Take ==
    /\ pc = "take"
    /\ IF Waiting
       THEN c' = buf[rpos] /\ rpos' = (rpos + 1) % CONSBUFSIZE /\ pc' = "readline"
       ELSE UNCHANGED <<c, rpos>> /\ pc' = "serial"
    /\ UNCHANGED <<scan, serial, shift, buf, wpos, line>> /\ InputSame /\ ScreenSame

(***************************************************************************)
(* readline on one character.  A DELETE on an empty line is stored.        *)
(***************************************************************************)
RoomTooMuch == Len(line) <= BUFLEN - 1  \* mutant
Room == Len(line) < BUFLEN - 1
Erase == c \in {BS, DELETE} /\ line # <<>>

Readline ==
    /\ pc = "readline" /\ pc' = "serial" /\ c' = 0
    /\ CASE Erase -> line' = Front(line) /\ Show(CgaPutc(Screen, BS))
         [] ~Erase /\ c >= SPACE /\ Room ->
              line' = Append(line, c) /\ Show(CgaPutc(Screen, c))
         [] c \in {NL, CR} ->
              \* the line is returned; the monitor prompts for the next one
              line' = <<>> /\ Show(CgaPutc(CgaPutc(Screen, NL), PROMPT))
         [] OTHER -> UNCHANGED line /\ ScreenSame
    /\ UNCHANGED <<scan, serial, shift, buf, rpos, wpos>> /\ InputSame

Program ==
    SerialIntr \/ SerialEmpty \/ KbdIntr \/ Reboot \/ KbdEmpty \/ Take \/ Readline

Next ==
    \/ \E k \in Keys : KeyDown(k) \/ KeyUp(k)
    \/ \E ch \in SerialChars : SerialLine(ch)
    \/ MouseByte
    \/ Program

\* The monitor polls for ever; nobody has to type.
Spec == Init /\ [][Next]_vars /\ WF_vars(Program)

-----------------------------------------------------------------------------
\* Types; ring positions, cursor and line stay within their arrays, whatever
\* is typed.
TypeOK ==
    /\ held \subseteq Keys /\ events \in 0..MAXEVENTS /\ aux \in BOOLEAN
    /\ shift \subseteq {"SHIFT", "CTL", "ALT", "CAPSLOCK", "E0ESC"}
    /\ buf \in [0..CONSBUFSIZE - 1 -> Char]
    /\ rpos \in 0..CONSBUFSIZE - 1 /\ wpos \in 0..CONSBUFSIZE - 1
    /\ crt_buf \in [0..CRT_SIZE - 1 -> Char] /\ crt_pos \in 0..CRT_SIZE - 1
    /\ Len(line) < BUFLEN

Contents == [i \in 1..(wpos - rpos) % CONSBUFSIZE |-> buf[(rpos + i - 1) % CONSBUFSIZE]]

Queue == INSTANCE InputQueue WITH
             Chars <- Char, SIZE <- CONSBUFSIZE, queue <- Contents

(***************************************************************************)
(* The ring implements the queue: characters come out in the order they    *)
(* went in, each once, and what is lost is lost when the ring overflows.   *)
(***************************************************************************)
RingIsQueue == Queue!Spec

(***************************************************************************)
(* What is on the screen before the cursor is the prompt and the line as   *)
(* readline has it, across line ends, scrolling and erasing, and there is  *)
(* nothing after the cursor.                                               *)
(***************************************************************************)
EchoShowsLine ==
    /\ crt_pos >= Len(line) + 1
    /\ \A i \in 1..Len(line) : crt_buf[crt_pos - Len(line) + i - 1] = line[i]
    /\ crt_buf[crt_pos - Len(line) - 1] = PROMPT
    /\ \A p \in crt_pos..CRT_SIZE - 1 : crt_buf[p] = SPACE

MadeBy(k) == ShiftCode(IF Len(k) = 2 THEN k[2] + 128 ELSE k[1])

(***************************************************************************)
(* When all scan codes have been read, a modifier is on only if one of its *)
(* keys is down.  (It may be off while a second key of it is still held.)  *)
(***************************************************************************)
NoStuckModifier ==
    scan = <<>> => /\ "E0ESC" \notin shift
                   /\ \A f \in shift \ {"CAPSLOCK"} : \E k \in held : f \in MadeBy(k)

(***************************************************************************)
(* After any keys: positions within their arrays, no modifier stuck, and   *)
(* the screen showing the line that readline will return.                  *)
(***************************************************************************)
ConsoleInv == TypeOK /\ EchoShowsLine /\ NoStuckModifier

(***************************************************************************)
(* Whatever was typed is read, unless the machine is rebooted: the ring    *)
(* and the serial port are empty again and again, and so is the keyboard,  *)
(* or a byte of the mouse bars it.                                         *)
(***************************************************************************)
InputIsConsumed ==
    []<>(\/ pc = "rebooted"
         \/ ~KeyData /\ serial = <<>> /\ rpos = wpos)

(***************************************************************************)
(* console.c:317, kbd_proc_data: the data of the mouse is ignored, so what *)
(* is typed on the keyboard is read whatever the mouse does.               *)
(***************************************************************************)
KeysAreRead == []<>(scan = <<>> \/ pc = "rebooted")
=============================================================================
