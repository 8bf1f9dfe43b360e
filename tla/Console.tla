------------------------------- MODULE Console -------------------------------
(***************************************************************************)
(* From a key to sys_read: Terminal::OnKeyPress, which edits and echoes    *)
(* the line (module Terminal), the ring of KeyboardBuffer, and a process   *)
(* that reads and writes in turn.  The keyboard interrupt is atomic.       *)
(* sys_read runs with interrupts on when it finds characters, and with     *)
(* interrupts off when it had to wait for them.                            *)
(***************************************************************************)
EXTENDS Terminal

CONSTANTS
  RingSize,   \* BUFFER_SIZE of keyboard_buffer.h (256)
  Count       \* bytes the program asks sys_read for

ASSUME ConsoleAssumption ==
  /\ RingSize \in Nat /\ RingSize > 1
  /\ Count \in Nat \ {0}

\* Newline, backspace and the other control characters.
NL == "NL"
BS == "BS"
Control == "control"
Chars == Printable \cup {NL, BS, Control}

VARIABLES
  ring,       \* KeyboardBuffer: buffer, head, tail
  raw_input_mode,
  reading,    \* where sys_read stands
  fetched,    \* the character Dequeue has copied, until it is stored
  dst         \* the bytes stored by the current sys_read

reader == <<reading, fetched, dst>>
console == <<vars, ring, raw_input_mode, reader>>

Places == 0..(RingSize - 1)

ConsoleInit ==
  /\ Init
  /\ ring = [buffer |-> [i \in Places |-> Control], head |-> 0, tail |-> 0]
  /\ raw_input_mode = FALSE
  /\ reading = "out"
  /\ fetched = Control
  /\ dst = <<>>

-----------------------------------------------------------------------------
Following(i) == (i + 1) % RingSize

IsEmpty == ring.head = ring.tail

\* A variant without the full test.
EnqueueOver(r, c) ==
  [r EXCEPT !.buffer[r.tail] = c, !.tail = Following(r.tail)]

\* KeyboardBuffer::Enqueue: one place stays free, a full ring drops the
\* character.
Enqueue(r, c) ==
  IF Following(r.tail) = r.head
    THEN r
    ELSE [r EXCEPT !.buffer[r.tail] = c, !.tail = Following(r.tail)]

\* The loop over the line at a newline.
EnqueueAll(r, s) ==
  LET after[n \in 0..Len(s)] == IF n = 0 THEN r ELSE Enqueue(after[n - 1], s[n])
  IN  after[Len(s)]

\* Terminal::OnKeyPress without raw_input_mode: edit and echo the line, and pass
\* it on at a newline.
Cooked(c) ==
  CASE c = BS -> /\ IF line = <<>> THEN UNCHANGED vars ELSE KeyBackspace
                 /\ UNCHANGED ring
    [] c = NL -> /\ ring' = EnqueueAll(ring, Append(line, NL))
                 /\ KeyNewLine
    [] OTHER  -> /\ IF c \in Printable /\ Len(line) < LineMax
                      THEN KeyChar(c) ELSE UNCHANGED vars
                 /\ UNCHANGED ring

\* The keyboard interrupt from Desktop::OnKeyPress up to WakeWaiters.
Press(c) ==
  /\ IF raw_input_mode
       THEN ring' = Enqueue(ring, c) /\ UNCHANGED vars
       ELSE Cooked(c)
  /\ UNCHANGED <<raw_input_mode, reader>>

\* sys_set_raw_input.
SetRawInputMode(on) ==
  /\ reading = "out" /\ pc = "idle"
  /\ raw_input_mode' = on
  /\ UNCHANGED <<vars, ring, reader>>

\* sys_write, one statement of the terminal at a time.
Output ==
  /\ reading = "out"
  /\ Process
  /\ UNCHANGED <<ring, raw_input_mode, reader>>

-----------------------------------------------------------------------------
\* sys_read begins: it waits while the ring is empty.
Begin ==
  /\ reading = "out" /\ pc = "idle"
  /\ reading' = IF IsEmpty THEN "wait" ELSE "fetch"
  /\ dst' = <<>>
  /\ UNCHANGED <<vars, ring, raw_input_mode, fetched>>

Contents ==
  [i \in 1..((ring.tail - ring.head) % RingSize) |->
     ring.buffer[(ring.head + i - 1) % RingSize]]

\* How many characters the loop of sys_read takes from s: up to the first
\* newline, at most Count.
Stops(s, n) ==
  /\ n <= Count
  /\ \A i \in 1..(n - 1) : s[i] # NL
  /\ n = Len(s) \/ n = Count \/ (n > 0 /\ s[n] = NL)

\* The wait is over; from cli to iret the loop runs undisturbed.
ReadWaiting ==
  /\ reading = "wait"
  /\ ~IsEmpty
  /\ \E n \in 1..Len(Contents) :
       /\ Stops(Contents, n)
       /\ dst' = SubSeq(Contents, 1, n)
       /\ ring' = [ring EXCEPT !.head = (@ + n) % RingSize]
  /\ reading' = "out"
  /\ UNCHANGED <<vars, raw_input_mode, fetched>>

\* The loop of sys_read with interrupts on.  Dequeue tests and copies ...
Fetch ==
  /\ reading = "fetch"
  /\ IF IsEmpty
       THEN reading' = "out" /\ UNCHANGED fetched
       ELSE reading' = "advance" /\ fetched' = ring.buffer[ring.head]
  /\ UNCHANGED <<vars, ring, raw_input_mode, dst>>

\* A variant that goes on after a newline.
AdvancePastNewline ==
  /\ reading = "advance"
  /\ ring' = [ring EXCEPT !.head = Following(@)]
  /\ dst' = Append(dst, fetched)
  /\ reading' = IF Len(dst') = Count THEN "out" ELSE "fetch"
  /\ fetched' = Control
  /\ UNCHANGED <<vars, raw_input_mode>>

\* ... then moves head, and the loop stores the character.
Advance ==
  /\ reading = "advance"
  /\ ring' = [ring EXCEPT !.head = Following(@)]
  /\ dst' = Append(dst, fetched)
  /\ reading' = IF fetched = NL \/ Len(dst') = Count THEN "out" ELSE "fetch"
  /\ fetched' = Control
  /\ UNCHANGED <<vars, raw_input_mode>>

ConsoleNext ==
  \/ \E c \in Chars : Press(c)
  \/ Output
  \/ \E on \in BOOLEAN : SetRawInputMode(on)
  \/ Begin
  \/ ReadWaiting
  \/ Fetch
  \/ Advance

ConsoleSpec == ConsoleInit /\ [][ConsoleNext]_console
-----------------------------------------------------------------------------
(***************************************************************************)
(* Properties.                                                             *)
(***************************************************************************)

\* Whatever the interrupt handler puts in between the statements of a read, the
\* ring is a first-in first-out queue of RingSize - 1 places
\* (keyboard_buffer.cpp:14-26, syscall.cpp:141-148).
Queue == INSTANCE Fifo WITH queue <- Contents, taken <- dst,
                            Capacity <- RingSize - 1
RingIsFifo == Queue!Spec

\* sys_read returns at most one line, and never more than it was asked for: a
\* newline can only be the last byte (syscall.cpp:143-148).
ReadOneLine ==
  /\ Len(dst) <= Count
  /\ \A i \in 1..(Len(dst) - 1) : dst[i] # NL
=============================================================================
