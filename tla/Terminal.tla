------------------------------ MODULE Terminal ------------------------------
(***************************************************************************)
(* The cursor of the terminal window and the cells it writes.  A process   *)
(* in sys_write walks through Terminal::PutChar one statement at a time;   *)
(* the keyboard interrupt echoes a key through the same code, as a whole,  *)
(* between any two of those statements.                                    *)
(***************************************************************************)
EXTENDS Integers, Sequences

CONSTANTS
  ROWS,     \* rows of the grid (23)
  COLS,     \* columns of the grid (40)
  LineMax,  \* characters input_line takes before a newline (255)
  Printable \* characters with code 32 and above

ASSUME GridAssumption ==
  /\ ROWS \in Nat \ {0}
  /\ COLS \in Nat \ {0}
  /\ LineMax \in Nat

VARIABLES
  cursor_row,
  cursor_col,
  stored,     \* the cell written last
  line,       \* input_line[0 .. input_len - 1], the line being typed
  pc          \* the statement the process is about to execute

vars == <<cursor_row, cursor_col, stored, line, pc>>

Grid == (0..(ROWS - 1)) \X (0..(COLS - 1))

Init ==
  /\ cursor_row = 0
  /\ cursor_col = 0
  /\ stored = <<0, 0>>
  /\ line = <<>>
  /\ pc = "idle"

-----------------------------------------------------------------------------
(***************************************************************************)
(* The process.                                                            *)
(***************************************************************************)

\* The next character of SetShellOutput: '\n', '\b' or another.
Write ==
  /\ pc = "idle"
  /\ pc' \in {"newline", "backspace", "store"}
  /\ UNCHANGED <<cursor_row, cursor_col, stored, line>>

\* grid[cursor_row][cursor_col] = c, and the same for colors.
Store ==
  /\ pc = "store"
  /\ stored' = <<cursor_row, cursor_col>>
  /\ pc' = "right"
  /\ UNCHANGED <<cursor_row, cursor_col, line>>

Right ==
  /\ pc = "right"
  /\ cursor_col' = cursor_col + 1
  /\ pc' = "wrap"
  /\ UNCHANGED <<cursor_row, stored, line>>

\* A variant that wraps one column late.
WrapLate ==
  /\ pc = "wrap"
  /\ pc' = IF cursor_col > COLS THEN "newline" ELSE "idle"
  /\ UNCHANGED <<cursor_row, cursor_col, stored, line>>

Wrap ==
  /\ pc = "wrap"
  /\ pc' = IF cursor_col >= COLS THEN "newline" ELSE "idle"
  /\ UNCHANGED <<cursor_row, cursor_col, stored, line>>

\* NewLine: return, feed, test, scroll.
Return ==
  /\ pc = "newline"
  /\ cursor_col' = 0
  /\ pc' = "feed"
  /\ UNCHANGED <<cursor_row, stored, line>>

Feed ==
  /\ pc = "feed"
  /\ cursor_row' = cursor_row + 1
  /\ pc' = "bottom"
  /\ UNCHANGED <<cursor_col, stored, line>>

Bottom ==
  /\ pc = "bottom"
  /\ pc' = IF cursor_row >= ROWS THEN "scroll" ELSE "idle"
  /\ UNCHANGED <<cursor_row, cursor_col, stored, line>>

\* cursor_row-- unless it is 0.
Up(row) == IF row > 0 THEN row - 1 ELSE row

\* ScrollUp moves the rows and then the cursor.
ScrollUp ==
  /\ pc = "scroll"
  /\ cursor_row' = Up(cursor_row)
  /\ pc' = "idle"
  /\ UNCHANGED <<cursor_col, stored, line>>

\* Backspace: to the left, or to the end of the row above, then erase.
Back ==
  /\ pc = "backspace"
  /\ \/ /\ cursor_col > 0
        /\ cursor_col' = cursor_col - 1
        /\ pc' = "erase"
        /\ UNCHANGED cursor_row
     \/ /\ cursor_col <= 0
        /\ cursor_row' = Up(cursor_row)
        /\ pc' = IF cursor_row > 0 THEN "rowend" ELSE "erase"
        /\ UNCHANGED cursor_col
  /\ UNCHANGED <<stored, line>>

\* A variant that goes one column too far.
RowEndWide ==
  /\ pc = "rowend"
  /\ cursor_col' = COLS
  /\ pc' = "erase"
  /\ UNCHANGED <<cursor_row, stored, line>>

RowEnd ==
  /\ pc = "rowend"
  /\ cursor_col' = COLS - 1
  /\ pc' = "erase"
  /\ UNCHANGED <<cursor_row, stored, line>>

Erase ==
  /\ pc = "erase"
  /\ stored' = <<cursor_row, cursor_col>>
  /\ pc' = "idle"
  /\ UNCHANGED <<cursor_row, cursor_col, line>>

-----------------------------------------------------------------------------
(***************************************************************************)
(* The keyboard interrupt: Terminal::OnKeyPress, not in raw mode.          *)
(***************************************************************************)

\* NewLine as a whole.
NewLine ==
  /\ cursor_col' = 0
  /\ cursor_row' = IF cursor_row + 1 >= ROWS THEN cursor_row ELSE cursor_row + 1

\* A printable key, echoed by PutChar.
KeyChar(c) ==
  /\ Len(line) < LineMax
  /\ line' = Append(line, c)
  /\ stored' = <<cursor_row, cursor_col>>
  /\ IF cursor_col + 1 >= COLS
       THEN NewLine
       ELSE cursor_col' = cursor_col + 1 /\ UNCHANGED cursor_row
  /\ UNCHANGED pc

KeyNewLine ==
  /\ NewLine
  /\ line' = <<>>
  /\ UNCHANGED <<stored, pc>>

KeyBackspace ==
  /\ line # <<>>
  /\ line' = SubSeq(line, 1, Len(line) - 1)
  /\ cursor_col' = IF cursor_col > 0 THEN cursor_col - 1
                   ELSE IF cursor_row > 0 THEN COLS - 1 ELSE cursor_col
  /\ cursor_row' = IF cursor_col > 0 THEN cursor_row ELSE Up(cursor_row)
  /\ stored' = <<cursor_row', cursor_col'>>
  /\ UNCHANGED pc

-----------------------------------------------------------------------------
Process ==
  \/ Write \/ Store \/ Right \/ Wrap
  \/ Return \/ Feed \/ Bottom \/ ScrollUp
  \/ Back \/ RowEnd \/ Erase

Keyboard == (\E c \in Printable : KeyChar(c)) \/ KeyNewLine \/ KeyBackspace

Next == Process \/ Keyboard

Spec == Init /\ [][Next]_vars
-----------------------------------------------------------------------------
(***************************************************************************)
(* Properties.                                                             *)
(***************************************************************************)

\* Types; the line never outgrows input_line.
TypeOK ==
  /\ cursor_row \in Nat
  /\ cursor_col \in Nat
  /\ stored \in Nat \X Nat
  /\ line \in Seq(Printable) /\ Len(line) <= LineMax
  /\ pc \in {"idle", "store", "right", "wrap", "newline", "feed", "bottom",
             "scroll", "backspace", "rowend", "erase"}

\* However keys fall between the statements of PutChar, the cursor is inside the
\* grid again when the character is done (terminal.cpp:22-65).
CursorRecovers == pc = "idle" => <<cursor_row, cursor_col>> \in Grid

\* Output never leaves the 40x23 grid, and neither does the echo of a key except
\* while sys_write is between the increment of the cursor and the test that
\* brings it back (terminal.cpp:35-40, 61-63).
StoresInGrid ==
  [][stored' # stored /\ stored' \notin Grid
       => Keyboard /\ pc \in {"wrap", "newline", "bottom", "scroll"}]_vars

\* An echo that goes astray goes at most one row or one column too far.
StrayBounded == stored \in (0..ROWS) \X (0..COLS)
=============================================================================
