------------------------------ MODULE Console --------------------------------
(***************************************************************************)
(* The screen: kernel/console.c, written to by the processes and by the    *)
(* clock interrupt, which draws the time and the red cross (tic_PIT of     *)
(* kernel/interrupt.c).                                                    *)
(*                                                                         *)
(* con is the record of the display memory, struct state_t and the         *)
(* hardware cursor.  A cell is its character and background; the           *)
(* foreground is white everywhere, as nobody calls console_set_foreground  *)
(* or console_set_background.  The bell is in module Speaker.              *)
(***************************************************************************)
EXTENDS Integers, Sequences, SequencesExt

CONSTANTS
  CONSOLE_COL, CONSOLE_LIG,
  Tab,               \* distance of the tab stops, 8
  ClockCol,          \* column of the time, CONSOLE_COL - 10
  ClockLen,          \* characters of it shown, 8
  CLOCKFREQ, Sixty,  \* ticks per second; seconds per minute, minutes per hour
  Texts,             \* characters the processes write
  MaxRows,           \* bound: rows written since the last flush
  MaxTicks           \* bound: clock interrupts

ASSUME ScreenAssumption ==
  /\ CONSOLE_COL \in Nat \ {0} /\ CONSOLE_LIG \in Nat \ {0, 1} /\ Tab \in Nat \ {0}
  /\ ClockCol \in Nat /\ ClockLen \in Nat /\ ClockCol + ClockLen < CONSOLE_COL

BLACK == 0
BLUE == 1
GREEN == 2
RED == 4
Space == 32
Back == 8
TabChar == 9
LineBreak == 10
Flush == 12
Return == 13

VARIABLES
  con,        \* [screen, col, lig, cf, cursor]
  pit_count,
  paper,      \* history: the rows written since the last flush, oldest first
  position    \* history: the column reached in the last row

console_vars == <<con, pit_count, paper, position>>

Cols == 0 .. CONSOLE_COL - 1
Ligs == 0 .. CONSOLE_LIG - 1
Clean == [text |-> Space, cf |-> BLACK]
BlankRow == [c \in Cols |-> Clean]
BlankPaper == [c \in Cols |-> Space]

-----------------------------------------------------------------------------
(* console.c *)

(* Fault: the last row keeps its text. *)
screen_scroll_NoFlush(c) ==
  [c EXCEPT !.screen = [l \in Ligs |-> IF l < CONSOLE_LIG - 1 THEN @[l + 1] ELSE @[l]]]

screen_scroll(c) ==
  [c EXCEPT !.screen = [l \in Ligs |-> IF l < CONSOLE_LIG - 1 THEN @[l + 1] ELSE BlankRow]]

wrap_cursor(c) ==
  LET wrapped == IF c.col >= CONSOLE_COL THEN [c EXCEPT !.col = 0, !.lig = @ + 1] ELSE c
  IN IF wrapped.lig >= CONSOLE_LIG
     THEN [screen_scroll(wrapped) EXCEPT !.lig = CONSOLE_LIG - 1]
     ELSE wrapped

(* Fault: a tab at the end of the line leaves the screen. *)
TabStop_NoLimit(col) == (col \div Tab + 1) * Tab

TabStop(col) ==
  LET stop == (col \div Tab + 1) * Tab
  IN IF stop >= CONSOLE_COL THEN CONSOLE_COL - 1 ELSE stop

handle_char(c, text) ==
  CASE text = Back -> [c EXCEPT !.col = IF @ > 0 THEN @ - 1 ELSE 0]
    [] text = TabChar -> [c EXCEPT !.col = TabStop(@)]
    [] text = LineBreak -> wrap_cursor([c EXCEPT !.col = 0, !.lig = @ + 1])
    [] text = Flush -> [c EXCEPT !.col = 0, !.lig = 0, !.cf = BLACK,
                                 !.screen = [l \in Ligs |-> BlankRow]]
    [] text = Return -> [c EXCEPT !.col = 0]
    [] OTHER -> wrap_cursor([c EXCEPT
                  !.screen[c.lig][c.col] = [text |-> text, cf |-> c.cf],
                  !.col = @ + 1])

put_cursor(c) == [c EXCEPT !.cursor = <<c.col, c.lig>>]

console_putbytes(c, text) ==
  LET Put[i \in 0 .. Len(text)] ==
        IF i = 0 THEN c ELSE handle_char(Put[i - 1], text[i])
  IN put_cursor(Put[Len(text)])

(* Write text elsewhere, in a colour, and come back. *)
PutAside(c, text, col, lig, cf) ==
  LET aside == console_putbytes([c EXCEPT !.col = col, !.lig = lig, !.cf = cf], text)
  IN put_cursor([aside EXCEPT !.col = c.col, !.lig = c.lig, !.cf = c.cf])

console_putbytes_at(c, text, col, lig) == PutAside(c, text, col, lig, BLACK)

Cross == 88

(* Fault: the former place and colours are not restored. *)
console_draw_red_cross_NoSave(c) ==
  console_putbytes([c EXCEPT !.col = CONSOLE_COL - 1, !.lig = 0, !.cf = RED], <<Cross>>)

console_draw_red_cross(c) == PutAside(c, <<Cross>>, CONSOLE_COL - 1, 0, RED)

console_set_background_at(c, col, lig, colour) ==
  [c EXCEPT !.screen[lig][col].cf = colour]

-----------------------------------------------------------------------------
(* The time: every cell of it shows the same character.                    *)

Digit == 48
Hours(ticks) == ticks \div (CLOCKFREQ * Sixty * Sixty)
HourDigits(ticks) == IF Hours(ticks) < 100 THEN 2 ELSE 3
time_str_size == 9
(* What sprintf writes: the hours, then ":MM:SS" and the null character. *)
sprintf_size(ticks) == HourDigits(ticks) + 7

tic_PIT ==
  /\ pit_count < MaxTicks
  /\ pit_count' = pit_count + 1
  /\ con' = console_draw_red_cross(
              console_putbytes_at(con, [i \in 1 .. ClockLen |-> Digit], ClockCol, 0))
  /\ UNCHANGED <<paper, position>>

-----------------------------------------------------------------------------
(* A reference to compare the screen with: a roll of paper of CONSOLE_COL  *)
(* columns that never scrolls.                                             *)

Typed(p, col, text) ==
  LET row == Len(p)
      over == [p EXCEPT ![row][col] = text]
  IN CASE text = Back -> <<p, IF col > 0 THEN col - 1 ELSE 0>>
       [] text = TabChar -> <<p, Min({(col \div Tab + 1) * Tab, CONSOLE_COL - 1})>>
       [] text = LineBreak -> <<Append(p, BlankPaper), 0>>
       [] text = Flush -> <<<<BlankPaper>>, 0>>
       [] text = Return -> <<p, 0>>
       [] OTHER -> IF col + 1 < CONSOLE_COL THEN <<over, col + 1>>
                   ELSE <<Append(over, BlankPaper), 0>>

(* A process writes one character; longer strings are several writes. *)
Write(text) ==
  /\ con' = console_putbytes(con, <<text>>)
  /\ paper' = Typed(paper, position, text)[1]
  /\ position' = Typed(paper, position, text)[2]
  /\ Len(paper') <= MaxRows
  /\ UNCHANGED pit_count

ConsoleInit ==
  /\ con = [screen |-> [l \in Ligs |-> BlankRow],
            col |-> 0, lig |-> 0, cf |-> BLACK, cursor |-> <<0, 0>>]
  /\ pit_count = 0
  /\ paper = <<BlankPaper>>
  /\ position = 0

ConsoleNext == tic_PIT \/ \E text \in Texts : Write(text)

ConsoleSpec == ConsoleInit /\ [][ConsoleNext]_console_vars

-----------------------------------------------------------------------------
(* Properties. *)

ConsoleTypeOK ==
  /\ con.screen \in [Ligs -> [Cols -> [text : Texts \union {Space, Cross, Digit},
                                      cf : {BLACK, BLUE, GREEN, RED}]]]
  /\ con.col \in Cols /\ con.lig \in Ligs /\ con.cf = BLACK

(* Rows of the paper above the screen. *)
Above == IF Len(paper) > CONSOLE_LIG THEN Len(paper) - CONSOLE_LIG ELSE 0

(* The time and the cross lie over the text of the first line. *)
Overlaid(l, c) ==
  l = 0 /\ (c = CONSOLE_COL - 1 \/ c \in ClockCol .. ClockCol + ClockLen - 1)

(* wrap_cursor, screen_scroll, console_putbytes_at: the screen shows the   *)
(* end of what the processes wrote, whatever the clock interrupt draws     *)
(* over the first line in between, and before that line scrolls away.      *)
TextShown ==
  \A l \in Ligs, c \in Cols :
    Overlaid(l, c) \/
    con.screen[l][c].text =
      IF l + Above + 1 <= Len(paper) THEN paper[l + Above + 1][c] ELSE Space

(* put_cursor: the hardware cursor is where the next character will go,    *)
(* also after the interrupt wrote elsewhere.                               *)
CursorShown == con.cursor = <<position, Len(paper) - Above - 1>>

(* tic_PIT: the time fits time_str.                                        *)
TimeFits == sprintf_size(pit_count) <= time_str_size

(* console_putbytes under the clock interrupt: text and cursor are shown   *)
(* where they belong.                                                      *)
ScreenShown == ConsoleTypeOK /\ TextShown /\ CursorShown
=============================================================================
