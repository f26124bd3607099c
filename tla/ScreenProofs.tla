---------------------------- MODULE ScreenProofs -----------------------------
(***************************************************************************)
(* Theorems about the screen, with the processes that write to it, the     *)
(* clock interrupt that draws over its first line and the mouse that       *)
(* colours it: the end of what was written is shown, and the cursor is     *)
(* where the next character goes (ScreenShown); the pointer stays on the   *)
(* screen (OnScreen).                                                      *)
(***************************************************************************)
EXTENDS Mouse, ListLemmas

Colours == {BLACK, BLUE, GREEN, RED}
Chars == Texts \union {Space, Cross, Digit}
Cells == [text : Chars, cf : Colours]
Screens == [Ligs -> [Cols -> Cells]]
Displays == [screen : Screens, col : Nat, lig : Nat, cf : Colours, cursor : Nat \X Nat]
Papers == Seq([Cols -> Chars])

Controls == {Back, TabChar, LineBreak, Flush, Return}

(* The place a character goes to is on the screen. *)
AtHome(c) == c \in Displays /\ c.col \in Cols /\ c.lig \in Ligs

LEMMA Sizes ==
  /\ CONSOLE_COL \in Nat \ {0} /\ CONSOLE_LIG \in Nat \ {0, 1} /\ Tab \in Nat \ {0}
  /\ ClockCol \in Nat /\ ClockLen \in Nat /\ ClockCol + ClockLen < CONSOLE_COL
  /\ 0 \in Cols /\ CONSOLE_COL - 1 \in Cols /\ 0 \in Ligs /\ CONSOLE_LIG - 1 \in Ligs
BY ScreenAssumption DEF Cols, Ligs

LEMMA Blanks ==
  /\ Clean \in Cells /\ BlankRow \in [Cols -> Cells] /\ BlankPaper \in [Cols -> Chars]
  /\ [l \in Ligs |-> BlankRow] \in Screens
<1>1. Clean \in Cells
  BY DEF Clean, Cells, Chars, Colours
<1> QED BY <1>1 DEF BlankRow, BlankPaper, Chars, Screens

-----------------------------------------------------------------------------
(* One character.                                                          *)

(* The screen after a character, and after a line is lost at the top.      *)
Struck(c, text) == [c.screen EXCEPT ![c.lig][c.col] = [text |-> text, cf |-> c.cf]]
Rolled(screen) == [l \in Ligs |-> IF l < CONSOLE_LIG - 1 THEN screen[l + 1] ELSE BlankRow]

LEMMA StruckCells ==
  ASSUME NEW c, AtHome(c), NEW text \in Chars
  PROVE  /\ Struck(c, text) \in Screens
         /\ \A l \in Ligs, k \in Cols :
              Struck(c, text)[l][k] =
                IF l = c.lig /\ k = c.col THEN [text |-> text, cf |-> c.cf] ELSE c.screen[l][k]
<1>1. c.screen \in [Ligs -> [Cols -> Cells]] /\ c.lig \in Ligs /\ c.col \in Cols
  BY DEF AtHome, Displays, Screens
<1>2. [text |-> text, cf |-> c.cf] \in Cells
  BY DEF AtHome, Displays, Cells
<1> QED BY <1>1, <1>2 DEF Struck, Screens

LEMMA RolledCells ==
  ASSUME NEW screen \in Screens
  PROVE  Rolled(screen) \in Screens
<1>1. \A l \in Ligs : l < CONSOLE_LIG - 1 => l + 1 \in Ligs
  BY Sizes DEF Ligs
<1> QED BY <1>1, Blanks DEF Rolled, Screens

(* wrap_cursor, by what is reached. *)
LEMMA Wrapped ==
  ASSUME NEW c \in Displays, c.col <= CONSOLE_COL, c.lig < CONSOLE_LIG \/ c.col = 0
  PROVE  LET w == wrap_cursor(c)
             lig == IF c.col = CONSOLE_COL THEN c.lig + 1 ELSE c.lig
         IN /\ w \in Displays /\ w.cf = c.cf /\ w.cursor = c.cursor
            /\ w.col = IF c.col = CONSOLE_COL THEN 0 ELSE c.col
            /\ lig < CONSOLE_LIG => w.lig = lig /\ w.screen = c.screen
            /\ lig >= CONSOLE_LIG => w.lig = CONSOLE_LIG - 1 /\ w.screen = Rolled(c.screen)
<1> DEFINE d == IF c.col >= CONSOLE_COL THEN [c EXCEPT !.col = 0, !.lig = @ + 1] ELSE c
           w == wrap_cursor(c)
<1>1. c.col \in Nat /\ c.lig \in Nat /\ c.screen \in Screens
  BY DEF Displays
<1>2. /\ d \in Displays /\ d.cf = c.cf /\ d.cursor = c.cursor /\ d.screen = c.screen
      /\ d.col = IF c.col = CONSOLE_COL THEN 0 ELSE c.col
      /\ d.lig = IF c.col = CONSOLE_COL THEN c.lig + 1 ELSE c.lig
  <2>1. CASE c.col = CONSOLE_COL
    <3>1. d = [c EXCEPT !.col = 0, !.lig = c.lig + 1]
      BY <2>1, Sizes
    <3>2. c.lig + 1 \in Nat /\ 0 \in Nat
      BY <1>1
    <3>3. /\ d \in Displays /\ d.cf = c.cf /\ d.cursor = c.cursor /\ d.screen = c.screen
          /\ d.col = 0 /\ d.lig = c.lig + 1
      <4> DEFINE n == c.lig + 1
      <4> HIDE DEF d, n
      <4>1. d = [c EXCEPT !.col = 0, !.lig = n] /\ n \in Nat
        BY <3>1, <3>2 DEF n
      <4>2. /\ d \in Displays /\ d.cf = c.cf /\ d.cursor = c.cursor /\ d.screen = c.screen
            /\ d.col = 0 /\ d.lig = n
        BY <4>1 DEF Displays
      <4> QED BY <4>2 DEF n
    <3> HIDE DEF d
    <3> QED BY <2>1, <3>3
  <2>2. CASE c.col # CONSOLE_COL
    BY <1>1, <2>2, Sizes
  <2> QED BY <2>1, <2>2
<1>3. w = IF d.lig >= CONSOLE_LIG
          THEN [[d EXCEPT !.screen = Rolled(d.screen)] EXCEPT !.lig = CONSOLE_LIG - 1]
          ELSE d
  BY DEF wrap_cursor, screen_scroll, Rolled
<1> HIDE DEF d
<1>4. CASE d.lig >= CONSOLE_LIG
  <2>1. w = [[d EXCEPT !.screen = Rolled(d.screen)] EXCEPT !.lig = CONSOLE_LIG - 1]
    BY <1>3, <1>4
  <2>2. Rolled(d.screen) \in Screens /\ CONSOLE_LIG - 1 \in Nat
    BY <1>1, <1>2, RolledCells, Sizes
  <2>3. /\ w \in Displays /\ w.cf = d.cf /\ w.cursor = d.cursor /\ w.col = d.col
        /\ w.lig = CONSOLE_LIG - 1 /\ w.screen = Rolled(d.screen)
    <3> HIDE DEF w
    <3> QED BY <1>2, <2>1, <2>2 DEF Displays
  <2> HIDE DEF w
  <2> QED BY <1>1, <1>2, <1>4, <2>3, Sizes DEF w
<1>5. CASE ~(d.lig >= CONSOLE_LIG)
  <2>1. w = d
    BY <1>3, <1>5
  <2> HIDE DEF w
  <2> QED BY <1>1, <1>2, <1>5, <2>1, Sizes DEF w
<1> QED BY <1>4, <1>5

LEMMA Codes ==
  /\ Back # TabChar /\ Back # LineBreak /\ Back # Flush /\ Back # Return
  /\ TabChar # LineBreak /\ TabChar # Flush /\ TabChar # Return
  /\ LineBreak # Flush /\ LineBreak # Return /\ Flush # Return
BY DEF Back, TabChar, LineBreak, Flush, Return

(* handle_char, arm by arm. *)
LEMMA Arms ==
  ASSUME NEW c, NEW text
  PROVE  /\ text = Back => handle_char(c, text) = [c EXCEPT !.col = IF @ > 0 THEN @ - 1 ELSE 0]
         /\ text = TabChar => handle_char(c, text) = [c EXCEPT !.col = TabStop(@)]
         /\ text = LineBreak =>
              handle_char(c, text) = wrap_cursor([c EXCEPT !.col = 0, !.lig = @ + 1])
         /\ text = Flush =>
              handle_char(c, text) = [c EXCEPT !.col = 0, !.lig = 0, !.cf = BLACK,
                                               !.screen = [l \in Ligs |-> BlankRow]]
         /\ text = Return => handle_char(c, text) = [c EXCEPT !.col = 0]
         /\ text \notin Controls =>
              handle_char(c, text) =
                wrap_cursor([c EXCEPT !.screen[c.lig][c.col] = [text |-> text, cf |-> c.cf],
                                      !.col = @ + 1])
BY Codes, Zenon DEF handle_char, Controls

(* A character is struck, and the cursor moves on. *)
LEMMA Strike ==
  ASSUME NEW c, AtHome(c), NEW text \in Chars \ Controls
  PROVE  LET r == handle_char(c, text) IN
         /\ r \in Displays /\ r.cf = c.cf /\ r.cursor = c.cursor
         /\ c.col + 1 < CONSOLE_COL =>
              r.col = c.col + 1 /\ r.lig = c.lig /\ r.screen = Struck(c, text)
         /\ c.col + 1 = CONSOLE_COL /\ c.lig + 1 < CONSOLE_LIG =>
              r.col = 0 /\ r.lig = c.lig + 1 /\ r.screen = Struck(c, text)
         /\ c.col + 1 = CONSOLE_COL /\ c.lig + 1 = CONSOLE_LIG =>
              r.col = 0 /\ r.lig = c.lig /\ r.screen = Rolled(Struck(c, text))
<1> DEFINE n == c.col + 1
           d == [c EXCEPT !.screen[c.lig][c.col] = [text |-> text, cf |-> c.cf], !.col = @ + 1]
           r == handle_char(c, text)
<1>1. /\ c \in Displays /\ c.col \in Nat /\ c.lig \in Nat /\ n \in Nat /\ n <= CONSOLE_COL
      /\ c.lig < CONSOLE_LIG
  BY Sizes DEF AtHome, Displays, Cols, Ligs
<1>2. d = [c EXCEPT !.screen = Struck(c, text), !.col = n]
  BY <1>1 DEF Struck, Displays
<1>3. Struck(c, text) \in Screens
  BY StruckCells
<1>4. /\ d \in Displays /\ d.cf = c.cf /\ d.cursor = c.cursor /\ d.screen = Struck(c, text)
      /\ d.col = n /\ d.lig = c.lig
  <2> DEFINE sc == Struck(c, text)
  <2> HIDE DEF d, n, sc
  <2>1. d = [c EXCEPT !.screen = sc, !.col = n] /\ sc \in Screens
    BY <1>2, <1>3 DEF sc
  <2>2. /\ d \in Displays /\ d.cf = c.cf /\ d.cursor = c.cursor /\ d.screen = sc
        /\ d.col = n /\ d.lig = c.lig
    BY <1>1, <2>1 DEF Displays
  <2> QED BY <2>2 DEF sc
<1>5. r = wrap_cursor(d)
  BY Arms
<1> DEFINE w == wrap_cursor(d)
           lig == IF d.col = CONSOLE_COL THEN d.lig + 1 ELSE d.lig
<1>6. /\ w \in Displays /\ w.cf = d.cf /\ w.cursor = d.cursor
      /\ w.col = IF d.col = CONSOLE_COL THEN 0 ELSE d.col
      /\ lig < CONSOLE_LIG => w.lig = lig /\ w.screen = d.screen
      /\ lig >= CONSOLE_LIG => w.lig = CONSOLE_LIG - 1 /\ w.screen = Rolled(d.screen)
  <2>1. d.col <= CONSOLE_COL /\ d.lig < CONSOLE_LIG
    BY <1>1, <1>4
  <2> HIDE DEF d
  <2> QED BY <1>4, <2>1, Wrapped
<1> HIDE DEF d, w, r
<1> QED BY <1>1, <1>4, <1>5, <1>6, Sizes DEF w, r

(* A line break. *)
LEMMA Break ==
  ASSUME NEW c, AtHome(c)
  PROVE  LET r == handle_char(c, LineBreak) IN
         /\ r \in Displays /\ r.cf = c.cf /\ r.cursor = c.cursor /\ r.col = 0
         /\ c.lig + 1 < CONSOLE_LIG => r.lig = c.lig + 1 /\ r.screen = c.screen
         /\ c.lig + 1 = CONSOLE_LIG => r.lig = c.lig /\ r.screen = Rolled(c.screen)
<1> DEFINE n == c.lig + 1
           d == [c EXCEPT !.col = 0, !.lig = n]
           r == handle_char(c, LineBreak)
<1>1. /\ c \in Displays /\ c.lig \in Nat /\ n \in Nat /\ n <= CONSOLE_LIG
  BY Sizes DEF AtHome, Displays, Ligs
<1>4. /\ d \in Displays /\ d.cf = c.cf /\ d.cursor = c.cursor /\ d.screen = c.screen
      /\ d.col = 0 /\ d.lig = n
  <2> HIDE DEF n
  <2> QED BY <1>1 DEF Displays
<1>5. r = wrap_cursor(d)
  BY Arms
<1> DEFINE w == wrap_cursor(d)
           lig == IF d.col = CONSOLE_COL THEN d.lig + 1 ELSE d.lig
<1>6. /\ w \in Displays /\ w.cf = d.cf /\ w.cursor = d.cursor
      /\ w.col = IF d.col = CONSOLE_COL THEN 0 ELSE d.col
      /\ lig < CONSOLE_LIG => w.lig = lig /\ w.screen = d.screen
      /\ lig >= CONSOLE_LIG => w.lig = CONSOLE_LIG - 1 /\ w.screen = Rolled(d.screen)
  <2>1. d.col <= CONSOLE_COL /\ d.col = 0
    BY <1>4, Sizes
  <2> HIDE DEF d
  <2> QED BY <1>4, <2>1, Wrapped
<1> HIDE DEF d, w, r
<1> QED BY <1>1, <1>4, <1>5, <1>6, Sizes DEF w, r

(* The other control characters move the cursor only, or clear the screen. *)
LEMMA MoveOnly ==
  ASSUME NEW c, AtHome(c), NEW k \in Cols
  PROVE  LET r == [c EXCEPT !.col = k] IN
         /\ AtHome(r) /\ r.col = k /\ r.lig = c.lig /\ r.cf = c.cf /\ r.screen = c.screen
<1>1. c \in Displays /\ k \in Nat
  BY DEF AtHome, Cols
<1>2. /\ [c EXCEPT !.col = k] \in Displays
      /\ [c EXCEPT !.col = k].col = k /\ [c EXCEPT !.col = k].lig = c.lig
      /\ [c EXCEPT !.col = k].cf = c.cf /\ [c EXCEPT !.col = k].screen = c.screen
  BY <1>1 DEF Displays
<1> QED BY <1>2 DEF AtHome

LEMMA TabStops ==
  ASSUME NEW col \in Cols
  PROVE  LET stop == (col \div Tab + 1) * Tab IN
         /\ TabStop(col) \in Cols
         /\ TabStop(col) = Min({stop, CONSOLE_COL - 1})
<1> DEFINE stop == (col \div Tab + 1) * Tab
           T == {stop, CONSOLE_COL - 1}
<1>1. stop \in Nat
  <2> DEFINE q == col \div Tab
  <2>1. q \in Nat
    BY Sizes, SMT DEF Cols
  <2> HIDE DEF q
  <2>2. (q + 1) * Tab \in Nat
    BY <2>1, Sizes, SMT
  <2> QED BY <2>2 DEF q
<1> HIDE DEF stop
<1>2. T \in SUBSET Nat /\ T # {}
  BY <1>1, Sizes
<1>3. Min(T) \in T /\ \A m \in T : Min(T) <= m
  <2> HIDE DEF T
  <2> QED BY <1>2, MinProperty
<1>4. TabStop(col) = IF stop >= CONSOLE_COL THEN CONSOLE_COL - 1 ELSE stop
  BY DEF TabStop, stop
<1> DEFINE m == Min(T)
<1>5. m \in {stop, CONSOLE_COL - 1} /\ m <= stop /\ m <= CONSOLE_COL - 1
  BY <1>3
<1> HIDE DEF m
<1>6. TabStop(col) = m /\ TabStop(col) \in Cols
  BY <1>1, <1>4, <1>5, Sizes DEF Cols
<1> QED BY <1>6 DEF m, stop

-----------------------------------------------------------------------------
(* The paper.                                                              *)

AboveIn(p) == IF Len(p) > CONSOLE_LIG THEN Len(p) - CONSOLE_LIG ELSE 0

(* The row of the paper that line l of the screen shows. *)
Line(p, l) == IF l + AboveIn(p) + 1 <= Len(p) THEN p[l + AboveIn(p) + 1] ELSE BlankPaper

LEMMA LineText ==
  ASSUME NEW p \in Papers, NEW l \in Ligs
  PROVE  Line(p, l) \in [Cols -> Chars]
<1>1. Len(p) \in Nat /\ AboveIn(p) \in Nat /\ l \in Nat
  BY Sizes DEF Papers, AboveIn, Ligs
<1>2. CASE l + AboveIn(p) + 1 <= Len(p)
  BY <1>1, <1>2 DEF Line, Papers
<1>3. CASE ~(l + AboveIn(p) + 1 <= Len(p))
  BY <1>3, Blanks DEF Line
<1> QED BY <1>2, <1>3

(* A new row: the lines stay, or each moves up. *)
LEMMA NewRow ==
  ASSUME NEW p \in Papers, p # <<>>
  PROVE  LET q == Append(p, BlankPaper) IN
         /\ q \in Papers /\ Len(q) = Len(p) + 1
         /\ Len(p) < CONSOLE_LIG =>
              /\ AboveIn(p) = 0 /\ AboveIn(q) = 0
              /\ \A l \in Ligs : Line(q, l) = Line(p, l)
         /\ Len(p) >= CONSOLE_LIG =>
              /\ AboveIn(p) = Len(p) - CONSOLE_LIG /\ AboveIn(q) = AboveIn(p) + 1
              /\ \A l \in Ligs : Line(q, l) = IF l < CONSOLE_LIG - 1 THEN Line(p, l + 1)
                                              ELSE BlankPaper
<1> DEFINE q == Append(p, BlankPaper)
           n == Len(p)
<1>1. n \in Nat
  BY DEF Papers
<1>2. q \in Papers /\ Len(q) = n + 1 /\ q[n + 1] = BlankPaper
      /\ \A i \in 1 .. n : q[i] = p[i]
  BY Blanks DEF Papers
<1> HIDE DEF q, n
<1>3. CASE n < CONSOLE_LIG
  <2>1. AboveIn(p) = 0 /\ AboveIn(q) = 0
    BY <1>1, <1>2, <1>3, Sizes DEF AboveIn, n
  <2>2. ASSUME NEW l \in Ligs PROVE Line(q, l) = Line(p, l)
    <3>1. l \in Nat
      BY DEF Ligs
    <3>2. CASE l + 1 <= n
      BY <1>1, <1>2, <2>1, <3>1, <3>2 DEF Line, n
    <3>3. CASE l = n
      BY <1>1, <1>2, <2>1, <3>1, <3>3 DEF Line, n
    <3>4. CASE l > n
      BY <1>1, <1>2, <2>1, <3>1, <3>4 DEF Line, n
    <3> QED BY <1>1, <3>1, <3>2, <3>3, <3>4
  <2> QED BY <1>1, <1>2, <1>3, <2>1, <2>2, Sizes DEF n, q
<1>4. CASE n >= CONSOLE_LIG
  <2>1. AboveIn(p) = n - CONSOLE_LIG /\ AboveIn(q) = n - CONSOLE_LIG + 1
    BY <1>1, <1>2, <1>4, Sizes DEF AboveIn, n
  <2>2. ASSUME NEW l \in Ligs
        PROVE  Line(q, l) = IF l < CONSOLE_LIG - 1 THEN Line(p, l + 1) ELSE BlankPaper
    <3>1. l \in 0 .. CONSOLE_LIG - 1
      BY DEF Ligs
    <3> DEFINE i == l + (n - CONSOLE_LIG) + 2
    <3>2. Line(q, l) = q[i] /\ i \in 1 .. n + 1
      BY <1>1, <1>2, <1>4, <2>1, <3>1, Sizes DEF Line
    <3>3. CASE l < CONSOLE_LIG - 1
      <4>1. i \in 1 .. n /\ (l + 1) + AboveIn(p) + 1 = i
        BY <1>1, <1>4, <2>1, <3>1, <3>3, Sizes
      <4>2. Line(p, l + 1) = p[i]
        <5> HIDE DEF i
        <5> QED BY <1>1, <4>1 DEF Line, n
      <4> HIDE DEF i
      <4> QED BY <1>2, <3>2, <3>3, <4>1, <4>2
    <3>4. CASE ~(l < CONSOLE_LIG - 1)
      <4>1. i = n + 1
        BY <1>1, <3>1, <3>4, Sizes
      <4> HIDE DEF i
      <4> QED BY <1>2, <3>2, <3>4, <4>1
    <3> QED BY <3>3, <3>4
  <2> QED BY <1>1, <1>2, <1>4, <2>1, <2>2, Sizes DEF n, q
<1> QED BY <1>1, <1>3, <1>4, Sizes

(* A character typed in the last row. *)
Over(p, col, text) == [p EXCEPT ![Len(p)][col] = text]

LEMMA TypedOver ==
  ASSUME NEW p \in Papers, p # <<>>, NEW col \in Cols, NEW text \in Chars
  PROVE  LET q == Over(p, col, text) IN
         /\ q \in Papers /\ Len(q) = Len(p) /\ AboveIn(q) = AboveIn(p) /\ q # <<>>
         /\ Len(p) - AboveIn(p) - 1 \in Ligs
         /\ \A l \in Ligs, k \in Cols :
              Line(q, l)[k] = IF l = Len(p) - AboveIn(p) - 1 /\ k = col THEN text
                              ELSE Line(p, l)[k]
<1> DEFINE q == Over(p, col, text)
           n == Len(p)
           a == AboveIn(p)
<1>1. n \in Nat \ {0} /\ n \in DOMAIN p /\ p[n] \in [Cols -> Chars] /\ DOMAIN p = 1 .. n
  BY DEF Papers
<1>2. q \in Papers /\ Len(q) = n /\ (\A i \in 1 .. n : i # n => q[i] = p[i])
      /\ q[n] = [p[n] EXCEPT ![col] = text]
  <2>1. [p[n] EXCEPT ![col] = text] \in [Cols -> Chars]
    BY <1>1
  <2>2. q = [p EXCEPT ![n] = [p[n] EXCEPT ![col] = text]]
    BY DEF Over
  <2> DEFINE row == [p[n] EXCEPT ![col] = text]
  <2> HIDE DEF row, q
  <2> QED BY <1>1, <2>1, <2>2 DEF row, Papers
<1>3. a \in Nat /\ n - a - 1 \in Ligs
  BY <1>1, Sizes DEF AboveIn, Ligs
<1> HIDE DEF q
<1>4. AboveIn(q) = a
  BY <1>2 DEF AboveIn
<1> HIDE DEF n, a
<1>5. ASSUME NEW l \in Ligs, NEW k \in Cols
      PROVE  Line(q, l)[k] = IF l = n - a - 1 /\ k = col THEN text ELSE Line(p, l)[k]
  <2>1. l \in Nat /\ Line(p, l) = (IF l + a + 1 <= n THEN p[l + a + 1] ELSE BlankPaper)
        /\ Line(q, l) = IF l + a + 1 <= n THEN q[l + a + 1] ELSE BlankPaper
    BY <1>2, <1>4 DEF Line, Ligs, n, a
  <2>2. CASE l = n - a - 1
    <3>1. l + a + 1 = n
      BY <1>1, <1>3, <2>1, <2>2
    <3>2. Line(p, l) = p[n] /\ Line(q, l) = q[n]
      BY <1>1, <2>1, <3>1
    <3> QED BY <1>1, <1>2, <2>2, <3>2
  <2>3. CASE l # n - a - 1
    <3>1. l + a + 1 # n /\ (l + a + 1 <= n => l + a + 1 \in 1 .. n)
      BY <1>1, <1>3, <2>1, <2>3
    <3> QED BY <1>2, <2>1, <2>3, <3>1
  <2> QED BY <2>2, <2>3
<1>6. q # <<>>
  BY <1>1, <1>2
<1> QED BY <1>2, <1>3, <1>4, <1>5, <1>6 DEF q, n, a


-----------------------------------------------------------------------------
(* What console_putbytes does, one character or a run of digits.           *)

LEMMA PutOne ==
  ASSUME NEW c, NEW t
  PROVE  console_putbytes(c, <<t>>) = put_cursor(handle_char(c, t))
<1> DEFINE Body(f) == [i \in 0 .. Len(<<t>>) |-> IF i = 0 THEN c ELSE handle_char(f[i - 1], <<t>>[i])]
           h == CHOOSE f : f = Body(f)
           d == handle_char(c, t)
           g == [i \in 0 .. 1 |-> IF i = 0 THEN c ELSE d]
<1>1. console_putbytes(c, <<t>>) = put_cursor(h[1])
  <2>1. Len(<<t>>) = 1
    OBVIOUS
  <2>2. console_putbytes(c, <<t>>) = put_cursor(h[Len(<<t>>)])
    BY DEF console_putbytes
  <2> QED BY <2>1, <2>2
<1>2. g[0] = c /\ g[1] = d
  OBVIOUS
<1>3. \A f : f[0] = c => Body(f) = g
  <2> TAKE f
  <2> HAVE f[0] = c
  <2>1. Len(<<t>>) = 1 /\ <<t>>[1] = t
    OBVIOUS
  <2>2. \A i \in 0 .. 1 : i = 0 \/ i = 1
    OBVIOUS
  <2>3. \A i \in 0 .. 1 : (IF i = 0 THEN c ELSE handle_char(f[i - 1], <<t>>[i])) = (IF i = 0 THEN c ELSE d)
    <3> TAKE i \in 0 .. 1
    <3>1. CASE i = 0
      BY <3>1
    <3>2. CASE i = 1
      <4>1. f[i - 1] = c /\ <<t>>[i] = t
        BY <2>1, <3>2
      <4> QED BY <3>2, <4>1
    <3> QED BY <2>2, <3>1, <3>2
  <2> QED BY <2>1, <2>3
<1>4. h = Body(h)
  <2>1. g = Body(g)
    <3> HIDE DEF Body, g
    <3> QED BY <1>2, <1>3
  <2> HIDE DEF Body, g
  <2> QED BY <2>1
<1>5. h[0] = c
  <2>1. \A f : Body(f)[0] = c
    <3>1. 0 \in 0 .. Len(<<t>>)
      OBVIOUS
    <3> QED BY <3>1
  <2> HIDE DEF Body, h
  <2> QED BY <1>4, <2>1
<1> HIDE DEF Body, h, g, d
<1> QED BY <1>1, <1>2, <1>3, <1>4, <1>5 DEF d

(* Back in place, with the cursor shown. *)
LEMMA PutCursor ==
  ASSUME NEW c \in Displays
  PROVE  LET r == put_cursor(c) IN
         /\ r \in Displays /\ r.col = c.col /\ r.lig = c.lig /\ r.cf = c.cf
         /\ r.screen = c.screen /\ r.cursor = <<c.col, c.lig>>
<1> DEFINE cur == <<c.col, c.lig>>
<1>1. cur \in Nat \X Nat
  BY DEF Displays
<1>2. put_cursor(c) = [c EXCEPT !.cursor = cur]
  BY DEF put_cursor
<1> HIDE DEF cur
<1>3. /\ [c EXCEPT !.cursor = cur] \in Displays
      /\ [c EXCEPT !.cursor = cur].col = c.col /\ [c EXCEPT !.cursor = cur].lig = c.lig
      /\ [c EXCEPT !.cursor = cur].cf = c.cf /\ [c EXCEPT !.cursor = cur].screen = c.screen
      /\ [c EXCEPT !.cursor = cur].cursor = cur
  BY <1>1 DEF Displays
<1> QED BY <1>2, <1>3 DEF cur


-----------------------------------------------------------------------------
(* The screen shows the paper.                                             *)

TextOf(screen, p) ==
  \A l \in Ligs, k \in Cols : Overlaid(l, k) \/ screen[l][k].text = Line(p, l)[k]

(* The line of the screen in which the last row of the paper is shown. *)
LastLine(p) == Len(p) - AboveIn(p) - 1

Shown(c, p, pos) ==
  /\ AtHome(c) /\ c.cf = BLACK
  /\ p \in Papers /\ p # <<>>
  /\ c.col = pos /\ c.lig = LastLine(p)
  /\ TextOf(c.screen, p)

LEMMA LastLines ==
  ASSUME NEW p \in Papers, p # <<>>
  PROVE  /\ Len(p) \in Nat \ {0} /\ LastLine(p) \in Ligs
         /\ Len(p) < CONSOLE_LIG <=> LastLine(p) + 1 < CONSOLE_LIG
         /\ Len(p) >= CONSOLE_LIG <=> LastLine(p) + 1 = CONSOLE_LIG
<1>1. Len(p) \in Nat \ {0}
  BY DEF Papers
<1> DEFINE n == Len(p)
<1> HIDE DEF n
<1>2. LastLine(p) = IF n > CONSOLE_LIG THEN CONSOLE_LIG - 1 ELSE n - 1
  BY <1>1, Sizes DEF LastLine, AboveIn, n
<1> QED BY <1>1, <1>2, Sizes DEF Ligs, n

LEMMA RowAdded ==
  ASSUME NEW p \in Papers, p # <<>>, NEW screen \in Screens, TextOf(screen, p)
  PROVE  LET q == Append(p, BlankPaper) IN
         /\ q \in Papers /\ q # <<>>
         /\ Len(p) < CONSOLE_LIG => LastLine(q) = LastLine(p) + 1 /\ TextOf(screen, q)
         /\ Len(p) >= CONSOLE_LIG => LastLine(q) = LastLine(p) /\ TextOf(Rolled(screen), q)
<1> DEFINE q == Append(p, BlankPaper)
<1>1. /\ q \in Papers /\ Len(q) = Len(p) + 1
      /\ Len(p) < CONSOLE_LIG =>
           /\ AboveIn(p) = 0 /\ AboveIn(q) = 0
           /\ \A l \in Ligs : Line(q, l) = Line(p, l)
      /\ Len(p) >= CONSOLE_LIG =>
           /\ AboveIn(p) = Len(p) - CONSOLE_LIG /\ AboveIn(q) = AboveIn(p) + 1
           /\ \A l \in Ligs : Line(q, l) = IF l < CONSOLE_LIG - 1 THEN Line(p, l + 1)
                                           ELSE BlankPaper
  BY NewRow
<1>2. Len(p) \in Nat \ {0}
  BY LastLines
<1> HIDE DEF q
<1>3. q # <<>>
  BY <1>1, <1>2
<1>4. ASSUME Len(p) < CONSOLE_LIG
      PROVE  LastLine(q) = LastLine(p) + 1 /\ TextOf(screen, q)
  <2>1. LastLine(q) = LastLine(p) + 1
    BY <1>1, <1>2, <1>4 DEF LastLine
  <2>2. TextOf(screen, q)
    BY <1>1, <1>4 DEF TextOf
  <2> QED BY <2>1, <2>2
<1>5. ASSUME Len(p) >= CONSOLE_LIG
      PROVE  LastLine(q) = LastLine(p) /\ TextOf(Rolled(screen), q)
  <2>1. LastLine(q) = LastLine(p)
    BY <1>1, <1>2, <1>5, Sizes DEF LastLine
  <2>2. ASSUME NEW l \in Ligs, NEW k \in Cols
        PROVE  Rolled(screen)[l][k].text = Line(q, l)[k]
    <3>1. CASE l < CONSOLE_LIG - 1
      <4>1. l + 1 \in Ligs /\ l + 1 # 0
        BY <3>1, Sizes DEF Ligs
      <4>2. ~Overlaid(l + 1, k)
        BY <4>1 DEF Overlaid
      <4>3. screen[l + 1][k].text = Line(p, l + 1)[k]
        BY <4>1, <4>2 DEF TextOf
      <4> QED BY <1>1, <1>5, <3>1, <4>3 DEF Rolled
    <3>2. CASE ~(l < CONSOLE_LIG - 1)
      <4>1. Line(q, l)[k] = Space
        BY <1>1, <1>5, <3>2 DEF BlankPaper
      <4>2. Rolled(screen)[l][k] = Clean
        BY <3>2 DEF Rolled, BlankRow
      <4> QED BY <4>1, <4>2 DEF Clean
    <3> QED BY <3>1, <3>2
  <2> QED BY <2>1, <2>2 DEF TextOf
<1> QED BY <1>1, <1>3, <1>4, <1>5 DEF q

LEMMA StruckShown ==
  ASSUME NEW c, NEW p, NEW pos, Shown(c, p, pos), NEW text \in Chars
  PROVE  LET q == Over(p, pos, text) IN
         /\ q \in Papers /\ q # <<>> /\ Len(q) = Len(p) /\ LastLine(q) = LastLine(p)
         /\ Struck(c, text) \in Screens
         /\ TextOf(Struck(c, text), q)
<1> DEFINE q == Over(p, pos, text)
<1>1. /\ AtHome(c) /\ p \in Papers /\ p # <<>> /\ pos \in Cols
      /\ c.col = pos /\ c.lig = LastLine(p) /\ TextOf(c.screen, p)
  BY DEF Shown, AtHome
<1>2. /\ q \in Papers /\ Len(q) = Len(p) /\ AboveIn(q) = AboveIn(p) /\ q # <<>>
      /\ \A l \in Ligs, k \in Cols :
           Line(q, l)[k] = IF l = Len(p) - AboveIn(p) - 1 /\ k = pos THEN text
                           ELSE Line(p, l)[k]
  BY <1>1, TypedOver
<1> HIDE DEF q
<1>3. LastLine(q) = LastLine(p)
  BY <1>2 DEF LastLine
<1>4. /\ Struck(c, text) \in Screens
      /\ \A l \in Ligs, k \in Cols :
           Struck(c, text)[l][k] =
             IF l = c.lig /\ k = c.col THEN [text |-> text, cf |-> c.cf] ELSE c.screen[l][k]
  BY <1>1, StruckCells
<1>5. ASSUME NEW l \in Ligs, NEW k \in Cols, ~Overlaid(l, k)
      PROVE  Struck(c, text)[l][k].text = Line(q, l)[k]
  <2>1. c.screen[l][k].text = Line(p, l)[k]
    BY <1>1, <1>5 DEF TextOf
  <2>2. CASE l = c.lig /\ k = c.col
    <3>1. Line(q, l)[k] = text
      BY <1>1, <1>2, <2>2 DEF LastLine
    <3>2. Struck(c, text)[l][k] = [text |-> text, cf |-> c.cf]
      BY <1>4, <2>2
    <3> QED BY <3>1, <3>2
  <2>3. CASE ~(l = c.lig /\ k = c.col)
    <3>1. Line(q, l)[k] = Line(p, l)[k]
      BY <1>1, <1>2, <2>3 DEF LastLine
    <3>2. Struck(c, text)[l][k] = c.screen[l][k]
      BY <1>4, <2>3
    <3> QED BY <2>1, <3>1, <3>2
  <2> QED BY <2>2, <2>3
<1> QED BY <1>2, <1>3, <1>4, <1>5 DEF TextOf, q


(* handle_char against Typed, one lemma for each kind of character. *)
LEMMA MoveShown ==
  ASSUME NEW c, NEW p, NEW pos, Shown(c, p, pos), NEW k \in Cols
  PROVE  Shown([c EXCEPT !.col = k], p, k)
<1> DEFINE r == [c EXCEPT !.col = k]
<1>1. AtHome(c)
  BY DEF Shown
<1>2. /\ AtHome(r) /\ r.col = k /\ r.lig = c.lig /\ r.cf = c.cf /\ r.screen = c.screen
  BY <1>1, MoveOnly
<1> HIDE DEF r
<1>3. Shown(r, p, k)
  BY <1>2 DEF Shown
<1> QED BY <1>3 DEF r

LEMMA FlushShown ==
  ASSUME NEW c, NEW p, NEW pos, Shown(c, p, pos)
  PROVE  Shown(handle_char(c, Flush), <<BlankPaper>>, 0)
<1> DEFINE sc == [l \in Ligs |-> BlankRow]
           r == [c EXCEPT !.col = 0, !.lig = 0, !.cf = BLACK, !.screen = sc]
           q == <<BlankPaper>>
<1>1. handle_char(c, Flush) = r
  BY Arms
<1>2. c \in Displays /\ sc \in Screens /\ BLACK \in Colours
  BY Blanks DEF Shown, AtHome, Colours
<1>3. r \in Displays /\ r.col = 0 /\ r.lig = 0 /\ r.cf = BLACK /\ r.screen = sc
  <2> DEFINE bl == BLACK
  <2> HIDE DEF sc, bl
  <2>1. bl \in Colours
    BY <1>2 DEF bl
  <2>2. LET d == [c EXCEPT !.col = 0, !.lig = 0, !.cf = bl, !.screen = sc] IN
        d \in Displays /\ d.col = 0 /\ d.lig = 0 /\ d.cf = bl /\ d.screen = sc
    BY <1>2, <2>1 DEF Displays
  <2> QED BY <2>2 DEF bl
<1>4. q \in Papers /\ q # <<>> /\ Len(q) = 1 /\ q[1] = BlankPaper
  BY Blanks DEF Papers
<1> HIDE DEF r, q
<1>5. AboveIn(q) = 0 /\ LastLine(q) = 0
  <2>1. AboveIn(q) = 0
    <3>1. ~(1 > CONSOLE_LIG)
      BY Sizes
    <3> QED BY <1>4, <3>1 DEF AboveIn
  <2> QED BY <1>4, <2>1 DEF LastLine
<1>6. \A l \in Ligs : Line(q, l) = BlankPaper
  <2> TAKE l \in Ligs
  <2>1. l \in Nat
    BY DEF Ligs
  <2>2. CASE l = 0
    BY <1>4, <1>5, <2>2 DEF Line
  <2>3. CASE l # 0
    BY <1>4, <1>5, <2>1, <2>3 DEF Line
  <2> QED BY <2>2, <2>3
<1>7. TextOf(sc, q)
  <2> SUFFICES ASSUME NEW l \in Ligs, NEW k \in Cols PROVE sc[l][k].text = Line(q, l)[k]
    BY DEF TextOf
  <2>1. sc[l][k] = Clean
    BY DEF BlankRow
  <2>2. Line(q, l)[k] = Space
    BY <1>6 DEF BlankPaper
  <2> HIDE DEF sc
  <2> QED BY <2>1, <2>2 DEF Clean
<1>8. AtHome(r)
  BY <1>3, Sizes DEF AtHome
<1> HIDE DEF sc
<1>9. Shown(r, q, 0)
  BY <1>3, <1>4, <1>5, <1>7, <1>8 DEF Shown
<1> QED BY <1>1, <1>9 DEF q

LEMMA BreakShown ==
  ASSUME NEW c, NEW p, NEW pos, Shown(c, p, pos)
  PROVE  Shown(handle_char(c, LineBreak), Append(p, BlankPaper), 0)
<1> DEFINE r == handle_char(c, LineBreak)
           q == Append(p, BlankPaper)
<1>1. /\ AtHome(c) /\ c.screen \in Screens /\ p \in Papers /\ p # <<>>
      /\ c.lig = LastLine(p) /\ TextOf(c.screen, p) /\ c.cf = BLACK
  BY DEF Shown, AtHome, Displays
<1>2. /\ r \in Displays /\ r.cf = c.cf /\ r.cursor = c.cursor /\ r.col = 0
      /\ c.lig + 1 < CONSOLE_LIG => r.lig = c.lig + 1 /\ r.screen = c.screen
      /\ c.lig + 1 = CONSOLE_LIG => r.lig = c.lig /\ r.screen = Rolled(c.screen)
  BY <1>1, Break
<1>3. /\ q \in Papers /\ q # <<>>
      /\ Len(p) < CONSOLE_LIG => LastLine(q) = LastLine(p) + 1 /\ TextOf(c.screen, q)
      /\ Len(p) >= CONSOLE_LIG => LastLine(q) = LastLine(p) /\ TextOf(Rolled(c.screen), q)
  BY <1>1, RowAdded
<1>4. LastLine(q) \in Ligs
  <2> HIDE DEF q
  <2> QED BY <1>3, LastLines
<1>5. /\ Len(p) \in Nat
      /\ Len(p) < CONSOLE_LIG <=> LastLine(p) + 1 < CONSOLE_LIG
      /\ Len(p) >= CONSOLE_LIG <=> LastLine(p) + 1 = CONSOLE_LIG
  BY <1>1, LastLines
<1> HIDE DEF r, q
<1>6. r.lig = LastLine(q) /\ TextOf(r.screen, q)
  <2>1. CASE Len(p) < CONSOLE_LIG
    BY <1>1, <1>2, <1>3, <1>5, <2>1
  <2>2. CASE Len(p) >= CONSOLE_LIG
    BY <1>1, <1>2, <1>3, <1>5, <2>2
  <2> QED BY <1>5, <2>1, <2>2, Sizes
<1>7. Shown(r, q, 0)
  BY <1>1, <1>2, <1>3, <1>4, <1>6, Sizes DEF Shown, AtHome
<1> QED BY <1>7 DEF r, q

LEMMA StrikeShown ==
  ASSUME NEW c, NEW p, NEW pos, Shown(c, p, pos), NEW text \in Chars \ Controls
  PROVE  LET over == Over(p, pos, text)
             r == handle_char(c, text)
         IN IF pos + 1 < CONSOLE_COL THEN Shown(r, over, pos + 1)
            ELSE Shown(r, Append(over, BlankPaper), 0)
<1> DEFINE r == handle_char(c, text)
           over == Over(p, pos, text)
           q == Append(over, BlankPaper)
           sc == Struck(c, text)
<1>1. /\ AtHome(c) /\ c.screen \in Screens /\ p \in Papers /\ p # <<>> /\ c.col = pos
      /\ c.lig = LastLine(p) /\ TextOf(c.screen, p) /\ c.cf = BLACK /\ pos \in Cols
      /\ c.lig \in Ligs
  BY DEF Shown, AtHome, Displays
<1>2. /\ r \in Displays /\ r.cf = c.cf /\ r.cursor = c.cursor
      /\ c.col + 1 < CONSOLE_COL =>
           r.col = c.col + 1 /\ r.lig = c.lig /\ r.screen = sc
      /\ c.col + 1 = CONSOLE_COL /\ c.lig + 1 < CONSOLE_LIG =>
           r.col = 0 /\ r.lig = c.lig + 1 /\ r.screen = sc
      /\ c.col + 1 = CONSOLE_COL /\ c.lig + 1 = CONSOLE_LIG =>
           r.col = 0 /\ r.lig = c.lig /\ r.screen = Rolled(sc)
  BY <1>1, Strike
<1>3. /\ over \in Papers /\ over # <<>> /\ Len(over) = Len(p) /\ LastLine(over) = LastLine(p)
      /\ sc \in Screens /\ TextOf(sc, over)
  BY StruckShown
<1> HIDE DEF r, over, sc
<1>4. CASE pos + 1 < CONSOLE_COL
  <2>1. pos + 1 \in Cols
    BY <1>1, <1>4, Sizes DEF Cols
  <2>2. Shown(r, over, pos + 1)
    BY <1>1, <1>2, <1>3, <1>4, <2>1 DEF Shown, AtHome
  <2> QED BY <1>4, <2>2 DEF r, over
<1>5. CASE ~(pos + 1 < CONSOLE_COL)
  <2>1. c.col + 1 = CONSOLE_COL
    BY <1>1, <1>5, Sizes DEF Cols
  <2>2. /\ q \in Papers /\ q # <<>>
        /\ Len(over) < CONSOLE_LIG => LastLine(q) = LastLine(over) + 1 /\ TextOf(sc, q)
        /\ Len(over) >= CONSOLE_LIG => LastLine(q) = LastLine(over) /\ TextOf(Rolled(sc), q)
    BY <1>3, RowAdded
  <2>3. LastLine(q) \in Ligs
    <3> HIDE DEF q
    <3> QED BY <2>2, LastLines
  <2>4. /\ Len(over) \in Nat
        /\ Len(over) < CONSOLE_LIG <=> LastLine(over) + 1 < CONSOLE_LIG
        /\ Len(over) >= CONSOLE_LIG <=> LastLine(over) + 1 = CONSOLE_LIG
    BY <1>3, LastLines
  <2> HIDE DEF q
  <2>5. r.col = 0 /\ r.lig = LastLine(q) /\ TextOf(r.screen, q)
    <3>1. CASE Len(over) < CONSOLE_LIG
      BY <1>1, <1>2, <1>3, <2>1, <2>2, <2>4, <3>1
    <3>2. CASE Len(over) >= CONSOLE_LIG
      BY <1>1, <1>2, <1>3, <2>1, <2>2, <2>4, <3>2
    <3> QED BY <2>4, <3>1, <3>2, Sizes
  <2>6. Shown(r, q, 0)
    BY <1>1, <1>2, <2>2, <2>3, <2>5, Sizes DEF Shown, AtHome
  <2> QED BY <1>5, <2>6 DEF r, q, over
<1> QED BY <1>4, <1>5

Longer(p) == Append(p, BlankPaper)

LEMMA TypedArms ==
  ASSUME NEW p, NEW col
  PROVE  /\ Typed(p, col, Back) = <<p, IF col > 0 THEN col - 1 ELSE 0>>
         /\ Typed(p, col, TabChar) = <<p, Min({(col \div Tab + 1) * Tab, CONSOLE_COL - 1})>>
         /\ Typed(p, col, LineBreak) = <<Longer(p), 0>>
         /\ Typed(p, col, Flush) = <<<<BlankPaper>>, 0>>
         /\ Typed(p, col, Return) = <<p, 0>>
BY Codes, Zenon DEF Typed, Longer

LEMMA TypedChar ==
  ASSUME NEW p, NEW col, NEW text, text \notin Controls
  PROVE  Typed(p, col, text) =
           IF col + 1 < CONSOLE_COL THEN <<Over(p, col, text), col + 1>>
           ELSE <<Longer(Over(p, col, text)), 0>>
BY Zenon DEF Typed, Controls, Over, Longer

(* The two agree on every character. *)
LEMMA CharShown ==
  ASSUME NEW c, NEW p, NEW pos, Shown(c, p, pos), NEW text \in Chars
  PROVE  Shown(handle_char(c, text), Typed(p, pos, text)[1], Typed(p, pos, text)[2])
<1>1. c.col = pos /\ pos \in Cols
  BY DEF Shown, AtHome
<1> DEFINE back == IF pos > 0 THEN pos - 1 ELSE 0
           stop == Min({(pos \div Tab + 1) * Tab, CONSOLE_COL - 1})
<1>2. back \in Cols
  BY <1>1, Sizes DEF Cols
<1>3. TabStop(pos) = stop /\ stop \in Cols
  BY <1>1, TabStops
<1>4. CASE text = Back
  <2>1. handle_char(c, text) = [c EXCEPT !.col = back]
    BY <1>1, <1>4, Arms
  <2>2. Typed(p, pos, text) = <<p, back>>
    BY <1>4, TypedArms
  <2> HIDE DEF back
  <2> QED BY <1>2, <2>1, <2>2, MoveShown
<1>5. CASE text = TabChar
  <2>1. handle_char(c, text) = [c EXCEPT !.col = stop]
    <3> HIDE DEF stop
    <3>1. handle_char(c, text) = [c EXCEPT !.col = TabStop(c.col)]
      BY <1>5, Arms
    <3> QED BY <1>1, <1>3, <3>1
  <2>2. Typed(p, pos, text) = <<p, stop>>
    BY <1>5, TypedArms
  <2> HIDE DEF stop
  <2> QED BY <1>3, <2>1, <2>2, MoveShown
<1>6. CASE text = LineBreak
  <2> DEFINE q == Longer(p)
  <2>1. Typed(p, pos, text) = <<q, 0>>
    BY <1>6, TypedArms
  <2>2. Shown(handle_char(c, text), q, 0)
    BY <1>6, BreakShown DEF Longer
  <2> HIDE DEF q
  <2> QED BY <2>1, <2>2
<1>7. CASE text = Flush
  <2> DEFINE q == <<BlankPaper>>
  <2>1. Typed(p, pos, text) = <<q, 0>>
    BY <1>7, TypedArms
  <2>2. Shown(handle_char(c, text), q, 0)
    BY <1>7, FlushShown
  <2> HIDE DEF q
  <2> QED BY <2>1, <2>2
<1>8. CASE text = Return
  <2>1. handle_char(c, text) = [c EXCEPT !.col = 0]
    BY <1>8, Arms
  <2>2. Typed(p, pos, text) = <<p, 0>>
    BY <1>8, TypedArms
  <2> QED BY <2>1, <2>2, MoveShown, Sizes
<1>9. CASE text \notin Controls
  <2>1. CASE pos + 1 < CONSOLE_COL
    <3>1. Typed(p, pos, text) = <<Over(p, pos, text), pos + 1>>
      BY <1>9, <2>1, TypedChar
    <3>2. Shown(handle_char(c, text), Over(p, pos, text), pos + 1)
      BY <1>9, <2>1, StrikeShown
    <3> QED BY <3>1, <3>2
  <2>2. CASE ~(pos + 1 < CONSOLE_COL)
    <3>1. Typed(p, pos, text) = <<Longer(Over(p, pos, text)), 0>>
      BY <1>9, <2>2, TypedChar
    <3>2. Shown(handle_char(c, text), Longer(Over(p, pos, text)), 0)
      BY <1>9, <2>2, StrikeShown DEF Longer
    <3> QED BY <3>1, <3>2
  <2> QED BY <2>1, <2>2
<1> QED BY <1>4, <1>5, <1>6, <1>7, <1>8, <1>9 DEF Controls


-----------------------------------------------------------------------------
(* What the clock interrupt and the mouse draw.                            *)

(* The text that was there is there yet, but under the time and the cross. *)
Kept(screen, former) ==
  \A l \in Ligs, k \in Cols : Overlaid(l, k) \/ screen[l][k].text = former[l][k].text

LEMMA KeptText ==
  ASSUME NEW screen, NEW former, NEW p, Kept(screen, former), TextOf(former, p)
  PROVE  TextOf(screen, p)
BY DEF Kept, TextOf

LEMMA Drawings ==
  Digit \in Chars \ Controls /\ Cross \in Chars \ Controls
BY DEF Chars, Controls, Digit, Cross, Back, TabChar, LineBreak, Flush, Return

(* The time, written from ClockCol on. *)
TimeText == [i \in 1 .. ClockLen |-> Digit]

(* The displays met while it is written, by the column reached. *)
OfTime(c) ==
  {d \in Displays : /\ d.col \in ClockCol .. ClockCol + ClockLen
                    /\ d.lig = 0 /\ d.cf = c.cf /\ Kept(d.screen, c.screen)}

LEMMA TimeTurn ==
  ASSUME NEW c \in Displays, NEW d \in OfTime(c), d.col < ClockCol + ClockLen
  PROVE  handle_char(d, Digit) \in OfTime(c) /\ handle_char(d, Digit).col = d.col + 1
<1> DEFINE r == handle_char(d, Digit)
           sc == Struck(d, Digit)
<1>1. d \in Displays /\ d.col \in Nat /\ d.lig = 0 /\ d.cf = c.cf /\ Kept(d.screen, c.screen)
      /\ d.col >= ClockCol
  BY Sizes DEF OfTime
<1>2. AtHome(d) /\ d.col + 1 < CONSOLE_COL
  BY <1>1, Sizes DEF AtHome, Cols, Ligs
<1>3. /\ r \in Displays /\ r.cf = d.cf
      /\ r.col = d.col + 1 /\ r.lig = d.lig /\ r.screen = sc
  BY <1>2, Drawings, Strike
<1>4. \A l \in Ligs, k \in Cols :
        sc[l][k] = IF l = d.lig /\ k = d.col THEN [text |-> Digit, cf |-> d.cf]
                   ELSE d.screen[l][k]
  BY <1>2, Drawings, StruckCells
<1> HIDE DEF r, sc
<1>5. Kept(sc, c.screen)
  <2> SUFFICES ASSUME NEW l \in Ligs, NEW k \in Cols, ~Overlaid(l, k)
               PROVE  sc[l][k].text = c.screen[l][k].text
    BY DEF Kept
  <2>1. ~(l = d.lig /\ k = d.col)
    BY <1>1, Sizes DEF Overlaid, Cols
  <2>2. sc[l][k] = d.screen[l][k]
    BY <1>4, <2>1
  <2> QED BY <1>1, <2>2 DEF Kept
<1>6. r.col \in ClockCol .. ClockCol + ClockLen
  BY <1>1, <1>3, Sizes
<1> QED BY <1>1, <1>3, <1>5, <1>6 DEF OfTime, r

LEMMA TimePut ==
  ASSUME NEW c \in Displays, c.col = ClockCol, c.lig = 0
  PROVE  LET r == console_putbytes(c, TimeText) IN
         r \in Displays /\ Kept(r.screen, c.screen)
<1> DEFINE N == ClockLen
           S == OfTime(c)
           Turn(d) == IF d.col < ClockCol + ClockLen THEN handle_char(d, Digit) ELSE d
           F == [i \in 1 .. N |-> [d \in S |-> Turn(d)]]
           Body(f) == [i \in 0 .. Len(TimeText) |->
                         IF i = 0 THEN c ELSE handle_char(f[i - 1], TimeText[i])]
           h == CHOOSE f : f = Body(f)
<1>1. N \in Nat /\ c \in S
  <2>1. Kept(c.screen, c.screen)
    BY DEF Kept
  <2> QED BY <2>1, Sizes DEF OfTime
<1>2. Len(TimeText) = N /\ \A i \in 1 .. N : TimeText[i] = Digit
  BY <1>1 DEF TimeText
<1>3. \A d \in S : Turn(d) \in S
  BY TimeTurn
<1>4. F \in LoopBodies(N, S) /\ \A i \in 1 .. N, d \in S : F[i][d] = Turn(d)
  <2> HIDE DEF S, Turn, N
  <2> QED BY <1>3 DEF LoopBodies
<1>5. PICK g : LoopRun(g, N, S, c, F)
  <2> HIDE DEF S, F, N
  <2> QED BY <1>1, <1>4, LoopExists
<1>6. /\ g \in [0 .. N -> S] /\ g[0] = c
      /\ \A i \in 1 .. N : i - 1 \in 0 .. N /\ g[i - 1] \in S /\ g[i] = Turn(g[i - 1])
  <2> HIDE DEF S, F, N, Turn
  <2> QED BY <1>1, <1>4, <1>5 DEF LoopRun
<1> DEFINE G == {i \in 0 .. N : g[i].col = ClockCol + i}
<1>7. \A i \in 0 .. N : i \in G
  <2>1. 0 \in G
    BY <1>1, <1>6, Sizes
  <2>2. ASSUME NEW i \in 1 .. N, i - 1 \in G PROVE i \in G
    <3> DEFINE d == g[i - 1]
    <3>1. d \in OfTime(c) /\ d.col = ClockCol + (i - 1) /\ g[i] = Turn(d)
      BY <1>6, <2>2
    <3> HIDE DEF d, N
    <3>2. d.col < ClockCol + ClockLen
      BY <1>1, <3>1, Sizes DEF N
    <3>3. g[i] = handle_char(d, Digit) /\ g[i].col = d.col + 1
      BY <3>1, <3>2, TimeTurn
    <3>4. i \in 0 .. N /\ g[i].col = ClockCol + i
      BY <1>1, <3>1, <3>3, Sizes
    <3> QED BY <3>4
  <2> HIDE DEF G, N
  <2> QED BY <1>1, <2>1, <2>2, UpTo
<1>8. \A i \in 1 .. N : g[i] = handle_char(g[i - 1], Digit)
  <2> TAKE i \in 1 .. N
  <2>1. i - 1 \in 0 .. N
    BY <1>6
  <2>2. g[i - 1].col = ClockCol + (i - 1)
    BY <1>7, <2>1
  <2>3. g[i - 1].col < ClockCol + ClockLen
    BY <1>1, <2>2, Sizes
  <2> QED BY <1>6, <2>3
<1>9. g = Body(g)
  <2> HIDE DEF S, F, G, Turn, N
  <2>1. \A i \in 0 .. N : g[i] = IF i = 0 THEN c ELSE handle_char(g[i - 1], TimeText[i])
    <3> TAKE i \in 0 .. N
    <3>1. CASE i = 0
      BY <1>6, <3>1
    <3>2. CASE i # 0
      <4>1. i \in 1 .. N
        BY <1>1, <3>2
      <4> QED BY <1>2, <1>8, <3>2, <4>1
    <3> QED BY <3>1, <3>2
  <2> QED BY <1>2, <1>6, <2>1
<1>10. h = Body(h) /\ console_putbytes(c, TimeText) = put_cursor(h[N])
  <2>1. console_putbytes(c, TimeText) = put_cursor(h[Len(TimeText)])
    BY DEF console_putbytes
  <2>2. h = Body(h)
    <3> HIDE DEF Body
    <3> QED BY <1>9
  <2> HIDE DEF h, Body
  <2> QED BY <1>2, <2>1, <2>2
<1>11. h[0] = c /\ \A i \in 1 .. N : h[i] = handle_char(h[i - 1], Digit)
  <2> HIDE DEF h, N
  <2>1. h = [i \in 0 .. N |-> IF i = 0 THEN c ELSE handle_char(h[i - 1], TimeText[i])]
    BY <1>2, <1>10
  <2> HIDE DEF Body
  <2>2. 0 \in 0 .. N /\ \A i \in 1 .. N : i \in 0 .. N /\ i # 0
    BY <1>1
  <2> QED BY <1>2, <2>1, <2>2
<1> DEFINE E == {i \in 0 .. N : h[i] = g[i]}
<1>12. \A i \in 0 .. N : i \in E
  <2> HIDE DEF h, G, S, Turn, F, Body, N
  <2>1. 0 \in E
    BY <1>1, <1>6, <1>11
  <2>2. \A i \in 1 .. N : i - 1 \in E => i \in E
    BY <1>1, <1>8, <1>11
  <2> HIDE DEF E
  <2> QED BY <1>1, <2>1, <2>2, UpTo
<1>13. N \in 0 .. N
  BY <1>1
<1>14. h[N] = g[N] /\ g[N] \in OfTime(c)
  BY <1>6, <1>12, <1>13
<1> HIDE DEF h, Body, F, G, E, N
<1>15. h[N] \in Displays /\ Kept(h[N].screen, c.screen)
  BY <1>14 DEF OfTime
<1> QED BY <1>10, <1>15, PutCursor

LEMMA CrossPut ==
  ASSUME NEW c \in Displays, c.col = CONSOLE_COL - 1, c.lig = 0
  PROVE  LET r == console_putbytes(c, <<Cross>>) IN
         r \in Displays /\ Kept(r.screen, c.screen)
<1> DEFINE d == handle_char(c, Cross)
           sc == Struck(c, Cross)
<1>1. AtHome(c) /\ c.col + 1 = CONSOLE_COL /\ c.lig + 1 < CONSOLE_LIG
  BY Sizes DEF AtHome
<1>2. d \in Displays /\ d.screen = sc
  BY <1>1, Drawings, Strike
<1>3. \A l \in Ligs, k \in Cols :
        sc[l][k] = IF l = c.lig /\ k = c.col THEN [text |-> Cross, cf |-> c.cf]
                   ELSE c.screen[l][k]
  BY <1>1, Drawings, StruckCells
<1>4. console_putbytes(c, <<Cross>>) = put_cursor(d)
  BY PutOne
<1> HIDE DEF d, sc
<1>5. Kept(sc, c.screen)
  BY <1>3 DEF Kept, Overlaid
<1> QED BY <1>2, <1>4, <1>5, PutCursor


(* Writing elsewhere leaves the place, the colour and the text alone. *)
LEMMA AsideShown ==
  ASSUME NEW c, NEW p, NEW pos, Shown(c, p, pos),
         NEW text, NEW col \in Nat, NEW lig \in Nat, NEW cf \in Colours,
         \A m \in Displays : m.col = col /\ m.lig = lig =>
           LET r == console_putbytes(m, text) IN r \in Displays /\ Kept(r.screen, m.screen)
  PROVE  LET r == PutAside(c, text, col, lig, cf) IN
         Shown(r, p, pos) /\ r.cursor = <<r.col, r.lig>>
<1> DEFINE m == [c EXCEPT !.col = col, !.lig = lig, !.cf = cf]
           a == console_putbytes(m, text)
           b == [a EXCEPT !.col = c.col, !.lig = c.lig, !.cf = c.cf]
           r == put_cursor(b)
<1>1. /\ c \in Displays /\ c.col \in Cols /\ c.lig \in Ligs /\ c.cf = BLACK /\ AtHome(c)
      /\ p \in Papers /\ p # <<>> /\ c.col = pos /\ c.lig = LastLine(p) /\ TextOf(c.screen, p)
  BY DEF Shown, AtHome
<1>2. m \in Displays /\ m.col = col /\ m.lig = lig /\ m.screen = c.screen
  BY <1>1 DEF Displays
<1>3. PutAside(c, text, col, lig, cf) = r
  BY DEF PutAside
<1> HIDE DEF m
<1>4. a \in Displays /\ Kept(a.screen, c.screen)
  BY <1>2
<1> HIDE DEF a
<1>5. /\ b \in Displays /\ b.col = c.col /\ b.lig = c.lig /\ b.cf = c.cf
      /\ b.screen = a.screen
  <2> DEFINE x == c.col
             y == c.lig
             z == c.cf
  <2>1. x \in Nat /\ y \in Nat /\ z \in Colours
    BY <1>1 DEF Displays
  <2> HIDE DEF x, y, z
  <2>2. LET d == [a EXCEPT !.col = x, !.lig = y, !.cf = z] IN
        d \in Displays /\ d.col = x /\ d.lig = y /\ d.cf = z /\ d.screen = a.screen
    BY <1>4, <2>1 DEF Displays
  <2> QED BY <2>2 DEF x, y, z
<1> HIDE DEF b
<1>6. /\ r \in Displays /\ r.col = b.col /\ r.lig = b.lig /\ r.cf = b.cf
      /\ r.screen = b.screen /\ r.cursor = <<b.col, b.lig>>
  BY <1>5, PutCursor
<1> HIDE DEF r
<1>7. TextOf(r.screen, p)
  BY <1>1, <1>4, <1>5, <1>6, KeptText
<1>8. Shown(r, p, pos) /\ r.cursor = <<r.col, r.lig>>
  BY <1>1, <1>5, <1>6, <1>7 DEF Shown, AtHome
<1> QED BY <1>3, <1>8

(* mouse_callback colours cells. *)
LEMMA ColourShown ==
  ASSUME NEW c, NEW p, NEW pos, Shown(c, p, pos),
         NEW place \in Cols \X Ligs, NEW colour \in Colours
  PROVE  LET r == Colour(c, place, colour) IN
         Shown(r, p, pos) /\ r.cursor = c.cursor /\ r.col = c.col /\ r.lig = c.lig
<1> DEFINE k0 == place[1]
           l0 == place[2]
           r == Colour(c, place, colour)
           cell == [c.screen[l0][k0] EXCEPT !.cf = colour]
           sc == [c.screen EXCEPT ![l0] = [c.screen[l0] EXCEPT ![k0] = cell]]
<1>1. k0 \in Cols /\ l0 \in Ligs
  OBVIOUS
<1>2. /\ c \in Displays /\ AtHome(c) /\ c.cf = BLACK /\ c.screen \in Screens
      /\ p \in Papers /\ p # <<>> /\ c.col = pos /\ c.lig = LastLine(p) /\ TextOf(c.screen, p)
  BY DEF Shown, AtHome, Displays
<1>3. r = [c EXCEPT !.screen = sc]
  <2> HIDE DEF k0, l0
  <2>1. r = [c EXCEPT !.screen[l0][k0].cf = colour]
    BY DEF Colour, console_set_background_at, k0, l0
  <2> QED BY <2>1
<1> HIDE DEF k0, l0
<1>4. cell \in Cells /\ cell.text = c.screen[l0][k0].text
  <2>1. c.screen[l0][k0] \in Cells
    BY <1>1, <1>2 DEF Screens
  <2> DEFINE x == c.screen[l0][k0]
  <2> HIDE DEF x
  <2>2. [x EXCEPT !.cf = colour] \in Cells /\ [x EXCEPT !.cf = colour].text = x.text
    BY <2>1 DEF Cells, x
  <2> QED BY <2>2 DEF x
<1> HIDE DEF cell
<1>5. /\ sc \in Screens
      /\ \A l \in Ligs, k \in Cols :
           sc[l][k] = IF l = l0 /\ k = k0 THEN cell ELSE c.screen[l][k]
  BY <1>1, <1>2, <1>4 DEF Screens
<1> HIDE DEF sc, r
<1>6. \A l \in Ligs, k \in Cols : sc[l][k].text = c.screen[l][k].text
  BY <1>4, <1>5
<1>7. TextOf(sc, p)
  BY <1>2, <1>6 DEF TextOf
<1>8. /\ r \in Displays /\ r.col = c.col /\ r.lig = c.lig /\ r.cf = c.cf
      /\ r.screen = sc /\ r.cursor = c.cursor
  BY <1>2, <1>3, <1>5 DEF Displays
<1>9. Shown(r, p, pos) /\ r.cursor = c.cursor /\ r.col = c.col /\ r.lig = c.lig
  BY <1>2, <1>7, <1>8 DEF Shown, AtHome
<1> QED BY <1>9 DEF r

-----------------------------------------------------------------------------
(* The mouse stays on the screen.                                          *)

LEMMA Clamped ==
  ASSUME NEW n \in Int, NEW size \in Nat \ {0}
  PROVE  Clamp(n, size) \in 0 .. size - 1
BY DEF Clamp

LEMMA Quotients ==
  ASSUME NEW n \in Int, NEW d \in Nat \ {0}
  PROVE  Quotient(n, d) \in Int
<1>1. CASE n >= 0
  BY <1>1 DEF Quotient
<1>2. CASE ~(n >= 0)
  BY <1>2 DEF Quotient
<1> QED BY <1>1, <1>2

(* Whatever its bytes, a packet leads to a place on the screen. *)
LEMMA MovedOn ==
  ASSUME NEW state, state.x \in Cols, state.y \in Ligs,
         NEW flags, NEW dx \in 0 .. 255, NEW dy \in 0 .. 255
  PROVE  LET s == Moved(state, flags, dx, dy) IN
         s.x \in Cols /\ s.y \in Ligs /\ Place(s) \in Cols \X Ligs
<1> DEFINE qx == Quotient(Delta(flags, MOUSE_X_NEG, dx), 10)
           qy == Quotient(Delta(flags, MOUSE_Y_NEG, dy), 8)
           s == Moved(state, flags, dx, dy)
<1>1. Delta(flags, MOUSE_X_NEG, dx) \in Int /\ Delta(flags, MOUSE_Y_NEG, dy) \in Int
  BY DEF Delta
<1>2. qx \in Int /\ qy \in Int
  BY <1>1, Quotients
<1>3. s.x = Clamp(state.x + qx, CONSOLE_COL) /\ s.y = Clamp(state.y - qy, CONSOLE_LIG)
  BY DEF Moved
<1> HIDE DEF qx, qy, s
<1>4. state.x + qx \in Int /\ state.y - qy \in Int
  BY <1>2 DEF Cols, Ligs
<1>5. s.x \in Cols /\ s.y \in Ligs
  BY <1>3, <1>4, Clamped, Sizes DEF Cols, Ligs
<1> QED BY <1>5 DEF Place, s

Bytes == Seq(0 .. 255)

(* What mouse_IT works on. *)
MouseTypeOK ==
  /\ mouse \in Mice /\ packet \in Bytes /\ line \in Bytes
  /\ OnScreen

(* The screen, with the cursor where the next character goes. *)
Displayed == Shown(con, paper, position) /\ con.cursor = <<con.col, con.lig>>

ScreenInv == MouseTypeOK /\ Displayed

LEMMA CallbackShown ==
  ASSUME ScreenInv, NEW s, s.x \in Cols, s.y \in Ligs, mouse_callback(s),
         paper' = paper, position' = position
  PROVE  Displayed' /\ mouse_previous' \in Cols \X Ligs
<1> DEFINE a == Colour(con, mouse_previous, BLACK)
           b == Colour(a, Place(s), ButtonColour(s))
<1>1. /\ mouse_previous \in Cols \X Ligs /\ Place(s) \in Cols \X Ligs
      /\ BLACK \in Colours /\ ButtonColour(s) \in Colours
      /\ Shown(con, paper, position)
  BY DEF ScreenInv, MouseTypeOK, OnScreen, Place, Colours, ButtonColour, Displayed
<1>2. /\ Shown(a, paper, position) /\ a.cursor = con.cursor /\ a.col = con.col
      /\ a.lig = con.lig
  BY <1>1, ColourShown
<1> HIDE DEF a
<1>3. /\ Shown(b, paper, position) /\ b.cursor = a.cursor /\ b.col = a.col
      /\ b.lig = a.lig
  <2> DEFINE colour == ButtonColour(s)
             place == Place(s)
  <2> HIDE DEF colour, place
  <2>1. place \in Cols \X Ligs /\ colour \in Colours
    BY <1>1 DEF place, colour
  <2>2. LET r == Colour(a, place, colour) IN
        Shown(r, paper, position) /\ r.cursor = a.cursor /\ r.col = a.col /\ r.lig = a.lig
    BY <1>2, <2>1, ColourShown
  <2> QED BY <2>2 DEF place, colour
<1>4. con' = b
  BY DEF mouse_callback, a
<1> HIDE DEF b
<1>5. Displayed'
  BY <1>2, <1>3, <1>4 DEF Displayed, ScreenInv
<1>6. mouse_previous' \in Cols \X Ligs
  BY <1>1 DEF mouse_callback, PreviousOf
<1> QED BY <1>5, <1>6

LEMMA PacketShown ==
  ASSUME ScreenInv, NEW p \in Bytes, Len(p) >= 3, mouse_handle_packet(p),
         paper' = paper, position' = position
  PROVE  Displayed' /\ OnScreen'
<1> DEFINE s == Moved(mouse_state, p[1], p[2], p[3])
<1>1. OnScreen /\ Displayed
  BY DEF ScreenInv, MouseTypeOK
<1>2. p[2] \in 0 .. 255 /\ p[3] \in 0 .. 255
  <2> DEFINE B == 0 .. 255
  <2>1. p \in Seq(B)
    BY DEF Bytes
  <2> HIDE DEF B
  <2>2. Len(p) \in Nat /\ \A i \in 1 .. Len(p) : p[i] \in B
    BY <2>1
  <2>3. 2 \in 1 .. Len(p) /\ 3 \in 1 .. Len(p)
    BY <2>2
  <2> QED BY <2>2, <2>3 DEF B
<1>3. s.x \in Cols /\ s.y \in Ligs
  BY <1>1, <1>2, MovedOn DEF OnScreen
<1>4. CASE Ignored(p)
  BY <1>1, <1>4 DEF mouse_handle_packet, OnScreen, Displayed
<1>5. CASE ~Ignored(p) /\ s = mouse_state
  BY <1>1, <1>5 DEF mouse_handle_packet, OnScreen, Displayed
<1>6. CASE ~Ignored(p) /\ s # mouse_state
  <2>1. mouse_state' = s /\ mouse_callback(s)
    BY <1>6 DEF mouse_handle_packet
  <2> HIDE DEF s
  <2>2. Displayed' /\ mouse_previous' \in Cols \X Ligs
    BY <1>3, <2>1, CallbackShown
  <2> QED BY <1>3, <2>1, <2>2 DEF OnScreen
<1> QED BY <1>4, <1>5, <1>6


-----------------------------------------------------------------------------
(* Every step.                                                             *)

LEMMA TimeShown ==
  ASSUME ScreenInv, tic_PIT
  PROVE  Displayed'
<1> DEFINE a == console_putbytes_at(con, TimeText, ClockCol, 0)
           b == console_draw_red_cross(a)
<1>1. Shown(con, paper, position) /\ BLACK \in Colours /\ RED \in Colours
      /\ ClockCol \in Nat /\ 0 \in Nat /\ CONSOLE_COL - 1 \in Nat
  BY Sizes DEF ScreenInv, Displayed, Colours
<1>2. Shown(a, paper, position)
  <2>1. \A m \in Displays : m.col = ClockCol /\ m.lig = 0 =>
          LET r == console_putbytes(m, TimeText) IN r \in Displays /\ Kept(r.screen, m.screen)
    BY TimePut
  <2>2. a = PutAside(con, TimeText, ClockCol, 0, BLACK)
    BY DEF console_putbytes_at
  <2> HIDE DEF a
  <2> QED BY <1>1, <2>1, <2>2, AsideShown
<1> HIDE DEF a
<1>3. Shown(b, paper, position) /\ b.cursor = <<b.col, b.lig>>
  <2>1. \A m \in Displays : m.col = CONSOLE_COL - 1 /\ m.lig = 0 =>
          LET r == console_putbytes(m, <<Cross>>) IN r \in Displays /\ Kept(r.screen, m.screen)
    BY CrossPut
  <2>2. b = PutAside(a, <<Cross>>, CONSOLE_COL - 1, 0, RED)
    BY DEF console_draw_red_cross
  <2> HIDE DEF b
  <2> DEFINE k == CONSOLE_COL - 1
             t == <<Cross>>
  <2> HIDE DEF k, t
  <2>3. /\ k \in Nat /\ b = PutAside(a, t, k, 0, RED)
        /\ \A m \in Displays : m.col = k /\ m.lig = 0 =>
             LET r == console_putbytes(m, t) IN r \in Displays /\ Kept(r.screen, m.screen)
    BY <1>1, <2>1, <2>2 DEF k, t
  <2> QED BY <1>1, <1>2, <2>3, AsideShown
<1>4. con' = b /\ paper' = paper /\ position' = position
  BY DEF tic_PIT, a, TimeText
<1> HIDE DEF b
<1> QED BY <1>3, <1>4 DEF Displayed

LEMMA WriteShown ==
  ASSUME ScreenInv, NEW text \in Texts, Write(text)
  PROVE  Displayed'
<1> DEFINE d == handle_char(con, text)
           p == Typed(paper, position, text)[1]
           pos == Typed(paper, position, text)[2]
           r == put_cursor(d)
<1>1. Shown(con, paper, position) /\ text \in Chars
  BY DEF ScreenInv, Displayed, Chars
<1>2. Shown(d, p, pos)
  BY <1>1, CharShown
<1>3. con' = r /\ paper' = p /\ position' = pos
  BY PutOne DEF Write
<1> HIDE DEF d, p, pos
<1>4. d \in Displays
  BY <1>2 DEF Shown, AtHome
<1>5. /\ r \in Displays /\ r.col = d.col /\ r.lig = d.lig /\ r.cf = d.cf
      /\ r.screen = d.screen /\ r.cursor = <<d.col, d.lig>>
  BY <1>4, PutCursor
<1> HIDE DEF r
<1>6. Shown(r, p, pos) /\ r.cursor = <<r.col, r.lig>>
  BY <1>2, <1>5 DEF Shown, AtHome
<1> QED BY <1>3, <1>6 DEF Displayed

LEMMA ByteShown ==
  ASSUME ScreenInv, mouse_IT
  PROVE  ScreenInv'
<1> DEFINE byte == Head(line)
           full == Append(packet, byte)
<1>1. /\ mouse \in Mice /\ packet \in Bytes /\ line \in Bytes /\ OnScreen /\ Displayed
  BY DEF ScreenInv, MouseTypeOK
<1>2. /\ line # <<>> /\ line' = Tail(line) /\ mouse' = mouse
      /\ paper' = paper /\ position' = position
  BY DEF mouse_IT
<1>3. byte \in 0 .. 255 /\ full \in Bytes /\ line' \in Bytes
  <2> DEFINE B == 0 .. 255
  <2>1. packet \in Seq(B) /\ line \in Seq(B) /\ line # <<>>
    BY <1>1, <1>2 DEF Bytes
  <2> HIDE DEF B
  <2>2. Head(line) \in B /\ Tail(line) \in Seq(B)
    BY <2>1
  <2>3. Append(packet, Head(line)) \in Seq(B)
    BY <2>1, <2>2
  <2> QED BY <1>2, <2>2, <2>3 DEF B, Bytes
<1>4. packet_size \in {3, 4}
  BY <1>1, PacketsAssumption DEF packet_size, Packets
<1> HIDE DEF byte, full
<1>5. CASE UNCHANGED <<con, mouse_state, mouse_previous>> /\ packet' \in Bytes
  BY <1>1, <1>2, <1>3, <1>5 DEF ScreenInv, MouseTypeOK, OnScreen, Displayed
<1>6. CASE ~(Len(full) < packet_size) /\ packet' = <<>> /\ mouse_handle_packet(full)
  <2>1. Len(full) >= 3
    <3>1. Len(full) \in Nat
      BY <1>3 DEF Bytes
    <3> QED BY <1>4, <1>6, <3>1
  <2>2. Displayed' /\ OnScreen'
    BY <1>2, <1>3, <1>6, <2>1, PacketShown
  <2>3. packet' \in Bytes
    BY <1>6 DEF Bytes
  <2> QED BY <1>1, <1>2, <1>3, <2>2, <2>3 DEF ScreenInv, MouseTypeOK
<1>7. \/ UNCHANGED <<con, mouse_state, mouse_previous>> /\ packet' \in Bytes
      \/ ~(Len(full) < packet_size) /\ packet' = <<>> /\ mouse_handle_packet(full)
  <2>1. CASE Skipped(byte)
    BY <1>1, <2>1 DEF mouse_IT, byte
  <2>2. CASE ~Skipped(byte) /\ Len(full) < packet_size
    BY <1>3, <2>2 DEF mouse_IT, byte, full
  <2>3. CASE ~Skipped(byte) /\ ~(Len(full) < packet_size)
    BY <2>3 DEF mouse_IT, byte, full
  <2> QED BY <2>1, <2>2, <2>3
<1> QED BY <1>5, <1>6, <1>7

LEMMA ScreenStart == MouseInit => ScreenInv
<1> SUFFICES ASSUME MouseInit PROVE ScreenInv
  OBVIOUS
<1> DEFINE sc == [l \in Ligs |-> BlankRow]
           q == <<BlankPaper>>
<1>1. MouseTypeOK
  BY Sizes DEF MouseInit, MouseTypeOK, OnScreen, Bytes
<1>2. /\ con = [screen |-> sc, col |-> 0, lig |-> 0, cf |-> BLACK, cursor |-> <<0, 0>>]
      /\ paper = q /\ position = 0
  BY DEF MouseInit, ConsoleInit
<1>3. q \in Papers /\ q # <<>> /\ Len(q) = 1 /\ q[1] = BlankPaper
  BY Blanks DEF Papers
<1>4. sc \in Screens /\ BLACK \in Colours /\ \A l \in Ligs, k \in Cols : sc[l][k] = Clean
  BY Blanks DEF Colours, BlankRow
<1> HIDE DEF sc, q
<1>5. /\ con.screen = sc /\ con.col = 0 /\ con.lig = 0 /\ con.cf = BLACK
      /\ con.cursor = <<0, 0>> /\ con \in Displays
  BY <1>2, <1>4 DEF Displays
<1>6. AtHome(con)
  BY <1>5, Sizes DEF AtHome
<1>7. AboveIn(q) = 0 /\ LastLine(q) = 0
  <2>1. AboveIn(q) = 0
    <3>1. ~(1 > CONSOLE_LIG)
      BY Sizes
    <3> QED BY <1>3, <3>1 DEF AboveIn
  <2> QED BY <1>3, <2>1 DEF LastLine
<1>8. TextOf(sc, q)
  <2> SUFFICES ASSUME NEW l \in Ligs, NEW k \in Cols PROVE sc[l][k].text = Line(q, l)[k]
    BY DEF TextOf
  <2>1. Line(q, l) = BlankPaper
    <3>1. l \in Nat
      BY DEF Ligs
    <3>2. CASE l = 0
      BY <1>3, <1>7, <3>2 DEF Line
    <3>3. CASE l # 0
      BY <1>3, <1>7, <3>1, <3>3 DEF Line
    <3> QED BY <3>2, <3>3
  <2>2. Line(q, l)[k] = Space
    BY <2>1 DEF BlankPaper
  <2> QED BY <1>4, <2>2 DEF Clean
<1>9. Shown(con, q, 0)
  BY <1>3, <1>5, <1>6, <1>7, <1>8 DEF Shown
<1>10. Displayed
  BY <1>2, <1>5, <1>9 DEF Displayed
<1> QED BY <1>1, <1>10 DEF ScreenInv

LEMMA ScreenStep == ScreenInv /\ [MouseNext]_all_vars => ScreenInv'
<1> SUFFICES ASSUME ScreenInv, [MouseNext]_all_vars PROVE ScreenInv'
  OBVIOUS
<1>1. MouseTypeOK /\ Displayed
  BY DEF ScreenInv
<1>2. CASE mouse_IT
  BY <1>2, ByteShown
<1>3. CASE MouseSends
  <2>1. PICK p \in Packets : SendPacket(p)
    BY <1>3 DEF MouseSends
  <2>2. p \in Bytes
    BY <1>1, PacketsAssumption DEF Packets, MouseTypeOK, Bytes
  <2> QED BY <1>1, <2>1, <2>2
        DEF SendPacket, ScreenInv, MouseTypeOK, OnScreen, Displayed, console_vars
<1>4. CASE Lose
  <2>1. line \in Bytes /\ line # <<>> /\ line' = Tail(line)
    BY <1>1, <1>4 DEF Lose, MouseTypeOK
  <2>2. line' \in Bytes
    BY <2>1 DEF Bytes
  <2> QED BY <1>1, <1>4, <2>2
        DEF Lose, ScreenInv, MouseTypeOK, OnScreen, Displayed, console_vars
<1>5. CASE ConsoleStep
  <2>1. MouseTypeOK'
    BY <1>1, <1>5 DEF ConsoleStep, mouse_vars, MouseTypeOK, OnScreen
  <2>2. CASE tic_PIT
    BY <2>1, <2>2, TimeShown DEF ScreenInv
  <2>3. CASE \E text \in Texts : Write(text)
    BY <2>1, <2>3, WriteShown DEF ScreenInv
  <2> QED BY <1>5, <2>2, <2>3 DEF ConsoleStep, ConsoleNext
<1>6. CASE UNCHANGED all_vars
  BY <1>1, <1>6 DEF all_vars, console_vars, mouse_vars, ScreenInv, MouseTypeOK, OnScreen, Displayed
<1> QED BY <1>2, <1>3, <1>4, <1>5, <1>6 DEF MouseNext

LEMMA ScreenAsWritten == ScreenInv => ScreenShown
<1> SUFFICES ASSUME ScreenInv PROVE ScreenShown
  OBVIOUS
<1>1. /\ Shown(con, paper, position) /\ con.cursor = <<con.col, con.lig>>
      /\ AtHome(con) /\ con \in Displays /\ con.cf = BLACK /\ con.col = position
      /\ con.lig = LastLine(paper) /\ TextOf(con.screen, paper)
  BY DEF ScreenInv, Displayed, Shown, AtHome
<1>2. ConsoleTypeOK
  <2>1. con.screen \in Screens
    BY <1>1 DEF Displays
  <2> QED BY <1>1, <2>1 DEF ConsoleTypeOK, AtHome, Screens, Cells, Chars, Colours
<1>3. Above = AboveIn(paper)
  BY DEF Above, AboveIn
<1>4. CursorShown
  BY <1>1, <1>3 DEF CursorShown, LastLine
<1>5. TextShown
  <2> SUFFICES ASSUME NEW l \in Ligs, NEW c \in Cols, ~Overlaid(l, c)
               PROVE  con.screen[l][c].text =
                        IF l + Above + 1 <= Len(paper) THEN paper[l + Above + 1][c] ELSE Space
    BY DEF TextShown
  <2>1. con.screen[l][c].text = Line(paper, l)[c]
    BY <1>1 DEF TextOf
  <2>2. CASE l + Above + 1 <= Len(paper)
    BY <1>3, <2>1, <2>2 DEF Line
  <2>3. CASE ~(l + Above + 1 <= Len(paper))
    BY <1>3, <2>1, <2>3 DEF Line, BlankPaper
  <2> QED BY <2>2, <2>3
<1> QED BY <1>2, <1>4, <1>5 DEF ScreenShown

(* console_putbytes, console_putbytes_at, console_draw_red_cross and       *)
(* mouse_callback: whatever the processes write, and whenever the clock    *)
(* and the mouse interrupt them, the screen shows the end of the text,     *)
(* with the cursor where the next character goes.                          *)
THEOREM ScreenAlwaysShown == MouseSpec => []ScreenShown
<1>1. MouseSpec => MouseInit /\ [][MouseNext]_all_vars
  BY PTL DEF MouseSpec
<1>2. MouseInit /\ [][MouseNext]_all_vars => []ScreenInv
  BY ScreenStart, ScreenStep, PTL
<1> QED BY <1>1, <1>2, ScreenAsWritten, PTL

(* mouse_handle_packet: whatever bytes arrive, in step or not, the places  *)
(* that mouse_callback writes to lie on the screen.                        *)
THEOREM PointerAlwaysOnScreen == MouseSpec => []OnScreen
<1>1. MouseSpec => MouseInit /\ [][MouseNext]_all_vars
  BY PTL DEF MouseSpec
<1>2. MouseInit /\ [][MouseNext]_all_vars => []ScreenInv
  BY ScreenStart, ScreenStep, PTL
<1>3. ScreenInv => OnScreen
  BY DEF ScreenInv, MouseTypeOK
<1> QED BY <1>1, <1>2, <1>3, PTL

=============================================================================
