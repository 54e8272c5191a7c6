------------------------------ MODULE Terminal ------------------------------
(***************************************************************************)
(* The two screens of the console, common/tty-stream-text.cc and           *)
(* common/tty-stream-video.cc: cells of characters, of which the last row  *)
(* scrolls away.  In text mode a cell is a word of the framebuffer, in a   *)
(* video mode the block of pixels a glyph is drawn into; colours, fonts    *)
(* and the picture in the corner are left out.                             *)
(***************************************************************************)
EXTENDS Naturals, Sequences

CONSTANTS
  width, height, \* of the text screen (80, 25)
  maxw, maxh,    \* the most columns and rows of the video screen (120, 40)
  cw, ch         \* the size of a glyph (8, 16)

ASSUME TerminalAssumption == {width, height, maxw, maxh, cw, ch} \subseteq Nat \ {0}

\* Characters are strings; these stand for '\r', '\n' and '\b'.
CR == "CR"
LF == "LF"
BS == "BS"
Blank == " "

\* What was on the screen when the kernel took over.
Before == "?"

-----------------------------------------------------------------------------
\* cols() and rows() of a video mode of w by h pixels.
Least(a, b) == IF a =< b THEN a ELSE b
cols(w) == Least(maxw, w \div cw)
rows(h) == Least(maxh, h \div ch)

Screen(columns, lines, glyph, bs) ==
  [cols |-> columns, rows |-> lines, fbx |-> 0, fby |-> 0, erases |-> bs,
   cells |-> [y \in 0 .. lines - 1 |-> [x \in 0 .. columns - 1 |-> glyph]]]

TextScreen == Screen(width, height, Before, FALSE)

\* clear() paints every cell.
VideoScreen(w, h) == Screen(cols(w), rows(h), Blank, TRUE)

\* The last row is blanked by one column less.
MutScroll(s) ==
  [s EXCEPT !.cells = [y \in 0 .. s.rows - 1 |->
                         IF y < s.rows - 1 THEN s.cells[y + 1]
                         ELSE [x \in 0 .. s.cols - 1 |-> IF x = 0 THEN s.cells[y][x] ELSE Blank]],
            !.fby = @ - 1]

\* scroll(1)
scroll(s) ==
  [s EXCEPT !.cells = [y \in 0 .. s.rows - 1 |->
                         IF y < s.rows - 1 THEN s.cells[y + 1] ELSE [x \in 0 .. s.cols - 1 |-> Blank]],
            !.fby = @ - 1]

\* The cursor and the cell that a character changes.  Only the video driver
\* knows '\b'; in text mode it is a glyph like any other.
Typed(s, c) ==
  CASE c = CR -> [s EXCEPT !.fbx = 0]
    [] c = LF -> [s EXCEPT !.fbx = 0, !.fby = @ + 1]
    [] c = BS /\ s.erases -> [s EXCEPT !.fbx = IF @ > 0 THEN @ - 1 ELSE 0]
    [] OTHER  -> [s EXCEPT !.cells[s.fby][s.fbx] = c, !.fbx = @ + 1]

Wrapped(s) == IF s.fbx >= s.cols THEN [s EXCEPT !.fbx = 0, !.fby = @ + 1] ELSE s

put_char(s, c) ==
  LET t == Wrapped(Typed(s, c)) IN IF t.fby >= s.rows THEN scroll(t) ELSE t

-----------------------------------------------------------------------------
(* The reference: a roll of paper as wide as the screen, printed on by a   *)
(* carriage that never runs out of rows.                                   *)
NewPaper(s) ==
  [lines |-> SubSeq([y \in 1 .. s.rows |-> s.cells[y - 1]], 1, s.rows),
   x |-> 0, y |-> 1, erases |-> s.erases]

BlankLine(paper) == [x \in DOMAIN paper.lines[1] |-> Blank]

LineFeed(paper) ==
  [paper EXCEPT !.x = 0, !.y = @ + 1,
                !.lines = IF paper.y = Len(@) THEN Append(@, BlankLine(paper)) ELSE @]

Printed(paper, c) ==
  CASE c = CR -> [paper EXCEPT !.x = 0]
    [] c = LF -> LineFeed(paper)
    [] c = BS /\ paper.erases -> [paper EXCEPT !.x = IF @ = 0 THEN 0 ELSE @ - 1]
    [] OTHER  ->
         LET p == [paper EXCEPT !.lines[paper.y][paper.x] = c]
         IN  IF p.x + 1 \in DOMAIN p.lines[1] THEN [p EXCEPT !.x = @ + 1] ELSE LineFeed(p)

\* The paper when the first k characters of a text are on it.
Roll(paper, text) ==
  LET after[k \in 0 .. Len(text)] == IF k = 0 THEN paper ELSE Printed(after[k - 1], text[k])
  IN  after

\* A screen shows the last rows of everything ever printed on it, with the
\* cursor where the carriage is.
Shows(s, first, text) ==
  LET paper == Roll(NewPaper(first), text)[Len(text)]
      above == Len(paper.lines) - s.rows
  IN  /\ \A y \in 0 .. s.rows - 1 : s.cells[y] = paper.lines[above + y + 1]
      /\ s.fbx = paper.x /\ s.fby = paper.y - above - 1
=============================================================================
