----------------------------- MODULE BootProofs -----------------------------
(***************************************************************************)
(* The boot, for every size of the screens, of the tables and of the       *)
(* kernel's image.  Screens show the tail of what was printed on them,     *)
(* whatever comes in between.                                              *)
(***************************************************************************)
EXTENDS Boot, SequenceTheorems, WellFoundedInduction, TLAPS

-----------------------------------------------------------------------------
(* Numbers, sequences and recursive definitions.                           *)

LEMMA LeastOf ==
  ASSUME NEW S, S \subseteq Nat, S # {}
  PROVE  \E least \in S : \A k \in S : least =< k
  <1>1. PICK n \in S : \A k \in S : <<k, n>> \notin OpToRel(<, Nat)
    BY NatLessThanWellFounded, WFMin, Zenon
  <1>2. \A k \in S : ~ k < n
    BY <1>1, Zenon DEF OpToRel
  <1> QED
    BY <1>2

\* What holds at 0 and goes on from each number to the next holds up to n.
LEMMA UpTo ==
  ASSUME NEW n \in Nat, NEW good, good \subseteq 0 .. n, 0 \in good,
         \A k \in 1 .. n : k - 1 \in good => k \in good
  PROVE  good = 0 .. n
  <1> DEFINE bad == (0 .. n) \ good
  <1>1. SUFFICES ASSUME bad # {} PROVE FALSE
    OBVIOUS
  <1>2. PICK b \in bad : \A k \in bad : b =< k
    <2>1. bad \subseteq Nat
      OBVIOUS
    <2> HIDE DEF bad
    <2> QED
      BY <1>1, <2>1, LeastOf
  <1>3. b \in 1 .. n /\ b - 1 \in 0 .. n
    OBVIOUS
  <1>4. b - 1 \in good
    BY <1>2, <1>3
  <1> QED
    BY <1>3, <1>4

\* f is a function on S.
On(S, f) == f = [x \in S |-> f[x]]

\* A sequence with one more element.
LEMMA Appended ==
  ASSUME NEW n \in Nat, NEW s, On(1 .. n, s), NEW e
  PROVE  /\ Len(s) = n /\ Len(Append(s, e)) = n + 1 /\ On(1 .. n + 1, Append(s, e))
         /\ Append(s, e)[n + 1] = e /\ \A i \in 1 .. n : Append(s, e)[i] = s[i]
  <1> DEFINE S == {s[i] : i \in 1 .. n} \cup {e}
  <1>1. s \in Seq(S) /\ e \in S /\ Len(s) = n
    BY DEF On
  <1> HIDE DEF S
  <1>2. Append(s, e) \in Seq(S) /\ Len(Append(s, e)) = n + 1
    BY <1>1
  <1>3. On(1 .. n + 1, Append(s, e))
    BY <1>2, SeqDef DEF On
  <1>4. Append(s, e)[n + 1] = e /\ \A i \in 1 .. n : Append(s, e)[i] = s[i]
    BY <1>1
  <1> QED
    BY <1>1, <1>2, <1>3, <1>4

\* The recursive definition of Roll has a solution, which is its value.
LEMMA RollIs ==
  ASSUME NEW paper, NEW text, Len(text) \in Nat
  PROVE  \A n \in 0 .. Len(text) :
           Roll(paper, text)[n] = IF n = 0 THEN paper ELSE Printed(Roll(paper, text)[n - 1], text[n])
  <1> DEFINE StepOf(f, k) == IF k = 0 THEN paper ELSE Printed(f[k - 1], text[k])
             Solves(f, n) == f = [k \in 0 .. n |-> StepOf(f, k)]
             solvable == {n \in 0 .. Len(text) : \E f : Solves(f, n)}
  <1>1. solvable = 0 .. Len(text)
    <2>1. 0 \in solvable
      <3> DEFINE g == [k \in 0 .. 0 |-> paper]
      <3>1. Solves(g, 0)
        OBVIOUS
      <3> HIDE DEF Solves
      <3> QED
        BY <3>1
    <2>2. ASSUME NEW n \in 1 .. Len(text), n - 1 \in solvable PROVE n \in solvable
      <3>1. PICK g : Solves(g, n - 1)
        <4> HIDE DEF Solves
        <4> QED
          BY <2>2
      <3> DEFINE h == [k \in 0 .. n |-> IF k = n THEN StepOf(g, n) ELSE g[k]]
      <3>2. ASSUME NEW k \in 0 .. n PROVE h[k] = StepOf(h, k)
        <4>1. n # 0 /\ h[n - 1] = g[n - 1]
          OBVIOUS
        <4>2. CASE k = n
          BY <4>1, <4>2
        <4>3. CASE k # n
          <5>1. k \in 0 .. n - 1
            BY <4>3
          <5>2. g[k] = StepOf(g, k)
            BY <3>1, <5>1
          <5>3. k # 0 => h[k - 1] = g[k - 1]
            BY <5>1
          <5> QED
            BY <4>3, <5>2, <5>3
        <4> QED
          BY <4>2, <4>3
      <3>3. Solves(h, n)
        BY <3>2
      <3> HIDE DEF Solves
      <3> QED
        BY <3>3
    <2> HIDE DEF solvable
    <2>3. solvable \subseteq 0 .. Len(text)
      BY DEF solvable
    <2> QED
      BY <2>1, <2>2, <2>3, UpTo
  <1>2. PICK f : Solves(f, Len(text))
    <2> HIDE DEF Solves
    <2> QED
      BY <1>1
  <1> DEFINE after == CHOOSE g : Solves(g, Len(text))
  <1>3. Solves(after, Len(text))
    <2> HIDE DEF Solves
    <2> QED
      BY <1>2
  <1>4. Roll(paper, text) = after
    BY DEF Roll
  <1> HIDE DEF after
  <1>5. \A n \in 0 .. Len(text) : after[n] = StepOf(after, n)
    BY <1>3
  <1> QED
    BY <1>4, <1>5

\* A longer text leaves more on the same paper.
LEMMA RollMore ==
  ASSUME NEW paper, NEW text, On(1 .. Len(text), text), Len(text) \in Nat, NEW x
  PROVE  LET more == Append(text, x)
         IN  Roll(paper, more)[Len(more)] = Printed(Roll(paper, text)[Len(text)], x)
  <1> DEFINE more == Append(text, x)
             n == Len(text)
  <1>1. n \in Nat /\ Len(more) = n + 1 /\ more[n + 1] = x /\ \A i \in 1 .. n : more[i] = text[i]
    BY Appended
  <1> HIDE DEF more, n
  <1> DEFINE good == {k \in 0 .. n : Roll(paper, more)[k] = Roll(paper, text)[k]}
  <1>2. \A k \in 0 .. n : Roll(paper, text)[k] = IF k = 0 THEN paper ELSE Printed(Roll(paper, text)[k - 1], text[k])
    BY <1>1, RollIs DEF n
  <1>3. \A k \in 0 .. n + 1 :
          Roll(paper, more)[k] = IF k = 0 THEN paper ELSE Printed(Roll(paper, more)[k - 1], more[k])
    BY <1>1, RollIs
  <1>4. good = 0 .. n
    <2>1. 0 \in good
      BY <1>1, <1>2, <1>3
    <2>2. ASSUME NEW k \in 1 .. n, k - 1 \in good PROVE k \in good
      BY <1>1, <1>2, <1>3, <2>2
    <2> HIDE DEF good
    <2>3. good \subseteq 0 .. n
      BY DEF good
    <2> QED
      BY <1>1, <2>1, <2>2, <2>3, UpTo
  <1>5. Roll(paper, more)[n] = Roll(paper, text)[n]
    BY <1>1, <1>4
  <1>6. Roll(paper, more)[n + 1] = Printed(Roll(paper, more)[n], more[n + 1])
    BY <1>1, <1>3
  <1> QED
    BY <1>1, <1>5, <1>6 DEF more, n

-----------------------------------------------------------------------------
(* Screens and paper.                                                      *)

ScreenFields == {"cols", "rows", "fbx", "fby", "erases", "cells"}

\* The cells of a screen are the last rows of a paper.
CellsMatch(s, p) ==
  /\ DOMAIN s = ScreenFields /\ DOMAIN p = {"lines", "x", "y", "erases"}
  /\ s.cols \in Nat \ {0} /\ s.rows \in Nat \ {0} /\ s.erases = p.erases
  /\ Len(p.lines) \in Nat /\ Len(p.lines) >= s.rows /\ On(1 .. Len(p.lines), p.lines)
  /\ \A i \in 1 .. Len(p.lines) : On(0 .. s.cols - 1, p.lines[i])
  /\ p.y \in Len(p.lines) - s.rows + 1 .. Len(p.lines)
  /\ On(0 .. s.rows - 1, s.cells)
  /\ \A y \in 0 .. s.rows - 1 : s.cells[y] = p.lines[Len(p.lines) - s.rows + y + 1]

\* So are cursor and carriage.
Matches(s, p) ==
  /\ CellsMatch(s, p)
  /\ p.x \in 0 .. s.cols - 1
  /\ s.fbx = p.x /\ s.fby = p.y - (Len(p.lines) - s.rows) - 1

\* Behind the last row a screen scrolls where a roll goes on.
LEMMA FeedMatches ==
  ASSUME NEW s, NEW p, CellsMatch(s, p), s.fbx = 0, s.fby = p.y - (Len(p.lines) - s.rows)
  PROVE  Matches(IF s.fby >= s.rows THEN scroll(s) ELSE s, LineFeed(p))
  <1> DEFINE n == Len(p.lines)
             R == s.rows
             C == s.cols
             q == LineFeed(p)
  <1>1. /\ DOMAIN s = ScreenFields /\ DOMAIN p = {"lines", "x", "y", "erases"}
        /\ C \in Nat \ {0} /\ R \in Nat \ {0} /\ s.erases = p.erases
        /\ n \in Nat /\ n >= R /\ On(1 .. n, p.lines)
        /\ \A i \in 1 .. n : On(0 .. C - 1, p.lines[i])
        /\ p.y \in n - R + 1 .. n
        /\ On(0 .. R - 1, s.cells)
        /\ \A y \in 0 .. R - 1 : s.cells[y] = p.lines[n - R + y + 1]
    BY DEF CellsMatch
  <1>2. s.fby = p.y - (n - R) /\ (s.fby >= R <=> p.y = n)
    BY <1>1
  <1>3. /\ DOMAIN q = DOMAIN p /\ q.x = 0 /\ q.y = p.y + 1 /\ q.erases = p.erases
        /\ q.lines = IF p.y = n THEN Append(p.lines, BlankLine(p)) ELSE p.lines
    BY <1>1 DEF LineFeed
  <1> HIDE DEF q
  <1>4. CASE p.y # n
    <2>1. q.lines = p.lines /\ ~ (s.fby >= R)
      BY <1>2, <1>3, <1>4
    <2>2. CellsMatch(s, q)
      BY <1>1, <1>3, <1>4, <2>1 DEF CellsMatch
    <2>3. Matches(s, q)
      BY <1>1, <1>2, <1>3, <2>1, <2>2 DEF Matches
    <2> QED
      BY <2>1, <2>3 DEF q
  <1>5. CASE p.y = n
    <2> DEFINE t == scroll(s)
               blank == [x \in 0 .. C - 1 |-> Blank]
    <2>1. s.fby = R /\ s.fby >= R
      BY <1>1, <1>2, <1>5
    <2>2. BlankLine(p) = blank
      <3>1. 1 \in 1 .. n
        BY <1>1
      <3>2. DOMAIN p.lines[1] = 0 .. C - 1
        BY <1>1, <3>1 DEF On
      <3> QED
        BY <3>2 DEF BlankLine
    <2>3. /\ DOMAIN t = ScreenFields /\ t.cols = C /\ t.rows = R /\ t.erases = s.erases /\ t.fbx = 0
          /\ t.fby = R - 1
          /\ t.cells = [y \in 0 .. R - 1 |-> IF y < R - 1 THEN s.cells[y + 1] ELSE blank]
      BY <1>1, <2>1 DEF scroll, ScreenFields
    <2> HIDE DEF t, blank
    <2>4. /\ Len(q.lines) = n + 1 /\ On(1 .. n + 1, q.lines) /\ q.lines[n + 1] = blank
          /\ \A i \in 1 .. n : q.lines[i] = p.lines[i]
      BY <1>1, <1>3, <1>5, <2>2, Appended
    <2>5. \A i \in 1 .. n + 1 : On(0 .. C - 1, q.lines[i])
      <3>1. On(0 .. C - 1, blank)
        BY DEF On, blank
      <3>2. ASSUME NEW i \in 1 .. n + 1, i \notin 1 .. n PROVE i = n + 1
        BY <1>1, <3>2
      <3> QED
        BY <1>1, <2>4, <3>1, <3>2
    <2>6. ASSUME NEW y \in 0 .. R - 1 PROVE t.cells[y] = q.lines[(n + 1) - R + y + 1]
      <3>1. CASE y < R - 1
        <4>1. y + 1 \in 0 .. R - 1 /\ n - R + (y + 1) + 1 = (n + 1) - R + y + 1
              /\ n - R + (y + 1) + 1 \in 1 .. n
          <5> HIDE DEF n, R, C
          <5> QED
            BY <1>1, <3>1
        <4> QED
          BY <1>1, <2>3, <2>4, <3>1, <4>1
      <3>2. CASE y = R - 1
        <4>1. (n + 1) - R + y + 1 = n + 1
          <5> HIDE DEF n, R, C
          <5> QED
            BY <1>1, <3>2
        <4> QED
          BY <2>3, <2>4, <3>2, <4>1
      <3> QED
        BY <1>1, <3>1, <3>2
    <2>7. On(0 .. R - 1, t.cells)
      BY <2>3 DEF On
    <2>8. CellsMatch(t, q)
      <3>1. q.y \in Len(q.lines) - t.rows + 1 .. Len(q.lines) /\ Len(q.lines) >= t.rows
        <4> DEFINE py == p.y
        <4>1. q.y = py + 1 /\ py = n /\ Len(q.lines) = n + 1 /\ t.rows = R
          BY <1>3, <1>5, <2>3, <2>4
        <4>2. n \in Nat /\ n >= R /\ R \in Nat \ {0}
          BY <1>1
        <4> HIDE DEF n, R, C, py
        <4> QED
          BY <4>1, <4>2
      <3>2. \A y \in 0 .. t.rows - 1 : t.cells[y] = q.lines[Len(q.lines) - t.rows + y + 1]
        BY <2>3, <2>4, <2>6
      <3> HIDE DEF n, R, C
      <3>3. Len(q.lines) \in Nat /\ t.cols \in Nat \ {0} /\ t.rows \in Nat \ {0}
        BY <1>1, <2>3, <2>4
      <3>4. /\ On(1 .. Len(q.lines), q.lines) /\ \A i \in 1 .. Len(q.lines) : On(0 .. t.cols - 1, q.lines[i])
            /\ On(0 .. t.rows - 1, t.cells)
        BY <2>3, <2>4, <2>5, <2>7
      <3>5. DOMAIN t = ScreenFields /\ DOMAIN q = {"lines", "x", "y", "erases"} /\ t.erases = q.erases
        BY <1>1, <1>3, <2>3
      <3> QED
        BY <3>1, <3>2, <3>3, <3>4, <3>5 DEF CellsMatch
    <2>9. Matches(t, q)
      BY <1>1, <1>3, <1>5, <2>3, <2>4, <2>8 DEF Matches
    <2> QED
      BY <2>1, <2>9 DEF t, q
  <1> QED
    BY <1>4, <1>5

\* A character that moves the cursor only.
LEMMA MoveMatches ==
  ASSUME NEW s, NEW p, Matches(s, p), NEW x \in 0 .. s.cols - 1
  PROVE  Matches([s EXCEPT !.fbx = x], [p EXCEPT !.x = x])
  BY DEF Matches, CellsMatch, ScreenFields

\* A glyph in its cell.
Drawn(s, glyph) == [s EXCEPT !.cells[s.fby][s.fbx] = glyph, !.fbx = @ + 1]
Struck(p, glyph) == [p EXCEPT !.lines[p.y][p.x] = glyph]

LEMMA GlyphMatches ==
  ASSUME NEW s, NEW p, Matches(s, p), NEW glyph
 PROVE  LET t == Drawn(s, glyph)
             q == Struck(p, glyph)
         IN  /\ CellsMatch(t, q) /\ Len(q.lines) = Len(p.lines) /\ q.x = p.x /\ q.y = p.y
             /\ t.fbx = s.fbx + 1 /\ t.fby = s.fby /\ t.cols = s.cols /\ t.rows = s.rows
             /\ DOMAIN q.lines[1] = 0 .. s.cols - 1
  <1> DEFINE t == Drawn(s, glyph)
             q == Struck(p, glyph)
             n == Len(p.lines)
             R == s.rows
             C == s.cols
  <1>1. /\ DOMAIN s = ScreenFields /\ DOMAIN p = {"lines", "x", "y", "erases"}
        /\ C \in Nat \ {0} /\ R \in Nat \ {0} /\ s.erases = p.erases
        /\ n \in Nat /\ n >= R /\ On(1 .. n, p.lines)
        /\ \A i \in 1 .. n : On(0 .. C - 1, p.lines[i])
        /\ p.y \in n - R + 1 .. n
        /\ On(0 .. R - 1, s.cells)
        /\ \A y \in 0 .. R - 1 : s.cells[y] = p.lines[n - R + y + 1]
        /\ p.x \in 0 .. C - 1 /\ s.fbx = p.x /\ s.fby = p.y - (n - R) - 1
    BY DEF Matches, CellsMatch
  <1>2. /\ DOMAIN t = ScreenFields /\ t.cols = C /\ t.rows = R /\ t.erases = s.erases
        /\ t.fbx = s.fbx + 1 /\ t.fby = s.fby
        /\ t.cells = [s.cells EXCEPT ![s.fby] = [@ EXCEPT ![s.fbx] = glyph]]
    BY <1>1 DEF ScreenFields, Drawn
  <1>3. /\ DOMAIN q = DOMAIN p /\ q.x = p.x /\ q.y = p.y /\ q.erases = p.erases
        /\ q.lines = [p.lines EXCEPT ![p.y] = [@ EXCEPT ![p.x] = glyph]]
    BY <1>1 DEF Struck
  <1> HIDE DEF t, q
  <1>4. s.fby \in 0 .. R - 1 /\ p.y \in 1 .. n /\ n - R + s.fby + 1 = p.y
    BY <1>1
  <1> DEFINE row == [p.lines[p.y] EXCEPT ![p.x] = glyph]
  <1>5. s.cells[s.fby] = p.lines[p.y]
    BY <1>1, <1>4
  <1>6. /\ On(0 .. R - 1, t.cells)
        /\ \A y \in 0 .. R - 1 : t.cells[y] = IF y = s.fby THEN row ELSE s.cells[y]
    BY <1>1, <1>2, <1>4, <1>5 DEF On
  <1>7. /\ On(1 .. n, q.lines)
        /\ \A i \in 1 .. n : q.lines[i] = IF i = p.y THEN row ELSE p.lines[i]
    BY <1>1, <1>3, <1>4 DEF On
  <1>8. On(0 .. C - 1, row)
    BY <1>1, <1>4 DEF On
  <1> HIDE DEF row
  <1>9. Len(q.lines) = n
    BY <1>1, <1>7 DEF On
  <1>10. \A i \in 1 .. n : On(0 .. C - 1, q.lines[i])
    BY <1>1, <1>7, <1>8
  <1>11. ASSUME NEW y \in 0 .. R - 1 PROVE t.cells[y] = q.lines[n - R + y + 1]
    <2>1. n - R + y + 1 \in 1 .. n /\ (n - R + y + 1 = p.y <=> y = s.fby)
      <3> DEFINE py == p.y
                 fby == s.fby
      <3>1. fby \in 0 .. R - 1 /\ py \in 1 .. n /\ n - R + fby + 1 = py /\ n \in Nat /\ R \in Nat /\ n >= R
        BY <1>1, <1>4
      <3> HIDE DEF n, R, C, py, fby
      <3>2. n - R + y + 1 \in 1 .. n /\ (n - R + y + 1 = py <=> y = fby)
        BY <3>1
      <3> QED
        BY <3>2 DEF py, fby
    <2> QED
      BY <1>1, <1>6, <1>7, <2>1
  <1>12. CellsMatch(t, q)
    BY <1>1, <1>2, <1>3, <1>6, <1>7, <1>9, <1>10, <1>11 DEF CellsMatch
  <1>13. DOMAIN q.lines[1] = 0 .. C - 1
    <2>1. On(0 .. C - 1, q.lines[1])
      BY <1>1, <1>10
    <2> QED
      BY <2>1 DEF On
  <1> QED
    BY <1>2, <1>3, <1>9, <1>12, <1>13 DEF t, q

\* A field that the cells do not depend on.
LEMMA CellsOnly ==
  ASSUME NEW s, NEW p, CellsMatch(s, p), NEW x, NEW y, NEW z
  PROVE  CellsMatch([s EXCEPT !.fbx = x, !.fby = y], p) /\ CellsMatch(s, [p EXCEPT !.x = z])
         /\ CellsMatch([s EXCEPT !.fbx = x], p)
  BY DEF CellsMatch, ScreenFields

\* The step of put_char behind the character itself.
LEMMA PutIs ==
  ASSUME NEW s, NEW x, NEW w, Wrapped(Typed(s, x)) = w
  PROVE  put_char(s, x) = IF w.fby >= s.rows THEN scroll(w) ELSE w
  BY Zenon DEF put_char

\* Each character does to a screen what it does to a roll of paper.
LEMMA CharMatches ==
  ASSUME NEW s, NEW p, Matches(s, p), NEW x
  PROVE  Matches(put_char(s, x), Printed(p, x))
  <1> DEFINE n == Len(p.lines)
  <1>1. /\ CellsMatch(s, p) /\ DOMAIN s = ScreenFields /\ DOMAIN p = {"lines", "x", "y", "erases"}
        /\ s.cols \in Nat \ {0} /\ s.rows \in Nat \ {0} /\ s.erases = p.erases
        /\ n \in Nat /\ n >= s.rows /\ p.y \in n - s.rows + 1 .. n
        /\ p.x \in 0 .. s.cols - 1 /\ s.fbx = p.x /\ s.fby = p.y - (n - s.rows) - 1
    BY DEF Matches, CellsMatch
  <1> HIDE DEF n
  <1>2. s.fby \in 0 .. s.rows - 1 /\ s.fby + 1 = p.y - (n - s.rows)
    BY <1>1
  <1>3. CASE x = CR
    <2> DEFINE u == [s EXCEPT !.fbx = 0]
    <2>1. Typed(s, x) = u /\ Printed(p, x) = [p EXCEPT !.x = 0]
      BY <1>3 DEF Typed, Printed, CR, LF, BS
    <2>2. u.fbx = 0 /\ u.cols = s.cols /\ u.rows = s.rows /\ u.fby = s.fby
      BY <1>1 DEF ScreenFields
    <2>3. Matches(u, [p EXCEPT !.x = 0])
      BY <1>1, MoveMatches
    <2>10. DOMAIN u = ScreenFields
      BY <1>1
    <2> HIDE DEF u
    <2>4. ~ (u.fbx >= u.cols) /\ ~ (u.fby >= u.rows)
      BY <1>1, <1>2, <2>2
    <2>5. put_char(s, x) = u
      <3>1. Wrapped(Typed(s, x)) = u
        BY <2>1, <2>4, Zenon DEF Wrapped
      <3> QED
        BY <2>2, <2>4, <3>1, PutIs
    <2> QED
      BY <2>1, <2>3, <2>5
  <1>4. CASE x = LF
    <2> DEFINE u == [s EXCEPT !.fbx = 0, !.fby = @ + 1]
    <2>1. Typed(s, x) = u /\ Printed(p, x) = LineFeed(p)
      BY <1>4 DEF Typed, Printed, CR, LF, BS
    <2>2. u.fbx = 0 /\ u.cols = s.cols /\ u.rows = s.rows /\ u.fby = s.fby + 1
      BY <1>1 DEF ScreenFields
    <2>3. CellsMatch(u, p)
      BY <1>1, CellsOnly
    <2>10. DOMAIN u = ScreenFields
      BY <1>1
    <2> HIDE DEF u
    <2>4. ~ (u.fbx >= u.cols) /\ u.fby = p.y - (Len(p.lines) - u.rows)
      BY <1>1, <1>2, <2>2 DEF n
    <2>5. put_char(s, x) = IF u.fby >= u.rows THEN scroll(u) ELSE u
      <3>1. Wrapped(Typed(s, x)) = u
        BY <2>1, <2>4, Zenon DEF Wrapped
      <3> QED
        BY <2>2, <3>1, PutIs
    <2>6. Matches(IF u.fby >= u.rows THEN scroll(u) ELSE u, LineFeed(p))
      BY <2>2, <2>3, <2>4, FeedMatches
    <2> QED
      BY <2>1, <2>5, <2>6
  <1>5. CASE x = BS /\ s.erases
    <2> DEFINE k == IF p.x > 0 THEN p.x - 1 ELSE 0
               u == [s EXCEPT !.fbx = k]
    <2>1. Typed(s, x) = [s EXCEPT !.fbx = IF @ > 0 THEN @ - 1 ELSE 0]
      BY <1>5 DEF Typed, CR, LF, BS
    <2>2. Typed(s, x) = u
      BY <1>1, <2>1
    <2>3. Printed(p, x) = [p EXCEPT !.x = IF @ = 0 THEN 0 ELSE @ - 1]
      BY <1>1, <1>5 DEF Printed, CR, LF, BS
    <2>4. Printed(p, x) = [p EXCEPT !.x = k]
      BY <1>1, <2>3
    <2>5. k \in 0 .. s.cols - 1
      BY <1>1
    <2>6. u.fbx = k /\ u.cols = s.cols /\ u.rows = s.rows /\ u.fby = s.fby
      BY <1>1 DEF ScreenFields
    <2>10. DOMAIN u = ScreenFields
      BY <1>1
    <2> HIDE DEF k
    <2>7. Matches(u, [p EXCEPT !.x = k])
      BY <2>5, MoveMatches
    <2> HIDE DEF u
    <2>8. ~ (u.fbx >= u.cols) /\ ~ (u.fby >= u.rows)
      BY <1>1, <1>2, <2>5, <2>6
    <2>9. put_char(s, x) = u
      <3>1. Wrapped(Typed(s, x)) = u
        BY <2>2, <2>8, Zenon DEF Wrapped
      <3> QED
        BY <2>6, <2>8, <3>1, PutIs
    <2> QED
      BY <2>4, <2>7, <2>9
  <1>6. CASE x # CR /\ x # LF /\ ~ (x = BS /\ s.erases)
    <2> DEFINE t == Drawn(s, x)
               q == Struck(p, x)
               u == [t EXCEPT !.fbx = 0, !.fby = @ + 1]
    <2>1. Typed(s, x) = t
      BY <1>6, Zenon DEF Typed, Drawn
    <2>2. Printed(p, x) = IF q.x + 1 \in DOMAIN q.lines[1] THEN [q EXCEPT !.x = @ + 1] ELSE LineFeed(q)
      <3>1. q.x = p.x
        BY <1>1 DEF Struck
      <3> QED
        BY <1>1, <1>6, <3>1 DEF Printed, Struck
    <2>3. /\ CellsMatch(t, q) /\ Len(q.lines) = n /\ q.x = p.x /\ q.y = p.y
          /\ t.fbx = s.fbx + 1 /\ t.fby = s.fby /\ t.cols = s.cols /\ t.rows = s.rows
          /\ DOMAIN q.lines[1] = 0 .. s.cols - 1
      BY GlyphMatches DEF n
    <2> HIDE DEF t, q
    <2>4. DOMAIN t = ScreenFields /\ DOMAIN q = {"lines", "x", "y", "erases"}
      BY <2>3 DEF CellsMatch
    <2>5. CASE p.x + 1 \in 0 .. s.cols - 1
      <3>1. Printed(p, x) = [q EXCEPT !.x = p.x + 1]
        BY <2>2, <2>3, <2>5
      <3>2. put_char(s, x) = t
        <4>1. ~ (t.fbx >= t.cols) /\ ~ (t.fby >= t.rows)
          BY <1>1, <1>2, <2>3, <2>5
        <4> QED
          <5>1. Wrapped(Typed(s, x)) = t
            BY <2>1, <4>1, Zenon DEF Wrapped
          <5> QED
            BY <2>3, <4>1, <5>1, PutIs
      <3>3. CellsMatch(t, [q EXCEPT !.x = p.x + 1])
        BY <2>3, CellsOnly
      <3>4. Matches(t, [q EXCEPT !.x = p.x + 1])
        BY <1>1, <2>3, <2>4, <2>5, <3>3 DEF Matches, n
      <3> QED
        BY <3>1, <3>2, <3>4
    <2>6. CASE p.x + 1 \notin 0 .. s.cols - 1
      <3>1. Printed(p, x) = LineFeed(q) /\ t.fbx >= t.cols
        BY <1>1, <2>2, <2>3, <2>6
      <3>2. u.fbx = 0 /\ u.cols = s.cols /\ u.rows = s.rows /\ u.fby = s.fby + 1
        BY <2>3, <2>4 DEF ScreenFields
      <3>3. CellsMatch(u, q)
        BY <2>3, CellsOnly
      <3>4. put_char(s, x) = IF u.fby >= u.rows THEN scroll(u) ELSE u
        <4>1. Wrapped(Typed(s, x)) = u
          BY <2>1, <3>1, Zenon DEF Wrapped
        <4> HIDE DEF u
        <4> QED
          BY <3>2, <4>1, PutIs
      <3> HIDE DEF u
      <3>5. u.fby = q.y - (Len(q.lines) - u.rows)
        BY <1>2, <2>3, <3>2
      <3>6. Matches(IF u.fby >= u.rows THEN scroll(u) ELSE u, LineFeed(q))
        BY <3>2, <3>3, <3>5, FeedMatches
      <3> QED
        BY <3>1, <3>4, <3>6
    <2> QED
      BY <2>5, <2>6
  <1> QED
    BY <1>3, <1>4, <1>5, <1>6

-----------------------------------------------------------------------------
(* The console.                                                            *)

\* Paper with a text on it, from a fresh screen on.
PaperOf(first, text) == Roll(NewPaper(first), text)[Len(text)]

IsText(text) == Len(text) \in Nat /\ On(1 .. Len(text), text)

ShowsEnd(s, first, text) == IsText(text) /\ Matches(s, PaperOf(first, text))

LEMMA TailAppended ==
  ASSUME NEW s, NEW first, NEW text, ShowsEnd(s, first, text), NEW x
  PROVE  ShowsEnd(put_char(s, x), first, Append(text, x))
  <1>1. PaperOf(first, Append(text, x)) = Printed(PaperOf(first, text), x)
    BY RollMore DEF PaperOf, ShowsEnd, IsText
  <1>2. Matches(put_char(s, x), Printed(PaperOf(first, text), x))
    BY CharMatches DEF ShowsEnd
  <1>3. IsText(Append(text, x))
    <2>1. Len(text) \in Nat /\ On(1 .. Len(text), text)
      BY DEF ShowsEnd, IsText
    <2> QED
      BY <2>1, Appended DEF IsText
  <1> QED
    BY <1>1, <1>2, <1>3 DEF ShowsEnd

LEMMA TailShows ==
  ASSUME NEW s, NEW first, NEW text, ShowsEnd(s, first, text)
  PROVE  Shows(s, first, text)
  BY DEF ShowsEnd, PaperOf, Matches, CellsMatch, Shows

LEMMA DivMod ==
  ASSUME NEW x \in Nat, NEW y \in Nat \ {0}
  PROVE  x \div y \in Nat /\ x % y \in 0 .. y - 1 /\ x = y * (x \div y) + (x % y)
  OBVIOUS

LEMMA MulMono ==
  ASSUME NEW x \in Nat, NEW y \in Nat, NEW z \in Nat, x =< y
  PROVE  z * x \in Nat /\ z * y \in Nat /\ z * x =< z * y
  OBVIOUS

\* Paper from a fresh screen.
LEMMA FreshTail ==
  ASSUME NEW first, DOMAIN first = ScreenFields, first.cols \in Nat \ {0}, first.rows \in Nat \ {0},
         first.fbx = 0, first.fby = 0, On(0 .. first.rows - 1, first.cells),
         \A y \in 0 .. first.rows - 1 : On(0 .. first.cols - 1, first.cells[y])
  PROVE  ShowsEnd(first, first, <<>>)
  <1> DEFINE R == first.rows
             rows_ == [y \in 1 .. R |-> first.cells[y - 1]]
             all == SubSeq(rows_, 1, R)
             p == NewPaper(first)
  <1>1. R \in Nat \ {0} /\ first.cols \in Nat \ {0}
    OBVIOUS
  <1> HIDE DEF R
  <1>2. Len(all) = R /\ On(1 .. R, all) /\ \A i \in 1 .. R : all[i] = first.cells[i - 1]
    <2> DEFINE S == {first.cells[i - 1] : i \in 1 .. R}
    <2>1. rows_ \in Seq(S) /\ Len(rows_) = R
      <3>1. rows_ \in [1 .. R -> S]
        OBVIOUS
      <3> HIDE DEF S, rows_
      <3> QED
        BY <1>1, <3>1
    <2>2. \A i \in 1 .. R : rows_[i] = first.cells[i - 1]
      OBVIOUS
    <2> HIDE DEF S, rows_
    <2>3. all \in Seq(S) /\ Len(all) = R /\ \A i \in 1 .. R : all[i] = rows_[i]
      BY <1>1, <2>1, SubSeqProperties
    <2>4. On(1 .. R, all)
      BY <2>3, SeqDef DEF On
    <2> QED
      BY <2>2, <2>3, <2>4
  <1>3. p = [lines |-> all, x |-> 0, y |-> 1, erases |-> first.erases]
    BY DEF NewPaper, R
  <1> HIDE DEF all, p
  <1>4. \A i \in 1 .. R : On(0 .. first.cols - 1, all[i])
    <2> SUFFICES ASSUME NEW i \in 1 .. R PROVE On(0 .. first.cols - 1, all[i])
      OBVIOUS
    <2>1. i - 1 \in 0 .. R - 1
      BY <1>1
    <2> QED
      BY <1>2, <2>1 DEF R
  <1>5. \A y \in 0 .. R - 1 : first.cells[y] = all[R - R + y + 1]
    <2> SUFFICES ASSUME NEW y \in 0 .. R - 1 PROVE first.cells[y] = all[R - R + y + 1]
      OBVIOUS
    <2>1. R - R + y + 1 \in 1 .. R /\ (R - R + y + 1) - 1 = y
      BY <1>1
    <2> QED
      BY <1>2, <2>1
  <1>6. CellsMatch(first, p)
    <2>1. Len(p.lines) = R /\ p.y = 1 /\ p.lines = all /\ p.erases = first.erases /\ DOMAIN p = {"lines", "x", "y", "erases"}
      BY <1>2, <1>3
    <2>2. 1 \in R - R + 1 .. R /\ R >= R
      BY <1>1
    <2> QED
      BY <1>1, <1>2, <1>4, <1>5, <2>1, <2>2 DEF CellsMatch, R
  <1>7. Matches(first, p)
    <2>1. Len(p.lines) = R /\ p.y = 1 /\ p.x = 0
      BY <1>2, <1>3
    <2>2. 0 \in 0 .. first.cols - 1 /\ 0 = 1 - (R - R) - 1
      BY <1>1
    <2> QED
      BY <1>6, <2>1, <2>2 DEF Matches, R
  <1>8. IsText(<<>>) /\ PaperOf(first, <<>>) = p
    <2>1. Len(<<>>) = 0 /\ <<>> = [i \in 1 .. 0 |-> <<>>[i]]
      OBVIOUS
    <2>2. Roll(p, <<>>)[0] = p
      BY <2>1, RollIs
    <2> QED
      BY <2>1, <2>2 DEF IsText, PaperOf, On, p
  <1> QED
    BY <1>7, <1>8 DEF ShowsEnd

LEMMA ScreenIs ==
  ASSUME NEW columns \in Nat \ {0}, NEW lines \in Nat \ {0}, NEW glyph, NEW bs
  PROVE  ShowsEnd(Screen(columns, lines, glyph, bs), Screen(columns, lines, glyph, bs), <<>>)
  <1> DEFINE first == Screen(columns, lines, glyph, bs)
  <1>1. /\ DOMAIN first = ScreenFields /\ first.cols \in Nat \ {0} /\ first.rows \in Nat \ {0}
        /\ first.fbx = 0 /\ first.fby = 0 /\ On(0 .. first.rows - 1, first.cells)
        /\ \A y \in 0 .. first.rows - 1 : On(0 .. first.cols - 1, first.cells[y])
    BY DEF Screen, ScreenFields, On
  <1> HIDE DEF first
  <1> QED
    BY <1>1, FreshTail DEF first

LEMMA VideoSize == cols(video_w) \in Nat \ {0} /\ rows(video_h) \in Nat \ {0}
  <1>1. maxw \in Nat \ {0} /\ maxh \in Nat \ {0} /\ cw \in Nat \ {0} /\ ch \in Nat \ {0}
    BY TerminalAssumption
  <1>2. video_w \in Nat /\ video_h \in Nat /\ cw =< video_w /\ ch =< video_h
    BY ScreenAssumption
  <1>3. ASSUME NEW w \in Nat, NEW y \in Nat \ {0}, y =< w PROVE w \div y \in Nat \ {0}
    <2> DEFINE d == w \div y
               r == w % y
    <2>1. d \in Nat /\ r \in 0 .. y - 1 /\ w = y * d + r
      BY DivMod
    <2> HIDE DEF d, r
    <2>2. d # 0
      <3> SUFFICES ASSUME d = 0 PROVE FALSE
        OBVIOUS
      <3>1. w = y * 0 + r
        BY <2>1
      <3> QED
        BY <1>3, <2>1, <3>1
    <2> QED
      BY <2>1, <2>2 DEF d
  <1>4. video_w \div cw \in Nat \ {0} /\ video_h \div ch \in Nat \ {0}
    BY <1>1, <1>2, <1>3
  <1> QED
    BY <1>1, <1>4 DEF cols, rows, Least

-----------------------------------------------------------------------------
(* Characters, one after the other.                                        *)

\* The recursive definition of After has a solution, which is its value.
LEMMA AfterIs ==
  ASSUME NEW d, NEW mem, NEW stream, NEW chars, Len(chars) \in Nat
  PROVE  \A n \in 0 .. Len(chars) :
           After(d, mem, stream, chars)[n] =
             IF n = 0 THEN d ELSE Char(After(d, mem, stream, chars)[n - 1], mem, stream, chars[n])
  <1> DEFINE StepOf(f, k) == IF k = 0 THEN d ELSE Char(f[k - 1], mem, stream, chars[k])
             Solves(f, n) == f = [k \in 0 .. n |-> StepOf(f, k)]
             solvable == {n \in 0 .. Len(chars) : \E f : Solves(f, n)}
  <1>1. solvable = 0 .. Len(chars)
    <2>1. 0 \in solvable
      <3> DEFINE g == [k \in 0 .. 0 |-> d]
      <3>1. Solves(g, 0)
        OBVIOUS
      <3> HIDE DEF Solves
      <3> QED
        BY <3>1
    <2>2. ASSUME NEW n \in 1 .. Len(chars), n - 1 \in solvable PROVE n \in solvable
      <3>1. PICK g : Solves(g, n - 1)
        <4> HIDE DEF Solves
        <4> QED
          BY <2>2
      <3> DEFINE h == [k \in 0 .. n |-> IF k = n THEN StepOf(g, n) ELSE g[k]]
      <3>2. ASSUME NEW k \in 0 .. n PROVE h[k] = StepOf(h, k)
        <4>1. n # 0 /\ h[n - 1] = g[n - 1]
          OBVIOUS
        <4>2. CASE k = n
          BY <4>1, <4>2
        <4>3. CASE k # n
          <5>1. k \in 0 .. n - 1
            BY <4>3
          <5>2. g[k] = StepOf(g, k)
            BY <3>1, <5>1
          <5>3. k # 0 => h[k - 1] = g[k - 1]
            BY <5>1
          <5> QED
            BY <4>3, <5>2, <5>3
        <4> QED
          BY <4>2, <4>3
      <3>3. Solves(h, n)
        BY <3>2
      <3> HIDE DEF Solves
      <3> QED
        BY <3>3
    <2> HIDE DEF solvable
    <2>3. solvable \subseteq 0 .. Len(chars)
      BY DEF solvable
    <2> QED
      BY <2>1, <2>2, <2>3, UpTo
  <1>2. PICK f : Solves(f, Len(chars))
    <2> HIDE DEF Solves
    <2> QED
      BY <1>1
  <1> DEFINE after == CHOOSE g : Solves(g, Len(chars))
  <1>3. Solves(after, Len(chars))
    <2> HIDE DEF Solves
    <2> QED
      BY <1>2
  <1>4. After(d, mem, stream, chars) = after
    BY DEF After
  <1> HIDE DEF after
  <1>5. \A n \in 0 .. Len(chars) : after[n] = StepOf(after, n)
    BY <1>3
  <1> QED
    BY <1>4, <1>5

ConsoleFields ==
  {"serial", "tty", "fb", "ll", "stream", "text", "video", "wire", "typed", "said", "wild"}

\* What printing keeps of a console, and the devices it does not change.
ScreensInv(d) ==
  /\ DOMAIN d = ConsoleFields /\ DOMAIN d.typed = {"text", "video"}
  /\ ShowsEnd(d.text, TextScreen, d.typed.text)
  /\ ShowsEnd(d.video, VideoScreen(video_w, video_h), d.typed.video)
  /\ IsText(d.wire) /\ d.said \in Nat /\ d.wild \in BOOLEAN

SameDevices(d, e) ==
  e.serial = d.serial /\ e.tty = d.tty /\ e.fb = d.fb /\ e.ll = d.ll /\ e.stream = d.stream

Lossless(d) == d.said = Len(d.wire) + Len(d.typed.text) + Len(d.typed.video)

ScreenThere(d, mem) ==
  \/ d.tty = "text" /\ Reaches(mem, TextPage(d), text_frame)
  \/ d.tty = "video" /\ \A i \in 0 .. video_pages - 1 : Reaches(mem, va_framebuffer + i, video_frame + i)

Where(d, stream) == IF stream = "koi" THEN d.stream ELSE stream

\* A line that goes nowhere on purpose, to the serial line or to a screen.
Routed(d, mem, stream) ==
  \/ stream = "dummy"
  \/ Where(d, stream) = "serial"
  \/ Where(d, stream) = "tty" /\ ScreenThere(d, mem)

\* What a character may do: counted but nothing else, on the wire, on a screen
\* or a fault.
LEMMA CharCases ==
  ASSUME NEW d, NEW mem, NEW stream, NEW x, ~ d.wild
  PROVE  LET e == [d EXCEPT !.said = @ + (IF stream = "dummy" THEN 0 ELSE 1)]
             r == Char(d, mem, stream, x)
         IN  \/ r = e /\ Where(d, stream) # "serial" /\ ~ (Where(d, stream) = "tty" /\ d.tty \in {"text", "video"})
             \/ r = [e EXCEPT !.wire = Append(@, x)] /\ Where(d, stream) = "serial"
             \/ r = [e EXCEPT !.text = put_char(@, x), !.typed.text = Append(@, x)]
                /\ Where(d, stream) = "tty" /\ d.tty = "text"
             \/ r = [e EXCEPT !.video = put_char(@, x), !.typed.video = Append(@, x)]
                /\ Where(d, stream) = "tty" /\ d.tty = "video"
             \/ r = [e EXCEPT !.wild = TRUE] /\ Where(d, stream) = "tty" /\ ~ ScreenThere(d, mem)
  <1> DEFINE e == [d EXCEPT !.said = @ + (IF stream = "dummy" THEN 0 ELSE 1)]
             r == Char(d, mem, stream, x)
  <1>1. e.stream = d.stream /\ e.tty = d.tty /\ TextPage(e) = TextPage(d)
    BY DEF TextPage
  <1>2. r = OnStream(e, mem, Where(d, stream), x)
    BY Zenon DEF Char, Where
  <1> HIDE DEF e, r
  <1>3. CASE Where(d, stream) = "serial"
    BY <1>2, <1>3 DEF OnStream, e, r
  <1>4. CASE Where(d, stream) # "serial" /\ Where(d, stream) # "tty"
    <2>1. r = e
      BY <1>2, <1>4 DEF OnStream
    <2> QED
      BY <1>4, <2>1 DEF e, r
  <1>5. CASE Where(d, stream) = "tty"
    <2>1. r = TtyChar(e, mem, x)
      BY <1>2, <1>5 DEF OnStream
    <2>2. CASE d.tty = "text"
      <3>1. r = TextChar(e, mem, x)
        BY <1>1, <2>1, <2>2 DEF TtyChar
      <3>2. CASE Reaches(mem, TextPage(d), text_frame)
        <4>1. r = [e EXCEPT !.text = put_char(@, x), !.typed.text = Append(@, x)]
          BY <1>1, <3>1, <3>2 DEF TextChar
        <4> QED
          BY <1>5, <2>2, <4>1 DEF e, r
      <3>3. CASE ~ Reaches(mem, TextPage(d), text_frame)
        <4>1. r = [e EXCEPT !.wild = TRUE] /\ ~ ScreenThere(d, mem)
          BY <1>1, <2>2, <3>1, <3>3 DEF TextChar, ScreenThere
        <4> QED
          BY <1>5, <4>1 DEF e, r
      <3> QED
        BY <3>2, <3>3
    <2>3. CASE d.tty = "video"
      <3> DEFINE there == \A i \in 0 .. video_pages - 1 : Reaches(mem, va_framebuffer + i, video_frame + i)
      <3>1. r = VideoChar(e, mem, x)
        BY <1>1, <2>1, <2>3 DEF TtyChar
      <3>2. CASE there
        <4>1. r = [e EXCEPT !.video = put_char(@, x), !.typed.video = Append(@, x)]
          BY <3>1, <3>2, Zenon DEF VideoChar
        <4> QED
          BY <1>5, <2>3, <4>1 DEF e, r
      <3>3. CASE ~ there
        <4>1. r = [e EXCEPT !.wild = TRUE]
          BY <3>1, <3>3, Zenon DEF VideoChar
        <4>2. ~ ScreenThere(d, mem)
          BY <2>3, <3>3 DEF ScreenThere
        <4> QED
          BY <1>5, <4>1, <4>2 DEF e, r
      <3> QED
        BY <3>2, <3>3
    <2>4. CASE d.tty \notin {"text", "video"}
      <3>1. r = e
        BY <1>1, <2>1, <2>4 DEF TtyChar
      <3> QED
        BY <1>5, <2>4, <3>1 DEF e, r
    <2> QED
      BY <2>2, <2>3, <2>4
  <1> QED
    BY <1>3, <1>4, <1>5

LEMMA CharKeeps ==
  ASSUME NEW d, NEW mem, NEW stream, NEW x, ScreensInv(d)
  PROVE  LET r == Char(d, mem, stream, x)
         IN  /\ ScreensInv(r) /\ SameDevices(d, r)
             /\ d.wild => r = d
             /\ ~ d.wild /\ (Where(d, stream) = "tty" => ScreenThere(d, mem)) => ~ r.wild
             /\ ~ d.wild /\ Routed(d, mem, stream) /\ Lossless(d) => Lossless(r)
  <1> DEFINE e == [d EXCEPT !.said = @ + (IF stream = "dummy" THEN 0 ELSE 1)]
             r == Char(d, mem, stream, x)
  <1>1. /\ DOMAIN d = ConsoleFields /\ DOMAIN d.typed = {"text", "video"}
        /\ ShowsEnd(d.text, TextScreen, d.typed.text)
        /\ ShowsEnd(d.video, VideoScreen(video_w, video_h), d.typed.video)
        /\ IsText(d.wire) /\ d.said \in Nat /\ d.wild \in BOOLEAN
    BY DEF ScreensInv
  <1>2. Len(d.wire) \in Nat /\ Len(d.typed.text) \in Nat /\ Len(d.typed.video) \in Nat
    BY <1>1 DEF ShowsEnd, IsText
  <1>3. /\ DOMAIN e = ConsoleFields /\ SameDevices(d, e) /\ e.typed = d.typed /\ e.text = d.text
        /\ e.video = d.video /\ e.wire = d.wire /\ e.wild = d.wild
        /\ e.said = d.said + (IF stream = "dummy" THEN 0 ELSE 1)
    BY <1>1 DEF ConsoleFields, SameDevices
  <1>4. e.said \in Nat
    BY <1>1, <1>3
  <1>5. CASE d.wild
    <2>1. r = d
      BY <1>5 DEF Char
    <2> QED
      BY <1>5, <2>1 DEF SameDevices
  <1>6. CASE ~ d.wild
    <2>1. \A t : IsText(t) => IsText(Append(t, x)) /\ Len(Append(t, x)) = Len(t) + 1
      BY Appended DEF IsText
    <2> HIDE DEF r
    <2>2. CASE r = e /\ Where(d, stream) # "serial" /\ ~ (Where(d, stream) = "tty" /\ d.tty \in {"text", "video"})
      <3>1. ScreensInv(r) /\ SameDevices(d, r) /\ ~ r.wild
        BY <1>1, <1>3, <1>4, <1>6, <2>2 DEF ScreensInv
      <3>2. ASSUME Routed(d, mem, stream), Lossless(d) PROVE Lossless(r)
        <4>1. stream = "dummy"
          BY <2>2, <3>2 DEF Routed, ScreenThere
        <4> QED
          BY <1>1, <1>3, <2>2, <3>2, <4>1 DEF Lossless
      <3> QED
        BY <1>6, <3>1, <3>2 DEF r
    <2>3. CASE r = [e EXCEPT !.wire = Append(@, x)] /\ Where(d, stream) = "serial"
      <3>1. /\ DOMAIN r = ConsoleFields /\ SameDevices(d, r) /\ r.typed = d.typed /\ r.text = d.text
            /\ r.video = d.video /\ r.wire = Append(d.wire, x) /\ r.wild = d.wild /\ r.said = e.said
        BY <1>3, <2>3 DEF ConsoleFields, SameDevices
      <3>2. ScreensInv(r) /\ ~ r.wild
        BY <1>1, <1>4, <1>6, <2>1, <3>1 DEF ScreensInv
      <3>3. stream # "dummy"
        BY <2>3 DEF Where
      <3>4. ASSUME Lossless(d) PROVE Lossless(r)
        <4>1. r.said = d.said + 1
          BY <1>3, <3>1, <3>3
        <4>2. Len(r.wire) = Len(d.wire) + 1 /\ Len(r.typed.text) = Len(d.typed.text) /\ Len(r.typed.video) = Len(d.typed.video)
          BY <1>1, <2>1, <3>1
        <4>3. d.said = Len(d.wire) + Len(d.typed.text) + Len(d.typed.video)
          BY <3>4 DEF Lossless
        <4>4. PICK a1, a2, a3, k1, k2 :
                a1 = Len(d.wire) /\ a2 = Len(d.typed.text) /\ a3 = Len(d.typed.video)
                /\ k1 = d.said /\ k2 = r.said
          OBVIOUS
        <4>6. a1 \in Nat /\ a2 \in Nat /\ a3 \in Nat /\ k1 = a1 + a2 + a3 /\ k2 = k1 + 1
          BY <1>2, <4>1, <4>3, <4>4
        <4>5. r.said = Len(r.wire) + Len(r.typed.text) + Len(r.typed.video)
          <5>1. k2 = (a1 + 1) + a2 + a3 /\ k2 = a1 + (a2 + 1) + a3 /\ k2 = a1 + a2 + (a3 + 1)
            BY <4>6
          <5> QED
            BY <4>2, <4>4, <5>1, Zenon
        <4> QED
          BY <4>5 DEF Lossless
      <3> QED
        BY <1>6, <3>1, <3>2, <3>4 DEF r
    <2>4. CASE /\ r = [e EXCEPT !.text = put_char(@, x), !.typed.text = Append(@, x)]
               /\ Where(d, stream) = "tty" /\ d.tty = "text"
      <3>1. /\ DOMAIN r = ConsoleFields /\ SameDevices(d, r)
            /\ r.typed = [d.typed EXCEPT !.text = Append(@, x)] /\ r.text = put_char(d.text, x)
            /\ r.video = d.video /\ r.wire = d.wire /\ r.wild = d.wild /\ r.said = e.said
        BY <1>3, <2>4 DEF ConsoleFields, SameDevices
      <3>2. /\ DOMAIN r.typed = {"text", "video"} /\ r.typed.text = Append(d.typed.text, x)
            /\ r.typed.video = d.typed.video
        BY <1>1, <3>1
      <3>3. ShowsEnd(r.text, TextScreen, r.typed.text)
        BY <1>1, <3>1, <3>2, TailAppended
      <3>4. ScreensInv(r) /\ ~ r.wild
        BY <1>1, <1>4, <1>6, <3>1, <3>2, <3>3 DEF ScreensInv
      <3>5. stream # "dummy" /\ Len(r.typed.text) = Len(d.typed.text) + 1
        BY <1>1, <2>1, <2>4, <3>2 DEF Where, ShowsEnd
      <3>6. ASSUME Lossless(d) PROVE Lossless(r)
        <4>1. r.said = d.said + 1
          BY <1>3, <3>1, <3>5
        <4>2. Len(r.wire) = Len(d.wire) /\ Len(r.typed.text) = Len(d.typed.text) + 1 /\ Len(r.typed.video) = Len(d.typed.video)
          BY <1>1, <3>1, <3>2, <3>5
        <4>3. d.said = Len(d.wire) + Len(d.typed.text) + Len(d.typed.video)
          BY <3>6 DEF Lossless
        <4>4. PICK a1, a2, a3, k1, k2 :
                a1 = Len(d.wire) /\ a2 = Len(d.typed.text) /\ a3 = Len(d.typed.video)
                /\ k1 = d.said /\ k2 = r.said
          OBVIOUS
        <4>6. a1 \in Nat /\ a2 \in Nat /\ a3 \in Nat /\ k1 = a1 + a2 + a3 /\ k2 = k1 + 1
          BY <1>2, <4>1, <4>3, <4>4
        <4>5. r.said = Len(r.wire) + Len(r.typed.text) + Len(r.typed.video)
          <5>1. k2 = (a1 + 1) + a2 + a3 /\ k2 = a1 + (a2 + 1) + a3 /\ k2 = a1 + a2 + (a3 + 1)
            BY <4>6
          <5> QED
            BY <4>2, <4>4, <5>1, Zenon
        <4> QED
          BY <4>5 DEF Lossless
      <3> QED
        BY <1>6, <3>1, <3>4, <3>6 DEF r
    <2>5. CASE /\ r = [e EXCEPT !.video = put_char(@, x), !.typed.video = Append(@, x)]
               /\ Where(d, stream) = "tty" /\ d.tty = "video"
      <3>1. /\ DOMAIN r = ConsoleFields /\ SameDevices(d, r)
            /\ r.typed = [d.typed EXCEPT !.video = Append(@, x)] /\ r.video = put_char(d.video, x)
            /\ r.text = d.text /\ r.wire = d.wire /\ r.wild = d.wild /\ r.said = e.said
        BY <1>3, <2>5 DEF ConsoleFields, SameDevices
      <3>2. /\ DOMAIN r.typed = {"text", "video"} /\ r.typed.video = Append(d.typed.video, x)
            /\ r.typed.text = d.typed.text
        BY <1>1, <3>1
      <3>3. ShowsEnd(r.video, VideoScreen(video_w, video_h), r.typed.video)
        BY <1>1, <3>1, <3>2, TailAppended
      <3>4. ScreensInv(r) /\ ~ r.wild
        BY <1>1, <1>4, <1>6, <3>1, <3>2, <3>3 DEF ScreensInv
      <3>5. stream # "dummy" /\ Len(r.typed.video) = Len(d.typed.video) + 1
        BY <1>1, <2>1, <2>5, <3>2 DEF Where, ShowsEnd
      <3>6. ASSUME Lossless(d) PROVE Lossless(r)
        <4>1. r.said = d.said + 1
          BY <1>3, <3>1, <3>5
        <4>2. Len(r.wire) = Len(d.wire) /\ Len(r.typed.text) = Len(d.typed.text) /\ Len(r.typed.video) = Len(d.typed.video) + 1
          BY <1>1, <3>1, <3>2, <3>5
        <4>3. d.said = Len(d.wire) + Len(d.typed.text) + Len(d.typed.video)
          BY <3>6 DEF Lossless
        <4>4. PICK a1, a2, a3, k1, k2 :
                a1 = Len(d.wire) /\ a2 = Len(d.typed.text) /\ a3 = Len(d.typed.video)
                /\ k1 = d.said /\ k2 = r.said
          OBVIOUS
        <4>6. a1 \in Nat /\ a2 \in Nat /\ a3 \in Nat /\ k1 = a1 + a2 + a3 /\ k2 = k1 + 1
          BY <1>2, <4>1, <4>3, <4>4
        <4>5. r.said = Len(r.wire) + Len(r.typed.text) + Len(r.typed.video)
          <5>1. k2 = (a1 + 1) + a2 + a3 /\ k2 = a1 + (a2 + 1) + a3 /\ k2 = a1 + a2 + (a3 + 1)
            BY <4>6
          <5> QED
            BY <4>2, <4>4, <5>1, Zenon
        <4> QED
          BY <4>5 DEF Lossless
      <3> QED
        BY <1>6, <3>1, <3>4, <3>6 DEF r
    <2>6. CASE r = [e EXCEPT !.wild = TRUE] /\ Where(d, stream) = "tty" /\ ~ ScreenThere(d, mem)
      <3>1. /\ DOMAIN r = ConsoleFields /\ SameDevices(d, r) /\ r.typed = d.typed /\ r.text = d.text
            /\ r.video = d.video /\ r.wire = d.wire /\ r.wild = TRUE /\ r.said = e.said
        BY <1>3, <2>6 DEF ConsoleFields, SameDevices
      <3>2. ScreensInv(r)
        BY <1>1, <1>4, <3>1 DEF ScreensInv
      <3>3. ~ Routed(d, mem, stream)
        BY <2>6 DEF Routed, Where
      <3> QED
        BY <1>6, <2>6, <3>1, <3>2, <3>3 DEF r
    <2> QED
      <3>1. \/ r = e /\ Where(d, stream) # "serial" /\ ~ (Where(d, stream) = "tty" /\ d.tty \in {"text", "video"})
            \/ r = [e EXCEPT !.wire = Append(@, x)] /\ Where(d, stream) = "serial"
            \/ r = [e EXCEPT !.text = put_char(@, x), !.typed.text = Append(@, x)]
               /\ Where(d, stream) = "tty" /\ d.tty = "text"
            \/ r = [e EXCEPT !.video = put_char(@, x), !.typed.video = Append(@, x)]
               /\ Where(d, stream) = "tty" /\ d.tty = "video"
            \/ r = [e EXCEPT !.wild = TRUE] /\ Where(d, stream) = "tty" /\ ~ ScreenThere(d, mem)
        BY <1>6, CharCases, Zenon DEF r
      <3> HIDE DEF e
      <3> QED
        BY <2>2, <2>3, <2>4, <2>5, <2>6, <3>1, Zenon
  <1> QED
    BY <1>5, <1>6

\* What a character or a text leaves of console d.
Kept(d, mem, stream, r) ==
  /\ ScreensInv(r) /\ SameDevices(d, r)
  /\ d.wild => r = d
  /\ ~ d.wild /\ (Where(d, stream) = "tty" => ScreenThere(d, mem)) => ~ r.wild
  /\ ~ d.wild /\ Routed(d, mem, stream) /\ Lossless(d) => Lossless(r)

LEMMA KeptChar ==
  ASSUME NEW d, NEW mem, NEW stream, NEW e, NEW x, Kept(d, mem, stream, e)
  PROVE  Kept(d, mem, stream, Char(e, mem, stream, x))
  <1> DEFINE r == Char(e, mem, stream, x)
  <1>1. ScreensInv(e) /\ SameDevices(d, e)
    BY DEF Kept
  <1>2. /\ ScreensInv(r) /\ SameDevices(e, r)
        /\ e.wild => r = e
        /\ ~ e.wild /\ (Where(e, stream) = "tty" => ScreenThere(e, mem)) => ~ r.wild
        /\ ~ e.wild /\ Routed(e, mem, stream) /\ Lossless(e) => Lossless(r)
    BY <1>1, CharKeeps
  <1> HIDE DEF r
  <1>3. /\ Where(e, stream) = Where(d, stream) /\ (ScreenThere(e, mem) <=> ScreenThere(d, mem))
        /\ (Routed(e, mem, stream) <=> Routed(d, mem, stream))
    BY <1>1 DEF SameDevices, Where, ScreenThere, Routed, TextPage
  <1>4. SameDevices(d, r)
    BY <1>1, <1>2 DEF SameDevices
  <1>5. Routed(d, mem, stream) => (Where(d, stream) = "tty" => ScreenThere(d, mem))
    BY DEF Routed, Where
  <1>6. CASE d.wild
    <2>1. e = d /\ r = d
      BY <1>2, <1>6 DEF Kept
    <2> QED
      BY <1>2, <1>4, <1>6, <2>1 DEF Kept, r
  <1>7. CASE ~ d.wild
    <2>1. /\ (Where(d, stream) = "tty" => ScreenThere(d, mem)) => ~ e.wild
          /\ Routed(d, mem, stream) /\ Lossless(d) => Lossless(e)
      BY <1>7 DEF Kept
    <2> QED
      BY <1>2, <1>3, <1>4, <1>5, <1>7, <2>1 DEF Kept, r
  <1> QED
    BY <1>6, <1>7

LEMMA PutKeeps ==
  ASSUME NEW d, NEW mem, NEW stream, NEW chars, Len(chars) \in Nat, ScreensInv(d)
  PROVE  Kept(d, mem, stream, Put(d, mem, stream, chars))
  <1> DEFINE n == Len(chars)
             f == After(d, mem, stream, chars)
             good == {k \in 0 .. n : Kept(d, mem, stream, f[k])}
  <1>1. n \in Nat /\ \A k \in 0 .. n : f[k] = IF k = 0 THEN d ELSE Char(f[k - 1], mem, stream, chars[k])
    BY AfterIs
  <1> HIDE DEF n, f
  <1>2. 0 \in good
    <2>1. Kept(d, mem, stream, d)
      BY DEF Kept, SameDevices
    <2> QED
      BY <1>1, <2>1
  <1>3. ASSUME NEW k \in 1 .. n, k - 1 \in good PROVE k \in good
    <2>1. Kept(d, mem, stream, f[k - 1]) /\ k \in 0 .. n /\ k # 0
      BY <1>1, <1>3
    <2>2. Kept(d, mem, stream, Char(f[k - 1], mem, stream, chars[k]))
      BY <2>1, KeptChar
    <2>3. f[k] = Char(f[k - 1], mem, stream, chars[k])
      BY <1>1, <2>1
    <2> QED
      BY <2>1, <2>2, <2>3
  <1>4. good \subseteq 0 .. n
    OBVIOUS
  <1> HIDE DEF good
  <1>5. good = 0 .. n
    BY <1>1, <1>2, <1>3, <1>4, UpTo
  <1>6. n \in good
    BY <1>1, <1>5
  <1> QED
    BY <1>6 DEF good, Put, f, n

-----------------------------------------------------------------------------
(* Pages and tables.                                                       *)

LEMMA Layout ==
  /\ N \in Nat \ {0} /\ FirstKernel \in 1 .. N - 3 /\ Rec \in FirstKernel + 1 .. N - 2 /\ N - 1 \in Nat
  /\ FirstKernel * N \in Nat /\ Rec * N \in Nat /\ N * N \in Nat /\ (N - 1) * N \in Nat
  /\ FirstKernel * N + N =< Rec * N /\ Rec * N + N =< (N - 1) * N /\ (N - 1) * N + N = N * N
  <1>1. N \in Nat \ {0} /\ FirstKernel \in 1 .. N - 3 /\ Rec \in FirstKernel + 1 .. N - 2 /\ N - 1 \in Nat
    BY LayoutAssumption
  <1>2. ASSUME NEW x \in Nat, NEW y \in Nat, x + 1 =< y
        PROVE  x * N \in Nat /\ y * N \in Nat /\ x * N + N =< y * N
    <2>1. N * (x + 1) =< N * y /\ N * (x + 1) \in Nat /\ N * y \in Nat
      BY <1>1, <1>2, MulMono
    <2>2. N * (x + 1) = x * N + N /\ N * y = y * N /\ x * N \in Nat
      BY <1>1
    <2> QED
      BY <2>1, <2>2
  <1>3. FirstKernel * N + N =< Rec * N /\ FirstKernel * N \in Nat /\ Rec * N \in Nat
    BY <1>1, <1>2
  <1>4. Rec * N + N =< (N - 1) * N /\ (N - 1) * N \in Nat
    BY <1>1, <1>2
  <1>5. (N - 1) * N + N = N * N /\ N * N \in Nat
    BY <1>1
  <1> QED
    BY <1>1, <1>3, <1>4, <1>5

\* Page i of table p.
LEMMA PageAt ==
  ASSUME NEW p \in 0 .. N - 1, NEW i \in 0 .. N - 1
  PROVE  /\ p * N + i \in Page /\ (p * N + i) \div N = p /\ (p * N + i) % N = i /\ p * N \in Nat
  <1>1. N \in Nat \ {0} /\ p \in Nat /\ i \in Nat /\ N * N \in Nat
    BY Layout
  <1>2. p * N \in Nat /\ p * N + N =< N * N
    <2>1. N * (p + 1) =< N * N /\ N * (p + 1) = p * N + N /\ p * N \in Nat
      <3>1. p + 1 \in Nat /\ p + 1 =< N
        BY <1>1
      <3>2. N * (p + 1) =< N * N
        BY <1>1, <3>1, MulMono
      <3> QED
        BY <1>1, <3>2
    <2> QED
      BY <2>1
  <1> DEFINE v == p * N + i
             d == v \div N
             r == v % N
  <1>3. v \in Page /\ v \in Nat
    BY <1>1, <1>2 DEF Page
  <1>4. d \in Nat /\ r \in 0 .. N - 1 /\ v = N * d + r
    BY <1>1, <1>3, DivMod
  <1>5. d = p
    <2>1. v = p * N + i
      OBVIOUS
    <2> HIDE DEF v, d, r
    <2>2. CASE d < p
      <3>1. N * (d + 1) =< N * p /\ N * (d + 1) = N * d + N /\ N * p = p * N
        <4>1. d + 1 \in Nat /\ d + 1 =< p
          BY <1>1, <1>4, <2>2
        <4> QED
          BY <1>1, <1>4, <4>1, MulMono
      <3> QED
        BY <1>1, <1>2, <1>4, <2>1, <3>1
    <2>3. CASE p < d
      <3>1. N * (p + 1) =< N * d /\ N * (p + 1) = p * N + N
        <4>1. p + 1 \in Nat /\ p + 1 =< d
          BY <1>1, <1>4, <2>3
        <4> QED
          BY <1>1, <1>4, <4>1, MulMono
      <3> QED
        BY <1>1, <1>2, <1>4, <2>1, <3>1
    <2> QED
      BY <1>1, <1>4, <2>2, <2>3
  <1>6. r = i
    <2>1. v = p * N + i /\ N * d = p * N
      BY <1>1, <1>5
    <2> HIDE DEF v, d, r
    <2> QED
      BY <1>1, <1>2, <1>4, <2>1
  <1> QED
    BY <1>2, <1>3, <1>5, <1>6

\* Every page is one of some table.
LEMMA PageSplit ==
  ASSUME NEW v \in Page
  PROVE  /\ v \in Nat /\ v \div N \in 0 .. N - 1 /\ v % N \in 0 .. N - 1
         /\ v = (v \div N) * N + (v % N) /\ (v \div N) * N \in Nat
  <1>1. N \in Nat \ {0} /\ N * N \in Nat /\ v \in Nat /\ v < N * N
    BY Layout DEF Page
  <1> DEFINE d == v \div N
             r == v % N
  <1>2. d \in Nat /\ r \in 0 .. N - 1 /\ v = N * d + r
    BY <1>1, DivMod
  <1> HIDE DEF d, r
  <1>3. d < N
    <2> SUFFICES ASSUME N =< d PROVE FALSE
      BY <1>1, <1>2
    <2>1. N * N =< N * d
      BY <1>1, <1>2, MulMono
    <2>2. N * d \in Nat
      BY <1>1, <1>2
    <2> QED
      BY <1>1, <1>2, <2>1, <2>2
  <1>4. N * d = d * N /\ d * N \in Nat
    BY <1>1, <1>2
  <1> QED
    BY <1>1, <1>2, <1>3, <1>4 DEF d, r

\* Pages in a run within table p.
LEMMA RunSplit ==
  ASSUME NEW p \in 0 .. N - 1, NEW i \in 0 .. N - 1, NEW count \in Nat, i + count =< N, NEW u \in Page
  PROVE  /\ u \in p * N + i .. p * N + i + count - 1 <=> u \div N = p /\ u % N \in i .. i + count - 1
         /\ u \div N = p => u - (p * N + i) = (u % N) - i
  <1> DEFINE a == p * N
             d == u \div N
             r == u % N
  <1>1. N \in Nat \ {0} /\ a \in Nat /\ u \in Nat /\ d \in 0 .. N - 1 /\ r \in 0 .. N - 1 /\ u = d * N + r
        /\ p \in Nat /\ i \in Nat
    BY Layout, PageAt, PageSplit
  <1>2. d = p => u = a + r
    BY <1>1
  <1>3. u \in a + i .. a + i + count - 1 => d = p
    <2> SUFFICES ASSUME u \in a + i .. a + i + count - 1 PROVE d = p
      OBVIOUS
    <2> DEFINE k == u - a
    <2>1. k \in 0 .. N - 1 /\ u = a + k
      <3> HIDE DEF a, d, r
      <3> QED
        BY <1>1
    <2> HIDE DEF k
    <2>2. (p * N + k) \div N = p
      BY <2>1, PageAt
    <2> QED
      BY <2>1, <2>2
  <1> HIDE DEF a, d, r
  <1>4. u \in a + i .. a + i + count - 1 <=> d = p /\ r \in i .. i + count - 1
    BY <1>1, <1>2, <1>3
  <1>5. d = p => u - (a + i) = r - i
    BY <1>1, <1>2
  <1> QED
    BY <1>4, <1>5 DEF a, d, r

-----------------------------------------------------------------------------
(* Frames and the walk through them.                                       *)

AllFrames(image) == TableFrames(image) \cup PoolFrames
PdFrame(image) == kstatic_va_to_pa(kernel_pd(image))
PtFrame(image) == kstatic_va_to_pa(init_pt(image))
TableOf(pts, p) == pts + p - FirstKernel

\* The frames of the bootstrap, of the kernel's directory and of init_pt.
LEMMA ImageFrames ==
  ASSUME NEW image \in Images
  PROVE  /\ page_directory # page_table_0 /\ page_directory # page_table_768
         /\ page_table_0 # page_table_768
         /\ PdFrame(image) \notin {page_directory, page_table_0, page_table_768}
         /\ PtFrame(image) \notin {page_directory, page_table_0, page_table_768, PdFrame(image)}
         /\ {page_directory, page_table_0, page_table_768, PdFrame(image), PtFrame(image)}
              \subseteq AllFrames(image) \ PoolFrames
  <1> DEFINE l == TableList(image)
  <1>1. /\ l[1] = page_directory /\ l[2] = page_table_0 /\ l[3] = page_table_768
        /\ l[5] = PdFrame(image) /\ l[6] = PtFrame(image)
    BY DEF TableList, PdFrame, PtFrame
  <1>2. \A i, j \in 1 .. 6 : l[i] = l[j] => i = j
    BY LayoutAssumption
  <1>3. \A i \in 1 .. 6 : l[i] \in AllFrames(image) \ PoolFrames
    BY LayoutAssumption DEF AllFrames, TableFrames
  <1> HIDE DEF l
  <1>4. \A i, j \in {1, 2, 3, 5, 6} : i # j => l[i] # l[j]
    BY <1>2
  <1> QED
    BY <1>1, <1>3, <1>4

LEMMA TableFrame ==
  ASSUME NEW pts \in FreeRuns, NEW p \in KernelTables
  PROVE  /\ TableOf(pts, p) \in PoolFrames /\ TableOf(pts, p) \in Nat
         /\ \A q \in KernelTables : TableOf(pts, q) = TableOf(pts, p) => q = p
  <1>1. pts \in Nat /\ p \in Nat /\ FirstKernel =< p /\ p =< N - 1 /\ FirstKernel \in Nat /\ N \in Nat
    BY Layout, LayoutAssumption DEF KernelTables
  <1>2. TableOf(pts, p) \in pts .. pts + N - FirstKernel - 1 /\ TableOf(pts, p) \in Nat
    BY <1>1 DEF TableOf
  <1>3. \A q \in KernelTables : q \in Nat
    BY Layout DEF KernelTables
  <1> QED
    BY <1>1, <1>2, <1>3 DEF PoolFrames, TableOf

LEMMA KernelTable ==
  ASSUME NEW p \in KernelTables
  PROVE  p \in 0 .. N - 1 /\ p \in Nat
  BY Layout DEF KernelTables

\* The parts of the image, in pages.
LEMMA ImageLayout ==
  ASSUME NEW image \in Images
  PROVE  LET text == div_ceil(image.text, page_size)
             rodata == div_ceil(image.rodata, page_size)
             data == data_pages(image)
         IN  /\ text \in Nat /\ rodata \in Nat /\ data \in Nat /\ data >= 2 /\ text + rodata + data =< N
             /\ rodata_vma(image) = FirstKernel * N + text
             /\ data_vma(image) = FirstKernel * N + (text + rodata)
             /\ kernel_pd(image) = FirstKernel * N + (text + rodata + data - 2)
             /\ init_pt(image) = FirstKernel * N + (text + rodata + data - 1)
             /\ PdFrame(image) = kernel_lma + (text + rodata + data - 2)
             /\ PtFrame(image) = kernel_lma + (text + rodata + data - 1)
             /\ kernel_lma \in Nat
  <1> DEFINE text == div_ceil(image.text, page_size)
             rodata == div_ceil(image.rodata, page_size)
             data == data_pages(image)
             a == FirstKernel * N
  <1>1. /\ page_size \in Nat \ {0} /\ kernel_lma \in Nat
        /\ image.text \in Nat /\ image.rodata \in Nat /\ image.data \in Nat
        /\ data >= 2 /\ data_vma(image) + data =< kernel_vma + N
    BY LayoutAssumption
  <1>2. \A x \in Nat : div_ceil(x, page_size) \in Nat
    <2> SUFFICES ASSUME NEW x \in Nat PROVE div_ceil(x, page_size) \in Nat
      OBVIOUS
    <2>1. x \div page_size \in Nat
      BY <1>1, DivMod
    <2> DEFINE d == x \div page_size
    <2>2. div_ceil(x, page_size) = d \/ div_ceil(x, page_size) = d + 1
      BY <2>1 DEF div_ceil
    <2> HIDE DEF d
    <2> QED
      BY <2>1, <2>2 DEF d
  <1>3. text \in Nat /\ rodata \in Nat /\ data \in Nat
    BY <1>1, <1>2 DEF data_pages
  <1>4. a \in Nat /\ N \in Nat
    BY Layout
  <1> HIDE DEF a
  <1>5. rodata_vma(image) = a + text /\ data_vma(image) = a + text + rodata /\ kernel_vma = a
    BY DEF rodata_vma, data_vma, kernel_vma, a
  <1>6. kernel_pd(image) = a + text + rodata + data - 2 /\ init_pt(image) = a + text + rodata + data - 1
    BY <1>5 DEF kernel_pd, init_pt
  <1>7. PdFrame(image) = kernel_pd(image) - a + kernel_lma /\ PtFrame(image) = init_pt(image) - a + kernel_lma
    BY <1>5 DEF PdFrame, PtFrame, kstatic_va_to_pa
  <1> HIDE DEF text, rodata, data
  <1>8. /\ text + rodata + data =< N
        /\ a + text + rodata = a + (text + rodata)
        /\ kernel_pd(image) = a + (text + rodata + data - 2)
        /\ init_pt(image) = a + (text + rodata + data - 1)
        /\ PdFrame(image) = kernel_lma + (text + rodata + data - 2)
        /\ PtFrame(image) = kernel_lma + (text + rodata + data - 1)
    BY <1>1, <1>3, <1>4, <1>5, <1>6, <1>7
  <1> QED
    BY <1>1, <1>3, <1>5, <1>8 DEF text, rodata, data, a

LEMMA Ptes ==
  ASSUME NEW frame \in Nat, NEW w
  PROVE  make_pte(frame, w) # NoEntry /\ make_pte(frame, w).frame = frame /\ make_pte(frame, w).writable = w
  BY DEF make_pte, NoEntry

\* Memory with the right frames and no fault.
Base(mem, image) ==
  /\ DOMAIN mem = {"frames", "cr3", "fault"} /\ mem.fault = FALSE
  /\ On(AllFrames(image), mem.frames)

\* A page through a directory entry and a table.
LEMMA WalkAt ==
  ASSUME NEW mem, NEW v, NEW p, NEW i, v \div N = p, v % N = i, NEW t \in DOMAIN mem.frames, t \in Nat,
         mem.frames[mem.cr3][p] = make_pte(t, TRUE)
  PROVE  /\ \A g \in Nat, w \in BOOLEAN :
              mem.frames[t][i] = make_pte(g, w) => Walk(mem, v) = make_pte(g, w)
         /\ mem.frames[t][i] = NoEntry => Walk(mem, v) = NoEntry
  <1>2. make_pte(t, TRUE) # NoEntry /\ make_pte(t, TRUE).frame = t /\ make_pte(t, TRUE).writable = TRUE
    BY Ptes
  <1>3. Walk(mem, v) = [mem.frames[t][i] EXCEPT !.writable = @ /\ TRUE]
    BY <1>2, Zenon DEF Walk
  <1>4. \A g, w : w \in BOOLEAN => [make_pte(g, w) EXCEPT !.writable = @ /\ TRUE] = make_pte(g, w)
    BY DEF make_pte
  <1>5. [NoEntry EXCEPT !.writable = @ /\ TRUE] = NoEntry
    <2>1. NoEntry = make_pte(-1, FALSE)
      BY DEF NoEntry, make_pte
    <2> QED
      BY <1>4, <2>1
  <1> QED
    BY <1>3, <1>4, <1>5

IsEntry(e) == e = NoEntry \/ \E g \in Nat, w \in BOOLEAN : e = make_pte(g, w)

LEMMA WalkFinds ==
  ASSUME NEW mem, NEW v, NEW p, NEW i, v \div N = p, v % N = i, NEW t \in DOMAIN mem.frames, t \in Nat,
         mem.frames[mem.cr3][p] = make_pte(t, TRUE), NEW e, mem.frames[t][i] = e,
         IsEntry(e)
  PROVE  Walk(mem, v) = e
  <1>1. make_pte(t, TRUE) # NoEntry /\ make_pte(t, TRUE).frame = t /\ make_pte(t, TRUE).writable = TRUE
    BY Ptes
  <1>2. Walk(mem, v) = [e EXCEPT !.writable = @ /\ TRUE]
    BY <1>1, Zenon DEF Walk
  <1>3. \A g, w : w \in BOOLEAN => [make_pte(g, w) EXCEPT !.writable = @ /\ TRUE] = make_pte(g, w)
    BY DEF make_pte
  <1>4. [NoEntry EXCEPT !.writable = @ /\ TRUE] = NoEntry
    <2>1. NoEntry = make_pte(-1, FALSE)
      BY DEF NoEntry, make_pte
    <2> QED
      BY <1>3, <2>1
  <1> QED
    BY <1>2, <1>3, <1>4 DEF IsEntry

\* A frame with new contents.
Wrote(mem, new, image, g, contents) ==
  /\ Base(new, image) /\ new.cr3 = mem.cr3
  /\ \A f \in AllFrames(image) : new.frames[f] = IF f = g THEN contents ELSE mem.frames[f]

LEMMA WriteAt ==
  ASSUME NEW mem, NEW image, Base(mem, image), NEW v, NEW g \in AllFrames(image), g \in Nat,
         Walk(mem, v) = make_pte(g, TRUE)
  PROVE  /\ \A x : Wrote(mem, Write(mem, v, x), image, g, x)
         /\ \A f : Wrote(mem, WriteEntries(mem, v, f), image, g,
                         [i \in 0 .. N - 1 |-> IF i \in DOMAIN f THEN f[i] ELSE mem.frames[g][i]])
         /\ Read(mem, v) = mem.frames[g]
  <1>1. make_pte(g, TRUE).writable = TRUE /\ make_pte(g, TRUE).frame = g
    BY Ptes
  <1>2. DOMAIN mem.frames = AllFrames(image) /\ DOMAIN mem = {"frames", "cr3", "fault"} /\ mem.fault = FALSE
    BY DEF Base, On
  <1>3. \A x : Wrote(mem, [mem EXCEPT !.frames[g] = x], image, g, x)
    <2> SUFFICES ASSUME NEW x PROVE Wrote(mem, [mem EXCEPT !.frames[g] = x], image, g, x)
      OBVIOUS
    <2> DEFINE new == [mem EXCEPT !.frames[g] = x]
    <2>1. /\ DOMAIN new = DOMAIN mem /\ new.fault = mem.fault /\ new.cr3 = mem.cr3
          /\ new.frames = [mem.frames EXCEPT ![g] = x]
      BY <1>2
    <2> HIDE DEF new
    <2>2. On(AllFrames(image), new.frames)
      BY <1>2, <2>1 DEF On
    <2>3. \A f \in AllFrames(image) : new.frames[f] = IF f = g THEN x ELSE mem.frames[f]
      BY <1>2, <2>1
    <2> QED
      BY <1>2, <2>1, <2>2, <2>3 DEF Wrote, Base, new
  <1>4. \A x : Write(mem, v, x) = [mem EXCEPT !.frames[g] = x]
    BY <1>1, <1>2, Zenon DEF Write
  <1>5. \A f : WriteEntries(mem, v, f) =
                 [mem EXCEPT !.frames[g] = [i \in 0 .. N - 1 |-> IF i \in DOMAIN f THEN f[i] ELSE mem.frames[g][i]]]
    BY <1>1, <1>2 DEF WriteEntries
  <1>6. Read(mem, v) = mem.frames[g]
    BY <1>1, <1>2 DEF Read
  <1> QED
    BY <1>3, <1>4, <1>5, <1>6

-----------------------------------------------------------------------------
(* What map does to the tables.                                            *)

\* The tables are seen through frame r, which the directory names as the
\* recursive table.
Ready(mem, image, pts, r) ==
  /\ Base(mem, image) /\ mem.cr3 \in AllFrames(image) \ PoolFrames /\ r \in AllFrames(image) /\ r \in Nat
  /\ mem.frames[mem.cr3][Rec] = make_pte(r, TRUE)
  /\ \A p \in KernelTables : mem.frames[r][p] = make_pte(TableOf(pts, p), TRUE)

\* The kernel's tables translate page v to f[v].
TablesSay(mem, pts, f) ==
  \A p \in KernelTables : \A i \in 0 .. N - 1 : mem.frames[TableOf(pts, p)][i] = f[p * N + i]

\* f with count pages from v on mapped to frames.
Paint(f, v, frame, count, w) ==
  [u \in Page |-> IF u \in v .. v + count - 1 THEN make_pte(frame + u - v, w) ELSE f[u]]

LEMMA TableThere ==
  ASSUME NEW image \in Images, NEW pts \in FreeRuns, NEW r, NEW mem, Ready(mem, image, pts, r),
         NEW p \in KernelTables
  PROVE  /\ Walk(mem, va_pts(p)) = make_pte(TableOf(pts, p), TRUE)
         /\ TableOf(pts, p) \in AllFrames(image) /\ TableOf(pts, p) \in Nat
  <1>1. r \in DOMAIN mem.frames /\ r \in Nat /\ mem.frames[mem.cr3][Rec] = make_pte(r, TRUE)
    BY DEF Ready, Base, On
  <1>2. mem.frames[r][p] = make_pte(TableOf(pts, p), TRUE)
    BY DEF Ready
  <1>3. TableOf(pts, p) \in Nat /\ TableOf(pts, p) \in PoolFrames
    BY TableFrame
  <1>4. va_pts(p) \div N = Rec /\ va_pts(p) % N = p
    <2>1. Rec \in 0 .. N - 1 /\ p \in 0 .. N - 1
      BY Layout, KernelTable
    <2> QED
      BY <2>1, PageAt DEF va_pts
  <1>5. Walk(mem, va_pts(p)) = make_pte(TableOf(pts, p), TRUE)
    BY <1>1, <1>2, <1>3, <1>4, WalkAt
  <1> QED
    BY <1>3, <1>5 DEF AllFrames

LEMMA MapPaints ==
  ASSUME NEW image \in Images, NEW pts \in FreeRuns, NEW r, NEW mem, Ready(mem, image, pts, r),
         NEW f, TablesSay(mem, pts, f),
         NEW p \in KernelTables, NEW i \in 0 .. N - 1, NEW count \in Nat, i + count =< N,
         TableOf(pts, p) # r,
         \A j \in i .. i + count - 1 : f[p * N + j] = NoEntry,
         NEW frame \in Nat, NEW w
  PROVE  LET new == map(mem, p * N + i, frame, count, w)
         IN  /\ Ready(new, image, pts, r) /\ TablesSay(new, pts, Paint(f, p * N + i, frame, count, w))
             /\ new.cr3 = mem.cr3
             /\ \A g \in AllFrames(image) \ PoolFrames : new.frames[g] = mem.frames[g]
             /\ new.frames[r] = mem.frames[r]
  <1> DEFINE v == p * N + i
             t == TableOf(pts, p)
             entries == [j \in i .. i + count - 1 |-> make_pte(frame + j - i, w)]
             contents == [j \in 0 .. N - 1 |-> IF j \in DOMAIN entries THEN entries[j] ELSE mem.frames[t][j]]
             new == map(mem, v, frame, count, w)
  <1>1. p \in 0 .. N - 1 /\ N \in Nat /\ i \in Nat
    BY Layout, KernelTable
  <1>2. v \div N = p /\ v % N = i
    BY <1>1, PageAt
  <1>3. Walk(mem, va_pts(p)) = make_pte(t, TRUE) /\ t \in AllFrames(image) /\ t \in Nat /\ Base(mem, image)
    <2>1. Walk(mem, va_pts(p)) = make_pte(t, TRUE) /\ t \in AllFrames(image) /\ t \in Nat
      BY TableThere
    <2>2. Base(mem, image)
      BY DEF Ready
    <2> QED
      BY <2>1, <2>2
  <1>4. t \in PoolFrames
    BY TableFrame
  <1> HIDE DEF v, t
  <1>5. Read(mem, va_pts(p)) = mem.frames[t] /\ Wrote(mem, WriteEntries(mem, va_pts(p), entries), image, t, contents)
    <2>1. Read(mem, va_pts(p)) = mem.frames[t]
      BY <1>3, WriteAt
    <2>2. \A e : Wrote(mem, WriteEntries(mem, va_pts(p), e), image, t,
                      [j \in 0 .. N - 1 |-> IF j \in DOMAIN e THEN e[j] ELSE mem.frames[t][j]])
      BY <1>3, WriteAt
    <2> HIDE DEF entries
    <2> QED
      BY <2>1, <2>2
  <1>6. \A j \in DOMAIN entries : mem.frames[t][j] = NoEntry
    <2> SUFFICES ASSUME NEW j \in i .. i + count - 1 PROVE mem.frames[t][j] = NoEntry
      OBVIOUS
    <2>1. j \in 0 .. N - 1
      BY <1>1
    <2>2. mem.frames[TableOf(pts, p)][j] = f[p * N + j]
      BY <2>1 DEF TablesSay
    <2> QED
      BY <2>2 DEF t
  <1>7. new = WriteEntries(mem, va_pts(p), entries)
    BY <1>2, <1>5, <1>6, Zenon DEF map
  <1> HIDE DEF contents, new
  <1>8. Wrote(mem, new, image, t, contents)
    BY <1>5, <1>7
  <1>9. /\ Base(new, image) /\ new.cr3 = mem.cr3
        /\ \A g \in AllFrames(image) : new.frames[g] = IF g = t THEN contents ELSE mem.frames[g]
    BY <1>8 DEF Wrote
  <1>10. \A g \in AllFrames(image) \ PoolFrames : new.frames[g] = mem.frames[g]
    BY <1>4, <1>9
  <1>11. new.frames[r] = mem.frames[r] /\ new.frames[mem.cr3] = mem.frames[mem.cr3]
    BY <1>9, <1>10 DEF Ready, t
  <1>12. Ready(new, image, pts, r)
    BY <1>9, <1>11 DEF Ready
  <1>13. TablesSay(new, pts, Paint(f, v, frame, count, w))
    <2> SUFFICES ASSUME NEW q \in KernelTables, NEW k \in 0 .. N - 1
                 PROVE  new.frames[TableOf(pts, q)][k] = Paint(f, v, frame, count, w)[q * N + k]
      BY DEF TablesSay
    <2>1. q \in 0 .. N - 1 /\ q \in Nat
      BY KernelTable
    <2>2. q * N + k \in Page /\ (q * N + k) \div N = q /\ (q * N + k) % N = k
      BY <2>1, PageAt
    <2>3. /\ q * N + k \in v .. v + count - 1 <=> q = p /\ k \in i .. i + count - 1
          /\ q = p => (q * N + k) - v = k - i
      BY <1>1, <2>2, RunSplit DEF v
    <2>4. TableOf(pts, q) \in AllFrames(image) /\ (TableOf(pts, q) = t <=> q = p)
      BY TableFrame DEF AllFrames, t
    <2>5. mem.frames[TableOf(pts, q)][k] = f[q * N + k]
      BY DEF TablesSay
    <2>6. Paint(f, v, frame, count, w)[q * N + k] =
            IF q * N + k \in v .. v + count - 1 THEN make_pte(frame + (q * N + k) - v, w) ELSE f[q * N + k]
      BY <2>2 DEF Paint
    <2>7. CASE q = p /\ k \in i .. i + count - 1
      <3>1. new.frames[TableOf(pts, q)][k] = make_pte(frame + k - i, w)
        BY <1>9, <2>4, <2>7 DEF contents
      <3>2. frame + (q * N + k) - v = frame + k - i
        <4> DEFINE u == q * N + k
        <4>1. u \in Nat /\ v \in Nat /\ k \in Nat /\ u - v = k - i
          BY <1>1, <2>1, <2>3, <2>7, PageAt DEF v
        <4> HIDE DEF u
        <4>2. frame + u - v = frame + k - i
          BY <1>1, <4>1
        <4> QED
          BY <4>2 DEF u
      <3> QED
        BY <2>3, <2>6, <2>7, <3>1, <3>2
    <2>8. CASE ~ (q = p /\ k \in i .. i + count - 1)
      <3>1. new.frames[TableOf(pts, q)][k] = mem.frames[TableOf(pts, q)][k]
        BY <1>9, <2>4, <2>8 DEF contents
      <3> QED
        BY <2>3, <2>5, <2>6, <2>8, <3>1
    <2> QED
      BY <2>7, <2>8
  <1> QED
    BY <1>9, <1>10, <1>11, <1>12, <1>13 DEF new, v

-----------------------------------------------------------------------------
(* Vmm::init, step by step.                                                *)

\* The table that shows the kernel's tables.
Full(pts) == [i \in 0 .. N - 1 |-> IF i \in KernelTables THEN make_pte(TableOf(pts, i), TRUE) ELSE NoEntry]

Bare == [u \in Page |-> NoEntry]

\* As long as the processor is on the bootstrap's directory.
Booting(mem, image) ==
  /\ Base(mem, image) /\ mem.cr3 = page_directory
  /\ mem.frames[page_directory][0] = make_pte(page_table_0, TRUE)
  /\ mem.frames[page_directory][FirstKernel] = make_pte(page_table_768, TRUE)
  /\ \A i \in 0 .. N - 1 : /\ mem.frames[page_table_0][i] = make_pte(i, TRUE)
                           /\ mem.frames[page_table_768][i] = make_pte(kernel_lma + i, TRUE)

Hooked(mem, image) == mem.frames[page_directory][Rec] = make_pte(PtFrame(image), TRUE)

LEMMA BootWalk ==
  ASSUME NEW image \in Images, NEW mem, Booting(mem, image)
  PROVE  /\ \A v \in 0 .. N - 1 : Walk(mem, v) = make_pte(v, TRUE)
         /\ Walk(mem, kernel_pd(image)) = make_pte(PdFrame(image), TRUE)
         /\ Walk(mem, init_pt(image)) = make_pte(PtFrame(image), TRUE)
         /\ PdFrame(image) \in Nat /\ PtFrame(image) \in Nat /\ page_directory \in 0 .. N - 1
  <1>1. /\ page_table_0 \in DOMAIN mem.frames /\ page_table_768 \in DOMAIN mem.frames
        /\ page_table_0 \in Nat /\ page_table_768 \in Nat /\ page_directory \in 0 .. N - 1
    BY ImageFrames, LayoutAssumption DEF Booting, Base, On
  <1>2. /\ mem.frames[mem.cr3][0] = make_pte(page_table_0, TRUE)
        /\ mem.frames[mem.cr3][FirstKernel] = make_pte(page_table_768, TRUE)
        /\ \A i \in 0 .. N - 1 : /\ mem.frames[page_table_0][i] = make_pte(i, TRUE)
                                 /\ mem.frames[page_table_768][i] = make_pte(kernel_lma + i, TRUE)
    BY DEF Booting
  <1>3. /\ 0 \in 0 .. N - 1 /\ FirstKernel \in 0 .. N - 1 /\ N \in Nat /\ kernel_lma \in Nat
        /\ FirstKernel * N \in Nat
    BY Layout, LayoutAssumption
  <1>4. ASSUME NEW k \in 0 .. N - 1, NEW v, v = k
        PROVE  Walk(mem, v) = make_pte(k, TRUE)
    <2>1. v \div N = 0 /\ v % N = k /\ k \in Nat
      <3>1. 0 * N + k = v
        BY <1>3, <1>4
      <3>2. (0 * N + k) \div N = 0 /\ (0 * N + k) % N = k
        BY <1>3, PageAt
      <3> QED
        BY <1>3, <3>1, <3>2
    <2>2. mem.frames[page_table_0][k] = make_pte(k, TRUE)
      BY <1>2
    <2>3. mem.frames[mem.cr3][0] = make_pte(page_table_0, TRUE)
      BY <1>2
    <2> QED
      BY <1>1, <2>1, <2>2, <2>3, WalkAt
  <1>5. ASSUME NEW k \in 0 .. N - 1, NEW v, v = FirstKernel * N + k
        PROVE  Walk(mem, v) = make_pte(kernel_lma + k, TRUE) /\ kernel_lma + k \in Nat
    <2>1. v \div N = FirstKernel /\ v % N = k /\ k \in Nat /\ kernel_lma + k \in Nat
      BY <1>3, <1>5, PageAt
    <2>2. mem.frames[page_table_768][k] = make_pte(kernel_lma + k, TRUE)
      BY <1>2
    <2>3. mem.frames[mem.cr3][FirstKernel] = make_pte(page_table_768, TRUE)
      BY <1>2
    <2> QED
      BY <1>1, <2>1, <2>2, <2>3, WalkAt
  <1> DEFINE k == div_ceil(image.text, page_size) + div_ceil(image.rodata, page_size) + data_pages(image)
  <1>6. /\ k - 2 \in 0 .. N - 1 /\ k - 1 \in 0 .. N - 1
        /\ kernel_pd(image) = FirstKernel * N + (k - 2) /\ init_pt(image) = FirstKernel * N + (k - 1)
        /\ PdFrame(image) = kernel_lma + (k - 2) /\ PtFrame(image) = kernel_lma + (k - 1)
    BY <1>3, ImageLayout
  <1> HIDE DEF k
  <1> QED
    BY <1>1, <1>4, <1>5, <1>6

\* The frames that a step of init may find changed.
LEMMA BootWrote ==
  ASSUME NEW image \in Images, NEW mem, Booting(mem, image), NEW new, NEW g, NEW x,
         g \notin {page_directory, page_table_0, page_table_768},
         Wrote(mem, new, image, g, x)
  PROVE  Booting(new, image) /\ (Hooked(mem, image) => Hooked(new, image))
  <1>1. new.frames[page_directory] = mem.frames[page_directory]
        /\ new.frames[page_table_0] = mem.frames[page_table_0]
        /\ new.frames[page_table_768] = mem.frames[page_table_768]
        /\ new.cr3 = mem.cr3 /\ Base(new, image)
    BY ImageFrames DEF Wrote
  <1> QED
    BY <1>1 DEF Booting, Hooked

\* Places of kmain and what memory is there.
AtHook(mem, image) ==
  Booting(mem, image) /\ mem.frames[PdFrame(image)] = Empty /\ mem.frames[PtFrame(image)] = Empty

AtInitPt(mem, image) == AtHook(mem, image) /\ Hooked(mem, image)

AtClear(mem, image, pts) ==
  /\ Booting(mem, image) /\ Hooked(mem, image)
  /\ mem.frames[PdFrame(image)] = Empty /\ mem.frames[PtFrame(image)] = Full(pts)

Cleared(mem, pts) == \A p \in KernelTables : mem.frames[TableOf(pts, p)] = Empty

AtDirectory(mem, image, pts) == AtClear(mem, image, pts) /\ Cleared(mem, pts)

AtRecursive(mem, image, pts) ==
  /\ Booting(mem, image) /\ Hooked(mem, image) /\ Cleared(mem, pts)
  /\ mem.frames[PdFrame(image)] = Full(pts) /\ mem.frames[PtFrame(image)] = Full(pts)

LEMMA SetupBoots ==
  ASSUME NEW image \in Images
  PROVE  Booting(setup_paging(image), image)
  <1> DEFINE mem == setup_paging(image)
             set_pte(first, count, frame) ==
               [i \in 0 .. N - 1 |-> IF i \in first .. first + count - 1
                                     THEN make_pte(frame + i - first, TRUE) ELSE NoEntry]
             pd == [Empty EXCEPT ![0] = make_pte(page_table_0, TRUE),
                                 ![FirstKernel] = make_pte(page_table_768, TRUE),
                                 ![N - 1] = make_pte(page_table_1023, TRUE)]
  <1>1. /\ mem.frames = [f \in AllFrames(image) |->
                     CASE f = page_directory  -> pd
                       [] f = page_table_0    -> set_pte(0, N, 0)
                       [] f = page_table_768  -> set_pte(0, N, kernel_lma)
                       [] f = page_table_1023 -> set_pte(va_kernel_stack % N, StackPages, kernel_stack)
                       [] f \in PoolFrames    -> Leftover
                       [] OTHER               -> Empty]
        /\ mem.cr3 = page_directory /\ mem.fault = FALSE /\ DOMAIN mem = {"frames", "cr3", "fault"}
    BY DEF setup_paging, AllFrames
  <1> HIDE DEF mem, set_pte, pd
  <1>2. /\ page_directory \in AllFrames(image) \ PoolFrames /\ page_table_0 \in AllFrames(image) \ PoolFrames
        /\ page_table_768 \in AllFrames(image) \ PoolFrames
        /\ page_directory # page_table_0 /\ page_directory # page_table_768 /\ page_table_0 # page_table_768
    BY ImageFrames
  <1>3. page_table_1023 \notin {page_directory, page_table_0, page_table_768}
    <2> DEFINE l == TableList(image)
    <2>1. l[1] = page_directory /\ l[2] = page_table_0 /\ l[3] = page_table_768 /\ l[4] = page_table_1023
      BY DEF TableList
    <2>2. \A i, j \in 1 .. 6 : l[i] = l[j] => i = j
      BY LayoutAssumption
    <2> HIDE DEF l
    <2>3. l[4] # l[1] /\ l[4] # l[2] /\ l[4] # l[3]
      BY <2>2
    <2> QED
      BY <2>1, <2>3
  <1>4. /\ mem.frames[page_directory] = pd /\ mem.frames[page_table_0] = set_pte(0, N, 0)
        /\ mem.frames[page_table_768] = set_pte(0, N, kernel_lma)
    BY <1>1, <1>2, <1>3
  <1>5. On(AllFrames(image), mem.frames)
    BY <1>1 DEF On
  <1>6. /\ 0 \in 0 .. N - 1 /\ FirstKernel \in 0 .. N - 1 /\ N - 1 \in 0 .. N - 1
        /\ FirstKernel # 0 /\ FirstKernel # N - 1 /\ N - 1 # 0 /\ N \in Nat /\ kernel_lma \in Nat
    BY Layout, LayoutAssumption
  <1>7. pd[0] = make_pte(page_table_0, TRUE) /\ pd[FirstKernel] = make_pte(page_table_768, TRUE)
    BY <1>6 DEF pd, Empty
  <1>8. ASSUME NEW i \in 0 .. N - 1
        PROVE  set_pte(0, N, 0)[i] = make_pte(i, TRUE) /\ set_pte(0, N, kernel_lma)[i] = make_pte(kernel_lma + i, TRUE)
    <2>1. i \in 0 .. 0 + N - 1 /\ 0 + i - 0 = i /\ kernel_lma + i - 0 = kernel_lma + i
      BY <1>6
    <2> QED
      BY <2>1 DEF set_pte
  <1> QED
    BY <1>1, <1>4, <1>5, <1>7, <1>8 DEF Booting, Base, mem

\* Some entries of a table.
LEMMA EntriesAt ==
  ASSUME NEW mem, NEW image, Base(mem, image), NEW v, NEW g \in AllFrames(image), g \in Nat,
         Walk(mem, v) = make_pte(g, TRUE), NEW e, NEW contents,
         contents = [i \in 0 .. N - 1 |-> IF i \in DOMAIN e THEN e[i] ELSE mem.frames[g][i]]
  PROVE  Wrote(mem, WriteEntries(mem, v, e), image, g, contents)
  <1>1. \A f : Wrote(mem, WriteEntries(mem, v, f), image, g,
                    [i \in 0 .. N - 1 |-> IF i \in DOMAIN f THEN f[i] ELSE mem.frames[g][i]])
    BY WriteAt
  <1> QED
    BY <1>1

LEMMA FullTable ==
  ASSUME NEW pts
  PROVE  /\ \A i \in KernelTables : Full(pts)[i] = make_pte(TableOf(pts, i), TRUE)
         /\ \A i \in (0 .. N - 1) \ KernelTables : Full(pts)[i] = NoEntry
         /\ Full(pts) = [i \in 0 .. N - 1 |-> IF i \in DOMAIN TableEntries(pts) THEN TableEntries(pts)[i] ELSE Empty[i]]
  <1>1. \A i \in KernelTables : i \in 0 .. N - 1
    BY KernelTable
  <1>2. DOMAIN TableEntries(pts) = KernelTables
        /\ \A i \in KernelTables : TableEntries(pts)[i] = make_pte(TableOf(pts, i), TRUE)
    BY DEF TableEntries, TableOf
  <1>3. \A i \in 0 .. N - 1 : Empty[i] = NoEntry
    BY DEF Empty
  <1> QED
    BY <1>1, <1>2, <1>3 DEF Full

LEMMA StartInitIs ==
  ASSUME NEW image \in Images, NEW mem, Booting(mem, image)
  PROVE  AtHook(StartInit(mem, image), image)
  <1> DEFINE one == Write(mem, kernel_pd(image), Empty)
             two == Write(one, init_pt(image), Empty)
             pd == PdFrame(image)
             pt == PtFrame(image)
  <1>1. /\ pd \in AllFrames(image) /\ pt \in AllFrames(image) /\ pd # pt
        /\ pd \notin {page_directory, page_table_0, page_table_768}
        /\ pt \notin {page_directory, page_table_0, page_table_768}
    BY ImageFrames
  <1>2. Walk(mem, kernel_pd(image)) = make_pte(pd, TRUE) /\ pd \in Nat /\ pt \in Nat
    BY BootWalk
  <1> HIDE DEF pd, pt
  <1>3. Base(mem, image)
    BY DEF Booting
  <1>4. Wrote(mem, one, image, pd, Empty)
    BY <1>1, <1>2, <1>3, WriteAt
  <1> HIDE DEF one
  <1>5. Booting(one, image) /\ one.frames[pd] = Empty /\ Base(one, image)
    BY <1>1, <1>4, BootWrote DEF Wrote
  <1>6. Walk(one, init_pt(image)) = make_pte(pt, TRUE)
    BY <1>5, BootWalk DEF pt
  <1>7. Wrote(one, two, image, pt, Empty)
    BY <1>1, <1>2, <1>5, <1>6, WriteAt
  <1> HIDE DEF two
  <1>8. Booting(two, image)
    BY <1>1, <1>5, <1>7, BootWrote
  <1>9. two.frames[pd] = Empty /\ two.frames[pt] = Empty
    BY <1>1, <1>5, <1>7 DEF Wrote
  <1> QED
    BY <1>8, <1>9 DEF AtHook, StartInit, one, two, pd, pt

LEMMA HookIs ==
  ASSUME NEW image \in Images, NEW mem, AtHook(mem, image)
  PROVE  AtInitPt(HookInitPt(mem, image), image)
  <1> DEFINE entry == [p \in {Rec} |-> make_pte(PtFrame(image), TRUE)]
             new == WriteEntries(mem, page_directory, entry)
             row == [i \in 0 .. N - 1 |-> IF i \in DOMAIN entry THEN entry[i] ELSE mem.frames[page_directory][i]]
  <1>1. Booting(mem, image) /\ Base(mem, image) /\ mem.cr3 = page_directory
    BY DEF AtHook, Booting
  <1>2. page_directory \in 0 .. N - 1 /\ page_directory \in Nat /\ page_directory \in AllFrames(image)
    BY ImageFrames, LayoutAssumption
  <1>3. Walk(mem, page_directory) = make_pte(page_directory, TRUE)
    BY <1>1, <1>2, BootWalk
  <1>4. Wrote(mem, new, image, page_directory, row)
    <2> HIDE DEF entry
    <2>1. row = [i \in 0 .. N - 1 |-> IF i \in DOMAIN entry THEN entry[i] ELSE mem.frames[page_directory][i]]
      OBVIOUS
    <2> HIDE DEF row
    <2> QED
      BY <1>1, <1>2, <1>3, <2>1, EntriesAt
  <1>5. Rec \in 0 .. N - 1 /\ Rec # 0 /\ Rec # FirstKernel /\ 0 \in 0 .. N - 1 /\ FirstKernel \in 0 .. N - 1
    BY Layout
  <1>6. /\ row[Rec] = make_pte(PtFrame(image), TRUE)
        /\ row[0] = mem.frames[page_directory][0] /\ row[FirstKernel] = mem.frames[page_directory][FirstKernel]
    BY <1>5
  <1> HIDE DEF row, new
  <1>7. /\ new.frames[page_directory] = row /\ new.cr3 = page_directory /\ Base(new, image)
        /\ new.frames[page_table_0] = mem.frames[page_table_0]
        /\ new.frames[page_table_768] = mem.frames[page_table_768]
        /\ new.frames[PdFrame(image)] = mem.frames[PdFrame(image)]
        /\ new.frames[PtFrame(image)] = mem.frames[PtFrame(image)]
    BY <1>1, <1>4, ImageFrames DEF Wrote
  <1>8. Booting(new, image)
    BY <1>1, <1>6, <1>7 DEF Booting
  <1>9. HookInitPt(mem, image) = new
    BY <1>1 DEF HookInitPt, new, PtFrame
  <1> QED
    BY <1>6, <1>7, <1>8, <1>9 DEF AtHook, AtInitPt, Hooked

LEMMA FillPtIs ==
  ASSUME NEW image \in Images, NEW pts \in FreeRuns, NEW mem, AtInitPt(mem, image)
  PROVE  AtClear(FillInitPt(mem, image, pts), image, pts)
  <1> DEFINE pt == PtFrame(image)
             new == FillInitPt(mem, image, pts)
  <1>1. /\ Booting(mem, image) /\ Base(mem, image) /\ Hooked(mem, image)
        /\ mem.frames[PdFrame(image)] = Empty /\ mem.frames[pt] = Empty
    BY DEF AtInitPt, AtHook, Booting
  <1>2. /\ pt \in AllFrames(image) /\ PdFrame(image) \in AllFrames(image) /\ PdFrame(image) # pt
        /\ pt \notin {page_directory, page_table_0, page_table_768}
    BY ImageFrames
  <1>3. Walk(mem, init_pt(image)) = make_pte(pt, TRUE) /\ pt \in Nat
    BY <1>1, BootWalk
  <1>4. Wrote(mem, new, image, pt, Full(pts))
    <2> DEFINE e == TableEntries(pts)
    <2>1. Full(pts) = [i \in 0 .. N - 1 |-> IF i \in DOMAIN e THEN e[i] ELSE mem.frames[pt][i]]
      BY <1>1, FullTable
    <2> HIDE DEF e
    <2>2. Wrote(mem, WriteEntries(mem, init_pt(image), e), image, pt, Full(pts))
      BY <1>1, <1>2, <1>3, <2>1, EntriesAt
    <2> QED
      BY <2>2 DEF FillInitPt, e
  <1> HIDE DEF new, pt
  <1>5. Booting(new, image) /\ Hooked(new, image)
    BY <1>1, <1>2, <1>4, BootWrote
  <1> QED
    BY <1>1, <1>2, <1>4, <1>5 DEF AtClear, Wrote, new, pt

LEMMA PtReady ==
  ASSUME NEW image \in Images, NEW pts \in FreeRuns, NEW mem, Booting(mem, image), Hooked(mem, image),
         mem.frames[PtFrame(image)] = Full(pts)
  PROVE  Ready(mem, image, pts, PtFrame(image))
  <1>1. PtFrame(image) \in Nat
    BY BootWalk
  <1>2. page_directory \in AllFrames(image) \ PoolFrames /\ PtFrame(image) \in AllFrames(image)
    BY ImageFrames
  <1>3. Base(mem, image) /\ mem.cr3 = page_directory /\ mem.frames[page_directory][Rec] = make_pte(PtFrame(image), TRUE)
    BY DEF Booting, Hooked
  <1>4. \A p \in KernelTables : mem.frames[PtFrame(image)][p] = make_pte(TableOf(pts, p), TRUE)
    BY FullTable
  <1> QED
    BY <1>1, <1>2, <1>3, <1>4 DEF Ready

LEMMA ClearIs ==
  ASSUME NEW image \in Images, NEW pts \in FreeRuns, NEW mem, AtClear(mem, image, pts)
  PROVE  AtDirectory(ClearTables(mem), image, pts)
  <1> DEFINE tables == {Walk(mem, va_pts(p)) : p \in KernelTables}
             new == ClearTables(mem)
  <1>1. /\ Booting(mem, image) /\ Base(mem, image) /\ Hooked(mem, image)
        /\ mem.frames[PdFrame(image)] = Empty /\ mem.frames[PtFrame(image)] = Full(pts)
    BY DEF AtClear, Booting
  <1>2. \A p \in KernelTables : /\ Walk(mem, va_pts(p)) = make_pte(TableOf(pts, p), TRUE)
                                /\ TableOf(pts, p) \in AllFrames(image) /\ TableOf(pts, p) \in PoolFrames
    <2> SUFFICES ASSUME NEW p \in KernelTables
                 PROVE  /\ Walk(mem, va_pts(p)) = make_pte(TableOf(pts, p), TRUE)
                        /\ TableOf(pts, p) \in AllFrames(image) /\ TableOf(pts, p) \in PoolFrames
      OBVIOUS
    <2>1. Ready(mem, image, pts, PtFrame(image))
      BY <1>1, PtReady
    <2>2. Walk(mem, va_pts(p)) = make_pte(TableOf(pts, p), TRUE) /\ TableOf(pts, p) \in AllFrames(image)
      BY <2>1, TableThere
    <2> QED
      BY <2>2, TableFrame
  <1>3. \A e \in tables : e.writable = TRUE /\ e.frame \in AllFrames(image) /\ e.frame \in PoolFrames
    BY <1>2 DEF make_pte
  <1>4. \A p \in KernelTables : \E e \in tables : e.frame = TableOf(pts, p)
    <2> SUFFICES ASSUME NEW p \in KernelTables PROVE \E e \in tables : e.frame = TableOf(pts, p)
      OBVIOUS
    <2>1. Walk(mem, va_pts(p)) \in tables /\ Walk(mem, va_pts(p)).frame = TableOf(pts, p)
      BY <1>2 DEF make_pte
    <2> QED
      BY <2>1
  <1>5. DOMAIN mem.frames = AllFrames(image) /\ DOMAIN mem = {"frames", "cr3", "fault"} /\ mem.fault = FALSE
    BY <1>1 DEF Base, On
  <1> HIDE DEF tables
  <1>6. new = [mem EXCEPT !.frames = [f \in DOMAIN mem.frames |-> IF \E e \in tables : e.frame = f THEN Empty ELSE mem.frames[f]]]
    <2>1. ~ \E e \in tables : ~ e.writable \/ e.frame \notin DOMAIN mem.frames
      BY <1>3, <1>5
    <2> QED
      BY <2>1 DEF ClearTables, tables
  <1> HIDE DEF new
  <1>7. /\ DOMAIN new = {"frames", "cr3", "fault"} /\ new.fault = FALSE /\ new.cr3 = mem.cr3
        /\ new.frames = [f \in AllFrames(image) |-> IF \E e \in tables : e.frame = f THEN Empty ELSE mem.frames[f]]
    BY <1>5, <1>6
  <1>8. Base(new, image)
    BY <1>7 DEF Base, On
  <1>9. \A f \in AllFrames(image) \ PoolFrames : new.frames[f] = mem.frames[f]
    BY <1>3, <1>7
  <1>10. Cleared(new, pts)
    BY <1>2, <1>4, <1>7 DEF Cleared
  <1>11. /\ new.frames[page_directory] = mem.frames[page_directory]
         /\ new.frames[page_table_0] = mem.frames[page_table_0]
         /\ new.frames[page_table_768] = mem.frames[page_table_768]
         /\ new.frames[PdFrame(image)] = mem.frames[PdFrame(image)]
         /\ new.frames[PtFrame(image)] = mem.frames[PtFrame(image)]
    BY <1>9, ImageFrames
  <1>12. Booting(new, image) /\ Hooked(new, image)
    BY <1>1, <1>7, <1>8, <1>11 DEF Booting, Hooked
  <1> QED
    BY <1>1, <1>10, <1>11, <1>12 DEF AtDirectory, AtClear, new

LEMMA FillDirIs ==
  ASSUME NEW image \in Images, NEW pts \in FreeRuns, NEW mem, AtDirectory(mem, image, pts)
  PROVE  AtRecursive(FillDirectory(mem, image, pts), image, pts)
  <1> DEFINE pd == PdFrame(image)
             new == FillDirectory(mem, image, pts)
  <1>1. /\ Booting(mem, image) /\ Base(mem, image) /\ Hooked(mem, image) /\ Cleared(mem, pts)
        /\ mem.frames[pd] = Empty /\ mem.frames[PtFrame(image)] = Full(pts)
    BY DEF AtDirectory, AtClear, Booting
  <1>2. /\ pd \in AllFrames(image) \ PoolFrames /\ PtFrame(image) \in AllFrames(image) /\ PtFrame(image) # pd
        /\ pd \notin {page_directory, page_table_0, page_table_768}
    BY ImageFrames
  <1>3. Walk(mem, kernel_pd(image)) = make_pte(pd, TRUE) /\ pd \in Nat
    BY <1>1, BootWalk
  <1>4. Wrote(mem, new, image, pd, Full(pts))
    <2> DEFINE e == TableEntries(pts)
    <2>0. mem.frames[pd] = Empty
      BY <1>1
    <2>1. Full(pts) = [i \in 0 .. N - 1 |-> IF i \in DOMAIN e THEN e[i] ELSE mem.frames[pd][i]]
      <3> HIDE DEF pd
      <3> QED
        BY <2>0, FullTable
    <2> HIDE DEF e
    <2>2. Wrote(mem, WriteEntries(mem, kernel_pd(image), e), image, pd, Full(pts))
      BY <1>1, <1>2, <1>3, <2>1, EntriesAt
    <2> QED
      BY <2>2 DEF FillDirectory, e
  <1> HIDE DEF new, pd
  <1>5. Booting(new, image) /\ Hooked(new, image)
    BY <1>1, <1>2, <1>4, BootWrote
  <1>6. Cleared(new, pts)
    <2>1. \A p \in KernelTables : TableOf(pts, p) \in AllFrames(image) /\ TableOf(pts, p) # pd
      BY <1>2, TableFrame DEF AllFrames
    <2> QED
      BY <1>1, <1>4, <2>1 DEF Cleared, Wrote
  <1> QED
    BY <1>1, <1>2, <1>4, <1>5, <1>6 DEF AtRecursive, Wrote, new, pd

\* From the copy of init_pt to the switch.
AtTables(mem, image, pts, f) ==
  /\ Booting(mem, image) /\ Hooked(mem, image)
  /\ mem.frames[PdFrame(image)] = Full(pts) /\ mem.frames[PtFrame(image)] = Full(pts)
  /\ TablesSay(mem, pts, f)

Tables(pts) == Paint(Bare, va_pts(FirstKernel), pts, N - FirstKernel, TRUE)

LEMMA TablesAt ==
  ASSUME NEW pts \in FreeRuns, NEW u \in Page, NEW q, u \div N = q, NEW k, u % N = k
  PROVE  Tables(pts)[u] = IF q = Rec /\ k \in KernelTables THEN make_pte(TableOf(pts, k), TRUE) ELSE NoEntry
  <1> DEFINE count == N - FirstKernel
             v == Rec * N + FirstKernel
  <1>1. /\ Rec \in 0 .. N - 1 /\ FirstKernel \in 0 .. N - 1 /\ count \in Nat
        /\ FirstKernel + count =< N /\ FirstKernel .. FirstKernel + count - 1 = KernelTables
    BY Layout DEF KernelTables
  <1>2. pts \in Nat /\ u \in Nat /\ k \in Nat /\ Rec * N \in Nat /\ FirstKernel \in Nat
    BY LayoutAssumption, Layout, PageSplit
  <1> HIDE DEF count
  <1>3. /\ u \in v .. v + count - 1 <=> u \div N = Rec /\ u % N \in FirstKernel .. FirstKernel + count - 1
        /\ u \div N = Rec => u - v = (u % N) - FirstKernel
    BY <1>1, RunSplit
  <1>4. v \in Nat
    BY <1>2
  <1>5. Tables(pts)[u] = IF u \in v .. v + count - 1 THEN make_pte(pts + u - v, TRUE) ELSE NoEntry
    BY DEF Tables, va_pts, count, Paint, Bare
  <1> HIDE DEF v
  <1>6. q = Rec => pts + u - v = pts + k - FirstKernel
    BY <1>2, <1>3, <1>4
  <1> QED
    BY <1>1, <1>3, <1>5, <1>6, Zenon DEF TableOf

LEMMA CopyRecIs ==
  ASSUME NEW image \in Images, NEW pts \in FreeRuns, NEW mem, AtRecursive(mem, image, pts)
  PROVE  AtTables(CopyRec(mem, image), image, pts, Tables(pts))
  <1> DEFINE t == TableOf(pts, Rec)
             pt == PtFrame(image)
             new == CopyRec(mem, image)
  <1>1. /\ Booting(mem, image) /\ Hooked(mem, image) /\ Cleared(mem, pts) /\ Base(mem, image)
        /\ mem.frames[PdFrame(image)] = Full(pts) /\ mem.frames[pt] = Full(pts)
    BY DEF AtRecursive, Booting
  <1>2. Rec \in KernelTables
    BY Layout DEF KernelTables
  <1>3. Walk(mem, va_pts(Rec)) = make_pte(t, TRUE) /\ t \in AllFrames(image) /\ t \in Nat
    <2>1. Ready(mem, image, pts, pt)
      BY <1>1, PtReady
    <2> QED
      BY <1>2, <2>1, TableThere
  <1>4. t \in PoolFrames
    BY <1>2, TableFrame
  <1>5. Read(mem, init_pt(image)) = Full(pts)
    <2>1. Walk(mem, init_pt(image)) = make_pte(pt, TRUE) /\ pt \in Nat
      BY <1>1, BootWalk
    <2>2. pt \in AllFrames(image)
      BY ImageFrames
    <2>3. Read(mem, init_pt(image)) = mem.frames[pt]
      BY <1>1, <2>1, <2>2, WriteAt
    <2> QED
      BY <1>1, <2>3
  <1>6. Wrote(mem, new, image, t, Full(pts))
    <2> HIDE DEF t
    <2>1. \A x : Wrote(mem, Write(mem, va_pts(Rec), x), image, t, x)
      BY <1>1, <1>3, WriteAt
    <2> QED
      BY <1>5, <2>1 DEF CopyRec
  <1> HIDE DEF t, pt, new
  <1>7. /\ page_directory # t /\ page_table_0 # t /\ page_table_768 # t /\ PdFrame(image) # t /\ pt # t
        /\ PdFrame(image) \in AllFrames(image) /\ pt \in AllFrames(image)
    BY <1>4, ImageFrames DEF pt
  <1>8. Booting(new, image) /\ Hooked(new, image)
    BY <1>1, <1>6, <1>7, BootWrote
  <1>9. TablesSay(new, pts, Tables(pts))
    <2> SUFFICES ASSUME NEW q \in KernelTables, NEW k \in 0 .. N - 1
                 PROVE  new.frames[TableOf(pts, q)][k] = Tables(pts)[q * N + k]
      BY DEF TablesSay
    <2>1. q \in 0 .. N - 1
      BY KernelTable
    <2>2. Tables(pts)[q * N + k] = IF q = Rec /\ k \in KernelTables THEN make_pte(TableOf(pts, k), TRUE) ELSE NoEntry
      <3> DEFINE u == q * N + k
      <3>1. u \in Page /\ u \div N = q /\ u % N = k
        BY <2>1, PageAt
      <3> HIDE DEF u
      <3>2. Tables(pts)[u] = IF q = Rec /\ k \in KernelTables THEN make_pte(TableOf(pts, k), TRUE) ELSE NoEntry
        BY <3>1, TablesAt
      <3> QED
        BY <3>2 DEF u
    <2>3. TableOf(pts, q) \in AllFrames(image) /\ (TableOf(pts, q) = t <=> q = Rec)
      BY <1>2, TableFrame DEF AllFrames, t
    <2>4. CASE q = Rec
      <3>1. new.frames[TableOf(pts, q)] = Full(pts)
        BY <1>6, <2>3, <2>4 DEF Wrote
      <3>2. Full(pts)[k] = IF k \in KernelTables THEN make_pte(TableOf(pts, k), TRUE) ELSE NoEntry
        BY FullTable
      <3> QED
        BY <2>2, <2>4, <3>1, <3>2
    <2>5. CASE q # Rec
      <3>1. new.frames[TableOf(pts, q)] = Empty
        BY <1>1, <1>6, <2>3, <2>5 DEF Wrote, Cleared
      <3> QED
        BY <2>2, <2>5, <3>1 DEF Empty
    <2> QED
      BY <2>4, <2>5
  <1>10. new.frames[PdFrame(image)] = Full(pts) /\ new.frames[pt] = Full(pts)
    BY <1>1, <1>6, <1>7 DEF Wrote
  <1> QED
    BY <1>8, <1>9, <1>10 DEF AtTables, new, pt

\* One map while the processor is on the bootstrap's directory.
LEMMA MapStage ==
  ASSUME NEW image \in Images, NEW pts \in FreeRuns, NEW mem, NEW f, AtTables(mem, image, pts, f),
         NEW p \in KernelTables, NEW i \in 0 .. N - 1, NEW count \in Nat, i + count =< N,
         \A j \in i .. i + count - 1 : f[p * N + j] = NoEntry,
         NEW frame \in Nat, NEW w
  PROVE  AtTables(map(mem, p * N + i, frame, count, w), image, pts, Paint(f, p * N + i, frame, count, w))
  <1> DEFINE r == PtFrame(image)
             new == map(mem, p * N + i, frame, count, w)
             g == Paint(f, p * N + i, frame, count, w)
  <1>1. /\ Booting(mem, image) /\ Hooked(mem, image) /\ TablesSay(mem, pts, f)
        /\ mem.frames[PdFrame(image)] = Full(pts) /\ mem.frames[r] = Full(pts)
    BY DEF AtTables
  <1>2. Ready(mem, image, pts, r)
    BY <1>1, PtReady
  <1>3. /\ {page_directory, page_table_0, page_table_768, PdFrame(image), r} \subseteq AllFrames(image) \ PoolFrames
    BY ImageFrames
  <1>4. TableOf(pts, p) # r
    BY <1>3, TableFrame
  <1> HIDE DEF r
  <1>5. /\ Ready(new, image, pts, r) /\ TablesSay(new, pts, g)
        /\ new.cr3 = mem.cr3
        /\ \A h \in AllFrames(image) \ PoolFrames : new.frames[h] = mem.frames[h]
    BY <1>1, <1>2, <1>4, MapPaints
  <1> HIDE DEF new, g
  <1>6. /\ new.frames[page_directory] = mem.frames[page_directory]
        /\ new.frames[page_table_0] = mem.frames[page_table_0]
        /\ new.frames[page_table_768] = mem.frames[page_table_768]
        /\ new.frames[PdFrame(image)] = mem.frames[PdFrame(image)]
        /\ new.frames[r] = mem.frames[r] /\ Base(new, image)
    BY <1>3, <1>5 DEF Ready
  <1>7. Booting(new, image) /\ Hooked(new, image)
    BY <1>1, <1>5, <1>6 DEF Booting, Hooked
  <1> QED
    BY <1>1, <1>5, <1>6, <1>7 DEF AtTables, new, g, r

\* The same, with the page and not its table.
LEMMA MapRun ==
  ASSUME NEW image \in Images, NEW pts \in FreeRuns, NEW mem, NEW f, AtTables(mem, image, pts, f),
         NEW v \in Page, v \div N \in KernelTables, NEW count \in Nat, (v % N) + count =< N,
         \A u \in v .. v + count - 1 : f[u] = NoEntry,
         NEW frame \in Nat, NEW w
  PROVE  AtTables(map(mem, v, frame, count, w), image, pts, Paint(f, v, frame, count, w))
  <1> DEFINE p == v \div N
             i == v % N
  <1>1. p \in KernelTables /\ i \in 0 .. N - 1 /\ i + count =< N /\ v = p * N + i /\ p * N \in Nat /\ v \in Nat
    BY PageSplit
  <1> HIDE DEF p, i
  <1>2. ASSUME NEW j \in i .. i + count - 1 PROVE f[p * N + j] = NoEntry
    <2>1. p * N + j \in v .. v + count - 1
      BY <1>1
    <2> QED
      BY <2>1
  <1>3. AtTables(map(mem, p * N + i, frame, count, w), image, pts, Paint(f, p * N + i, frame, count, w))
    <2>1. \A j \in i .. i + count - 1 : f[p * N + j] = NoEntry
      BY <1>2
    <2>2. i \in Nat /\ count \in Nat
      BY <1>1
    <2> QED
      BY <1>1, <2>1, MapStage
  <1> QED
    BY <1>1, <1>3

\* Where everything lies, in pages.
Text(image) == div_ceil(image.text, page_size)
Rodata(image) == div_ceil(image.rodata, page_size)

End == N * N

PlacesOf(image) ==
  /\ Text(image) \in Nat /\ Rodata(image) \in Nat /\ data_pages(image) \in Nat /\ data_pages(image) >= 2
  /\ Text(image) + Rodata(image) + data_pages(image) =< N
  /\ kernel_vma \in Nat /\ kernel_vma + N =< va_framebuffer /\ va_framebuffer \in Nat
  /\ va_framebuffer + video_pages =< va_pts(0)
  /\ va_pts(FirstKernel) = va_pts(0) + FirstKernel /\ va_pts(0) + N =< va_kernel_stack
  /\ va_kernel_stack + StackPages =< End /\ va_kernel_stack \in Nat
  /\ va_pts(0) \in Nat /\ End \in Nat /\ N \in Nat /\ FirstKernel \in 1 .. N - 3
  /\ StackPages \in Nat \ {0} /\ video_pages \in Nat \ {0} /\ Page = 0 .. End - 1

PartsOf(image) ==
  /\ rodata_vma(image) = kernel_vma + Text(image)
  /\ data_vma(image) = kernel_vma + (Text(image) + Rodata(image))
  /\ kernel_pd(image) = data_vma(image) + (data_pages(image) - 2)

LEMMA Places == ASSUME NEW image \in Images PROVE PlacesOf(image) /\ PartsOf(image)
  <1> DEFINE text == Text(image)
             rodata == Rodata(image)
             data == data_pages(image)
             a == FirstKernel * N
             b == Rec * N
             z == (N - 1) * N
             e == End
  <1>1. /\ text \in Nat /\ rodata \in Nat /\ data \in Nat /\ data >= 2 /\ text + rodata + data =< N
        /\ rodata_vma(image) = a + text /\ data_vma(image) = a + (text + rodata)
        /\ kernel_pd(image) = a + (text + rodata + data - 2)
    BY ImageLayout DEF Text, Rodata
  <1>2. /\ N \in Nat /\ FirstKernel \in 1 .. N - 3 /\ Rec \in FirstKernel + 1 .. N - 2
        /\ a \in Nat /\ b \in Nat /\ z \in Nat /\ e \in Nat
        /\ a + N =< b /\ b + N =< z /\ z + N = e
    BY Layout DEF End
  <1>3. kernel_vma = a /\ va_pts(0) = b + 0 /\ va_pts(FirstKernel) = b + FirstKernel
    BY DEF kernel_vma, va_pts
  <1>4. va_kernel_stack \in z .. e - StackPages /\ StackPages \in Nat \ {0}
    BY LayoutAssumption DEF End
  <1>5. /\ video_pages \in Nat \ {0} /\ va_framebuffer \in kernel_vma + N .. va_pts(0) - 1
        /\ (va_framebuffer % N) + video_pages =< N
    BY ScreenAssumption
  <1> DEFINE p == va_framebuffer \div N
             i == va_framebuffer % N
  <1>6. va_framebuffer + video_pages =< b
    <2>1. va_framebuffer \in Page
      <3> HIDE DEF a, b, z
      <3> QED
        BY <1>2, <1>3, <1>5 DEF Page, End
    <2>2. p \in 0 .. N - 1 /\ i \in 0 .. N - 1 /\ va_framebuffer = p * N + i /\ p * N \in Nat
      BY <2>1, PageSplit
    <2> HIDE DEF p, i
    <2>3. p < Rec
      <3> SUFFICES ASSUME Rec =< p PROVE FALSE
        BY <1>2, <2>2
      <3>1. N * Rec =< N * p
        BY <1>2, <2>2, MulMono
      <3>2. b =< p * N
        BY <1>2, <2>2, <3>1
      <3> HIDE DEF a, b, z
      <3> QED
        BY <1>2, <1>3, <1>5, <2>2, <3>2
    <2>4. p * N + N =< b
      <3>1. N * (p + 1) =< N * Rec
        BY <1>2, <2>2, <2>3, MulMono
      <3> QED
        BY <1>2, <2>2, <3>1
    <2> HIDE DEF a, b, z
    <2> QED
      BY <1>2, <1>5, <2>2, <2>4 DEF i
  <1> HIDE DEF a, b, z, e, text, rodata, data
  <1>7. /\ text \in Nat /\ rodata \in Nat /\ data \in Nat /\ data >= 2 /\ text + rodata + data =< N
        /\ kernel_vma \in Nat /\ rodata_vma(image) = kernel_vma + text
        /\ data_vma(image) = kernel_vma + (text + rodata)
        /\ kernel_pd(image) = data_vma(image) + (data - 2)
        /\ kernel_vma + N =< va_framebuffer /\ va_framebuffer \in Nat
        /\ va_framebuffer + video_pages =< va_pts(0)
        /\ va_pts(FirstKernel) = va_pts(0) + FirstKernel /\ va_pts(0) + N =< va_kernel_stack
        /\ va_kernel_stack + StackPages =< e /\ va_kernel_stack \in Nat
        /\ va_pts(0) \in Nat /\ e \in Nat
    BY <1>1, <1>2, <1>3, <1>4, <1>5, <1>6
  <1> QED
    BY <1>2, <1>4, <1>5, <1>7 DEF text, rodata, data, e, End, Page, PlacesOf, PartsOf

LEMMA InTable ==
  ASSUME NEW p \in 0 .. N - 1, NEW v, v \in p * N .. p * N + N - 1
  PROVE  v \in Page /\ v \div N = p /\ v % N = v - p * N
  <1> DEFINE x == p * N
             i == v - x
  <1>1. x \in Nat /\ N \in Nat
    <2>1. 0 \in 0 .. N - 1
      BY Layout
    <2> QED
      BY <2>1, Layout, PageAt
  <1>2. v = x + i /\ i \in 0 .. N - 1
    <2>1. v \in x .. x + N - 1
      OBVIOUS
    <2> HIDE DEF x
    <2> QED
      BY <1>1, <2>1
  <1> HIDE DEF i
  <1>3. p * N + i \in Page /\ (p * N + i) \div N = p /\ (p * N + i) % N = i
    BY <1>2, PageAt
  <1>4. v = p * N + i
    BY <1>2
  <1>5. i = v - p * N
    BY DEF i
  <1> QED
    BY <1>3, <1>4, <1>5

LEMMA TableBounds ==
  ASSUME NEW v \in Page, NEW q \in Nat
  PROVE  (q * N =< v => q =< v \div N) /\ (v < q * N => v \div N < q)
  <1> DEFINE p == v \div N
             i == v % N
  <1>1. p \in 0 .. N - 1 /\ i \in 0 .. N - 1 /\ v = p * N + i /\ p * N \in Nat /\ v \in Nat /\ N \in Nat
    BY PageSplit, Layout
  <1>2. q * N \in Nat
    BY <1>1
  <1> HIDE DEF p, i
  <1>3. ASSUME p < q PROVE v < q * N
    <2>1. N * (p + 1) =< N * q
      <3>1. p \in Nat /\ p + 1 \in Nat /\ p + 1 =< q
        BY <1>1, <1>3
      <3> QED
        BY <1>1, <3>1, MulMono
    <2>2. p * N + N =< q * N
      <3>1. N * (p + 1) = p * N + N /\ N * q = q * N
        BY <1>1
      <3> QED
        BY <2>1, <3>1
    <2> QED
      BY <1>1, <1>2, <2>2
  <1>4. ASSUME q =< p PROVE q * N =< v
    <2>1. N * q =< N * p
      <3>1. p \in Nat
        BY <1>1
      <3> QED
        BY <1>1, <1>4, <3>1, MulMono
    <2>2. q * N =< p * N
      <3>1. N * q = q * N /\ N * p = p * N
        BY <1>1
      <3> QED
        BY <2>1, <3>1
    <2> QED
      BY <1>1, <1>2, <2>2
  <1>5. (p < q \/ q =< p) /\ (v < q * N => ~ (q * N =< v))
    BY <1>1, <1>2
  <1> QED
    BY <1>3, <1>4, <1>5 DEF p

\* What the tables say after each of the five maps.
OfText(image, pts) == Paint(Tables(pts), kernel_vma, kernel_lma, Text(image), FALSE)
OfRodata(image, pts) ==
  Paint(OfText(image, pts), rodata_vma(image), kstatic_va_to_pa(rodata_vma(image)), Rodata(image), FALSE)
OfData(image, pts) ==
  Paint(OfRodata(image, pts), data_vma(image), kstatic_va_to_pa(data_vma(image)), data_pages(image), TRUE)
OfStack(image, pts) == Paint(OfData(image, pts), va_kernel_stack, kernel_stack, StackPages, TRUE)

LEMMA Layers ==
  ASSUME NEW image \in Images, NEW pts \in FreeRuns, NEW u \in Page
  PROVE  /\ OfStack(image, pts)[u] = IF u \in va_kernel_stack .. va_kernel_stack + StackPages - 1
                                     THEN make_pte(kernel_stack + u - va_kernel_stack, TRUE) ELSE OfData(image, pts)[u]
         /\ OfData(image, pts)[u] = IF u \in data_vma(image) .. data_vma(image) + data_pages(image) - 1
                                    THEN make_pte(kstatic_va_to_pa(data_vma(image)) + u - data_vma(image), TRUE)
                                    ELSE OfRodata(image, pts)[u]
         /\ OfRodata(image, pts)[u] = IF u \in rodata_vma(image) .. rodata_vma(image) + Rodata(image) - 1
                                      THEN make_pte(kstatic_va_to_pa(rodata_vma(image)) + u - rodata_vma(image), FALSE)
                                      ELSE OfText(image, pts)[u]
         /\ OfText(image, pts)[u] = IF u \in kernel_vma .. kernel_vma + Text(image) - 1
                                    THEN make_pte(kernel_lma + u - kernel_vma, FALSE) ELSE Tables(pts)[u]
         /\ Tables(pts)[u] = IF u \in va_pts(FirstKernel) .. va_pts(FirstKernel) + (N - FirstKernel) - 1
                             THEN make_pte(pts + u - va_pts(FirstKernel), TRUE) ELSE NoEntry
  <1>1. OfStack(image, pts)[u] = IF u \in va_kernel_stack .. va_kernel_stack + StackPages - 1
                                 THEN make_pte(kernel_stack + u - va_kernel_stack, TRUE) ELSE OfData(image, pts)[u]
    BY DEF OfStack, Paint
  <1>2. OfData(image, pts)[u] = IF u \in data_vma(image) .. data_vma(image) + data_pages(image) - 1
                                THEN make_pte(kstatic_va_to_pa(data_vma(image)) + u - data_vma(image), TRUE)
                                ELSE OfRodata(image, pts)[u]
    BY DEF OfData, Paint
  <1>3. OfRodata(image, pts)[u] = IF u \in rodata_vma(image) .. rodata_vma(image) + Rodata(image) - 1
                                  THEN make_pte(kstatic_va_to_pa(rodata_vma(image)) + u - rodata_vma(image), FALSE)
                                  ELSE OfText(image, pts)[u]
    BY DEF OfRodata, Paint
  <1>4. OfText(image, pts)[u] = IF u \in kernel_vma .. kernel_vma + Text(image) - 1
                                THEN make_pte(kernel_lma + u - kernel_vma, FALSE) ELSE Tables(pts)[u]
    BY DEF OfText, Paint
  <1>5. Tables(pts)[u] = IF u \in va_pts(FirstKernel) .. va_pts(FirstKernel) + (N - FirstKernel) - 1
                         THEN make_pte(pts + u - va_pts(FirstKernel), TRUE) ELSE NoEntry
    BY DEF Tables, Paint, Bare
  <1> QED
    BY <1>1, <1>2, <1>3, <1>4, <1>5

LEMMA ImageTable ==
  ASSUME NEW v \in kernel_vma .. kernel_vma + N - 1
  PROVE  v \in Page /\ v \div N = FirstKernel /\ FirstKernel \in KernelTables /\ v % N = v - kernel_vma
  <1>1. FirstKernel \in 0 .. N - 1 /\ FirstKernel \in KernelTables
    BY Layout DEF KernelTables
  <1> QED
    BY <1>1, InTable DEF kernel_vma

LEMMA ImageRun ==
  ASSUME NEW image \in Images, NEW pts \in FreeRuns, NEW o \in 0 .. N - 1, NEW count \in Nat, o + count =< N,
         NEW v, v = kernel_vma + o
  PROVE  /\ v \in Page /\ v \div N \in KernelTables /\ (v % N) + count =< N
         /\ \A u \in v .. v + count - 1 : u \in Page /\ Tables(pts)[u] = NoEntry
  <1>1. PlacesOf(image)
    BY Places
  <1>2. /\ kernel_vma \in Nat /\ kernel_vma + N =< va_pts(0) /\ N \in Nat /\ va_pts(0) \in Nat
        /\ va_pts(FirstKernel) = va_pts(0) + FirstKernel /\ FirstKernel \in 1 .. N - 3
        /\ va_pts(0) + N =< End /\ End \in Nat /\ Page = 0 .. End - 1
    BY <1>1 DEF PlacesOf
  <1>3. v \in kernel_vma .. kernel_vma + N - 1 /\ v - kernel_vma = o /\ v \in Nat /\ o \in Nat
    BY <1>2
  <1>4. v \in Page /\ v \div N \in KernelTables /\ v % N = o
    BY <1>3, ImageTable
  <1>5. ASSUME NEW u \in v .. v + count - 1 PROVE u \in Page /\ Tables(pts)[u] = NoEntry
    <2>1. u \in Page /\ u \notin va_pts(FirstKernel) .. va_pts(FirstKernel) + (N - FirstKernel) - 1
      BY <1>2, <1>3
    <2> QED
      BY <2>1, Layers
  <1> QED
    BY <1>4, <1>5

LEMMA MapTextIs ==
  ASSUME NEW image \in Images, NEW pts \in FreeRuns, NEW mem, AtTables(mem, image, pts, Tables(pts))
  PROVE  AtTables(MapText(mem, image), image, pts, OfText(image, pts))
  <1> DEFINE count == Text(image)
             v == kernel_vma
  <1>1. PlacesOf(image)
    BY Places
  <1>2. v \in Nat /\ count \in Nat /\ 0 \in 0 .. N - 1 /\ 0 + count =< N /\ v = kernel_vma + 0
    BY <1>1 DEF PlacesOf
  <1> HIDE DEF count, v
  <1>3. /\ v \in Page /\ v \div N \in KernelTables /\ (v % N) + count =< N
        /\ \A u \in v .. v + count - 1 : u \in Page /\ Tables(pts)[u] = NoEntry
    BY <1>2, ImageRun
  <1>4. kernel_lma \in Nat
    BY LayoutAssumption
  <1>5. \A w : AtTables(map(mem, v, kernel_lma, count, w), image, pts, Paint(Tables(pts), v, kernel_lma, count, w))
    BY <1>2, <1>3, <1>4, MapRun
  <1> QED
    BY <1>5 DEF MapText, OfText, Text, v, count

LEMMA MapRodataIs ==
  ASSUME NEW image \in Images, NEW pts \in FreeRuns, NEW mem, AtTables(mem, image, pts, OfText(image, pts))
  PROVE  AtTables(MapRodata(mem, image), image, pts, OfRodata(image, pts))
  <1> DEFINE count == Rodata(image)
             o == Text(image)
             v == rodata_vma(image)
             frame == kstatic_va_to_pa(v)
  <1>1. PlacesOf(image) /\ PartsOf(image) /\ kernel_lma \in Nat
    BY Places, LayoutAssumption
  <1>2. count \in Nat /\ o \in 0 .. N - 1 /\ o + count =< N /\ o \in Nat /\ kernel_vma \in Nat
    BY <1>1 DEF PlacesOf
  <1>3. v = kernel_vma + o
    BY <1>1 DEF PartsOf
  <1> HIDE DEF count, v, o
  <1>4. v \in Nat /\ frame \in Nat
    BY <1>1, <1>2, <1>3 DEF kstatic_va_to_pa
  <1> HIDE DEF frame
  <1>5. /\ v \in Page /\ v \div N \in KernelTables /\ (v % N) + count =< N
        /\ \A u \in v .. v + count - 1 : u \in Page /\ Tables(pts)[u] = NoEntry
    BY <1>2, <1>3, ImageRun
  <1>6. ASSUME NEW u \in v .. v + count - 1 PROVE OfText(image, pts)[u] = NoEntry
    <2>1. u \notin kernel_vma .. kernel_vma + o - 1
      BY <1>2, <1>3
    <2>2. OfText(image, pts)[u] = Tables(pts)[u]
      BY <1>5, <2>1, Layers DEF o
    <2> QED
      BY <1>5, <2>2
  <1>7. \A w : AtTables(map(mem, v, frame, count, w), image, pts, Paint(OfText(image, pts), v, frame, count, w))
    BY <1>2, <1>4, <1>5, <1>6, MapRun
  <1> QED
    BY <1>7 DEF MapRodata, OfRodata, Rodata, v, count, frame

LEMMA MapDataIs ==
  ASSUME NEW image \in Images, NEW pts \in FreeRuns, NEW mem, AtTables(mem, image, pts, OfRodata(image, pts))
  PROVE  AtTables(MapData(mem, image), image, pts, OfData(image, pts))
  <1> DEFINE count == data_pages(image)
             t == Text(image)
             r == Rodata(image)
             v == data_vma(image)
             x == rodata_vma(image)
             frame == kstatic_va_to_pa(v)
  <1>1. PlacesOf(image) /\ PartsOf(image) /\ kernel_lma \in Nat
    BY Places, LayoutAssumption
  <1>2. /\ count \in Nat /\ t + r \in 0 .. N - 1 /\ t + r + count =< N /\ t \in Nat /\ r \in Nat
        /\ kernel_vma \in Nat
    BY <1>1 DEF PlacesOf
  <1>3. v = kernel_vma + (t + r) /\ x = kernel_vma + t
    BY <1>1 DEF PartsOf
  <1> HIDE DEF count, v, t, r, x
  <1>4. v \in Nat /\ frame \in Nat
    BY <1>1, <1>2, <1>3 DEF kstatic_va_to_pa
  <1> HIDE DEF frame
  <1>5. /\ v \in Page /\ v \div N \in KernelTables /\ (v % N) + count =< N
        /\ \A u \in v .. v + count - 1 : u \in Page /\ Tables(pts)[u] = NoEntry
    <2> DEFINE o == t + r
    <2>1. o \in 0 .. N - 1 /\ o + count =< N /\ v = kernel_vma + o
      BY <1>2, <1>3
    <2> HIDE DEF o
    <2> QED
      BY <1>2, <2>1, ImageRun
  <1>6. ASSUME NEW u \in v .. v + count - 1 PROVE OfRodata(image, pts)[u] = NoEntry
    <2>1. u \notin kernel_vma .. kernel_vma + t - 1 /\ u \notin x .. x + r - 1
      BY <1>2, <1>3
    <2>2. OfText(image, pts)[u] = Tables(pts)[u]
      BY <1>5, <2>1, Layers DEF t
    <2>3. OfRodata(image, pts)[u] = OfText(image, pts)[u]
      BY <1>5, <2>1, Layers DEF r, x
    <2> QED
      BY <1>5, <2>2, <2>3
  <1>7. \A w : AtTables(map(mem, v, frame, count, w), image, pts, Paint(OfRodata(image, pts), v, frame, count, w))
    BY <1>2, <1>4, <1>5, <1>6, MapRun
  <1> QED
    BY <1>7 DEF MapData, OfData, v, count, frame

LEMMA MapStackIs ==
  ASSUME NEW image \in Images, NEW pts \in FreeRuns, NEW mem, AtTables(mem, image, pts, OfData(image, pts))
  PROVE  AtTables(MapStack(mem), image, pts, OfStack(image, pts))
  <1> DEFINE count == StackPages
             t == Text(image)
             r == Rodata(image)
             d == data_pages(image)
             v == va_kernel_stack
             z == (N - 1) * N
  <1>1. PlacesOf(image) /\ PartsOf(image) /\ kernel_stack \in Nat
    BY Places, LayoutAssumption
  <1>2. /\ count \in Nat /\ count > 0 /\ t + r + d =< N /\ t \in Nat /\ r \in Nat /\ d \in Nat
        /\ kernel_vma \in Nat /\ kernel_vma + N =< va_pts(0) /\ va_pts(FirstKernel) = va_pts(0) + FirstKernel
        /\ va_pts(0) + N =< v /\ v \in Nat /\ v + count =< End /\ End \in Nat /\ Page = 0 .. End - 1
        /\ va_pts(0) \in Nat /\ N \in Nat /\ FirstKernel \in 1 .. N - 3
    BY <1>1 DEF PlacesOf
  <1>3. data_vma(image) = kernel_vma + (t + r) /\ rodata_vma(image) = kernel_vma + t
    BY <1>1 DEF PartsOf
  <1>4. z + N = End /\ z =< v /\ z \in Nat /\ N - 1 \in 0 .. N - 1 /\ N - 1 \in KernelTables
    BY Layout, LayoutAssumption DEF End, KernelTables
  <1> HIDE DEF count, v, t, r, d, z
  <1>5. v \in Page /\ v \div N \in KernelTables /\ (v % N) + count =< N
    <2>1. v \in z .. z + N - 1 /\ v - z + count =< N
      BY <1>2, <1>4
    <2> DEFINE p == N - 1
    <2> HIDE DEF p
    <2>2. p \in 0 .. N - 1 /\ z = p * N
      BY <1>4 DEF p, z
    <2>3. v \in Page /\ v \div N = p /\ v % N = v - z
      BY <2>1, <2>2, InTable
    <2> QED
      BY <1>4, <2>1, <2>3 DEF p
  <1>6. ASSUME NEW u \in v .. v + count - 1 PROVE OfData(image, pts)[u] = NoEntry
    <2>1. /\ u \in Page /\ u \notin kernel_vma .. kernel_vma + t - 1
          /\ u \notin rodata_vma(image) .. rodata_vma(image) + r - 1
          /\ u \notin data_vma(image) .. data_vma(image) + d - 1
          /\ u \notin va_pts(FirstKernel) .. va_pts(FirstKernel) + (N - FirstKernel) - 1
      BY <1>2, <1>3
    <2>2. OfText(image, pts)[u] = NoEntry
      BY <2>1, Layers DEF t
    <2>3. OfRodata(image, pts)[u] = NoEntry
      BY <2>1, <2>2, Layers DEF r
    <2> QED
      BY <2>1, <2>3, Layers DEF d
  <1>7. \A w : AtTables(map(mem, v, kernel_stack, count, w), image, pts, Paint(OfData(image, pts), v, kernel_stack, count, w))
    BY <1>1, <1>2, <1>5, <1>6, MapRun
  <1> QED
    BY <1>7 DEF MapStack, OfStack, v, count

-----------------------------------------------------------------------------
(* From the switch on.                                                     *)

LateMem(mem, image, pts, f) ==
  /\ Base(mem, image) /\ mem.cr3 = PdFrame(image) /\ mem.frames[PdFrame(image)] = Full(pts)
  /\ TablesSay(mem, pts, f)

\* Translations of the kernel's half, in which the tables show themselves.
Sane(f, pts) ==
  /\ \A v \in Page : IsEntry(f[v]) /\ (v < kernel_vma => f[v] = NoEntry)
  /\ \A p \in KernelTables : f[va_pts(p)] = make_pte(TableOf(pts, p), TRUE)

LEMMA SwitchIs ==
  ASSUME NEW image \in Images, NEW pts \in FreeRuns, NEW mem, AtTables(mem, image, pts, OfStack(image, pts))
  PROVE  LateMem(switch_pd(mem, kernel_pd(image)), image, pts, OfStack(image, pts))
  <1> DEFINE v == kernel_pd(image)
             d == data_vma(image)
             count == data_pages(image)
             t == TableOf(pts, FirstKernel)
             e == OfStack(image, pts)[v]
  <1>1. PlacesOf(image) /\ PartsOf(image) /\ kernel_lma \in Nat
    BY Places, LayoutAssumption
  <1>2. /\ d = kernel_vma + (Text(image) + Rodata(image)) /\ v = d + (count - 2)
    BY <1>1 DEF PartsOf
  <1> HIDE DEF v, d, count
  <1>3. /\ v \in Nat /\ d \in Nat /\ kernel_vma \in Nat /\ v \in kernel_vma .. kernel_vma + N - 1 /\ v \in d .. d + count - 1
        /\ v \notin va_kernel_stack .. va_kernel_stack + StackPages - 1
    <2>1. /\ Text(image) \in Nat /\ Rodata(image) \in Nat /\ count \in Nat /\ count >= 2
          /\ Text(image) + Rodata(image) + count =< N /\ kernel_vma \in Nat /\ N \in Nat
          /\ kernel_vma + N =< va_kernel_stack /\ va_kernel_stack \in Nat
      BY <1>1 DEF PlacesOf, count
    <2> QED
      BY <1>2, <2>1
  <1>4. v \in Page /\ v \div N = FirstKernel /\ FirstKernel \in KernelTables
    BY <1>3, ImageTable
  <1>5. v % N \in 0 .. N - 1 /\ v = FirstKernel * N + (v % N)
    BY <1>4, PageSplit
  <1>6. e = make_pte(PdFrame(image), TRUE)
    <2>1. e = make_pte(kstatic_va_to_pa(d) + v - d, TRUE)
      BY <1>3, <1>4, Layers DEF d, count
    <2>2. kstatic_va_to_pa(d) + v - d = kstatic_va_to_pa(v)
      BY <1>1, <1>3 DEF kstatic_va_to_pa
    <2> QED
      BY <2>1, <2>2 DEF PdFrame, v
  <1>7. /\ Booting(mem, image) /\ Hooked(mem, image) /\ Base(mem, image) /\ TablesSay(mem, pts, OfStack(image, pts))
        /\ mem.frames[PdFrame(image)] = Full(pts) /\ mem.frames[PtFrame(image)] = Full(pts)
    BY DEF AtTables, Booting
  <1>8. PdFrame(image) \in Nat
    BY <1>7, BootWalk
  <1>9. mem.frames[mem.cr3][v \div N] # NoEntry
    <2>1. mem.frames[mem.cr3][v \div N] = make_pte(page_table_768, TRUE)
      BY <1>4, <1>7 DEF Booting
    <2>2. page_table_768 \in Nat
      BY LayoutAssumption
    <2> QED
      BY <2>1, <2>2 DEF make_pte, NoEntry
  <1>10. Read(mem, va_pts(FirstKernel)) = mem.frames[t]
    <2>1. Ready(mem, image, pts, PtFrame(image))
      BY <1>7, PtReady
    <2>2. Walk(mem, va_pts(FirstKernel)) = make_pte(t, TRUE) /\ t \in AllFrames(image) /\ t \in Nat
      BY <1>4, <2>1, TableThere
    <2> HIDE DEF t
    <2> QED
      BY <1>7, <2>2, WriteAt
  <1>11. mem.frames[t][v % N] = e
    <2>1. mem.frames[TableOf(pts, FirstKernel)][v % N] = OfStack(image, pts)[FirstKernel * N + (v % N)]
      BY <1>4, <1>5, <1>7, Zenon DEF TablesSay
    <2> QED
      BY <1>5, <2>1, Zenon
  <1> HIDE DEF t, e
  <1>12. resolve_va(mem, v) = e
    BY <1>4, <1>9, <1>10, <1>11, Zenon DEF resolve_va
  <1>13. e # NoEntry /\ e.frame = PdFrame(image)
    BY <1>6, <1>8, Ptes
  <1>14. switch_pd(mem, v) = [mem EXCEPT !.cr3 = PdFrame(image)]
    BY <1>12, <1>13 DEF switch_pd
  <1> DEFINE new == switch_pd(mem, v)
  <1>15. /\ DOMAIN mem = {"frames", "cr3", "fault"} /\ mem.fault = FALSE
    BY <1>7 DEF Base
  <1>16. /\ DOMAIN new = {"frames", "cr3", "fault"} /\ new.fault = FALSE /\ new.cr3 = PdFrame(image)
         /\ new.frames = mem.frames
    BY <1>14, <1>15
  <1> HIDE DEF new
  <1> QED
    BY <1>7, <1>16 DEF LateMem, Base, TablesSay, new, v

LEMMA LateReady ==
  ASSUME NEW image \in Images, NEW pts \in FreeRuns, NEW f, NEW mem, LateMem(mem, image, pts, f), Sane(f, pts)
  PROVE  Ready(mem, image, pts, TableOf(pts, Rec)) /\ TableOf(pts, Rec) \in Nat
  <1> DEFINE r == TableOf(pts, Rec)
  <1>1. Rec \in KernelTables
    BY Layout DEF KernelTables
  <1>2. r \in AllFrames(image) /\ r \in Nat
    BY <1>1, TableFrame DEF AllFrames
  <1>3. mem.cr3 \in AllFrames(image) \ PoolFrames
    BY ImageFrames DEF LateMem
  <1>4. mem.frames[mem.cr3][Rec] = make_pte(r, TRUE)
    <2>1. Full(pts)[Rec] = make_pte(r, TRUE)
      BY <1>1, FullTable
    <2> QED
      BY <2>1 DEF LateMem
  <1>5. ASSUME NEW p \in KernelTables PROVE mem.frames[r][p] = make_pte(TableOf(pts, p), TRUE)
    <2>1. p \in 0 .. N - 1
      BY KernelTable
    <2>2. mem.frames[TableOf(pts, Rec)][p] = f[Rec * N + p]
      BY <1>1, <2>1 DEF LateMem, TablesSay
    <2>3. f[va_pts(p)] = make_pte(TableOf(pts, p), TRUE)
      BY DEF Sane
    <2> QED
      BY <2>2, <2>3 DEF va_pts
  <1> QED
    BY <1>2, <1>3, <1>4, <1>5 DEF Ready, LateMem

\* The processor sees what the tables say.
LEMMA LateWalk ==
  ASSUME NEW image \in Images, NEW pts \in FreeRuns, NEW f, NEW mem, LateMem(mem, image, pts, f), Sane(f, pts),
         NEW v \in Page
  PROVE  Walk(mem, v) = f[v]
  <1> DEFINE p == v \div N
             i == v % N
             t == TableOf(pts, p)
  <1>1. p \in 0 .. N - 1 /\ i \in 0 .. N - 1 /\ v = p * N + i /\ v \in Nat
    BY PageSplit
  <1>2. v \div N = p /\ v % N = i
    OBVIOUS
  <1> HIDE DEF p, i
  <1>3. CASE p \in KernelTables
    <2>1. t \in DOMAIN mem.frames /\ t \in Nat
      BY <1>3, TableFrame DEF AllFrames, LateMem, Base, On
    <2>2. mem.frames[mem.cr3][p] = make_pte(t, TRUE)
      <3>1. Full(pts)[p] = make_pte(t, TRUE)
        BY <1>3, FullTable
      <3> QED
        BY <3>1 DEF LateMem
    <2>3. mem.frames[t][i] = f[v]
      <3>1. mem.frames[TableOf(pts, p)][i] = f[p * N + i]
        BY <1>1, <1>3, Zenon DEF LateMem, TablesSay
      <3> QED
        BY <1>1, <3>1, Zenon
    <2> HIDE DEF t
    <2>4. IsEntry(f[v])
      BY DEF Sane
    <2> QED
      BY <1>2, <2>1, <2>2, <2>3, <2>4, WalkFinds
  <1>4. CASE p \notin KernelTables
    <2>1. mem.frames[mem.cr3][p] = NoEntry
      <3>1. Full(pts)[p] = NoEntry
        BY <1>1, <1>4, FullTable
      <3> QED
        BY <3>1 DEF LateMem
    <2>2. Walk(mem, v) = NoEntry
      BY <1>2, <2>1, Zenon DEF Walk
    <2>3. p < FirstKernel /\ FirstKernel \in Nat
      BY <1>1, <1>4, Layout DEF KernelTables
    <2>4. v < kernel_vma
      <3>1. FirstKernel * N =< v => FirstKernel =< v \div N
        BY <2>3, TableBounds
      <3>2. ~ FirstKernel * N =< v
        BY <1>1, <1>2, <2>3, <3>1
      <3>3. FirstKernel * N \in Nat
        BY Layout
      <3> QED
        BY <1>1, <3>2, <3>3 DEF kernel_vma
    <2> QED
      BY <2>2, <2>4 DEF Sane
  <1> QED
    BY <1>3, <1>4

LEMMA MapLate ==
  ASSUME NEW image \in Images, NEW pts \in FreeRuns, NEW mem, NEW f, LateMem(mem, image, pts, f), Sane(f, pts),
         NEW v \in Page, v \div N \in KernelTables, v \div N # Rec, NEW count \in Nat, (v % N) + count =< N,
         \A u \in v .. v + count - 1 : f[u] = NoEntry,
         NEW frame \in Nat, NEW w
  PROVE  LateMem(map(mem, v, frame, count, w), image, pts, Paint(f, v, frame, count, w))
  <1> DEFINE p == v \div N
             i == v % N
             r == TableOf(pts, Rec)
             new == map(mem, v, frame, count, w)
             g == Paint(f, v, frame, count, w)
  <1>1. /\ p \in KernelTables /\ p # Rec /\ i \in 0 .. N - 1 /\ i + count =< N /\ v = p * N + i
        /\ p * N \in Nat /\ v \in Nat
    BY PageSplit
  <1> HIDE DEF p, i
  <1>2. ASSUME NEW j \in i .. i + count - 1 PROVE f[p * N + j] = NoEntry
    <2>1. p * N + j \in v .. v + count - 1
      BY <1>1
    <2> QED
      BY <2>1
  <1>3. Ready(mem, image, pts, r) /\ TablesSay(mem, pts, f) /\ mem.cr3 = PdFrame(image) /\ mem.frames[PdFrame(image)] = Full(pts)
    BY LateReady DEF LateMem
  <1>4. TableOf(pts, p) # r
    <2>1. Rec \in KernelTables
      BY Layout DEF KernelTables
    <2> QED
      BY <1>1, <2>1, TableFrame
  <1> HIDE DEF r, new, g
  <1>5. /\ Ready(new, image, pts, r) /\ TablesSay(new, pts, g)
        /\ new.cr3 = mem.cr3
        /\ \A h \in AllFrames(image) \ PoolFrames : new.frames[h] = mem.frames[h]
    <2>1. \A j \in i .. i + count - 1 : f[p * N + j] = NoEntry
      BY <1>2
    <2>2. LET n == map(mem, p * N + i, frame, count, w)
          IN  /\ Ready(n, image, pts, r) /\ TablesSay(n, pts, Paint(f, p * N + i, frame, count, w))
              /\ n.cr3 = mem.cr3
              /\ \A h \in AllFrames(image) \ PoolFrames : n.frames[h] = mem.frames[h]
      BY <1>1, <1>3, <1>4, <2>1, MapPaints
    <2> QED
      BY <1>1, <2>2 DEF new, g
  <1>6. PdFrame(image) \in AllFrames(image) \ PoolFrames
    BY ImageFrames
  <1> QED
    BY <1>3, <1>5, <1>6 DEF LateMem, Ready, new, g

LEMMA IsPte ==
  ASSUME NEW frame \in Nat
  PROVE  IsEntry(make_pte(frame, TRUE)) /\ IsEntry(make_pte(frame, FALSE))
  BY DEF IsEntry

\* Places of the runs in the address space, for the arithmetic.
Runs(image) ==
  /\ Text(image) \in Nat /\ Rodata(image) \in Nat /\ data_pages(image) \in Nat
  /\ kernel_vma \in Nat /\ kernel_lma \in Nat /\ rodata_vma(image) \in Nat /\ data_vma(image) \in Nat
  /\ rodata_vma(image) = kernel_vma + Text(image)
  /\ data_vma(image) = rodata_vma(image) + Rodata(image)
  /\ data_vma(image) + data_pages(image) =< va_framebuffer
  /\ va_framebuffer \in Nat /\ va_framebuffer + video_pages =< va_pts(0) /\ video_pages \in Nat /\ video_pages > 0
  /\ va_pts(0) \in Nat /\ va_pts(FirstKernel) = va_pts(0) + FirstKernel /\ FirstKernel \in Nat
  /\ N - FirstKernel \in Nat /\ N \in Nat
  /\ va_pts(0) + N =< va_kernel_stack
  /\ va_kernel_stack \in Nat /\ StackPages \in Nat /\ va_kernel_stack + StackPages =< End /\ End \in Nat
  /\ \A u : u \in Page <=> u \in Nat /\ u < End

LEMMA RunPlaces == ASSUME NEW image \in Images PROVE Runs(image)
  <1>1. PlacesOf(image) /\ PartsOf(image) /\ kernel_lma \in Nat
    BY Places, LayoutAssumption
  <1>2. /\ Text(image) \in Nat /\ Rodata(image) \in Nat /\ data_pages(image) \in Nat
        /\ Text(image) + Rodata(image) + data_pages(image) =< N /\ kernel_vma \in Nat
        /\ kernel_vma + N =< va_framebuffer /\ va_framebuffer \in Nat /\ N \in Nat
    BY <1>1 DEF PlacesOf
  <1>3. rodata_vma(image) = kernel_vma + Text(image) /\ data_vma(image) = kernel_vma + (Text(image) + Rodata(image))
    BY <1>1 DEF PartsOf
  <1>4. /\ rodata_vma(image) \in Nat /\ data_vma(image) \in Nat
        /\ data_vma(image) = rodata_vma(image) + Rodata(image)
        /\ data_vma(image) + data_pages(image) =< va_framebuffer
    BY <1>2, <1>3
  <1>5. FirstKernel \in Nat /\ N - FirstKernel \in Nat
    BY Layout
  <1>6. Page = 0 .. End - 1 /\ End \in Nat /\ video_pages \in Nat \ {0} /\ StackPages \in Nat \ {0}
    BY <1>1 DEF PlacesOf
  <1>7. /\ \A u : u \in Page <=> u \in Nat /\ u < End
        /\ video_pages \in Nat /\ video_pages > 0 /\ StackPages \in Nat
    <2>1. \A u : u \in 0 .. End - 1 <=> u \in Nat /\ u < End
      BY <1>6
    <2> QED
      BY <1>6, <2>1
  <1>8. /\ va_framebuffer + video_pages =< va_pts(0) /\ va_pts(FirstKernel) = va_pts(0) + FirstKernel
        /\ va_pts(0) + N =< va_kernel_stack /\ va_kernel_stack + StackPages =< End /\ va_kernel_stack \in Nat
        /\ va_pts(0) \in Nat
    BY <1>1 DEF PlacesOf
  <1> QED
    BY <1>1, <1>2, <1>3, <1>4, <1>5, <1>6, <1>7, <1>8 DEF Runs

LEMMA StackSane ==
  ASSUME NEW image \in Images, NEW pts \in FreeRuns
  PROVE  Sane(OfStack(image, pts), pts)
  <1>1. Runs(image) /\ kernel_stack \in Nat /\ pts \in Nat
    BY RunPlaces, LayoutAssumption
  <1>2. ASSUME NEW v \in Page PROVE IsEntry(OfStack(image, pts)[v])
    <2>0. v \in Nat
      BY <1>1 DEF Runs
    <2>1. v \in va_kernel_stack .. va_kernel_stack + StackPages - 1 => kernel_stack + v - va_kernel_stack \in Nat
      BY <1>1, <2>0 DEF Runs
    <2>2. v \in data_vma(image) .. data_vma(image) + data_pages(image) - 1
            => kstatic_va_to_pa(data_vma(image)) + v - data_vma(image) \in Nat
      BY <1>1, <2>0 DEF Runs, kstatic_va_to_pa
    <2>3. v \in rodata_vma(image) .. rodata_vma(image) + Rodata(image) - 1
            => kstatic_va_to_pa(rodata_vma(image)) + v - rodata_vma(image) \in Nat
      BY <1>1, <2>0 DEF Runs, kstatic_va_to_pa
    <2>4. v \in kernel_vma .. kernel_vma + Text(image) - 1 => kernel_lma + v - kernel_vma \in Nat
      BY <1>1, <2>0 DEF Runs
    <2>5. v \in va_pts(FirstKernel) .. va_pts(FirstKernel) + (N - FirstKernel) - 1
            => pts + v - va_pts(FirstKernel) \in Nat
      BY <1>1, <2>0 DEF Runs
    <2>6. IsEntry(NoEntry)
      BY DEF IsEntry
    <2>7. IsEntry(Tables(pts)[v])
      BY <2>5, <2>6, IsPte, Layers
    <2>8. IsEntry(OfText(image, pts)[v])
      BY <2>4, <2>7, IsPte, Layers
    <2>9. IsEntry(OfRodata(image, pts)[v])
      BY <2>3, <2>8, IsPte, Layers
    <2>10. IsEntry(OfData(image, pts)[v])
      BY <2>2, <2>9, IsPte, Layers
    <2> QED
      BY <2>1, <2>10, IsPte, Layers
  <1>3. ASSUME NEW v \in Page, v < kernel_vma PROVE OfStack(image, pts)[v] = NoEntry
    <2>1. /\ v \notin kernel_vma .. kernel_vma + Text(image) - 1
          /\ v \notin rodata_vma(image) .. rodata_vma(image) + Rodata(image) - 1
          /\ v \notin data_vma(image) .. data_vma(image) + data_pages(image) - 1
          /\ v \notin va_pts(FirstKernel) .. va_pts(FirstKernel) + (N - FirstKernel) - 1
          /\ v \notin va_kernel_stack .. va_kernel_stack + StackPages - 1
      BY <1>1, <1>3 DEF Runs
    <2>2. OfText(image, pts)[v] = NoEntry
      BY <2>1, Layers
    <2>3. OfRodata(image, pts)[v] = NoEntry
      BY <2>1, <2>2, Layers
    <2>4. OfData(image, pts)[v] = NoEntry
      BY <2>1, <2>3, Layers
    <2> QED
      BY <2>1, <2>4, Layers
  <1>4. ASSUME NEW p \in KernelTables PROVE OfStack(image, pts)[va_pts(p)] = make_pte(TableOf(pts, p), TRUE)
    <2> DEFINE v == va_pts(p)
    <2>1. v = va_pts(0) + p /\ p \in FirstKernel .. N - 1
      <3>1. Rec * N \in Nat
        BY Layout
      <3> QED
        BY <3>1, Layout DEF va_pts, KernelTables
    <2> HIDE DEF v
    <2>2. /\ v \in Page /\ v \notin kernel_vma .. kernel_vma + Text(image) - 1
          /\ v \notin rodata_vma(image) .. rodata_vma(image) + Rodata(image) - 1
          /\ v \notin data_vma(image) .. data_vma(image) + data_pages(image) - 1
          /\ v \in va_pts(FirstKernel) .. va_pts(FirstKernel) + (N - FirstKernel) - 1
          /\ v \notin va_kernel_stack .. va_kernel_stack + StackPages - 1
          /\ pts + v - va_pts(FirstKernel) = pts + p - FirstKernel
      BY <1>1, <2>1 DEF Runs
    <2>3. OfText(image, pts)[v] = make_pte(pts + v - va_pts(FirstKernel), TRUE)
      BY <2>2, Layers
    <2>4. OfRodata(image, pts)[v] = make_pte(pts + v - va_pts(FirstKernel), TRUE)
      BY <2>2, <2>3, Layers
    <2>5. OfData(image, pts)[v] = make_pte(pts + v - va_pts(FirstKernel), TRUE)
      BY <2>2, <2>4, Layers
    <2>6. OfStack(image, pts)[v] = make_pte(pts + v - va_pts(FirstKernel), TRUE)
      BY <2>2, <2>5, Layers
    <2> QED
      BY <2>2, <2>6 DEF TableOf, v
  <1> QED
    BY <1>2, <1>3, <1>4 DEF Sane

\* The framebuffer in place.
LEMMA ScreenRun ==
  ASSUME NEW image \in Images, NEW pts \in FreeRuns
  PROVE  /\ va_framebuffer \in Page /\ va_framebuffer \div N \in KernelTables /\ va_framebuffer \div N # Rec
         /\ \A u \in va_framebuffer .. va_framebuffer + video_pages - 1 : u \in Page /\ OfStack(image, pts)[u] = NoEntry
  <1> DEFINE v == va_framebuffer
  <1>1. Runs(image)
    BY RunPlaces
  <1>2. v \in Page
    BY <1>1 DEF Runs
  <1>3. v \div N \in KernelTables /\ v \div N # Rec
    <2> DEFINE d == v \div N
    <2>1. kernel_vma = FirstKernel * N /\ va_pts(0) = Rec * N
      BY Layout DEF kernel_vma, va_pts
    <2>2. kernel_vma =< v /\ v < va_pts(0)
      BY <1>1 DEF Runs
    <2>3. FirstKernel \in Nat /\ Rec \in Nat
      BY Layout
    <2>4. FirstKernel * N =< v => FirstKernel =< d
      BY <1>2, <2>3, TableBounds
    <2>5. v < Rec * N => d < Rec
      BY <1>2, <2>3, TableBounds
    <2>6. d \in 0 .. N - 1
      BY <1>2, PageSplit
    <2> HIDE DEF d
    <2>7. FirstKernel =< d /\ d < Rec
      BY <2>1, <2>2, <2>4, <2>5
    <2> QED
      BY <2>3, <2>6, <2>7 DEF KernelTables, d
  <1>4. ASSUME NEW u \in v .. v + video_pages - 1 PROVE u \in Page /\ OfStack(image, pts)[u] = NoEntry
    <2>1. /\ u \in Page /\ u \notin kernel_vma .. kernel_vma + Text(image) - 1
          /\ u \notin rodata_vma(image) .. rodata_vma(image) + Rodata(image) - 1
          /\ u \notin data_vma(image) .. data_vma(image) + data_pages(image) - 1
          /\ u \notin va_pts(FirstKernel) .. va_pts(FirstKernel) + (N - FirstKernel) - 1
          /\ u \notin va_kernel_stack .. va_kernel_stack + StackPages - 1
      BY <1>1 DEF Runs
    <2>2. OfText(image, pts)[u] = NoEntry
      BY <2>1, Layers
    <2>3. OfRodata(image, pts)[u] = NoEntry
      BY <2>1, <2>2, Layers
    <2>4. OfData(image, pts)[u] = NoEntry
      BY <2>1, <2>3, Layers
    <2> QED
      BY <2>1, <2>4, Layers
  <1> QED
    BY <1>2, <1>3, <1>4

\* What the tables say in the end, with the framebuffer where the console has it.
Final(image, pts, fb, tty) ==
  IF fb = "va" THEN Paint(OfStack(image, pts), va_framebuffer, text_frame, 1, TRUE)
  ELSE IF tty = "video" THEN Paint(OfStack(image, pts), va_framebuffer, video_frame, video_pages, TRUE)
  ELSE OfStack(image, pts)

LEMMA PaintSane ==
  ASSUME NEW image \in Images, NEW pts \in FreeRuns, NEW f, Sane(f, pts), NEW frame \in Nat,
         NEW count \in 0 .. video_pages
  PROVE  Sane(Paint(f, va_framebuffer, frame, count, TRUE), pts)
  <1> DEFINE g == Paint(f, va_framebuffer, frame, count, TRUE)
  <1>1. Runs(image) /\ count \in Nat
    BY RunPlaces DEF Runs
  <1>2. \A v \in Page : g[v] = IF v \in va_framebuffer .. va_framebuffer + count - 1
                               THEN make_pte(frame + v - va_framebuffer, TRUE) ELSE f[v]
    BY DEF Paint
  <1> HIDE DEF g
  <1>3. ASSUME NEW v \in Page PROVE IsEntry(g[v]) /\ (v < kernel_vma => g[v] = NoEntry)
    <2>1. /\ v \in va_framebuffer .. va_framebuffer + count - 1 => frame + v - va_framebuffer \in Nat /\ ~ (v < kernel_vma)
      BY <1>1 DEF Runs
    <2>2. IsEntry(f[v]) /\ (v < kernel_vma => f[v] = NoEntry)
      BY DEF Sane
    <2> QED
      BY <1>2, <2>1, <2>2, IsPte
  <1>4. ASSUME NEW p \in KernelTables PROVE g[va_pts(p)] = make_pte(TableOf(pts, p), TRUE)
    <2> DEFINE v == va_pts(p)
    <2>1. v = va_pts(0) + p /\ p \in FirstKernel .. N - 1
      <3>1. Rec * N \in Nat
        BY Layout
      <3> QED
        BY <3>1, Layout DEF va_pts, KernelTables
    <2>2. f[v] = make_pte(TableOf(pts, p), TRUE)
      BY DEF Sane
    <2> HIDE DEF v
    <2>3. v \in Page /\ v \notin va_framebuffer .. va_framebuffer + count - 1
      BY <1>1, <2>1 DEF Runs
    <2> QED
      BY <1>2, <2>2, <2>3 DEF v
  <1> QED
    BY <1>3, <1>4 DEF Sane, g

LEMMA FinalSane ==
  ASSUME NEW image \in Images, NEW pts \in FreeRuns, NEW fb, NEW tty
  PROVE  Sane(Final(image, pts, fb, tty), pts)
  <1>1. Sane(OfStack(image, pts), pts)
    BY StackSane
  <1>2. text_frame \in Nat /\ video_frame \in Nat /\ 1 \in 0 .. video_pages /\ video_pages \in 0 .. video_pages
    BY ScreenAssumption
  <1>3. Sane(Paint(OfStack(image, pts), va_framebuffer, text_frame, 1, TRUE), pts)
    BY <1>1, <1>2, PaintSane
  <1>4. Sane(Paint(OfStack(image, pts), va_framebuffer, video_frame, video_pages, TRUE), pts)
    BY <1>1, <1>2, PaintSane
  <1> QED
    BY <1>1, <1>3, <1>4 DEF Final

LEMMA ScreenMapped ==
  ASSUME NEW image \in Images, NEW pts \in FreeRuns, NEW mem, LateMem(mem, image, pts, OfStack(image, pts))
  PROVE  /\ \A tty : LateMem(MapTextScreen(mem), image, pts, Final(image, pts, "va", tty))
         /\ \A fb : fb # "va" => LateMem(MapVideoScreen(mem), image, pts, Final(image, pts, fb, "video"))
  <1> DEFINE v == va_framebuffer
             f == OfStack(image, pts)
  <1>1. Sane(f, pts)
    BY StackSane
  <1>2. /\ text_frame \in Nat /\ video_frame \in Nat /\ 1 \in 0 .. video_pages /\ video_pages \in Nat /\ 1 \in Nat
        /\ (v % N) + video_pages =< N
    BY ScreenAssumption
  <1>3. /\ v \in Page /\ v \div N \in KernelTables /\ v \div N # Rec
        /\ \A u \in v .. v + video_pages - 1 : u \in Page /\ f[u] = NoEntry
    BY ScreenRun
  <1>4. (v % N) + 1 =< N
    <2>1. v % N \in 0 .. N - 1 /\ N \in Nat
      BY <1>3, PageSplit, Layout
    <2> QED
      BY <2>1
  <1>5. v \in v .. v + video_pages - 1 /\ v .. v + 1 - 1 = {v}
    <2>1. v \in Nat /\ video_pages > 0
      BY <1>2, <1>3, PageSplit
    <2> QED
      BY <1>2, <2>1
  <1> HIDE DEF v, f
  <1>6. \A w : LateMem(map(mem, v, text_frame, 1, w), image, pts, Paint(f, v, text_frame, 1, w))
    <2>1. \A u \in v .. v + 1 - 1 : f[u] = NoEntry
      BY <1>3, <1>5
    <2>2. LateMem(mem, image, pts, f)
      BY DEF f
    <2> DEFINE one == 1
    <2>3. one \in Nat /\ (v % N) + one =< N /\ \A u \in v .. v + one - 1 : f[u] = NoEntry
      BY <1>4, <2>1
    <2> HIDE DEF one
    <2>4. \A w : LateMem(map(mem, v, text_frame, one, w), image, pts, Paint(f, v, text_frame, one, w))
      BY <1>1, <1>2, <1>3, <2>2, <2>3, MapLate
    <2> QED
      BY <2>4 DEF one
  <1>7. \A w : LateMem(map(mem, v, video_frame, video_pages, w), image, pts, Paint(f, v, video_frame, video_pages, w))
    <2>1. LateMem(mem, image, pts, f)
      BY DEF f
    <2> QED
      BY <1>1, <1>2, <1>3, <2>1, MapLate
  <1> QED
    BY <1>6, <1>7 DEF MapTextScreen, MapVideoScreen, Final, v, f

-----------------------------------------------------------------------------
(* The boot.                                                               *)

\* Places of kmain: before the console, with interrupts off, while the screen
\* is where the bootstrap has it, with interrupts let in, and with a stream
\* chosen for good.
Booted == {"koi", "levels", "map", "total", "vmm"}
Paging == {"hook", "init_pt", "clear", "directory", "recursive", "kernel", "rodata", "data", "stack", "switch"}
Open == {"flags", "detach", "parameters", "tty", "choose", "banner", "pci", "initrd", "cli", "user"}
Settled == {"banner", "pci", "initrd", "cli", "sched", "user"}
Ended == {"hung", "panic", "lost"}

\* The default stream at first, and while the terminal is set aside.
Home(g) == IF g.port THEN "serial" ELSE "tty"
Away(g) == IF g.port THEN "serial" ELSE "none"

Moved(d) == (d.tty = "text" /\ d.fb = "va") \/ (d.tty = "video" /\ d.fb = "low")

ConsoleAt(p, d, g) ==
  /\ p = "koi" => d = NewConsole
  /\ p # "koi" => d.serial = g.port
  /\ p \in (Booted \ {"koi"}) \cup Paging \cup {"sti", "flags", "detach"} =>
       d.tty = "text" /\ d.fb = "low" /\ d.stream = Home(g)
  /\ p \in {"parameters", "tty"} => d.tty = "text" /\ d.fb = "low" /\ d.stream = Away(g)
  /\ p = "choose" =>
       \/ "serial" \in g.cmdline /\ d.tty = "text" /\ d.fb = "low" /\ d.stream = Home(g)
       \/ d.stream = Away(g) /\ (Moved(d) \/ (d.tty = "none" /\ d.fb = "low"))
  /\ p \in Settled => (d.stream = "serial" /\ d.serial) \/ (d.stream = "tty" /\ Moved(d))
  /\ ~ (d.fb = "va" /\ d.tty = "video")

MemAt(p, mem, g, d) ==
  /\ p \in Booted => Booting(mem, g.image)
  /\ p = "hook" => AtHook(mem, g.image)
  /\ p = "init_pt" => AtInitPt(mem, g.image)
  /\ p = "clear" => AtClear(mem, g.image, g.pts)
  /\ p = "directory" => AtDirectory(mem, g.image, g.pts)
  /\ p = "recursive" => AtRecursive(mem, g.image, g.pts)
  /\ p = "kernel" => AtTables(mem, g.image, g.pts, Tables(g.pts))
  /\ p = "rodata" => AtTables(mem, g.image, g.pts, OfText(g.image, g.pts))
  /\ p = "data" => AtTables(mem, g.image, g.pts, OfRodata(g.image, g.pts))
  /\ p = "stack" => AtTables(mem, g.image, g.pts, OfData(g.image, g.pts))
  /\ p = "switch" => AtTables(mem, g.image, g.pts, OfStack(g.image, g.pts))
  /\ p \in Late => LateMem(mem, g.image, g.pts, Final(g.image, g.pts, d.fb, d.tty))

\* What kmain's lines are made of.
Glyphs == {LF, "m", "t", "1", "2", "v", "w", "g", "r", "p", "f"}

LineAt(p, l, d) ==
  /\ DOMAIN l = {"stream", "pieces"} /\ l.pieces \in Seq(Seq(Glyphs))
  /\ l.pieces # <<>> =>
       /\ p \in {"total", "vmm", "tty", "choose", "pci", "initrd", "cli"}
       /\ p = "choose" => d.stream # "tty"
       /\ l.stream \in {"dummy", "koi", d.stream} \/ (l.stream = "serial" /\ d.serial)

\* When a console may have faulted.
WildOk(p, d, g, n) ==
  \/ g.cmdline = Absent
  \/ /\ n > 0 /\ ~ g.port
     /\ d.stream = "tty" /\ d.fb = "low"
     /\ p \in {"flags", "detach", "lost"} \/ "serial" \in g.cmdline

Configured(g) == g \in [port : BOOLEAN, cmdline : Cmdlines, video : Videos, image : Images, pts : FreeRuns]

Calm(mem) == "fault" \in DOMAIN mem /\ mem.fault = FALSE

\* The inductive invariant: what the console, the tables and the line that is
\* being printed are at each place of kmain.
BootInv ==
  /\ Configured(cfg) /\ ScreensInv(c) /\ c.ll \in Nat /\ Calm(m) /\ irqs \in Nat
  /\ ConsoleAt(pc, c, cfg) /\ MemAt(pc, m, cfg, c) /\ LineAt(pc, line, c)
  /\ iflag => pc \in Open
  /\ c.serial => Lossless(c)
  /\ c.wild \/ pc = "lost" => WildOk(pc, c, cfg, irqs)

LEMMA ConfiguredIs ==
  ASSUME NEW g, Configured(g)
  PROVE  g.image \in Images /\ g.pts \in FreeRuns /\ g.port \in BOOLEAN /\ g.video \in Videos
  BY DEF Configured

\* What a console must be for its terminal to be there.
LEMMA ScreenStands ==
  ASSUME NEW g, Configured(g), NEW d, NEW mem, NEW p, ConsoleAt(p, d, g), MemAt(p, mem, g, d), d.stream = "tty",
         p \in Settled \/ p \in Booted \ {"koi"}
  PROVE  ScreenThere(d, mem)
  <1>1. g.image \in Images /\ g.pts \in FreeRuns
    BY ConfiguredIs
  <1>2. CASE p \in Booted \ {"koi"}
    <2>1. d.tty = "text" /\ d.fb = "low" /\ Booting(mem, g.image)
      BY <1>2 DEF ConsoleAt, MemAt
    <2>2. text_frame \in 0 .. N - 1
      BY ScreenAssumption
    <2>3. Walk(mem, text_frame) = make_pte(text_frame, TRUE)
      BY <1>1, <2>1, <2>2, BootWalk
    <2> QED
      BY <2>1, <2>3 DEF ScreenThere, Reaches, TextPage
  <1>3. CASE p \in Settled
    <2> DEFINE f == Final(g.image, g.pts, d.fb, d.tty)
    <2>1. Moved(d) /\ ~ (d.fb = "va" /\ d.tty = "video")
      BY <1>3 DEF ConsoleAt
    <2>2. LateMem(mem, g.image, g.pts, f)
      BY <1>3 DEF MemAt, Settled, Late
    <2>3. Sane(f, g.pts)
      BY <1>1, FinalSane
    <2>4. \A u \in va_framebuffer .. va_framebuffer + video_pages - 1 : u \in Page
      BY <1>1, ScreenRun
    <2>5. va_framebuffer \in Nat /\ video_pages \in Nat \ {0} /\ text_frame \in Nat /\ video_frame \in Nat
      <3>1. va_framebuffer \in Nat
        BY <1>1, RunPlaces DEF Runs
      <3> QED
        BY <3>1, ScreenAssumption
    <2> HIDE DEF f
    <2>6. ASSUME NEW i \in 0 .. video_pages - 1
          PROVE  Walk(mem, va_framebuffer + i) = f[va_framebuffer + i] /\ va_framebuffer + i \in Page
      <3> DEFINE u == va_framebuffer + i
      <3>1. u \in va_framebuffer .. va_framebuffer + video_pages - 1
        BY <2>5
      <3> HIDE DEF u
      <3>2. u \in Page
        BY <2>4, <3>1
      <3>3. Walk(mem, u) = f[u]
        BY <1>1, <2>2, <2>3, <3>2, LateWalk
      <3> QED
        BY <3>2, <3>3 DEF u
    <2>7. CASE d.tty = "text" /\ d.fb = "va"
      <3>1. va_framebuffer \in Page /\ Walk(mem, va_framebuffer) = f[va_framebuffer]
        <4>1. va_framebuffer \in Page
          BY <1>1, ScreenRun
        <4> QED
          BY <1>1, <2>2, <2>3, <4>1, LateWalk
      <3>2. f = Paint(OfStack(g.image, g.pts), va_framebuffer, text_frame, 1, TRUE)
        BY <2>7 DEF f, Final
      <3>3. f[va_framebuffer] = make_pte(text_frame, TRUE)
        <4>1. va_framebuffer \in va_framebuffer .. va_framebuffer + 1 - 1 /\ text_frame + va_framebuffer - va_framebuffer = text_frame
          BY <2>5
        <4>2. f[va_framebuffer] = make_pte(text_frame + va_framebuffer - va_framebuffer, TRUE)
          BY <3>1, <3>2, <4>1 DEF Paint
        <4> QED
          BY <4>1, <4>2
      <3> QED
        BY <2>7, <3>1, <3>3 DEF ScreenThere, Reaches, TextPage
    <2>8. CASE d.tty = "video" /\ d.fb = "low"
      <3>1. f = Paint(OfStack(g.image, g.pts), va_framebuffer, video_frame, video_pages, TRUE)
        BY <2>8 DEF f, Final
      <3>2. ASSUME NEW i \in 0 .. video_pages - 1
            PROVE  Reaches(mem, va_framebuffer + i, video_frame + i)
        <4> DEFINE u == va_framebuffer + i
        <4>1. /\ u \in va_framebuffer .. va_framebuffer + video_pages - 1
              /\ video_frame + u - va_framebuffer = video_frame + i
          BY <2>5
        <4>2. u \in Page /\ Walk(mem, u) = f[u]
          BY <2>6
        <4> HIDE DEF u
        <4>3. f[u] = make_pte(video_frame + u - va_framebuffer, TRUE)
          BY <3>1, <4>1, <4>2 DEF Paint
        <4> QED
          BY <4>1, <4>2, <4>3 DEF Reaches, u
      <3> QED
        BY <2>8, <3>2 DEF ScreenThere
    <2> QED
      BY <2>1, <2>7, <2>8 DEF Moved
  <1> QED
    BY <1>2, <1>3

LEMMA SameConsole ==
  ASSUME NEW p, p # "koi", NEW g, NEW d, NEW e, SameDevices(d, e), NEW mem
  PROVE  /\ ConsoleAt(p, d, g) => ConsoleAt(p, e, g)
         /\ MemAt(p, mem, g, d) => MemAt(p, mem, g, e)
  <1>1. e.serial = d.serial /\ e.tty = d.tty /\ e.fb = d.fb /\ e.stream = d.stream
    BY DEF SameDevices
  <1>2. Moved(e) <=> Moved(d)
    BY <1>1 DEF Moved
  <1>3. ConsoleAt(p, d, g) => ConsoleAt(p, e, g)
    BY <1>1, <1>2 DEF ConsoleAt
  <1>4. MemAt(p, mem, g, d) => MemAt(p, mem, g, e)
    BY <1>1 DEF MemAt
  <1> QED
    BY <1>3, <1>4

\* The streams a line may start on.
LEMMA StreamIs ==
  ASSUME NEW d, NEW level \in Nat, d.ll \in Nat
  PROVE  /\ Stream(d, level) \in {"dummy", "koi", d.stream} \/ (Stream(d, level) = "serial" /\ d.serial)
         /\ level = critical /\ d.serial => Stream(d, level) = "serial"
  <1>1. critical = 0
    BY DEF critical
  <1>2. level > d.ll \/ (level =< critical /\ d.serial) \/ (level > critical \/ ~ d.serial)
    BY <1>1
  <1>3. /\ \/ level > d.ll /\ Stream(d, level) = "dummy"
           \/ level =< critical /\ d.serial /\ Stream(d, level) = "serial"
           \/ (level > critical \/ ~ d.serial) /\ Stream(d, level) = IF d.stream # "none" THEN d.stream ELSE "koi"
    BY <1>2 DEF Stream
  <1>4. level = critical => ~ (level > d.ll) /\ ~ (level > critical)
    BY <1>1
  <1> QED
    BY <1>3, <1>4

LEMMA Levels ==
  critical \in Nat /\ warning \in Nat /\ notice \in Nat /\ debug \in Nat /\ null \in Nat /\ error \in Nat
  BY DEF critical, warning, notice, debug, null, error

\* What printing at a place of kmain leaves of the console.
LEMMA PrintKeeps ==
  ASSUME BootInv, pc \in Open \cup {"total", "vmm"}, ~ c.wild,
         NEW stream, stream \in {"dummy", "koi", c.stream} \/ (stream = "serial" /\ c.serial),
         NEW chars, Len(chars) \in Nat, NEW r, r = Put(c, m, stream, chars)
  PROVE  /\ ScreensInv(r) /\ SameDevices(c, r) /\ r.ll \in Nat
         /\ ConsoleAt(pc, r, cfg) /\ MemAt(pc, m, cfg, r)
         /\ r.serial => Lossless(r)
         /\ r.wild => /\ c.stream = "tty" /\ c.fb = "low" /\ ~ cfg.port
                      /\ pc \in {"flags", "detach"} \/ (pc = "choose" /\ "serial" \in cfg.cmdline)
  <1>1. /\ Configured(cfg) /\ ScreensInv(c) /\ c.ll \in Nat /\ ConsoleAt(pc, c, cfg) /\ MemAt(pc, m, cfg, c)
        /\ c.serial => Lossless(c)
    BY DEF BootInv
  <1>2. Kept(c, m, stream, r)
    BY <1>1, PutKeeps
  <1>3. /\ ScreensInv(r) /\ SameDevices(c, r)
        /\ (Where(c, stream) = "tty" => ScreenThere(c, m)) => ~ r.wild
        /\ Routed(c, m, stream) /\ Lossless(c) => Lossless(r)
    BY <1>2 DEF Kept
  <1>4. pc # "koi"
    BY DEF Open
  <1>5. ConsoleAt(pc, r, cfg) /\ MemAt(pc, m, cfg, r) /\ r.ll \in Nat /\ r.serial = c.serial
    BY <1>1, <1>3, <1>4, SameConsole DEF SameDevices
  <1>6. c.serial = cfg.port /\ cfg.port \in BOOLEAN
    BY <1>1, <1>4 DEF ConsoleAt, Configured
  <1>7. Where(c, stream) = "tty" => c.stream = "tty"
    BY DEF Where
  <1>8. pc \in Settled \cup {"total", "vmm"} /\ c.stream = "tty" => ScreenThere(c, m)
    <2>1. pc \in {"total", "vmm"} => pc \in Booted \ {"koi"}
      BY DEF Booted
    <2> QED
      BY <1>1, <2>1, ScreenStands
  <1>9. pc \notin Settled \cup {"total", "vmm"} /\ c.stream = "tty" =>
          /\ c.fb = "low" /\ ~ cfg.port
          /\ pc \in {"flags", "detach"} \/ (pc = "choose" /\ "serial" \in cfg.cmdline)
    <2>1. pc \in {"flags", "detach"} => c.fb = "low" /\ c.stream = Home(cfg)
      BY <1>1 DEF ConsoleAt
    <2>2. pc \in {"parameters", "tty"} => c.stream = Away(cfg)
      BY <1>1 DEF ConsoleAt
    <2>3. pc = "choose" => c.stream = Away(cfg) \/ ("serial" \in cfg.cmdline /\ c.fb = "low" /\ c.stream = Home(cfg))
      BY <1>1 DEF ConsoleAt
    <2>4. Away(cfg) # "tty" /\ (Home(cfg) = "tty" => ~ cfg.port)
      BY <1>6 DEF Away, Home
    <2>5. pc \notin Settled \cup {"total", "vmm"} => pc \in {"flags", "detach", "parameters", "tty", "choose"}
      BY DEF Open, Settled
    <2> QED
      BY <2>1, <2>2, <2>3, <2>4, <2>5
  <1>10. c.stream \in {"serial", "tty"} \/ ~ c.serial
    <2>1. pc \in {"total", "vmm", "flags", "detach"} => c.stream = Home(cfg)
      BY <1>1 DEF ConsoleAt, Booted
    <2>2. pc \in {"parameters", "tty"} => c.stream = Away(cfg)
      BY <1>1 DEF ConsoleAt
    <2>3. pc = "choose" => c.stream = Away(cfg) \/ c.stream = Home(cfg)
      BY <1>1 DEF ConsoleAt
    <2>4. pc \in Settled => c.stream \in {"serial", "tty"}
      BY <1>1 DEF ConsoleAt
    <2>5. c.serial => Away(cfg) = "serial" /\ Home(cfg) = "serial"
      BY <1>6 DEF Away, Home
    <2>6. pc \in Settled \cup {"total", "vmm", "flags", "detach", "parameters", "tty", "choose"}
      BY DEF Open, Settled
    <2> QED
      BY <2>1, <2>2, <2>3, <2>4, <2>5, <2>6
  <1>11. c.serial => Routed(c, m, stream)
    <2>1. c.serial => stream = "dummy" \/ Where(c, stream) \in {"serial", "tty"}
      BY <1>10 DEF Where
    <2>2. c.serial /\ c.stream = "tty" => ScreenThere(c, m)
      BY <1>6, <1>8, <1>9
    <2> QED
      BY <1>7, <2>1, <2>2 DEF Routed
  <1> QED
    BY <1>1, <1>3, <1>5, <1>7, <1>8, <1>9, <1>11

\* A console on which nothing was printed in between.
Unprinted(d, e) ==
  /\ DOMAIN e = DOMAIN d /\ e.text = d.text /\ e.video = d.video /\ e.wire = d.wire /\ e.typed = d.typed
  /\ e.said = d.said /\ e.wild \in BOOLEAN

LEMMA UnprintedKeeps ==
  ASSUME NEW d, NEW e, ScreensInv(d), Unprinted(d, e)
  PROVE  ScreensInv(e) /\ (Lossless(d) => Lossless(e))
  BY DEF ScreensInv, Unprinted, Lossless

LEMMA InitBoots == Init => BootInv
  <1> SUFFICES ASSUME Init PROVE BootInv
    OBVIOUS
  <1>1. Configured(cfg) /\ cfg.image \in Images
    BY DEF Init, Configured
  <1>2. pc = "koi" /\ c = NewConsole /\ m = setup_paging(cfg.image) /\ line = NoLine /\ iflag = FALSE /\ irqs = 0
    BY DEF Init
  <1>3. Booting(m, cfg.image)
    BY <1>1, <1>2, SetupBoots
  <1>4. /\ DOMAIN c = ConsoleFields /\ DOMAIN c.typed = {"text", "video"} /\ c.wire = <<>> /\ c.said = 0
        /\ c.wild = FALSE /\ c.text = TextScreen /\ c.video = VideoScreen(video_w, video_h)
        /\ c.typed.text = <<>> /\ c.typed.video = <<>> /\ c.ll = notice /\ c.serial = FALSE
        /\ c.fb = "low"
    BY <1>2 DEF NewConsole, ConsoleFields
  <1>5. ShowsEnd(TextScreen, TextScreen, <<>>)
    BY ScreenIs, TerminalAssumption DEF TextScreen
  <1>6. ShowsEnd(VideoScreen(video_w, video_h), VideoScreen(video_w, video_h), <<>>)
    BY ScreenIs, VideoSize DEF VideoScreen
  <1>7. IsText(<<>>)
    BY DEF IsText, On
  <1>8. ScreensInv(c)
    <2>1. ShowsEnd(c.text, TextScreen, c.typed.text)
      BY <1>4, <1>5
    <2>2. ShowsEnd(c.video, VideoScreen(video_w, video_h), c.typed.video)
      BY <1>4, <1>6
    <2>3. IsText(c.wire)
      BY <1>4, <1>7
    <2>4. c.said \in Nat
      BY <1>4
    <2>5. c.wild \in BOOLEAN
      BY <1>4
    <2> QED
      BY <1>4, <2>1, <2>2, <2>3, <2>4, <2>5 DEF ScreensInv
  <1>9. ConsoleAt(pc, c, cfg)
    BY <1>2, <1>4 DEF ConsoleAt, Booted, Paging, Settled
  <1>10. MemAt(pc, m, cfg, c)
    BY <1>2, <1>3 DEF MemAt, Late
  <1>11. LineAt(pc, line, c)
    BY <1>2 DEF LineAt, NoLine
  <1>12. Calm(m)
    BY <1>3 DEF Booting, Base, Calm
  <1> QED
    BY <1>1, <1>2, <1>4, <1>8, <1>9, <1>10, <1>11, <1>12, Levels DEF BootInv

LEMMA PieceKeeps == BootInv /\ PutPiece => BootInv'
  <1> SUFFICES ASSUME BootInv, PutPiece PROVE BootInv'
    OBVIOUS
  <1> DEFINE piece == Head(line.pieces)
             where == IF line.stream = "koi" THEN c.stream ELSE line.stream
  <1>1. /\ Configured(cfg) /\ irqs \in Nat /\ Calm(m) /\ LineAt(pc, line, c)
        /\ iflag => pc \in Open
    BY DEF BootInv
  <1>2. /\ line.pieces # <<>> /\ ~ c.wild
        /\ pc' = pc /\ m' = m /\ iflag' = iflag /\ cfg' = cfg /\ irqs' = irqs
    BY DEF PutPiece, Fine
  <1>3. /\ DOMAIN line = {"stream", "pieces"} /\ line.pieces \in Seq(Seq(Glyphs))
        /\ pc \in {"total", "vmm", "tty", "choose", "pci", "initrd", "cli"}
        /\ pc = "choose" => c.stream # "tty"
        /\ line.stream \in {"dummy", "koi", c.stream} \/ (line.stream = "serial" /\ c.serial)
    BY <1>1, <1>2 DEF LineAt
  <1>4. piece \in Seq(Glyphs) /\ Len(piece) \in Nat /\ Tail(line.pieces) \in Seq(Seq(Glyphs)) /\ Len(line.pieces) > 0
    BY <1>2, <1>3
  <1>5. \E chars : /\ c' = Put(c, m, line.stream, chars) /\ Len(chars) \in Nat
                   /\ DOMAIN line' = {"stream", "pieces"} /\ line'.stream = line.stream
                   /\ line'.pieces \in Seq(Seq(Glyphs))
    <2>1. CASE where = "tty" /\ Len(piece) > 1
      <3>1. c' = Put(c, m, line.stream, <<Head(piece)>>) /\ line' = [line EXCEPT !.pieces[1] = Tail(@)]
        BY <2>1, Zenon DEF PutPiece
      <3>2. Tail(piece) \in Seq(Glyphs) /\ line.pieces[1] = piece
        <4>1. line.pieces[1] = piece
          BY <1>3, <1>4
        <4>2. Len(piece) > 1
          BY <2>1
        <4> HIDE DEF piece
        <4>3. piece # <<>>
          BY <4>2
        <4> QED
          BY <1>4, <4>1, <4>3
      <3>3. [line.pieces EXCEPT ![1] = Tail(piece)] \in Seq(Seq(Glyphs))
        BY <1>3, <1>4, <3>2
      <3>4. line'.pieces = [line.pieces EXCEPT ![1] = Tail(piece)] /\ DOMAIN line' = DOMAIN line /\ line'.stream = line.stream
        BY <1>3, <3>1, <3>2
      <3>5. Len(<<Head(piece)>>) = 1
        OBVIOUS
      <3> QED
        BY <1>3, <3>1, <3>3, <3>4, <3>5
    <2>2. CASE ~ (where = "tty" /\ Len(piece) > 1)
      <3>1. c' = Put(c, m, line.stream, piece) /\ line' = [line EXCEPT !.pieces = Tail(@)]
        BY <2>2, Zenon DEF PutPiece
      <3>2. line'.pieces = Tail(line.pieces) /\ DOMAIN line' = DOMAIN line /\ line'.stream = line.stream
        BY <1>3, <3>1
      <3> QED
        BY <1>3, <1>4, <3>1, <3>2
    <2> QED
      BY <2>1, <2>2
  <1>6. PICK chars : /\ c' = Put(c, m, line.stream, chars) /\ Len(chars) \in Nat
                     /\ DOMAIN line' = {"stream", "pieces"} /\ line'.stream = line.stream
                     /\ line'.pieces \in Seq(Seq(Glyphs))
    BY <1>5
  <1>7. pc \in Open \cup {"total", "vmm"} /\ pc \notin {"flags", "detach", "lost"}
    BY <1>3 DEF Open
  <1>8. /\ ScreensInv(c') /\ SameDevices(c, c') /\ c'.ll \in Nat
        /\ ConsoleAt(pc, c', cfg) /\ MemAt(pc, m, cfg, c')
        /\ c'.serial => Lossless(c')
        /\ c'.wild => c.stream = "tty" /\ (pc \in {"flags", "detach"} \/ pc = "choose")
    BY <1>2, <1>3, <1>6, <1>7, PrintKeeps
  <1>9. ~ c'.wild
    BY <1>3, <1>7, <1>8
  <1>10. LineAt(pc, line', c')
    BY <1>3, <1>6, <1>8 DEF LineAt, SameDevices
  <1> QED
    BY <1>1, <1>2, <1>7, <1>8, <1>9, <1>10 DEF BootInv

\* Lines of words.
LEMMA OneOf ==
  ASSUME NEW S, NEW u \in S
  PROVE  <<u>> \in Seq(S)
  OBVIOUS

LEMMA TwoOf ==
  ASSUME NEW S, NEW u \in S, NEW v \in S
  PROVE  <<u, v>> \in Seq(S)
  OBVIOUS

LEMMA ThreeOf ==
  ASSUME NEW S, NEW u \in S, NEW v \in S, NEW w \in S
  PROVE  <<u, v, w>> \in Seq(S)
  OBVIOUS

LEMMA LinesOf ==
  ASSUME NEW u \in Glyphs, NEW v \in Glyphs, NEW w \in Glyphs, NEW x \in Glyphs
  PROVE  /\ <<<<u>>, <<v>>>> \in Seq(Seq(Glyphs))
         /\ <<<<u>>, <<v, w>>, <<x>>>> \in Seq(Seq(Glyphs))
         /\ <<<<u, v>>>> \in Seq(Seq(Glyphs))
  <1>1. \A y \in Glyphs : <<y>> \in Seq(Glyphs)
    BY OneOf
  <1>2. \A y, z \in Glyphs : <<y, z>> \in Seq(Glyphs)
    BY TwoOf
  <1> DEFINE U == <<u>> V == <<v>> W == <<v, w>> X == <<x>> Y == <<u, v>>
  <1>3. {U, V, W, X, Y} \subseteq Seq(Glyphs)
    BY <1>1, <1>2
  <1> HIDE DEF U, V, W, X, Y
  <1>4. <<U, V>> \in Seq(Seq(Glyphs)) /\ <<U, W, X>> \in Seq(Seq(Glyphs)) /\ <<Y>> \in Seq(Seq(Glyphs))
    BY <1>3, OneOf, TwoOf, ThreeOf
  <1> QED
    BY <1>4 DEF U, V, W, X, Y

LEMMA QuietLine ==
  ASSUME NEW p, NEW l, NEW d, LineAt(p, l, d), l.pieces = <<>>, NEW q, NEW e
  PROVE  LineAt(q, l, e)
  BY DEF LineAt

LEMMA SpokenLine ==
  ASSUME NEW p, p \in {"total", "vmm", "tty", "choose", "pci", "initrd", "cli"}, NEW d,
         p = "choose" => d.stream # "tty",
         NEW l, NEW stream, NEW pieces \in Seq(Seq(Glyphs)), l = [stream |-> stream, pieces |-> pieces],
         stream \in {"dummy", "koi", d.stream} \/ (stream = "serial" /\ d.serial)
  PROVE  LineAt(p, l, d)
  BY DEF LineAt

LEMMA StepIs ==
  ASSUME BootInv, NEW from, NEW to, Step(from, to)
  PROVE  /\ pc = from /\ pc' = to /\ cfg' = cfg /\ irqs' = irqs /\ line.pieces = <<>> /\ ~ c.wild /\ Calm(m)
         /\ Configured(cfg) /\ ScreensInv(c) /\ c.ll \in Nat /\ irqs \in Nat
         /\ ConsoleAt(from, c, cfg) /\ MemAt(from, m, cfg, c) /\ LineAt(from, line, c)
         /\ iflag => from \in Open
         /\ c.serial => Lossless(c)
         /\ \A p, d : LineAt(p, line, d)
  <1>1. pc = from /\ pc' = to /\ cfg' = cfg /\ irqs' = irqs /\ line.pieces = <<>> /\ ~ c.wild
    BY DEF Step, Fine
  <1>2. \A p, d : LineAt(p, line, d)
    BY <1>1, QuietLine DEF BootInv
  <1> QED
    BY <1>1, <1>2 DEF BootInv

\* A step that leaves the console and the memory alone.
Onward(from, to) ==
  \/ from \in Booted \ {"koi"} /\ to \in Booted \ {"koi"}
  \/ from = "sti" /\ to = "flags"
  \/ from = "parameters" /\ to = "tty"
  \/ from \in Settled /\ to \in Settled

LEMMA OnwardKeeps ==
  ASSUME BootInv, NEW from, NEW to, Step(from, to), Onward(from, to), c' = c, m' = m,
         LineAt(to, line', c), iflag' => to \in Open
  PROVE  BootInv'
  <1>1. /\ pc' = to /\ cfg' = cfg /\ irqs' = irqs /\ ~ c.wild /\ Calm(m)
        /\ Configured(cfg) /\ ScreensInv(c) /\ c.ll \in Nat /\ irqs \in Nat
        /\ ConsoleAt(from, c, cfg) /\ MemAt(from, m, cfg, c)
        /\ c.serial => Lossless(c)
    BY StepIs
  <1>2. ConsoleAt(to, c, cfg) /\ MemAt(to, m, cfg, c) /\ to # "lost"
    <2>1. CASE from \in Booted \ {"koi"} /\ to \in Booted \ {"koi"}
      <3>1. c.tty = "text" /\ c.fb = "low" /\ c.stream = Home(cfg) /\ c.serial = cfg.port
        BY <1>1, <2>1 DEF ConsoleAt, Booted
      <3>2. Booting(m, cfg.image)
        BY <1>1, <2>1 DEF MemAt
      <3> QED
        BY <2>1, <3>1, <3>2 DEF ConsoleAt, MemAt, Booted, Settled, Late
    <2>2. CASE from = "sti" /\ to = "flags"
      <3>1. c.tty = "text" /\ c.fb = "low" /\ c.stream = Home(cfg) /\ c.serial = cfg.port
        BY <1>1, <2>2 DEF ConsoleAt
      <3>2. LateMem(m, cfg.image, cfg.pts, Final(cfg.image, cfg.pts, c.fb, c.tty))
        BY <1>1, <2>2 DEF MemAt, Late
      <3> QED
        BY <2>2, <3>1, <3>2 DEF ConsoleAt, MemAt, Booted, Settled
    <2>3. CASE from = "parameters" /\ to = "tty"
      <3>1. c.tty = "text" /\ c.fb = "low" /\ c.stream = Away(cfg) /\ c.serial = cfg.port
        BY <1>1, <2>3 DEF ConsoleAt
      <3>2. LateMem(m, cfg.image, cfg.pts, Final(cfg.image, cfg.pts, c.fb, c.tty))
        BY <1>1, <2>3 DEF MemAt, Late
      <3> QED
        BY <2>3, <3>1, <3>2 DEF ConsoleAt, MemAt, Booted, Settled, Paging
    <2>4. CASE from \in Settled /\ to \in Settled
      <3>1. /\ (c.stream = "serial" /\ c.serial) \/ (c.stream = "tty" /\ Moved(c))
            /\ ~ (c.fb = "va" /\ c.tty = "video") /\ c.serial = cfg.port
        BY <1>1, <2>4 DEF ConsoleAt, Settled
      <3>2. LateMem(m, cfg.image, cfg.pts, Final(cfg.image, cfg.pts, c.fb, c.tty))
        BY <1>1, <2>4 DEF MemAt, Late, Settled
      <3> QED
        BY <2>4, <3>1, <3>2 DEF ConsoleAt, MemAt, Booted, Settled, Paging
    <2> QED
      BY <2>1, <2>2, <2>3, <2>4 DEF Onward
  <1> QED
    BY <1>1, <1>2 DEF BootInv

LEMMA OnwardSteps ==
  ASSUME BootInv,
         PrintMap \/ PrintTotal \/ Sti \/ PrintParameters \/ PrintBanner \/ ScanPci \/ DumpInitrd \/ Cli \/ ExecTask
  PROVE  BootInv'
  <1>1. c.ll \in Nat
    BY DEF BootInv
  <1>2. \A level \in Nat : Stream(c, level) \in {"dummy", "koi", c.stream} \/ (Stream(c, level) = "serial" /\ c.serial)
    BY <1>1, StreamIs
  <1>3. CASE PrintMap
    <2> DEFINE pieces == <<<<"m">>, <<LF>>>>
    <2>1. Step("map", "total") /\ line' = [stream |-> Stream(c, debug), pieces |-> pieces] /\ c' = c /\ m' = m /\ iflag' = iflag
      BY <1>3 DEF PrintMap, Say
    <2>2. pieces \in Seq(Seq(Glyphs))
      <3>1. {"m", LF} \subseteq Glyphs
        BY DEF Glyphs
      <3> QED
        BY <3>1, LinesOf
    <2> HIDE DEF pieces
    <2>3. LineAt("total", line', c)
      BY <1>2, <2>1, <2>2, SpokenLine, Levels
    <2>4. ~ iflag
      <3>1. iflag => "map" \in Open
        BY <2>1, StepIs
      <3> QED
        BY <3>1 DEF Open
    <2> QED
      BY <2>1, <2>3, <2>4, OnwardKeeps DEF Onward, Booted
  <1>4. CASE PrintTotal
    <2> DEFINE pieces == <<<<"t">>, <<"1", "2">>, <<LF>>>>
    <2>1. Step("total", "vmm") /\ line' = [stream |-> Stream(c, notice), pieces |-> pieces] /\ c' = c /\ m' = m /\ iflag' = iflag
      BY <1>4 DEF PrintTotal, Say
    <2>2. pieces \in Seq(Seq(Glyphs))
      <3>1. {"t", "1", "2", LF} \subseteq Glyphs
        BY DEF Glyphs
      <3> QED
        BY <3>1, LinesOf
    <2> HIDE DEF pieces
    <2>3. LineAt("vmm", line', c)
      BY <1>2, <2>1, <2>2, SpokenLine, Levels
    <2>4. ~ iflag
      <3>1. iflag => "total" \in Open
        BY <2>1, StepIs
      <3> QED
        BY <3>1 DEF Open
    <2> QED
      BY <2>1, <2>3, <2>4, OnwardKeeps DEF Onward, Booted
  <1>5. CASE Sti
    <2>1. Step("sti", "flags") /\ iflag' = TRUE /\ c' = c /\ m' = m /\ line' = line
      BY <1>5 DEF Sti
    <2>2. LineAt("flags", line', c)
      BY <2>1, StepIs
    <2> QED
      BY <2>1, <2>2, OnwardKeeps DEF Onward, Open
  <1>6. CASE PrintParameters
    <2> DEFINE pieces == <<<<"v">>, <<LF>>>>
    <2>1. /\ Step("parameters", "tty") /\ c' = c /\ m' = m
          /\ line' = line \/ line' = [stream |-> Stream(c, debug), pieces |-> pieces]
      BY <1>6 DEF PrintParameters, Say
    <2>2. pieces \in Seq(Seq(Glyphs))
      <3>1. {"v", LF} \subseteq Glyphs
        BY DEF Glyphs
      <3> QED
        BY <3>1, LinesOf
    <2> HIDE DEF pieces
    <2>3. LineAt("tty", line', c)
      <3>1. LineAt("tty", line, c)
        BY <2>1, StepIs
      <3> QED
        BY <1>2, <2>1, <2>2, <3>1, SpokenLine, Levels
    <2> QED
      BY <2>1, <2>3, OnwardKeeps DEF Onward, Open
  <1>7. CASE PrintBanner
    <2> DEFINE pieces == <<<<LF>>, <<"g", "r">>, <<LF>>>>
    <2>1. Step("banner", "pci") /\ line' = [stream |-> Stream(c, notice), pieces |-> pieces] /\ c' = c /\ m' = m
      BY <1>7 DEF PrintBanner, Say
    <2>2. pieces \in Seq(Seq(Glyphs))
      <3>1. {LF, "g", "r"} \subseteq Glyphs
        BY DEF Glyphs
      <3> QED
        BY <3>1, LinesOf
    <2> HIDE DEF pieces
    <2>3. LineAt("pci", line', c)
      BY <1>2, <2>1, <2>2, SpokenLine, Levels
    <2> QED
      BY <2>1, <2>3, OnwardKeeps DEF Onward, Settled, Open
  <1>8. CASE ScanPci
    <2> DEFINE pieces == <<<<"p">>, <<LF>>>>
    <2>1. Step("pci", "initrd") /\ line' = [stream |-> Stream(c, null), pieces |-> pieces] /\ c' = c /\ m' = m
      BY <1>8 DEF ScanPci, Say
    <2>2. pieces \in Seq(Seq(Glyphs))
      <3>1. {"p", LF} \subseteq Glyphs
        BY DEF Glyphs
      <3> QED
        BY <3>1, LinesOf
    <2> HIDE DEF pieces
    <2>3. LineAt("initrd", line', c)
      BY <1>2, <2>1, <2>2, SpokenLine, Levels
    <2> QED
      BY <2>1, <2>3, OnwardKeeps DEF Onward, Settled, Open
  <1>9. CASE DumpInitrd
    <2> DEFINE pieces == <<<<"f">>, <<LF>>>>
    <2>1. Step("initrd", "cli") /\ line' = [stream |-> "koi", pieces |-> pieces] /\ c' = c /\ m' = m
      BY <1>9 DEF DumpInitrd, Say
    <2>2. pieces \in Seq(Seq(Glyphs))
      <3>1. {"f", LF} \subseteq Glyphs
        BY DEF Glyphs
      <3> QED
        BY <3>1, LinesOf
    <2> HIDE DEF pieces
    <2>3. LineAt("cli", line', c)
      BY <2>1, <2>2, SpokenLine
    <2> QED
      BY <2>1, <2>3, OnwardKeeps DEF Onward, Settled, Open
  <1>10. CASE Cli
    <2>1. Step("cli", "sched") /\ iflag' = FALSE /\ c' = c /\ m' = m /\ line' = line
      BY <1>10 DEF Cli
    <2>2. LineAt("sched", line', c)
      BY <2>1, StepIs
    <2> QED
      BY <2>1, <2>2, OnwardKeeps DEF Onward, Settled
  <1>11. CASE ExecTask
    <2>1. Step("sched", "user") /\ iflag' = TRUE /\ c' = c /\ m' = m /\ line' = line
      BY <1>11 DEF ExecTask
    <2>2. LineAt("user", line', c)
      BY <2>1, StepIs
    <2> QED
      BY <2>1, <2>2, OnwardKeeps DEF Onward, Settled, Open
  <1> QED
    BY <1>3, <1>4, <1>5, <1>6, <1>7, <1>8, <1>9, <1>10, <1>11

\* What a step needs when it leaves the memory alone and prints nothing.
LEMMA QuietKeeps ==
  ASSUME BootInv, NEW from, NEW to, Step(from, to), line' = line, iflag' => to \in Open, to # "lost",
         Unprinted(c, c'), c'.ll \in Nat, ConsoleAt(to, c', cfg), Calm(m'), MemAt(to, m', cfg, c'),
         c'.serial => c.serial \/ Lossless(c), c'.wild => WildOk(to, c', cfg, irqs)
  PROVE  BootInv'
  <1>1. /\ pc' = to /\ cfg' = cfg /\ irqs' = irqs /\ Configured(cfg) /\ ScreensInv(c) /\ irqs \in Nat
        /\ c.serial => Lossless(c)
        /\ LineAt(to, line, c')
    BY StepIs
  <1>2. ScreensInv(c') /\ (Lossless(c) => Lossless(c'))
    BY <1>1, UnprintedKeeps
  <1> QED
    BY <1>1, <1>2 DEF BootInv

LEMMA StartConsoleKeeps == BootInv /\ StartConsole => BootInv'
  <1> SUFFICES ASSUME BootInv, StartConsole PROVE BootInv'
    OBVIOUS
  <1>1. Step("koi", "levels") /\ c' = KoiInit(c, cfg.port) /\ line' = line /\ iflag' = iflag /\ m' = m
    BY DEF StartConsole, Quiet
  <1>2. /\ ConsoleAt("koi", c, cfg) /\ MemAt("koi", m, cfg, c) /\ ScreensInv(c) /\ c.ll \in Nat /\ ~ c.wild
        /\ cfg.port \in BOOLEAN /\ Calm(m)
    BY <1>1, StepIs DEF Configured
  <1>3. ~ iflag
    <2>1. iflag => "koi" \in Open
      BY <1>1, StepIs
    <2> QED
      BY <2>1 DEF Open
  <1>4. c = NewConsole /\ DOMAIN c = ConsoleFields /\ c.fb = "low"
    <2>1. c = NewConsole
      BY <1>2 DEF ConsoleAt
    <2> QED
      BY <2>1 DEF NewConsole, ConsoleFields
  <1>5. Lossless(c)
    <2>1. c.said = 0 /\ c.wire = <<>> /\ c.typed.text = <<>> /\ c.typed.video = <<>>
      BY <1>4 DEF NewConsole
    <2> QED
      BY <2>1 DEF Lossless
  <1>6. /\ DOMAIN c' = DOMAIN c /\ c'.serial = cfg.port /\ c'.tty = "text" /\ c'.fb = "low" /\ c'.stream = Home(cfg)
        /\ c'.text = c.text /\ c'.video = c.video /\ c'.wire = c.wire /\ c'.typed = c.typed
        /\ c'.said = c.said /\ c'.wild = c.wild /\ c'.ll = c.ll
    BY <1>1, <1>4 DEF KoiInit, Home, ConsoleFields
  <1>7. Unprinted(c, c') /\ ~ c'.wild
    BY <1>2, <1>6 DEF Unprinted, ScreensInv
  <1>8. ConsoleAt("levels", c', cfg)
    BY <1>6 DEF ConsoleAt, Settled
  <1>9. MemAt("levels", m, cfg, c')
    <2>1. Booting(m, cfg.image)
      BY <1>2 DEF MemAt, Booted
    <2> QED
      BY <2>1 DEF MemAt, Late
  <1> QED
    BY <1>1, <1>2, <1>3, <1>5, <1>6, <1>7, <1>8, <1>9, QuietKeeps

LEMMA ReadLevelsKeeps == BootInv /\ ReadLevels => BootInv'
  <1> SUFFICES ASSUME BootInv, ReadLevels PROVE BootInv'
    OBVIOUS
  <1>1. Step("levels", "map") /\ c' = KoiLevels(c, cfg.cmdline) /\ line' = line /\ iflag' = iflag /\ m' = m
    BY DEF ReadLevels, Quiet
  <1>2. /\ ConsoleAt("levels", c, cfg) /\ MemAt("levels", m, cfg, c) /\ ScreensInv(c) /\ c.ll \in Nat /\ ~ c.wild
        /\ Calm(m)
    BY <1>1, StepIs
  <1>3. ~ iflag
    <2>1. iflag => "levels" \in Open
      BY <1>1, StepIs
    <2> QED
      BY <2>1 DEF Open
  <1>4. c' = c \/ \E l \in Nat : c' = [c EXCEPT !.ll = l]
    <2> DEFINE on == [critical |-> critical, error |-> error, warning |-> warning, notice |-> notice, debug |-> debug]
               S == {on[f] : f \in {g \in DOMAIN Flagged : Flagged[g] \in Given(cfg.cmdline)}}
               least == CHOOSE l \in S : \A k \in S : k =< l
    <2>1. c' = IF S = {} THEN c ELSE [c EXCEPT !.ll = least]
      BY <1>1 DEF KoiLevels
    <2>2. S \subseteq 0 .. 4
      <3>1. DOMAIN Flagged = {"critical", "error", "warning", "notice", "debug"}
        BY DEF Flagged
      <3>2. \A f \in DOMAIN Flagged : on[f] \in 0 .. 4
        BY <3>1 DEF critical, error, warning, notice, debug
      <3> HIDE DEF on
      <3> QED
        BY <3>2
    <2> HIDE DEF S
    <2>3. S # {} => least \in Nat
      <3> SUFFICES ASSUME S # {} PROVE least \in Nat
        OBVIOUS
      <3>1. \E l \in S : \A k \in S : k =< l
        <4> DEFINE T == {4 - k : k \in S}
        <4>1. T \subseteq Nat /\ T # {}
          <5>1. \A k \in S : 4 - k \in Nat
            BY <2>2
          <5>2. PICK k \in S : TRUE
            OBVIOUS
          <5>3. 4 - k \in T
            OBVIOUS
          <5> QED
            BY <5>1, <5>3
        <4>2. PICK t \in T : \A k \in T : t =< k
          BY <4>1, LeastOf
        <4>3. PICK l \in S : t = 4 - l
          BY <4>2
        <4>4. ASSUME NEW k \in S PROVE k =< l
          <5>1. 4 - k \in T
            OBVIOUS
          <5>2. t =< 4 - k
            BY <4>2, <5>1
          <5> QED
            BY <2>2, <4>3, <5>2
        <4> QED
          BY <4>4
      <3>2. least \in S
        BY <3>1
      <3> HIDE DEF least
      <3> QED
        BY <2>2, <3>2
    <2> HIDE DEF least
    <2> QED
      BY <2>1, <2>3
  <1>6. DOMAIN c = ConsoleFields
    BY <1>2 DEF ScreensInv
  <1>7. /\ DOMAIN c' = DOMAIN c /\ c'.serial = c.serial /\ c'.tty = c.tty /\ c'.fb = c.fb /\ c'.stream = c.stream
        /\ c'.text = c.text /\ c'.video = c.video /\ c'.wire = c.wire /\ c'.typed = c.typed
        /\ c'.said = c.said /\ c'.wild = c.wild /\ c'.ll \in Nat
    BY <1>2, <1>4, <1>6 DEF ConsoleFields
  <1>8. Unprinted(c, c') /\ ~ c'.wild
    BY <1>2, <1>7 DEF Unprinted, ScreensInv
  <1>9. ConsoleAt("map", c', cfg)
    BY <1>2, <1>7 DEF ConsoleAt, Booted, Settled
  <1>10. MemAt("map", m, cfg, c')
    <2>1. Booting(m, cfg.image)
      BY <1>2 DEF MemAt, Booted
    <2> QED
      BY <2>1 DEF MemAt, Late
  <1> QED
    BY <1>1, <1>2, <1>3, <1>7, <1>8, <1>9, <1>10, QuietKeeps

\* A step of Vmm's start.
LEMMA VmmStepKeeps ==
  ASSUME BootInv, NEW from, NEW to, NEW memory, VmmStep(from, to, memory),
         from \in Paging \cup {"vmm"}, to \in Paging \cup {"sti"},
         Calm(memory), MemAt(to, memory, cfg, c)
  PROVE  BootInv'
  <1>1. Step(from, to) /\ m' = memory /\ line' = line /\ iflag' = iflag /\ c' = c
    BY DEF VmmStep, Quiet
  <1>2. ConsoleAt(from, c, cfg) /\ ScreensInv(c) /\ c.ll \in Nat /\ ~ c.wild
    BY <1>1, StepIs
  <1>3. ~ iflag /\ to # "lost"
    <2>1. iflag => from \in Open
      BY <1>1, StepIs
    <2> QED
      BY <2>1 DEF Open, Paging
  <1>4. ConsoleAt(to, c, cfg)
    <2>1. c.tty = "text" /\ c.fb = "low" /\ c.stream = Home(cfg) /\ c.serial = cfg.port
      BY <1>2 DEF ConsoleAt, Booted, Paging
    <2> QED
      BY <2>1 DEF ConsoleAt, Booted, Paging, Settled
  <1>5. Unprinted(c, c)
    BY <1>2 DEF Unprinted, ScreensInv
  <1> QED
    BY <1>1, <1>2, <1>3, <1>4, <1>5, QuietKeeps

LEMMA VmmInitKeeps == BootInv /\ VmmInit => BootInv'
  <1> SUFFICES ASSUME BootInv, VmmInit PROVE BootInv'
    OBVIOUS
  <1> DEFINE image == cfg.image
             pts == cfg.pts
  <1>1. image \in Images /\ pts \in FreeRuns /\ MemAt(pc, m, cfg, c)
    BY ConfiguredIs DEF BootInv
  <1>2. \A from, to, memory : VmmStep(from, to, memory) => pc = from
    BY DEF VmmStep, Step
  <1>3. ConsoleAt(pc, c, cfg)
    BY DEF BootInv
  <1>4. CASE VmmStep("vmm", "hook", StartInit(m, image))
    <2>1. Booting(m, image)
      BY <1>1, <1>2, <1>4 DEF MemAt, Booted
    <2>2. AtHook(StartInit(m, image), image)
      BY <1>1, <2>1, StartInitIs
    <2>3. Calm(StartInit(m, image))
      BY <2>2 DEF AtHook, Booting, Base, Calm
    <2>4. MemAt("hook", StartInit(m, image), cfg, c)
      BY <2>2 DEF MemAt, Booted, Late
    <2> QED
      BY <1>4, <2>3, <2>4, VmmStepKeeps DEF Paging
  <1>5. CASE VmmStep("hook", "init_pt", HookInitPt(m, image))
    <2>1. AtHook(m, image)
      BY <1>1, <1>2, <1>5 DEF MemAt
    <2>2. AtInitPt(HookInitPt(m, image), image)
      BY <1>1, <2>1, HookIs
    <2>3. Calm(HookInitPt(m, image))
      BY <2>2 DEF AtInitPt, AtHook, Booting, Base, Calm
    <2>4. MemAt("init_pt", HookInitPt(m, image), cfg, c)
      BY <2>2 DEF MemAt, Booted, Late
    <2> QED
      BY <1>5, <2>3, <2>4, VmmStepKeeps DEF Paging
  <1>6. CASE VmmStep("init_pt", "clear", FillInitPt(m, image, pts))
    <2>1. AtInitPt(m, image)
      BY <1>1, <1>2, <1>6 DEF MemAt
    <2>2. AtClear(FillInitPt(m, image, pts), image, pts)
      BY <1>1, <2>1, FillPtIs
    <2>3. Calm(FillInitPt(m, image, pts))
      BY <2>2 DEF AtClear, Booting, Base, Calm
    <2>4. MemAt("clear", FillInitPt(m, image, pts), cfg, c)
      BY <2>2 DEF MemAt, Booted, Late
    <2> QED
      BY <1>6, <2>3, <2>4, VmmStepKeeps DEF Paging
  <1>7. CASE VmmStep("clear", "directory", ClearTables(m))
    <2>1. AtClear(m, image, pts)
      BY <1>1, <1>2, <1>7 DEF MemAt
    <2>2. AtDirectory(ClearTables(m), image, pts)
      BY <1>1, <2>1, ClearIs
    <2>3. Calm(ClearTables(m))
      BY <2>2 DEF AtDirectory, AtClear, Booting, Base, Calm
    <2>4. MemAt("directory", ClearTables(m), cfg, c)
      BY <2>2 DEF MemAt, Booted, Late
    <2> QED
      BY <1>7, <2>3, <2>4, VmmStepKeeps DEF Paging
  <1>8. CASE VmmStep("directory", "recursive", FillDirectory(m, image, pts))
    <2>1. AtDirectory(m, image, pts)
      BY <1>1, <1>2, <1>8 DEF MemAt
    <2>2. AtRecursive(FillDirectory(m, image, pts), image, pts)
      BY <1>1, <2>1, FillDirIs
    <2>3. Calm(FillDirectory(m, image, pts))
      BY <2>2 DEF AtRecursive, Booting, Base, Calm
    <2>4. MemAt("recursive", FillDirectory(m, image, pts), cfg, c)
      BY <2>2 DEF MemAt, Booted, Late
    <2> QED
      BY <1>8, <2>3, <2>4, VmmStepKeeps DEF Paging
  <1>9. CASE VmmStep("recursive", "kernel", CopyRec(m, image))
    <2>1. AtRecursive(m, image, pts)
      BY <1>1, <1>2, <1>9 DEF MemAt
    <2>2. AtTables(CopyRec(m, image), image, pts, Tables(pts))
      BY <1>1, <2>1, CopyRecIs
    <2>3. Calm(CopyRec(m, image))
      BY <2>2 DEF AtTables, Booting, Base, Calm
    <2>4. MemAt("kernel", CopyRec(m, image), cfg, c)
      BY <2>2 DEF MemAt, Booted, Late
    <2> QED
      BY <1>9, <2>3, <2>4, VmmStepKeeps DEF Paging
  <1>10. CASE VmmStep("kernel", "rodata", MapText(m, image))
    <2>1. AtTables(m, image, pts, Tables(pts))
      BY <1>1, <1>2, <1>10 DEF MemAt
    <2>2. AtTables(MapText(m, image), image, pts, OfText(image, pts))
      BY <1>1, <2>1, MapTextIs
    <2>3. Calm(MapText(m, image))
      BY <2>2 DEF AtTables, Booting, Base, Calm
    <2>4. MemAt("rodata", MapText(m, image), cfg, c)
      BY <2>2 DEF MemAt, Booted, Late
    <2> QED
      BY <1>10, <2>3, <2>4, VmmStepKeeps DEF Paging
  <1>11. CASE VmmStep("rodata", "data", MapRodata(m, image))
    <2>1. AtTables(m, image, pts, OfText(image, pts))
      BY <1>1, <1>2, <1>11 DEF MemAt
    <2>2. AtTables(MapRodata(m, image), image, pts, OfRodata(image, pts))
      BY <1>1, <2>1, MapRodataIs
    <2>3. Calm(MapRodata(m, image))
      BY <2>2 DEF AtTables, Booting, Base, Calm
    <2>4. MemAt("data", MapRodata(m, image), cfg, c)
      BY <2>2 DEF MemAt, Booted, Late
    <2> QED
      BY <1>11, <2>3, <2>4, VmmStepKeeps DEF Paging
  <1>12. CASE VmmStep("data", "stack", MapData(m, image))
    <2>1. AtTables(m, image, pts, OfRodata(image, pts))
      BY <1>1, <1>2, <1>12 DEF MemAt
    <2>2. AtTables(MapData(m, image), image, pts, OfData(image, pts))
      BY <1>1, <2>1, MapDataIs
    <2>3. Calm(MapData(m, image))
      BY <2>2 DEF AtTables, Booting, Base, Calm
    <2>4. MemAt("stack", MapData(m, image), cfg, c)
      BY <2>2 DEF MemAt, Booted, Late
    <2> QED
      BY <1>12, <2>3, <2>4, VmmStepKeeps DEF Paging
  <1>13. CASE VmmStep("stack", "switch", MapStack(m))
    <2>1. AtTables(m, image, pts, OfData(image, pts))
      BY <1>1, <1>2, <1>13 DEF MemAt
    <2>2. AtTables(MapStack(m), image, pts, OfStack(image, pts))
      BY <1>1, <2>1, MapStackIs
    <2>3. Calm(MapStack(m))
      BY <2>2 DEF AtTables, Booting, Base, Calm
    <2>4. MemAt("switch", MapStack(m), cfg, c)
      BY <2>2 DEF MemAt, Booted, Late
    <2> QED
      BY <1>13, <2>3, <2>4, VmmStepKeeps DEF Paging
  <1>14. CASE VmmStep("switch", "sti", switch_pd(m, kernel_pd(image)))
    <2>1. AtTables(m, image, pts, OfStack(image, pts))
      BY <1>1, <1>2, <1>14 DEF MemAt
    <2>2. LateMem(switch_pd(m, kernel_pd(image)), image, pts, OfStack(image, pts))
      BY <1>1, <2>1, SwitchIs
    <2>3. Calm(switch_pd(m, kernel_pd(image)))
      BY <2>2 DEF LateMem, Base, Calm
    <2>4. c.tty = "text" /\ c.fb = "low"
      BY <1>2, <1>3, <1>14 DEF ConsoleAt, Paging
    <2>5. Final(image, pts, c.fb, c.tty) = OfStack(image, pts)
      BY <2>4 DEF Final
    <2>6. MemAt("sti", switch_pd(m, kernel_pd(image)), cfg, c)
      BY <2>2, <2>5 DEF MemAt, Booted, Late
    <2> QED
      BY <1>14, <2>3, <2>6, VmmStepKeeps DEF Paging
  <1> QED
    BY <1>4, <1>5, <1>6, <1>7, <1>8, <1>9, <1>10, <1>11, <1>12, <1>13, <1>14 DEF VmmInit

LEMMA GetFlagsKeeps == BootInv /\ GetFlags => BootInv'
  <1> SUFFICES ASSUME BootInv, GetFlags PROVE BootInv'
    OBVIOUS
  <1>1. /\ Step("flags", "detach") /\ line' = line /\ iflag' = iflag /\ m' = m
        /\ c' = [c EXCEPT !.wild = (cfg.cmdline = Absent)]
    BY DEF GetFlags, Quiet
  <1>2. /\ ConsoleAt("flags", c, cfg) /\ MemAt("flags", m, cfg, c) /\ ScreensInv(c) /\ c.ll \in Nat /\ Calm(m)
    BY <1>1, StepIs
  <1>3. DOMAIN c = ConsoleFields
    BY <1>2 DEF ScreensInv
  <1>4. /\ SameDevices(c, c') /\ Unprinted(c, c') /\ (c'.wild => cfg.cmdline = Absent)
    <2>1. /\ DOMAIN c' = DOMAIN c /\ c'.serial = c.serial /\ c'.tty = c.tty /\ c'.fb = c.fb /\ c'.stream = c.stream
          /\ c'.text = c.text /\ c'.video = c.video /\ c'.wire = c.wire /\ c'.typed = c.typed
          /\ c'.said = c.said /\ c'.ll = c.ll /\ c'.wild = (cfg.cmdline = Absent)
      BY <1>1, <1>3 DEF ConsoleFields
    <2> QED
      BY <2>1 DEF SameDevices, Unprinted
  <1>5. ConsoleAt("flags", c', cfg) /\ MemAt("flags", m, cfg, c') /\ c'.ll \in Nat /\ c'.serial = c.serial
    BY <1>2, <1>4, SameConsole DEF SameDevices
  <1>6. ConsoleAt("detach", c', cfg)
    BY <1>5 DEF ConsoleAt, Booted, Settled
  <1>7. MemAt("detach", m, cfg, c')
    BY <1>5 DEF MemAt, Booted, Late
  <1>8. WildOk("detach", c', cfg, irqs) \/ ~ c'.wild
    BY <1>4 DEF WildOk
  <1>9. "detach" \in Open
    BY DEF Open
  <1> QED
    BY <1>1, <1>2, <1>4, <1>5, <1>6, <1>7, <1>8, <1>9, QuietKeeps

LEMMA TakeFromTtyKeeps == BootInv /\ TakeFromTty => BootInv'
  <1> SUFFICES ASSUME BootInv, TakeFromTty PROVE BootInv'
    OBVIOUS
  <1>1. \E to : Step("detach", to)
    BY DEF TakeFromTty
  <1>2. /\ ConsoleAt("detach", c, cfg) /\ MemAt("detach", m, cfg, c) /\ ScreensInv(c) /\ c.ll \in Nat /\ Calm(m)
        /\ ~ c.wild
    BY <1>1, StepIs
  <1>3. /\ c.tty = "text" /\ c.fb = "low" /\ c.stream = Home(cfg) /\ c.serial = cfg.port
        /\ LateMem(m, cfg.image, cfg.pts, Final(cfg.image, cfg.pts, c.fb, c.tty))
    BY <1>2 DEF ConsoleAt, MemAt, Late
  <1>4. line' = line /\ iflag' = iflag /\ m' = m
    BY DEF TakeFromTty, Quiet
  <1>5. {"choose", "parameters"} \subseteq Open
    BY DEF Open
  <1>6. CASE "serial" \in cfg.cmdline
    <2>1. Step("detach", "choose") /\ c' = c
      BY <1>6 DEF TakeFromTty
    <2>2. ConsoleAt("choose", c, cfg)
      BY <1>3, <1>6 DEF ConsoleAt, Booted, Paging, Settled
    <2>3. MemAt("choose", m, cfg, c)
      BY <1>3 DEF MemAt, Booted
    <2>4. Unprinted(c, c)
      BY <1>2 DEF Unprinted, ScreensInv
    <2> QED
      BY <1>2, <1>4, <1>5, <2>1, <2>2, <2>3, <2>4, QuietKeeps
  <1>7. CASE "serial" \notin cfg.cmdline
    <2>1. Step("detach", "parameters") /\ c' = Detach(c)
      BY <1>7 DEF TakeFromTty
    <2>2. DOMAIN c = ConsoleFields
      BY <1>2 DEF ScreensInv
    <2>3. /\ DOMAIN c' = DOMAIN c /\ c'.serial = c.serial /\ c'.tty = c.tty /\ c'.fb = c.fb /\ c'.stream = Away(cfg)
          /\ c'.text = c.text /\ c'.video = c.video /\ c'.wire = c.wire /\ c'.typed = c.typed
          /\ c'.said = c.said /\ c'.ll = c.ll /\ c'.wild = c.wild
      BY <1>3, <2>1, <2>2 DEF ConsoleFields, Detach, Home, Away
    <2>4. ConsoleAt("parameters", c', cfg)
      BY <1>3, <2>3 DEF ConsoleAt, Booted, Paging, Settled
    <2>5. MemAt("parameters", m, cfg, c')
      BY <1>3, <2>3 DEF MemAt, Booted
    <2>6. Unprinted(c, c') /\ ~ c'.wild /\ c'.ll \in Nat
      BY <1>2, <2>3 DEF Unprinted, ScreensInv
    <2> QED
      BY <1>2, <1>4, <1>5, <2>1, <2>3, <2>4, <2>5, <2>6, QuietKeeps
  <1> QED
    BY <1>6, <1>7

\* What a step needs when it starts a line.
LEMMA SayKeeps ==
  ASSUME BootInv, NEW from, NEW to, Step(from, to), LineAt(to, line', c'), iflag' => to \in Open, to # "lost",
         Unprinted(c, c'), c'.ll \in Nat, ConsoleAt(to, c', cfg), Calm(m'), MemAt(to, m', cfg, c'),
         c'.serial => c.serial, ~ c'.wild
  PROVE  BootInv'
  <1>1. /\ pc' = to /\ cfg' = cfg /\ irqs' = irqs /\ Configured(cfg) /\ ScreensInv(c) /\ irqs \in Nat
        /\ c.serial => Lossless(c)
    BY StepIs
  <1>2. ScreensInv(c') /\ (Lossless(c) => Lossless(c'))
    BY <1>1, UnprintedKeeps
  <1> QED
    BY <1>1, <1>2 DEF BootInv

\* Before the terminal starts again.
LEMMA AtTty ==
  ASSUME BootInv, NEW to, Step("tty", to)
  PROVE  /\ ScreensInv(c) /\ c.ll \in Nat /\ ~ c.wild /\ DOMAIN c = ConsoleFields
         /\ c.tty = "text" /\ c.fb = "low" /\ c.stream = Away(cfg) /\ c.stream # "tty" /\ c.serial = cfg.port
         /\ Calm(m) /\ cfg.image \in Images /\ cfg.pts \in FreeRuns
         /\ LateMem(m, cfg.image, cfg.pts, OfStack(cfg.image, cfg.pts))
  <1>1. /\ ConsoleAt("tty", c, cfg) /\ MemAt("tty", m, cfg, c) /\ ScreensInv(c) /\ c.ll \in Nat /\ Calm(m)
        /\ ~ c.wild /\ Configured(cfg)
    BY StepIs
  <1>2. c.tty = "text" /\ c.fb = "low" /\ c.stream = Away(cfg) /\ c.serial = cfg.port
    BY <1>1 DEF ConsoleAt
  <1>3. LateMem(m, cfg.image, cfg.pts, Final(cfg.image, cfg.pts, c.fb, c.tty))
    BY <1>1 DEF MemAt, Late
  <1>4. Final(cfg.image, cfg.pts, c.fb, c.tty) = OfStack(cfg.image, cfg.pts)
    BY <1>2 DEF Final
  <1>5. Away(cfg) # "tty"
    BY DEF Away
  <1> QED
    BY <1>1, <1>2, <1>3, <1>4, <1>5, ConfiguredIs DEF ScreensInv

LEMMA StartTextKeeps == BootInv /\ StartText => BootInv'
  <1> SUFFICES ASSUME BootInv, StartText PROVE BootInv'
    OBVIOUS
  <1>1. Step("tty", "choose") /\ line' = line /\ iflag' = iflag /\ m' = MapTextScreen(m) /\ c' = TextMoved(c)
    BY DEF StartText, Quiet
  <1>2. /\ ScreensInv(c) /\ c.ll \in Nat /\ ~ c.wild /\ DOMAIN c = ConsoleFields
        /\ c.tty = "text" /\ c.fb = "low" /\ c.stream = Away(cfg) /\ c.serial = cfg.port
        /\ cfg.image \in Images /\ cfg.pts \in FreeRuns
        /\ LateMem(m, cfg.image, cfg.pts, OfStack(cfg.image, cfg.pts))
    BY <1>1, AtTty
  <1>3. /\ DOMAIN c' = DOMAIN c /\ c'.serial = c.serial /\ c'.tty = c.tty /\ c'.fb = "va" /\ c'.stream = c.stream
        /\ c'.text = c.text /\ c'.video = c.video /\ c'.wire = c.wire /\ c'.typed = c.typed
        /\ c'.said = c.said /\ c'.ll = c.ll /\ c'.wild = c.wild
    BY <1>1, <1>2 DEF ConsoleFields, TextMoved
  <1>4. LateMem(m', cfg.image, cfg.pts, Final(cfg.image, cfg.pts, "va", c.tty))
    BY <1>1, <1>2, ScreenMapped
  <1>5. Calm(m')
    BY <1>4 DEF LateMem, Base, Calm
  <1>6. MemAt("choose", m', cfg, c')
    BY <1>3, <1>4 DEF MemAt, Booted
  <1>7. ConsoleAt("choose", c', cfg)
    BY <1>2, <1>3 DEF ConsoleAt, Moved, Booted, Paging, Settled
  <1>8. Unprinted(c, c') /\ ~ c'.wild /\ c'.ll \in Nat
    BY <1>2, <1>3 DEF Unprinted, ScreensInv
  <1>9. "choose" \in Open
    BY DEF Open
  <1> QED
    BY <1>1, <1>3, <1>5, <1>6, <1>7, <1>8, <1>9, QuietKeeps

LEMMA StartVideoKeeps == BootInv /\ StartVideo => BootInv'
  <1> SUFFICES ASSUME BootInv, StartVideo PROVE BootInv'
    OBVIOUS
  <1>1. Step("tty", "choose") /\ line' = line /\ iflag' = iflag /\ m' = MapVideoScreen(m) /\ c' = VideoReady(c)
    BY DEF StartVideo, Quiet
  <1>2. /\ ScreensInv(c) /\ c.ll \in Nat /\ ~ c.wild /\ DOMAIN c = ConsoleFields
        /\ c.tty = "text" /\ c.fb = "low" /\ c.stream = Away(cfg) /\ c.serial = cfg.port
        /\ cfg.image \in Images /\ cfg.pts \in FreeRuns
        /\ LateMem(m, cfg.image, cfg.pts, OfStack(cfg.image, cfg.pts))
    BY <1>1, AtTty
  <1>3. /\ DOMAIN c' = DOMAIN c /\ c'.serial = c.serial /\ c'.tty = "video" /\ c'.fb = c.fb /\ c'.stream = c.stream
        /\ c'.text = c.text /\ c'.video = c.video /\ c'.wire = c.wire /\ c'.typed = c.typed
        /\ c'.said = c.said /\ c'.ll = c.ll /\ c'.wild = c.wild
    BY <1>1, <1>2 DEF ConsoleFields, VideoReady
  <1>4. LateMem(m', cfg.image, cfg.pts, Final(cfg.image, cfg.pts, c.fb, "video"))
    <2>1. c.fb # "va"
      BY <1>2
    <2> QED
      BY <1>1, <1>2, <2>1, ScreenMapped
  <1>5. Calm(m')
    BY <1>4 DEF LateMem, Base, Calm
  <1>6. MemAt("choose", m', cfg, c')
    BY <1>3, <1>4 DEF MemAt, Booted
  <1>7. ConsoleAt("choose", c', cfg)
    BY <1>2, <1>3 DEF ConsoleAt, Moved, Booted, Paging, Settled
  <1>8. Unprinted(c, c') /\ ~ c'.wild /\ c'.ll \in Nat
    BY <1>2, <1>3 DEF Unprinted, ScreensInv
  <1>9. "choose" \in Open
    BY DEF Open
  <1> QED
    BY <1>1, <1>3, <1>5, <1>6, <1>7, <1>8, <1>9, QuietKeeps

LEMMA VideoUnusableKeeps == BootInv /\ VideoUnusable => BootInv'
  <1> SUFFICES ASSUME BootInv, VideoUnusable PROVE BootInv'
    OBVIOUS
  <1> DEFINE pieces == <<<<"w", LF>>>>
  <1>1. /\ Step("tty", "choose") /\ line' = [stream |-> Stream(c, warning), pieces |-> pieces]
        /\ iflag' = iflag /\ m' = m /\ c' = NoTerminal(c)
    BY DEF VideoUnusable, Say
  <1>2. pieces \in Seq(Seq(Glyphs))
    <2>1. {"w", LF} \subseteq Glyphs
      BY DEF Glyphs
    <2> QED
      BY <2>1, LinesOf
  <1> HIDE DEF pieces
  <1>3. /\ ScreensInv(c) /\ c.ll \in Nat /\ ~ c.wild /\ DOMAIN c = ConsoleFields
        /\ c.tty = "text" /\ c.fb = "low" /\ c.stream = Away(cfg) /\ c.stream # "tty" /\ c.serial = cfg.port
        /\ Calm(m) /\ cfg.image \in Images /\ cfg.pts \in FreeRuns
        /\ LateMem(m, cfg.image, cfg.pts, OfStack(cfg.image, cfg.pts))
    BY <1>1, AtTty
  <1>4. /\ DOMAIN c' = DOMAIN c /\ c'.serial = c.serial /\ c'.tty = "none" /\ c'.fb = c.fb /\ c'.stream = c.stream
        /\ c'.text = c.text /\ c'.video = c.video /\ c'.wire = c.wire /\ c'.typed = c.typed
        /\ c'.said = c.said /\ c'.ll = c.ll /\ c'.wild = c.wild
    BY <1>1, <1>3 DEF ConsoleFields, NoTerminal
  <1>5. Final(cfg.image, cfg.pts, c'.fb, c'.tty) = OfStack(cfg.image, cfg.pts)
    BY <1>3, <1>4 DEF Final
  <1>6. MemAt("choose", m', cfg, c')
    BY <1>1, <1>3, <1>5 DEF MemAt, Booted
  <1>7. ConsoleAt("choose", c', cfg)
    BY <1>3, <1>4 DEF ConsoleAt, Booted, Paging, Settled
  <1>8. Unprinted(c, c') /\ ~ c'.wild /\ c'.ll \in Nat
    BY <1>3, <1>4 DEF Unprinted, ScreensInv
  <1>9. "choose" \in Open
    BY DEF Open
  <1>10. LineAt("choose", line', c')
    <2>1. Stream(c, warning) \in {"dummy", "koi", c'.stream} \/ (Stream(c, warning) = "serial" /\ c'.serial)
      BY <1>3, <1>4, StreamIs, Levels
    <2> QED
      BY <1>1, <1>2, <1>3, <1>4, <2>1, SpokenLine
  <1> QED
    BY <1>1, <1>3, <1>4, <1>6, <1>7, <1>8, <1>9, <1>10, SayKeeps

LEMMA ChooseKeeps == BootInv /\ Choose => BootInv'
  <1> SUFFICES ASSUME BootInv, Choose PROVE BootInv'
    OBVIOUS
  <1> DEFINE s == Chosen(c, cfg.cmdline)
  <1>1. /\ line' = line /\ m' = m
        /\ \/ s = "none" /\ Step("choose", "hung") /\ iflag' = FALSE /\ c' = c
           \/ s # "none" /\ Step("choose", "banner") /\ c' = [c EXCEPT !.stream = s] /\ iflag' = iflag
    BY DEF Choose
  <1>2. \E to : Step("choose", to)
    BY <1>1
  <1>3. /\ ConsoleAt("choose", c, cfg) /\ MemAt("choose", m, cfg, c) /\ ScreensInv(c) /\ c.ll \in Nat /\ Calm(m)
        /\ ~ c.wild
    BY <1>2, StepIs
  <1>4. DOMAIN c = ConsoleFields /\ c.serial = cfg.port /\ ~ (c.fb = "va" /\ c.tty = "video")
    BY <1>3 DEF ScreensInv, ConsoleAt
  <1>5. CASE s = "none"
    <2>1. Step("choose", "hung") /\ iflag' = FALSE /\ c' = c
      BY <1>1, <1>5
    <2>2. ConsoleAt("hung", c, cfg) /\ MemAt("hung", m, cfg, c)
      BY <1>4 DEF ConsoleAt, MemAt, Booted, Paging, Settled, Late
    <2>3. Unprinted(c, c)
      BY <1>3 DEF Unprinted, ScreensInv
    <2> HIDE DEF s
    <2> QED
      BY <1>1, <1>3, <2>1, <2>2, <2>3, QuietKeeps
  <1>6. CASE s # "none"
    <2>1. Step("choose", "banner") /\ c' = [c EXCEPT !.stream = s] /\ iflag' = iflag
      BY <1>1, <1>6
    <2>2. \/ s = "tty" /\ "serial" \notin cfg.cmdline /\ c.tty # "none"
          \/ s = "serial" /\ c.serial
      <3>1. \/ s = "tty" /\ "serial" \notin cfg.cmdline /\ c.tty # "none"
            \/ s = "serial" /\ ("serial" \in cfg.cmdline \/ c.tty = "none") /\ c.serial
            \/ s = "none"
        BY DEF Chosen
      <3> HIDE DEF s
      <3> QED
        BY <1>6, <3>1
    <2> HIDE DEF s
    <2>3. /\ DOMAIN c' = DOMAIN c /\ c'.serial = c.serial /\ c'.tty = c.tty /\ c'.fb = c.fb /\ c'.stream = s
          /\ c'.text = c.text /\ c'.video = c.video /\ c'.wire = c.wire /\ c'.typed = c.typed
          /\ c'.said = c.said /\ c'.ll = c.ll /\ c'.wild = c.wild
      BY <1>4, <2>1 DEF ConsoleFields
    <2>4. s = "tty" => Moved(c)
      BY <1>3, <2>2 DEF ConsoleAt
    <2>5. Moved(c') <=> Moved(c)
      BY <2>3 DEF Moved
    <2>6. ConsoleAt("banner", c', cfg)
      BY <1>4, <2>2, <2>3, <2>4, <2>5 DEF ConsoleAt, Booted, Paging, Settled
    <2>7. MemAt("banner", m, cfg, c')
      <3>1. LateMem(m, cfg.image, cfg.pts, Final(cfg.image, cfg.pts, c.fb, c.tty))
        BY <1>3 DEF MemAt, Late
      <3> QED
        BY <2>3, <3>1 DEF MemAt, Booted
    <2>8. Unprinted(c, c') /\ ~ c'.wild /\ c'.ll \in Nat
      BY <1>3, <2>3 DEF Unprinted, ScreensInv
    <2>9. "banner" \in Open
      BY DEF Open
    <2> QED
      BY <1>1, <1>3, <2>1, <2>3, <2>6, <2>7, <2>8, <2>9, QuietKeeps
  <1> QED
    BY <1>5, <1>6

LEMMA UserPrintKeeps == BootInv /\ UserPrint => BootInv'
  <1> SUFFICES ASSUME BootInv, UserPrint PROVE BootInv'
    OBVIOUS
  <1>1. PICK text \in Texts : c' = Put(c, m, "koi", text)
    BY DEF UserPrint
  <1>2. /\ pc = "user" /\ ~ c.wild /\ pc' = pc /\ m' = m /\ line' = line /\ iflag' = iflag /\ cfg' = cfg /\ irqs' = irqs
    BY DEF UserPrint, Fine
  <1>3. Len(text) \in Nat
    BY BootAssumption
  <1>4. pc \in Open
    BY <1>2 DEF Open
  <1>5. /\ ScreensInv(c') /\ SameDevices(c, c') /\ c'.ll \in Nat
        /\ ConsoleAt(pc, c', cfg) /\ MemAt(pc, m, cfg, c')
        /\ c'.serial => Lossless(c')
        /\ c'.wild => pc \in {"flags", "detach"} \/ pc = "choose"
    BY <1>1, <1>2, <1>3, <1>4, PrintKeeps
  <1>6. ~ c'.wild
    BY <1>2, <1>5
  <1>7. LineAt(pc, line, c')
    BY <1>2 DEF BootInv, LineAt
  <1>8. Configured(cfg) /\ Calm(m) /\ irqs \in Nat
    BY DEF BootInv
  <1> QED
    BY <1>2, <1>4, <1>5, <1>6, <1>7, <1>8 DEF BootInv

LEMMA IrqKeeps == BootInv /\ Irq => BootInv'
  <1> SUFFICES ASSUME BootInv, Irq PROVE BootInv'
    OBVIOUS
  <1> DEFINE chars == <<"i", LF>>
             stream == Stream(c, warning)
  <1>1. /\ iflag /\ ~ c.wild /\ pc' = pc /\ m' = m /\ line' = line /\ iflag' = iflag /\ cfg' = cfg /\ irqs' = irqs + 1
        /\ c' = Put(c, m, stream, chars)
    BY DEF Irq, Fine
  <1>2. Len(chars) \in Nat
    OBVIOUS
  <1> HIDE DEF chars
  <1>3. /\ Configured(cfg) /\ Calm(m) /\ irqs \in Nat /\ pc \in Open /\ c.ll \in Nat /\ LineAt(pc, line, c)
    BY <1>1 DEF BootInv
  <1>4. stream \in {"dummy", "koi", c.stream} \/ (stream = "serial" /\ c.serial)
    BY <1>3, StreamIs, Levels
  <1> HIDE DEF stream
  <1>5. /\ ScreensInv(c') /\ SameDevices(c, c') /\ c'.ll \in Nat
        /\ ConsoleAt(pc, c', cfg) /\ MemAt(pc, m, cfg, c')
        /\ c'.serial => Lossless(c')
        /\ c'.wild => /\ c.stream = "tty" /\ c.fb = "low" /\ ~ cfg.port
                      /\ pc \in {"flags", "detach"} \/ (pc = "choose" /\ "serial" \in cfg.cmdline)
    BY <1>1, <1>2, <1>3, <1>4, PrintKeeps
  <1>6. pc # "lost"
    BY <1>3 DEF Open
  <1>7. c'.wild => WildOk(pc, c', cfg, irqs + 1)
    BY <1>3, <1>5 DEF WildOk, SameDevices
  <1>8. LineAt(pc, line, c')
    BY <1>3, <1>5 DEF LineAt, SameDevices
  <1>9. irqs + 1 \in Nat
    BY <1>3
  <1> QED
    BY <1>1, <1>3, <1>5, <1>6, <1>7, <1>8, <1>9 DEF BootInv

LEMMA ExceptionKeeps == BootInv /\ Exception => BootInv'
  <1> SUFFICES ASSUME BootInv, Exception PROVE BootInv'
    OBVIOUS
  <1> DEFINE chars == <<LF, "x">>
  <1>1. PICK calm : calm = [c EXCEPT !.wild = FALSE]
    OBVIOUS
  <1>2. PICK stream : stream = Stream(calm, critical)
    OBVIOUS
  <1>3. /\ c' = Put(calm, m, stream, chars) /\ pc' = (IF c'.wild THEN "lost" ELSE "panic")
        /\ m' = [m EXCEPT !.fault = FALSE] /\ iflag' = FALSE /\ line' = NoLine /\ cfg' = cfg /\ irqs' = irqs
        /\ ~ Fine /\ pc \notin {"panic", "lost"}
    BY <1>1, <1>2 DEF Exception
  <1>4. Len(chars) \in Nat
    OBVIOUS
  <1> HIDE DEF chars
  <1>5. /\ Configured(cfg) /\ Calm(m) /\ irqs \in Nat /\ c.ll \in Nat /\ ScreensInv(c)
        /\ ConsoleAt(pc, c, cfg) /\ (c.serial => Lossless(c))
    BY DEF BootInv
  <1>6. c.wild /\ WildOk(pc, c, cfg, irqs)
    BY <1>3, <1>5 DEF BootInv, Fine, Calm
  <1>7. pc # "koi"
    <2>1. NewConsole.wild = FALSE
      BY DEF NewConsole
    <2> QED
      BY <1>5, <1>6, <2>1 DEF ConsoleAt
  <1>8. DOMAIN c = ConsoleFields
    BY <1>5 DEF ScreensInv
  <1>9. /\ DOMAIN calm = DOMAIN c /\ calm.serial = c.serial /\ calm.tty = c.tty /\ calm.fb = c.fb
        /\ calm.stream = c.stream /\ calm.text = c.text /\ calm.video = c.video /\ calm.wire = c.wire
        /\ calm.typed = c.typed /\ calm.said = c.said /\ calm.ll = c.ll /\ calm.wild = FALSE
    BY <1>1, <1>8 DEF ConsoleFields
  <1>10. ScreensInv(calm) /\ (Lossless(c) => Lossless(calm)) /\ SameDevices(c, calm)
    BY <1>5, <1>9, UnprintedKeeps DEF Unprinted, SameDevices
  <1>11. Kept(calm, m, stream, c')
    BY <1>3, <1>4, <1>10, PutKeeps
  <1>12. /\ ScreensInv(c') /\ SameDevices(calm, c')
         /\ Routed(calm, m, stream) /\ Lossless(calm) => Lossless(c')
    BY <1>9, <1>11 DEF Kept
  <1>13. c'.serial => Lossless(c')
    <2>1. calm.serial => stream = "serial"
      BY <1>2, <1>5, <1>9, StreamIs, Levels
    <2>2. stream = "serial" => Routed(calm, m, stream)
      BY DEF Routed, Where
    <2> QED
      BY <1>5, <1>9, <1>10, <1>12, <2>1, <2>2 DEF SameDevices
  <1>14. /\ c'.serial = c.serial /\ c'.tty = c.tty /\ c'.fb = c.fb /\ c'.stream = c.stream /\ c'.ll = c.ll
    BY <1>9, <1>12 DEF SameDevices
  <1>15. pc' \in {"lost", "panic"} /\ (c'.wild => pc' = "lost") /\ (pc' = "lost" => c'.wild)
    <2>1. c'.wild \in BOOLEAN
      BY <1>12 DEF ScreensInv
    <2> QED
      BY <1>3, <2>1
  <1>16. ConsoleAt(pc', c', cfg)
    <2>1. c.serial = cfg.port /\ ~ (c.fb = "va" /\ c.tty = "video")
      BY <1>5, <1>7 DEF ConsoleAt
    <2> QED
      BY <1>14, <1>15, <2>1 DEF ConsoleAt, Booted, Paging, Settled
  <1>17. m' = [m EXCEPT !.fault = FALSE] /\ MemAt(pc', m', cfg, c')
    BY <1>3, <1>15 DEF MemAt, Booted, Late
  <1>18. Calm(m')
    BY <1>5, <1>17 DEF Calm
  <1>19. LineAt(pc', line', c')
    BY <1>3 DEF NoLine, LineAt
  <1>20. pc' = "lost" => WildOk(pc', c', cfg, irqs)
    BY <1>6, <1>14 DEF WildOk
  <1>21. c'.wild \/ pc' = "lost" => WildOk(pc', c', cfg', irqs')
    BY <1>3, <1>15, <1>20
  <1>22. iflag' = FALSE /\ cfg' = cfg /\ irqs' = irqs
    BY <1>3
  <1>23. c'.ll \in Nat
    BY <1>5, <1>14
  <1> QED
    BY <1>5, <1>12, <1>13, <1>16, <1>17, <1>18, <1>19, <1>21, <1>22, <1>23 DEF BootInv

\* The parts of the kernel's half of the address space.
InText(image, v) == v \in kernel_vma .. kernel_vma + Text(image) - 1
InRodata(image, v) == v \in rodata_vma(image) .. rodata_vma(image) + Rodata(image) - 1
InData(image, v) == v \in data_vma(image) .. data_vma(image) + data_pages(image) - 1
InStack(v) == v \in va_kernel_stack .. va_kernel_stack + StackPages - 1
InTables(v) == v \in va_pts(FirstKernel) .. va_pts(FirstKernel) + (N - FirstKernel) - 1
InScreen(v) == v \in va_framebuffer .. va_framebuffer + video_pages - 1

LEMMA PartsApart ==
  ASSUME NEW image \in Images, NEW v \in Page
  PROVE  /\ InText(image, v) =>
              ~ InRodata(image, v) /\ ~ InData(image, v) /\ ~ InStack(v) /\ ~ InTables(v) /\ ~ InScreen(v)
         /\ InRodata(image, v) => ~ InData(image, v) /\ ~ InStack(v) /\ ~ InTables(v) /\ ~ InScreen(v)
         /\ InData(image, v) => ~ InStack(v) /\ ~ InTables(v) /\ ~ InScreen(v)
         /\ InStack(v) => ~ InTables(v) /\ ~ InScreen(v)
         /\ InTables(v) => ~ InScreen(v)
         /\ v = va_framebuffer => InScreen(v)
  <1>1. Runs(image) /\ v \in Nat
    BY RunPlaces DEF Runs
  <1>2. /\ InText(image, v) => v < kernel_vma + Text(image) /\ v >= kernel_vma
        /\ InRodata(image, v) => v < rodata_vma(image) + Rodata(image) /\ v >= rodata_vma(image)
        /\ InData(image, v) => v < data_vma(image) + data_pages(image) /\ v >= data_vma(image)
        /\ InStack(v) => v >= va_kernel_stack
        /\ InTables(v) => v < va_pts(0) + N /\ v >= va_pts(0)
        /\ InScreen(v) => v < va_framebuffer + video_pages /\ v >= va_framebuffer
    BY <1>1 DEF Runs, InText, InRodata, InData, InStack, InTables, InScreen
  <1>3. /\ kernel_vma + Text(image) =< rodata_vma(image) /\ rodata_vma(image) + Rodata(image) =< data_vma(image)
        /\ data_vma(image) + data_pages(image) =< va_framebuffer /\ va_framebuffer + video_pages =< va_pts(0)
        /\ va_pts(0) + N =< va_kernel_stack
    BY <1>1 DEF Runs
  <1>4. /\ Text(image) \in Nat /\ Rodata(image) \in Nat /\ data_pages(image) \in Nat /\ kernel_vma \in Nat
        /\ rodata_vma(image) \in Nat /\ data_vma(image) \in Nat /\ va_framebuffer \in Nat /\ va_pts(0) \in Nat
        /\ va_kernel_stack \in Nat /\ N \in Nat /\ video_pages \in Nat
    BY <1>1 DEF Runs
  <1>5. v = va_framebuffer => InScreen(v)
    BY <1>1 DEF Runs, InScreen
  <1> QED
    BY <1>1, <1>2, <1>3, <1>4, <1>5

\* The translations that the invariant has are those that are expected.
LEMMA ExpectedIs ==
  ASSUME Configured(cfg), ~ (c.fb = "va" /\ c.tty = "video"), NEW v \in Page
  PROVE  Expected(v) = Final(cfg.image, cfg.pts, c.fb, c.tty)[v]
  <1> DEFINE image == cfg.image
             pts == cfg.pts
             pa == kstatic_va_to_pa(v)
  <1>1. image \in Images /\ pts \in FreeRuns
    BY ConfiguredIs
  <1>2. Runs(image) /\ v \in Nat /\ kernel_stack \in Nat /\ pts \in Nat
    BY <1>1, RunPlaces, LayoutAssumption DEF Runs
  <1>3. /\ InText(image, v) <=> v \in kernel_vma .. kernel_vma + (rodata_vma(image) - kernel_vma) - 1
        /\ InRodata(image, v) <=> v \in rodata_vma(image) .. rodata_vma(image) + (data_vma(image) - rodata_vma(image)) - 1
        /\ InData(image, v) <=> v \in data_vma(image) .. data_vma(image) + data_pages(image) - 1
        /\ InStack(v) <=> v \in va_kernel_stack .. va_kernel_stack + StackPages - 1
        /\ InTables(v) <=> v \in va_pts(FirstKernel) .. va_pts(FirstKernel) + (N - FirstKernel) - 1
        /\ InScreen(v) <=> v \in va_framebuffer .. va_framebuffer + video_pages - 1
    BY <1>2 DEF Runs, InText, InRodata, InData, InStack, InTables, InScreen
  <1>4. /\ pa = kernel_lma + v - kernel_vma
        /\ pa = kstatic_va_to_pa(rodata_vma(image)) + v - rodata_vma(image)
        /\ pa = kstatic_va_to_pa(data_vma(image)) + v - data_vma(image)
    BY <1>2 DEF Runs, kstatic_va_to_pa
  <1>5. /\ InText(image, v) => Expected(v) = make_pte(pa, FALSE)
        /\ InRodata(image, v) => Expected(v) = make_pte(pa, FALSE)
        /\ InData(image, v) => Expected(v) = make_pte(pa, TRUE)
        /\ InStack(v) => Expected(v) = make_pte(kernel_stack + v - va_kernel_stack, TRUE)
        /\ InTables(v) => Expected(v) = make_pte(pts + v - va_pts(FirstKernel), TRUE)
        /\ v = va_framebuffer /\ c.fb = "va" => Expected(v) = make_pte(text_frame, TRUE)
        /\ InScreen(v) /\ c.tty = "video" => Expected(v) = make_pte(video_frame + v - va_framebuffer, TRUE)
        /\ ~ InText(image, v) /\ ~ InRodata(image, v) /\ ~ InData(image, v) /\ ~ InStack(v) /\ ~ InTables(v)
             /\ ~ (v = va_framebuffer /\ c.fb = "va") /\ ~ (InScreen(v) /\ c.tty = "video") => Expected(v) = NoEntry
    <2> DEFINE S1 == kernel_vma .. kernel_vma + (rodata_vma(image) - kernel_vma) - 1
               S2 == rodata_vma(image) .. rodata_vma(image) + (data_vma(image) - rodata_vma(image)) - 1
               S3 == data_vma(image) .. data_vma(image) + data_pages(image) - 1
               S4 == va_kernel_stack .. va_kernel_stack + StackPages - 1
               S5 == va_pts(FirstKernel) .. va_pts(FirstKernel) + (N - FirstKernel) - 1
               S6 == va_framebuffer .. va_framebuffer + video_pages - 1
               e4 == make_pte(kernel_stack + v - va_kernel_stack, TRUE)
               e5 == make_pte(pts + v - va_pts(FirstKernel), TRUE)
               e7 == make_pte(video_frame + v - va_framebuffer, TRUE)
    <2>1. Expected(v) =
            CASE v \in S1                            -> make_pte(pa, FALSE)
              [] v \in S2                            -> make_pte(pa, FALSE)
              [] v \in S3                            -> make_pte(pa, TRUE)
              [] v \in S4                            -> e4
              [] v \in S5                            -> e5
              [] v = va_framebuffer /\ c.fb = "va" -> make_pte(text_frame, TRUE)
              [] v \in S6 /\ c.tty = "video"         -> e7
              [] OTHER                               -> NoEntry
      BY Zenon DEF Expected
    <2>2. /\ InText(image, v) <=> v \in S1
          /\ InRodata(image, v) <=> v \in S2
          /\ InData(image, v) <=> v \in S3
          /\ InStack(v) <=> v \in S4
          /\ InTables(v) <=> v \in S5
          /\ InScreen(v) <=> v \in S6
      BY <1>3
    <2>3. /\ v \in S1 => v \notin S2 /\ v \notin S3 /\ v \notin S4 /\ v \notin S5 /\ v \notin S6
          /\ v \in S2 => v \notin S3 /\ v \notin S4 /\ v \notin S5 /\ v \notin S6
          /\ v \in S3 => v \notin S4 /\ v \notin S5 /\ v \notin S6
          /\ v \in S4 => v \notin S5 /\ v \notin S6
          /\ v \in S5 => v \notin S6
          /\ v = va_framebuffer => v \in S6
      <3> HIDE DEF image, S1, S2, S3, S4, S5, S6
      <3> QED
        BY <1>1, <2>2, PartsApart
    <2> HIDE DEF pa, image, pts, S1, S2, S3, S4, S5, S6, e4, e5, e7
    <2>4. v \in S1 => Expected(v) = make_pte(pa, FALSE)
      BY <2>1, <2>3
    <2>5. v \in S2 => Expected(v) = make_pte(pa, FALSE)
      BY <2>1, <2>3
    <2>6. v \in S3 => Expected(v) = make_pte(pa, TRUE)
      BY <2>1, <2>3
    <2>7. v \in S4 => Expected(v) = e4
      BY <2>1, <2>3
    <2>8. v \in S5 => Expected(v) = e5
      BY <2>1, <2>3
    <2>9. (v = va_framebuffer /\ c.fb = "va") => Expected(v) = make_pte(text_frame, TRUE)
      BY <2>1, <2>3
    <2>10. (v \in S6 /\ c.tty = "video") => Expected(v) = e7
      BY <2>1, <2>3
    <2>11. v \notin S1 /\ v \notin S2 /\ v \notin S3 /\ v \notin S4 /\ v \notin S5
            /\ ~ (v = va_framebuffer /\ c.fb = "va") /\ ~ (v \in S6 /\ c.tty = "video") => Expected(v) = NoEntry
      BY <2>1
    <2> QED
      BY <2>2, <2>4, <2>5, <2>6, <2>7, <2>8, <2>9, <2>10, <2>11 DEF e4, e5, e7
  <1>6. /\ OfText(image, pts)[v] = IF InText(image, v) THEN make_pte(pa, FALSE) ELSE Tables(pts)[v]
        /\ OfRodata(image, pts)[v] = IF InRodata(image, v) THEN make_pte(pa, FALSE) ELSE OfText(image, pts)[v]
        /\ OfData(image, pts)[v] = IF InData(image, v) THEN make_pte(pa, TRUE) ELSE OfRodata(image, pts)[v]
        /\ OfStack(image, pts)[v] = IF InStack(v) THEN make_pte(kernel_stack + v - va_kernel_stack, TRUE)
                                    ELSE OfData(image, pts)[v]
        /\ Tables(pts)[v] = IF InTables(v) THEN make_pte(pts + v - va_pts(FirstKernel), TRUE) ELSE NoEntry
    <2>1. v \in Page
      OBVIOUS
    <2> HIDE DEF pa, image, pts
    <2>2. OfText(image, pts)[v] = IF InText(image, v) THEN make_pte(pa, FALSE) ELSE Tables(pts)[v]
      <3>1. OfText(image, pts)[v] = IF InText(image, v) THEN make_pte(kernel_lma + v - kernel_vma, FALSE) ELSE Tables(pts)[v]
        BY <1>1, <2>1, Layers DEF InText
      <3> QED
        BY <1>4, <3>1, Zenon
    <2>3. OfRodata(image, pts)[v] = IF InRodata(image, v) THEN make_pte(pa, FALSE) ELSE OfText(image, pts)[v]
      <3>1. OfRodata(image, pts)[v] = IF InRodata(image, v) THEN make_pte(kstatic_va_to_pa(rodata_vma(image)) + v - rodata_vma(image), FALSE) ELSE OfText(image, pts)[v]
        BY <1>1, <2>1, Layers DEF InRodata
      <3> QED
        BY <1>4, <3>1, Zenon
    <2>4. OfData(image, pts)[v] = IF InData(image, v) THEN make_pte(pa, TRUE) ELSE OfRodata(image, pts)[v]
      <3>1. OfData(image, pts)[v] = IF InData(image, v) THEN make_pte(kstatic_va_to_pa(data_vma(image)) + v - data_vma(image), TRUE) ELSE OfRodata(image, pts)[v]
        BY <1>1, <2>1, Layers DEF InData
      <3> QED
        BY <1>4, <3>1, Zenon
    <2>5. OfStack(image, pts)[v] = IF InStack(v) THEN make_pte(kernel_stack + v - va_kernel_stack, TRUE)
                                   ELSE OfData(image, pts)[v]
      BY <1>1, <2>1, Layers DEF InStack
    <2>6. Tables(pts)[v] = IF InTables(v) THEN make_pte(pts + v - va_pts(FirstKernel), TRUE) ELSE NoEntry
      BY <1>1, <2>1, Layers DEF InTables
    <2> QED
      BY <2>2, <2>3, <2>4, <2>5, <2>6
  <1>7. /\ c.fb = "va" => Final(image, pts, c.fb, c.tty)[v] =
                            IF v = va_framebuffer THEN make_pte(text_frame, TRUE) ELSE OfStack(image, pts)[v]
        /\ c.fb # "va" /\ c.tty = "video" =>
             Final(image, pts, c.fb, c.tty)[v] =
               IF InScreen(v) THEN make_pte(video_frame + v - va_framebuffer, TRUE) ELSE OfStack(image, pts)[v]
        /\ c.fb # "va" /\ c.tty # "video" => Final(image, pts, c.fb, c.tty)[v] = OfStack(image, pts)[v]
    <2>1. va_framebuffer \in Nat /\ text_frame \in Nat
      BY <1>2, ScreenAssumption DEF Runs
    <2>2. /\ v \in va_framebuffer .. va_framebuffer + 1 - 1 <=> v = va_framebuffer
          /\ v = va_framebuffer => text_frame + v - va_framebuffer = text_frame
      BY <1>2, <2>1
    <2>3. c.fb = "va" => Final(image, pts, c.fb, c.tty)[v] =
                           IF v = va_framebuffer THEN make_pte(text_frame, TRUE) ELSE OfStack(image, pts)[v]
      <3> SUFFICES ASSUME c.fb = "va"
                   PROVE  Final(image, pts, c.fb, c.tty)[v] =
                            IF v = va_framebuffer THEN make_pte(text_frame, TRUE) ELSE OfStack(image, pts)[v]
        OBVIOUS
      <3>1. Final(image, pts, c.fb, c.tty)[v] =
              IF v \in va_framebuffer .. va_framebuffer + 1 - 1
              THEN make_pte(text_frame + v - va_framebuffer, TRUE) ELSE OfStack(image, pts)[v]
        BY DEF Final, Paint
      <3> QED
        BY <2>2, <3>1
    <2>4. c.fb # "va" /\ c.tty = "video" =>
             Final(image, pts, c.fb, c.tty)[v] =
               IF InScreen(v) THEN make_pte(video_frame + v - va_framebuffer, TRUE) ELSE OfStack(image, pts)[v]
      BY DEF Final, Paint, InScreen
    <2>5. c.fb # "va" /\ c.tty # "video" => Final(image, pts, c.fb, c.tty)[v] = OfStack(image, pts)[v]
      BY DEF Final
    <2> QED
      BY <2>3, <2>4, <2>5
  <1> SUFFICES Expected(v) = Final(image, pts, c.fb, c.tty)[v]
    OBVIOUS
  <1> HIDE DEF pa, image, pts
  <1>8. CASE InText(image, v)
    BY <1>1, <1>5, <1>6, <1>7, <1>8, PartsApart
  <1>9. CASE InRodata(image, v)
    BY <1>1, <1>5, <1>6, <1>7, <1>9, PartsApart
  <1>10. CASE InData(image, v)
    BY <1>1, <1>5, <1>6, <1>7, <1>10, PartsApart
  <1>11. CASE InStack(v)
    BY <1>1, <1>5, <1>6, <1>7, <1>11, PartsApart
  <1>12. CASE InTables(v)
    BY <1>1, <1>5, <1>6, <1>7, <1>12, PartsApart
  <1>13. CASE ~ InText(image, v) /\ ~ InRodata(image, v) /\ ~ InData(image, v) /\ ~ InStack(v) /\ ~ InTables(v)
    BY <1>1, <1>5, <1>6, <1>7, <1>13, PartsApart
  <1> QED
    BY <1>8, <1>9, <1>10, <1>11, <1>12, <1>13

LEMMA BootNext == BootInv /\ [Next]_vars => BootInv'
  <1> SUFFICES ASSUME BootInv, [Next]_vars PROVE BootInv'
    OBVIOUS
  <1>1. CASE Next
    <2>1. CASE Kmain
      <3>1. CASE PrintMap \/ PrintTotal \/ Sti \/ PrintParameters \/ PrintBanner \/ ScanPci \/ DumpInitrd \/ Cli \/ ExecTask
        BY <3>1, OnwardSteps
      <3>2. CASE PutPiece
        BY <3>2, PieceKeeps
      <3>3. CASE StartConsole
        BY <3>3, StartConsoleKeeps
      <3>4. CASE ReadLevels
        BY <3>4, ReadLevelsKeeps
      <3>5. CASE VmmInit
        BY <3>5, VmmInitKeeps
      <3>6. CASE GetFlags
        BY <3>6, GetFlagsKeeps
      <3>7. CASE TakeFromTty
        BY <3>7, TakeFromTtyKeeps
      <3>8. CASE StartText
        BY <3>8, StartTextKeeps
      <3>9. CASE StartVideo
        BY <3>9, StartVideoKeeps
      <3>10. CASE VideoUnusable
        BY <3>10, VideoUnusableKeeps
      <3>11. CASE Choose
        BY <3>11, ChooseKeeps
      <3>12. CASE Exception
        BY <3>12, ExceptionKeeps
      <3> QED
        BY <2>1, <3>1, <3>2, <3>3, <3>4, <3>5, <3>6, <3>7, <3>8, <3>9, <3>10, <3>11, <3>12 DEF Kmain
    <2> QED
      BY <1>1, <2>1, UserPrintKeeps, IrqKeeps DEF Next
  <1>2. CASE UNCHANGED vars
    <2>1. pc' = pc /\ c' = c /\ m' = m /\ line' = line /\ iflag' = iflag /\ cfg' = cfg /\ irqs' = irqs
      BY <1>2 DEF vars
    <2> QED
      BY <2>1 DEF BootInv
  <1> QED
    BY <1>1, <1>2

\* The inductive invariant holds of every boot.
THEOREM BootStands == Spec => []BootInv
  <1> QED
    BY InitBoots, BootNext, PTL DEF Spec

\* Every screen shows the end of what was printed on it, whatever its size,
\* whoever prints and wherever the framebuffer is moved to meanwhile (put_char
\* and scroll of tty-text and tty-video).
THEOREM ShowsTailHolds == Spec => []ShowsTail
  <1>1. BootInv => ShowsTail
    BY TailShows DEF BootInv, ScreensInv, ShowsTail
  <1> QED
    BY <1>1, BootStands, PTL

\* With a serial line, no character that is said at an enabled level gets
\* lost, before, during and after the terminal's second start (koi's
\* operator() and init_after_mem_init).
THEOREM HeardHolds == Spec => []Heard
  <1>1. BootInv => Heard
    BY DEF BootInv, Lossless, Heard
  <1> QED
    BY <1>1, BootStands, PTL

\* A character is written where no screen is mapped only without a command
\* line, or by an interrupt on a machine without a serial line while the
\* terminal still has the bootstrap's address.
THEOREM NoWildAccessHolds == Spec => []NoWildAccess
  <1>1. BootInv => NoWildAccess
    BY DEF BootInv, WildOk, NoWildAccess
  <1> QED
    BY <1>1, BootStands, PTL

\* Whatever the sizes of the image's parts and whatever the frames held that
\* Pmm::alloc found for the tables: from the switch on the tables translate
\* each page of the address space as Vmm expects (Vmm::init, map, switch_pd).
THEOREM InitExactHolds == Spec => []InitExact
  <1>1. BootInv => InitExact
    <2> SUFFICES ASSUME BootInv, pc \in Late, NEW v \in Page
                 PROVE  Walk(m, v) = Expected(v)
      BY DEF InitExact
    <2> DEFINE f == Final(cfg.image, cfg.pts, c.fb, c.tty)
    <2>1. Configured(cfg) /\ ConsoleAt(pc, c, cfg) /\ MemAt(pc, m, cfg, c)
      BY DEF BootInv
    <2>2. cfg.image \in Images /\ cfg.pts \in FreeRuns
      BY <2>1, ConfiguredIs
    <2>3. LateMem(m, cfg.image, cfg.pts, f)
      BY <2>1 DEF MemAt
    <2>4. ~ (c.fb = "va" /\ c.tty = "video")
      BY <2>1 DEF ConsoleAt
    <2>5. Sane(f, cfg.pts)
      BY <2>2, FinalSane
    <2>6. Expected(v) = f[v]
      BY <2>1, <2>4, ExpectedIs
    <2> HIDE DEF f
    <2>7. Walk(m, v) = f[v]
      BY <2>2, <2>3, <2>5, LateWalk
    <2> QED
      BY <2>6, <2>7
  <1> QED
    BY <1>1, BootStands, PTL
=============================================================================
