----------------------------- MODULE ShellProofs ------------------------------
(***************************************************************************)
(* The shell: what a restart keeps of its settings, for any host names,    *)
(* schemes, commands, disk errors and power losses (SettingsInv), and what *)
(* its prompt shows and remembers, for any screen, keys and size of the    *)
(* history (PromptInv).                                                    *)
(***************************************************************************)
EXTENDS Settings, Prompt, Integers, WellFoundedInduction, TLAPS

-----------------------------------------------------------------------------
(* Sequences                                                               *)

\* Sequences of the same elements are the same.
LEMMA SeqEqual ==
  ASSUME NEW S, NEW s \in Seq(S), NEW t \in Seq(S), Len(s) = Len(t),
         \A i \in 1 .. Len(s) : s[i] = t[i]
  PROVE  s = t
OBVIOUS

\* A sequence of no elements.
LEMMA EmptySeq ==
  ASSUME NEW S
  PROVE  << >> \in Seq(S) /\ \A s \in Seq(S) : (s = << >>) <=> (Len(s) = 0)
OBVIOUS

\* The length of a sequence.
LEMMA LenProperties ==
  ASSUME NEW S, NEW s \in Seq(S)
  PROVE  Len(s) \in Nat /\ s \in [1 .. Len(s) -> S] /\ DOMAIN s = 1 .. Len(s)
OBVIOUS

\* An element is appended.
LEMMA AppendProperties ==
  ASSUME NEW S, NEW s \in Seq(S), NEW e \in S
  PROVE  /\ Append(s, e) \in Seq(S) /\ Len(Append(s, e)) = Len(s) + 1
         /\ \A i \in 1 .. Len(s) : Append(s, e)[i] = s[i]
         /\ Append(s, e)[Len(s) + 1] = e
OBVIOUS

\* One sequence after the other.
LEMMA ConcatProperties ==
  ASSUME NEW S, NEW s \in Seq(S), NEW t \in Seq(S)
  PROVE  /\ s \o t \in Seq(S) /\ Len(s \o t) = Len(s) + Len(t)
         /\ \A i \in 1 .. Len(s) + Len(t) :
              (s \o t)[i] = IF i <= Len(s) THEN s[i] ELSE t[i - Len(s)]
OBVIOUS

-----------------------------------------------------------------------------
(* Recursion                                                               *)

\* Among natural numbers there is a least one.
LEMMA LeastNat ==
  ASSUME NEW T \in SUBSET Nat, T # {}
  PROVE  \E m \in T : \A n \in T : m <= n
<1>1. PICK m \in T : \A y \in T : ~(<<y, m>> \in OpToRel(<, Nat))
  BY WFMin, NatLessThanWellFounded, Zenon
<1>2. ASSUME NEW n \in T PROVE m <= n
  <2>1. ~(<<n, m>> \in OpToRel(<, Nat))
    BY <1>1, Zenon
  <2>2. n \in Nat /\ m \in Nat
    OBVIOUS
  <2>. QED BY <2>1, <2>2 DEF OpToRel
<1>. QED BY <1>2

\* What holds of 0 and passes from a number to the next holds up to n.
LEMMA UpTo ==
  ASSUME NEW n \in Nat, NEW T, 0 \in T, \A k \in 1..n : k - 1 \in T => k \in T
  PROVE  \A k \in 0..n : k \in T
<1> DEFINE U == {k \in 0..n : k \notin T}
<1>1. SUFFICES ASSUME U # {} PROVE FALSE
  BY Zenon
<1>2. U \in SUBSET Nat
  OBVIOUS
<1> HIDE DEF U
<1>3. PICK m \in U : \A j \in U : m <= j
  BY <1>1, <1>2, LeastNat, Zenon
<1>4. m \in 0..n /\ m \notin T
  BY <1>3, Zenon DEF U
<1>5. m # 0
  BY <1>4, Zenon
<1>6. m \in 1..n /\ m - 1 \in 0..n /\ ~(m <= m - 1)
  BY <1>4, <1>5
<1>7. m - 1 \in T
  BY <1>3, <1>6, Zenon DEF U
<1>. QED BY <1>4, <1>6, <1>7, Zenon

\* f follows the functions g[1], g[2], ... from a.
Goes(f, a, g, n) == f[0] = a /\ \A k \in 1..n : f[k] = g[k][f[k - 1]]

\* There is such an f.
LEMMA GoesExist ==
  ASSUME NEW n \in Nat, NEW S, NEW a \in S, NEW g \in [1..n -> [S -> S]]
  PROVE  \E f \in [0..n -> S] : Goes(f, a, g, n)
<1> DEFINE Has(m) == \E f \in [0..m -> S] : Goes(f, a, g, m)
           T == {m \in Nat : Has(m)}
<1>1. 0 \in T
  <2>1. [k \in 0..0 |-> a] \in [0..0 -> S] /\ [k \in 0..0 |-> a][0] = a
    OBVIOUS
  <2>2. \A k \in 1..0 : FALSE
    OBVIOUS
  <2>3. Has(0)
    BY <2>1, <2>2, Zenon DEF Goes
  <2>4. 0 \in Nat
    OBVIOUS
  <2>. QED BY <2>3, <2>4, Zenon
<1>2. ASSUME NEW m \in 1..n, m - 1 \in T PROVE m \in T
  <2>1. PICK f \in [0..(m - 1) -> S] : Goes(f, a, g, m - 1)
    BY <1>2, Zenon
  <2>2. f[0] = a /\ \A k \in 1..(m - 1) : f[k] = g[k][f[k - 1]]
    BY <2>1, Zenon DEF Goes
  <2>3. g[m] \in [S -> S] /\ m \in Nat
    OBVIOUS
  <2> DEFINE h == [k \in 0..m |-> IF k < m THEN f[k] ELSE g[m][f[m - 1]]]
  <2>4. h \in [0..m -> S]
    <3>1. f[m - 1] \in S
      OBVIOUS
    <3>2. g[m][f[m - 1]] \in S
      BY <2>3, <3>1, Zenon
    <3>3. \A k \in 0..m : k < m => f[k] \in S
      OBVIOUS
    <3>. QED BY <3>2, <3>3, Zenon
  <2>5. h[0] = a
    BY <2>2, <2>3
  <2>6. ASSUME NEW k \in 1..m PROVE h[k] = g[k][h[k - 1]]
    <3>1. k - 1 \in 0..m /\ k - 1 < m /\ k \in 0..m
      OBVIOUS
    <3>2. h[k - 1] = f[k - 1]
      BY <3>1, Zenon
    <3>3. CASE k < m
      <4>1. k \in 1..(m - 1)
        BY <3>3
      <4>. QED BY <2>2, <3>1, <3>2, <3>3, <4>1, Zenon
    <3>4. CASE ~(k < m)
      <4>1. k = m
        BY <3>4
      <4>. QED BY <3>1, <3>2, <3>4, <4>1, Zenon
    <3>. QED BY <3>3, <3>4
  <2> HIDE DEF h
  <2>7. Goes(h, a, g, m)
    BY <2>5, <2>6, Zenon DEF Goes
  <2>. QED BY <2>3, <2>4, <2>7, Zenon
<1> HIDE DEF T
<1>3. \A k \in 0..n : k \in T
  BY <1>1, <1>2, UpTo, Zenon
<1>4. n \in 0..n
  OBVIOUS
<1>. QED BY <1>3, <1>4, Zenon DEF T

-----------------------------------------------------------------------------
(* The screen                                                              *)

\* The first scanline of a row.
Top(r) == r * CHAR_HEIGHT

\* The rows of text are above the status bar, the status bar is on the screen.
LEMMA Geometry ==
  /\ rows \in Nat /\ rows >= 1 /\ rows = total_rows - 1
  /\ CHAR_HEIGHT \in Nat /\ CHAR_HEIGHT >= 1 /\ HEIGHT \in Nat
  /\ COLS \in Nat /\ COLS >= 2
  /\ Top(rows) \in Nat /\ Top(rows) + CHAR_HEIGHT <= HEIGHT
<1>1. /\ CHAR_HEIGHT \in Nat /\ CHAR_HEIGHT >= 1 /\ HEIGHT \in Nat /\ HEIGHT >= 2 * CHAR_HEIGHT
      /\ COLS \in Nat /\ COLS >= 2
  BY PromptAssumption
<1>2. /\ total_rows \in Nat /\ total_rows * CHAR_HEIGHT <= HEIGHT
      /\ HEIGHT < total_rows * CHAR_HEIGHT + CHAR_HEIGHT
  BY <1>1 DEF total_rows
<1>3. total_rows >= 2
  BY <1>1, <1>2
<1>4. rows = total_rows - 1
  BY <1>2, <1>3 DEF rows
<1>5. rows * CHAR_HEIGHT + CHAR_HEIGHT = total_rows * CHAR_HEIGHT
  BY <1>1, <1>2, <1>4
<1>6. rows * CHAR_HEIGHT \in Nat
  BY <1>1, <1>2, <1>3, <1>4
<1>. QED BY <1>1, <1>2, <1>3, <1>4, <1>5, <1>6 DEF Top

\* Rows follow each other.
LEMMA RowTops ==
  ASSUME NEW r \in Nat
  PROVE  /\ Top(r) \in Nat /\ Top(r + 1) = Top(r) + CHAR_HEIGHT
         /\ Scanlines(r) = Top(r) .. Top(r) + CHAR_HEIGHT - 1
         /\ r < rows => Top(r) + CHAR_HEIGHT <= Top(rows)
<1>1. /\ CHAR_HEIGHT \in Nat /\ rows \in Nat
  BY Geometry
<1>2. r * CHAR_HEIGHT \in Nat /\ (r + 1) * CHAR_HEIGHT = r * CHAR_HEIGHT + CHAR_HEIGHT
  BY <1>1
<1>3. ASSUME r < rows PROVE r * CHAR_HEIGHT + CHAR_HEIGHT <= rows * CHAR_HEIGHT
  <2>1. PICK d \in Nat : rows = r + 1 + d
    <3>1. rows - r - 1 \in Nat /\ rows = r + 1 + (rows - r - 1)
      BY <1>1, <1>3
    <3>. QED BY <3>1, Zenon
  <2>2. rows * CHAR_HEIGHT = r * CHAR_HEIGHT + CHAR_HEIGHT + d * CHAR_HEIGHT /\ d * CHAR_HEIGHT \in Nat
    BY <1>1, <2>1
  <2>. QED BY <1>1, <1>2, <2>2
<1>. QED BY <1>2, <1>3 DEF Top, Scanlines

Glyphs == Chars \cup {">", "=", " ", "o", "^", "C", "\n"}
Width == 0 .. COLS - 1
Cells == [0 .. HEIGHT - 1 -> [Width -> Glyphs]]
BlankRow == [x \in Width |-> Blank]

\* A console, whose cursor may have left the last row of text.
Wide == [cells : Cells, col : Width, row : 0..rows]

\* The rows of text are blank from r on.
BlankFrom(cells, r) ==
  \A y \in 0 .. HEIGHT - 1 : Top(r) <= y /\ y < Top(rows) => cells[y] = BlankRow

\* Nothing was written below the cursor.
Good(c) == c \in Wide /\ c.row < rows /\ BlankFrom(c.cells, c.row + 1)
\* Nor in its row.
Fresh(c) == c \in Wide /\ c.row < rows /\ c.col = 0 /\ BlankFrom(c.cells, c.row)

\* The fields of a console.
LEMMA WideFields ==
  ASSUME NEW c \in Wide
  PROVE  /\ c.cells \in Cells /\ c.col \in Width /\ c.row \in 0..rows
         /\ c.row \in Nat /\ c.col \in Nat
BY Geometry DEF Wide, Width

\* A blank is something to draw.
LEMMA GlyphsAre ==
  /\ Blank \in Glyphs /\ ">" \in Glyphs /\ "=" \in Glyphs /\ "o" \in Glyphs
  /\ "^" \in Glyphs /\ "C" \in Glyphs /\ "\n" \in Glyphs /\ Chars \subseteq Glyphs
  /\ ">" # "\n" /\ \A ch \in Chars : ch # "\n"
  /\ BlankRow \in [Width -> Glyphs] /\ \A x \in Width : BlankRow[x] = Blank
<1>1. Blank \in Glyphs
  BY DEF Glyphs, Blank
<1>2. /\ ">" \in Glyphs /\ "=" \in Glyphs /\ "o" \in Glyphs
      /\ "^" \in Glyphs /\ "C" \in Glyphs /\ "\n" \in Glyphs
  BY Zenon DEF Glyphs
<1>3. BlankRow \in [Width -> Glyphs] /\ \A x \in Width : BlankRow[x] = Blank
  BY <1>1, Zenon DEF BlankRow
<1>4. Chars \subseteq Glyphs /\ ">" # "\n" /\ \A ch \in Chars : ch # "\n"
  BY PromptAssumption, Zenon DEF Glyphs
<1>. QED BY <1>1, <1>2, <1>3, <1>4

\* d is c with ch drawn in a cell.
Drawn(d, c, x, r, ch) ==
  /\ d \in Wide /\ d.col = c.col /\ d.row = c.row
  /\ \A y \in 0 .. HEIGHT - 1 :
       d.cells[y] = IF y \in Scanlines(r) THEN [c.cells[y] EXCEPT ![x] = ch] ELSE c.cells[y]

\* draw_char draws in one cell of each scanline of a row.
LEMMA DrawIs ==
  ASSUME NEW c \in Wide, NEW x \in Width, NEW r, NEW ch \in Glyphs, NEW d, d = draw_char(c, x, r, ch)
  PROVE  Drawn(d, c, x, r, ch)
<1> DEFINE cells == c.cells
           new == [y \in DOMAIN cells |->
                     IF y \in Scanlines(r) THEN [cells[y] EXCEPT ![x] = ch] ELSE cells[y]]
<1>1. d = [c EXCEPT !.cells = new]
  BY DEF draw_char
<1>2. cells \in Cells /\ DOMAIN cells = 0 .. HEIGHT - 1
  BY WideFields DEF Cells
<1>3. ASSUME NEW y \in 0 .. HEIGHT - 1
      PROVE  (IF y \in Scanlines(r) THEN [cells[y] EXCEPT ![x] = ch] ELSE cells[y]) \in [Width -> Glyphs]
  <2>1. cells[y] \in [Width -> Glyphs]
    BY <1>2, Zenon DEF Cells
  <2>. QED BY <2>1
<1>4. /\ new \in Cells
      /\ \A y \in 0 .. HEIGHT - 1 :
           new[y] = IF y \in Scanlines(r) THEN [cells[y] EXCEPT ![x] = ch] ELSE cells[y]
  <2> HIDE DEF cells
  <2>. QED BY <1>2, <1>3, Zenon DEF Cells
<1> HIDE DEF new
<1>5. d.cells = new /\ d.col = c.col /\ d.row = c.row /\ d \in Wide
  BY <1>1, <1>4 DEF Wide
<1>. QED BY <1>4, <1>5, Zenon DEF Drawn

\* The row r is filled with ch.
Filled(new, cells, r, ch) ==
  /\ new \in Cells
  /\ \A y \in 0 .. HEIGHT - 1 : new[y] = IF y \in Scanlines(r) THEN [x \in Width |-> ch] ELSE cells[y]

\* fill_row fills a row and leaves the others.
LEMMA FillIs ==
  ASSUME NEW cells \in Cells, NEW r, NEW ch \in Glyphs, NEW new, new = fill_row(cells, r, ch)
  PROVE  Filled(new, cells, r, ch)
<1>1. DOMAIN cells = 0 .. HEIGHT - 1 /\ \A y \in 0 .. HEIGHT - 1 : cells[y] \in [Width -> Glyphs]
  BY Zenon DEF Cells
<1>2. [x \in Width |-> ch] \in [Width -> Glyphs]
  BY Zenon
<1>3. new = [y \in DOMAIN cells |->
               IF y \in Scanlines(r) THEN [x \in Width |-> ch] ELSE cells[y]]
  BY Zenon DEF fill_row, Width
<1>. QED BY <1>1, <1>2, <1>3, Zenon DEF Filled, Cells

\* A cursor on a blank row, which may be one below the last: the screen scrolls.
LEMMA ScrolledFresh ==
  ASSUME NEW c \in Wide, c.col = 0, BlankFrom(c.cells, c.row), NEW d, d = Scrolled(c)
  PROVE  Fresh(d)
<1>1. c.cells \in Cells /\ c.row \in 0..rows /\ rows \in Nat /\ rows >= 1
  BY WideFields, Geometry, Zenon
<1>2. CASE c.row < rows
  <2>1. d = c
    BY <1>1, <1>2 DEF Scrolled
  <2>. QED BY <1>2, <2>1, Zenon DEF Fresh
<1>3. CASE c.row = rows
  <2> DEFINE b == [c EXCEPT !.row = rows - 1]
             moved == [y \in DOMAIN b.cells |->
                        IF y < HEIGHT - CHAR_HEIGHT THEN b.cells[y + CHAR_HEIGHT] ELSE b.cells[y]]
             new == fill_row(moved, rows - 1, Blank)
  <2>1. d = [b EXCEPT !.cells = new]
    BY <1>1, <1>3 DEF Scrolled, scroll_up
  <2>2. b.cells = c.cells /\ b.col = 0 /\ b.row = rows - 1 /\ b \in Wide
    BY <1>1 DEF Wide
  <2>3. moved \in Cells
    <3>1. ASSUME NEW y \in 0 .. HEIGHT - 1, y < HEIGHT - CHAR_HEIGHT
          PROVE  y + CHAR_HEIGHT \in 0 .. HEIGHT - 1
      BY <3>1, Geometry
    <3>2. DOMAIN b.cells = 0 .. HEIGHT - 1 /\ \A y \in 0 .. HEIGHT - 1 : b.cells[y] \in [Width -> Glyphs]
      BY <1>1, <2>2, Zenon DEF Cells
    <3> HIDE DEF b
    <3>. QED BY <3>1, <3>2, Zenon DEF Cells
  <2> HIDE DEF moved, b
  <2>4. Filled(new, moved, rows - 1, Blank)
    BY <2>3, FillIs, GlyphsAre, Zenon
  <2> HIDE DEF new
  <2>5. new \in Cells
    BY <2>4, Zenon DEF Filled
  <2>6. d \in Wide /\ d.cells = new /\ d.col = 0 /\ d.row = rows - 1
    BY <2>1, <2>2, <2>5 DEF Wide
  <2>7. BlankFrom(new, rows - 1)
    <3>1. SUFFICES ASSUME NEW y \in 0 .. HEIGHT - 1, Top(rows - 1) <= y, y < Top(rows)
                   PROVE  new[y] = BlankRow
      BY Zenon DEF BlankFrom
    <3>2. y \in Scanlines(rows - 1)
      <4>1. rows - 1 \in Nat /\ (rows - 1) + 1 = rows
        BY <1>1
      <4>2. /\ Top(rows - 1) \in Nat /\ Top(rows) = Top(rows - 1) + CHAR_HEIGHT
            /\ Scanlines(rows - 1) = Top(rows - 1) .. Top(rows - 1) + CHAR_HEIGHT - 1
        BY <4>1, RowTops
      <4>. QED BY <3>1, <4>2, Geometry
    <3>. QED BY <2>4, <3>2, Zenon DEF Filled, BlankRow
  <2>8. d.row < rows
    BY <1>1, <2>6
  <2>. QED BY <2>6, <2>7, <2>8, Zenon DEF Fresh
<1>. QED BY <1>1, <1>2, <1>3

\* Below a row that is blank all are.
LEMMA FreshGood == ASSUME NEW c, Fresh(c) PROVE Good(c)
<1>1. c \in Wide /\ c.row < rows /\ BlankFrom(c.cells, c.row)
  BY Zenon DEF Fresh
<1>2. c.row \in Nat
  BY <1>1, WideFields, Zenon
<1>3. Top(c.row) \in Nat /\ Top(c.row + 1) = Top(c.row) + CHAR_HEIGHT /\ CHAR_HEIGHT \in Nat
  BY <1>2, RowTops, Geometry, Zenon
<1>4. ASSUME NEW y \in 0 .. HEIGHT - 1, Top(c.row + 1) <= y PROVE Top(c.row) <= y
  BY <1>3, <1>4
<1>. QED BY <1>1, <1>4, Zenon DEF Good, BlankFrom

\* The cursor moves to the start of the next row.
LEMMA NextRow ==
  ASSUME NEW c \in Wide, c.row < rows, NEW b, b = [c EXCEPT !.col = 0, !.row = @ + 1]
  PROVE  b \in Wide /\ b.col = 0 /\ b.row = c.row + 1 /\ b.cells = c.cells
<1>1. 0 \in Width /\ c.row + 1 \in 0..rows
  BY WideFields, Geometry DEF Width
<1>. QED BY <1>1 DEF Wide

\* A newline leads to a blank row.
LEMMA Newline == ASSUME NEW c, Good(c), NEW d, d = write_char(c, "\n") PROVE Fresh(d)
<1> DEFINE b == [c EXCEPT !.col = 0, !.row = @ + 1]
<1>1. c \in Wide /\ c.row < rows /\ BlankFrom(c.cells, c.row + 1)
  BY Zenon DEF Good
<1>2. b \in Wide /\ b.col = 0 /\ b.row = c.row + 1 /\ b.cells = c.cells
  <2> HIDE DEF b
  <2>1. b = [c EXCEPT !.col = 0, !.row = @ + 1]
    BY DEF b
  <2>. QED BY <1>1, <2>1, NextRow, Zenon
<1>3. d = Scrolled(b)
  BY DEF write_char
<1> HIDE DEF b
<1>. QED BY <1>1, <1>2, <1>3, ScrolledFresh, Zenon

\* The row of the cursor shows the prompt and s, the cursor is after it.
Line(s) == [x \in Width |-> IF x = 0 THEN ">" ELSE IF x <= Len(s) THEN s[x] ELSE Blank]
Shows(c, s) == c.col = 1 + Len(s) /\ \A y \in Scanlines(c.row) : c.cells[y] = Line(s)

\* A character is drawn at the cursor, which moves on.
Put(d, c, ch) ==
  /\ d.col = c.col + 1 /\ d.row = c.row
  /\ \A y \in Scanlines(c.row) : d.cells[y] = [c.cells[y] EXCEPT ![c.col] = ch]

\* write_char of any character but a newline.
LEMMA PutChar ==
  ASSUME NEW c, Good(c), NEW ch \in Glyphs, ch # "\n", NEW d, d = write_char(c, ch)
  PROVE  Good(d) /\ (c.col + 1 < COLS => Put(d, c, ch))
<1> DEFINE b == draw_char(c, c.col, c.row, ch)
<1>1. c \in Wide /\ c.row < rows /\ BlankFrom(c.cells, c.row + 1)
  BY Zenon DEF Good
<1>2. c.col \in Width /\ c.row \in Nat /\ c.cells \in Cells /\ c.col \in Nat
  BY <1>1, WideFields, Zenon
<1>3. Drawn(b, c, c.col, c.row, ch)
  BY <1>1, <1>2, DrawIs, Zenon
<1>4. d = IF c.col + 1 >= COLS THEN Scrolled([b EXCEPT !.col = 0, !.row = @ + 1])
          ELSE [b EXCEPT !.col = @ + 1]
  BY DEF write_char
<1> HIDE DEF b
<1>5. /\ b \in Wide /\ b.col = c.col /\ b.row = c.row
      /\ \A y \in 0 .. HEIGHT - 1 : y \in Scanlines(c.row) => b.cells[y] = [c.cells[y] EXCEPT ![c.col] = ch]
      /\ \A y \in 0 .. HEIGHT - 1 : y \notin Scanlines(c.row) => b.cells[y] = c.cells[y]
  BY <1>3, Zenon DEF Drawn
<1>6. /\ Top(c.row) \in Nat /\ Top(c.row + 1) = Top(c.row) + CHAR_HEIGHT
      /\ Scanlines(c.row) = Top(c.row) .. Top(c.row) + CHAR_HEIGHT - 1
      /\ Top(c.row) + CHAR_HEIGHT <= Top(rows)
  BY <1>1, <1>2, RowTops
<1>7. Scanlines(c.row) \subseteq 0 .. HEIGHT - 1
  BY <1>6, Geometry
<1>8. BlankFrom(b.cells, c.row + 1)
  <2>1. ASSUME NEW y \in 0 .. HEIGHT - 1, Top(c.row + 1) <= y PROVE y \notin Scanlines(c.row)
    BY <1>6, <2>1, Geometry
  <2>. QED BY <1>1, <1>5, <2>1, Zenon DEF BlankFrom
<1>9. CASE c.col + 1 >= COLS
  <2> DEFINE e == [b EXCEPT !.col = 0, !.row = @ + 1]
  <2>1. d = Scrolled(e)
    BY <1>4, <1>9
  <2>2. e = [b EXCEPT !.col = 0, !.row = @ + 1]
    OBVIOUS
  <2> HIDE DEF e
  <2>3. b.row < rows
    BY <1>1, <1>5, Zenon
  <2>4. e \in Wide /\ e.col = 0 /\ e.row = b.row + 1 /\ e.cells = b.cells
    BY <1>5, <2>2, <2>3, NextRow, Zenon
  <2>5. Fresh(d)
    BY <1>5, <1>8, <2>1, <2>4, ScrolledFresh, Zenon
  <2>6. ~(c.col + 1 < COLS)
    BY <1>2, <1>9, Geometry
  <2>. QED BY <2>5, <2>6, FreshGood, Zenon
<1>10. CASE ~(c.col + 1 >= COLS)
  <2>1. d = [b EXCEPT !.col = @ + 1]
    BY <1>4, <1>10
  <2>2. c.col + 1 \in Width
    BY <1>2, <1>10, Geometry DEF Width
  <2>3. d \in Wide /\ d.col = c.col + 1 /\ d.row = c.row /\ d.cells = b.cells
    BY <1>5, <2>1, <2>2 DEF Wide
  <2>. QED BY <1>1, <1>5, <1>7, <1>8, <2>3, Zenon DEF Good, Put
<1>. QED BY <1>9, <1>10

\* Whatever is written, nothing is below the cursor.
LEMMA WriteGood == ASSUME NEW c, Good(c), NEW ch \in Glyphs PROVE Good(write_char(c, ch))
<1>1. CASE ch = "\n"
  BY <1>1, Newline, FreshGood, Zenon
<1>2. CASE ch # "\n"
  BY <1>2, PutChar, Zenon
<1>. QED BY <1>1, <1>2, Zenon

\* A character typed appears after the line.
LEMMA WriteShows ==
  ASSUME NEW c, Good(c), NEW s \in Seq(Chars), Shows(c, s), NEW ch \in Chars, 2 + Len(s) < COLS,
         NEW d, d = write_char(c, ch)
  PROVE  Shows(d, Append(s, ch))
<1>1. ch \in Glyphs /\ ch # "\n"
  BY GlyphsAre, Zenon
<1>2. Len(s) \in Nat /\ COLS \in Nat
  BY Geometry
<1>3. c.col = 1 + Len(s) /\ \A y \in Scanlines(c.row) : c.cells[y] = Line(s)
  BY Zenon DEF Shows
<1>4. c.col + 1 < COLS
  BY <1>2, <1>3
<1>5. /\ d.col = c.col + 1 /\ d.row = c.row
      /\ \A y \in Scanlines(c.row) : d.cells[y] = [c.cells[y] EXCEPT ![c.col] = ch]
  <2>1. Put(d, c, ch)
    BY <1>1, <1>4, PutChar, Zenon
  <2>. QED BY <2>1, Zenon DEF Put
<1>6. /\ Len(Append(s, ch)) = Len(s) + 1 /\ Append(s, ch)[Len(s) + 1] = ch
      /\ \A x \in 1 .. Len(s) : Append(s, ch)[x] = s[x]
  BY AppendProperties
<1>7. [Line(s) EXCEPT ![1 + Len(s)] = ch] = Line(Append(s, ch))
  <2>1. ASSUME NEW x \in Width
        PROVE  (IF x = 1 + Len(s) THEN ch ELSE Line(s)[x]) =
                 IF x = 0 THEN ">" ELSE IF x <= Len(Append(s, ch)) THEN Append(s, ch)[x] ELSE Blank
    <3>1. Line(s)[x] = IF x = 0 THEN ">" ELSE IF x <= Len(s) THEN s[x] ELSE Blank
      BY Zenon DEF Line
    <3>2. x \in Nat
      BY <1>2 DEF Width
    <3> HIDE DEF Line
    <3>3. CASE x = 1 + Len(s)
      BY <1>2, <1>6, <3>3
    <3>4. CASE x # 1 + Len(s) /\ x <= Len(s)
      BY <1>2, <1>6, <3>1, <3>2, <3>4
    <3>5. CASE x # 1 + Len(s) /\ ~(x <= Len(s))
      BY <1>2, <1>6, <3>1, <3>2, <3>5
    <3>. QED BY <3>3, <3>4, <3>5
  <2>2. DOMAIN Line(s) = Width
    BY Zenon DEF Line
  <2>3. [Line(s) EXCEPT ![1 + Len(s)] = ch] = [x \in Width |-> IF x = 1 + Len(s) THEN ch ELSE Line(s)[x]]
    BY <2>2
  <2>4. Line(Append(s, ch)) = [x \in Width |-> IF x = 0 THEN ">" ELSE
                                 IF x <= Len(Append(s, ch)) THEN Append(s, ch)[x] ELSE Blank]
    BY Zenon DEF Line
  <2>5. [x \in Width |-> IF x = 1 + Len(s) THEN ch ELSE Line(s)[x]] =
          [x \in Width |-> IF x = 0 THEN ">" ELSE
                             IF x <= Len(Append(s, ch)) THEN Append(s, ch)[x] ELSE Blank]
    <3> HIDE DEF Line
    <3>. QED BY <2>1, Zenon
  <2>. QED BY <2>3, <2>4, <2>5, Zenon
<1>8. d.col = 1 + Len(Append(s, ch))
  BY <1>2, <1>3, <1>5, <1>6
<1>9. ASSUME NEW y \in Scanlines(d.row) PROVE d.cells[y] = Line(Append(s, ch))
  <2>1. c.cells[y] = Line(s) /\ d.cells[y] = [c.cells[y] EXCEPT ![c.col] = ch]
    BY <1>3, <1>5, Zenon
  <2>. QED BY <1>3, <1>7, <2>1
<1>. QED BY <1>8, <1>9, Zenon DEF Shows

\* The character before the cursor is wiped out.
Wiped(d, c) ==
  /\ d.col = c.col - 1 /\ d.row = c.row
  /\ \A y \in Scanlines(c.row) : d.cells[y] = [c.cells[y] EXCEPT ![c.col - 1] = Blank]

\* backspace wipes out the character before the cursor, if there is one.
LEMMA BackIs ==
  ASSUME NEW c, Good(c), NEW d, d = backspace(c)
  PROVE  Good(d) /\ (c.col > 0 => Wiped(d, c))
<1>1. c \in Wide /\ c.row < rows /\ BlankFrom(c.cells, c.row + 1)
  BY Zenon DEF Good
<1>2. c.col \in Width /\ c.row \in Nat /\ c.cells \in Cells /\ c.col \in Nat
  BY <1>1, WideFields, Zenon
<1>3. CASE ~(c.col > 0)
  <2>1. d = c
    BY <1>3 DEF backspace
  <2>. QED BY <1>3, <2>1, Zenon
<1>4. CASE c.col > 0
  <2> DEFINE b == [c EXCEPT !.col = @ - 1]
             x == c.col - 1
  <2>1. d = draw_char(b, x, c.row, Blank)
    BY <1>4 DEF backspace
  <2>2. x \in Width
    BY <1>2, <1>4, Geometry DEF Width
  <2>3. b \in Wide /\ b.col = x /\ b.row = c.row /\ b.cells = c.cells
    <3>1. b = [c EXCEPT !.col = x]
      OBVIOUS
    <3> HIDE DEF b, x
    <3>. QED BY <1>1, <2>2, <3>1 DEF Wide
  <2> HIDE DEF b, x
  <2>4. Drawn(d, b, x, c.row, Blank)
    BY <2>1, <2>2, <2>3, DrawIs, GlyphsAre, Zenon
  <2>5. /\ d \in Wide /\ d.col = x /\ d.row = c.row
        /\ \A y \in 0 .. HEIGHT - 1 : y \in Scanlines(c.row) => d.cells[y] = [c.cells[y] EXCEPT ![x] = Blank]
        /\ \A y \in 0 .. HEIGHT - 1 : y \notin Scanlines(c.row) => d.cells[y] = c.cells[y]
    BY <2>3, <2>4, Zenon DEF Drawn
  <2>6. /\ Top(c.row) \in Nat /\ Top(c.row + 1) = Top(c.row) + CHAR_HEIGHT
        /\ Scanlines(c.row) = Top(c.row) .. Top(c.row) + CHAR_HEIGHT - 1
        /\ Top(c.row) + CHAR_HEIGHT <= Top(rows)
    BY <1>1, <1>2, RowTops
  <2>7. Scanlines(c.row) \subseteq 0 .. HEIGHT - 1
    BY <2>6, Geometry
  <2>8. BlankFrom(d.cells, c.row + 1)
    <3>1. ASSUME NEW y \in 0 .. HEIGHT - 1, Top(c.row + 1) <= y PROVE y \notin Scanlines(c.row)
      BY <2>6, <3>1, Geometry
    <3>. QED BY <1>1, <2>5, <3>1, Zenon DEF BlankFrom
  <2>. QED BY <1>1, <2>5, <2>7, <2>8, Zenon DEF Good, Wiped, x
<1>. QED BY <1>3, <1>4

\* The last character of the line disappears.
LEMMA BackShows ==
  ASSUME NEW c, Good(c), NEW s \in Seq(Chars), Shows(c, s), Len(s) > 0, NEW d, d = backspace(c)
  PROVE  Shows(d, SubSeq(s, 1, Len(s) - 1))
<1> DEFINE n == Len(s)
           t == SubSeq(s, 1, n - 1)
<1>1. n \in Nat /\ n > 0
  OBVIOUS
<1>2. c.col = 1 + n /\ \A y \in Scanlines(c.row) : c.cells[y] = Line(s)
  BY Zenon DEF Shows
<1>3. c.col > 0 /\ c.col - 1 = n
  BY <1>1, <1>2
<1>4. /\ d.col = n /\ d.row = c.row
      /\ \A y \in Scanlines(c.row) : d.cells[y] = [c.cells[y] EXCEPT ![n] = Blank]
  <2>1. Wiped(d, c)
    BY <1>3, BackIs, Zenon
  <2>. QED BY <1>3, <2>1, Zenon DEF Wiped
<1>5. Len(t) = n - 1 /\ \A x \in 1 .. n - 1 : t[x] = s[x]
  BY <1>1
<1> HIDE DEF n, t
<1>6. [Line(s) EXCEPT ![n] = Blank] = Line(t)
  <2>1. ASSUME NEW x \in Width
        PROVE  (IF x = n THEN Blank ELSE Line(s)[x]) =
                 IF x = 0 THEN ">" ELSE IF x <= Len(t) THEN t[x] ELSE Blank
    <3>1. Line(s)[x] = IF x = 0 THEN ">" ELSE IF x <= n THEN s[x] ELSE Blank
      BY Zenon DEF Line, n
    <3>2. x \in Nat
      BY Geometry DEF Width
    <3>3. CASE x = n
      BY <1>1, <1>5, <3>3
    <3>4. CASE x # n /\ x <= n - 1
      BY <1>1, <1>5, <3>1, <3>2, <3>4
    <3>5. CASE x # n /\ ~(x <= n - 1)
      BY <1>1, <1>5, <3>1, <3>2, <3>5
    <3>. QED BY <3>3, <3>4, <3>5
  <2>2. DOMAIN Line(s) = Width
    BY Zenon DEF Line
  <2>3. [Line(s) EXCEPT ![n] = Blank] = [x \in Width |-> IF x = n THEN Blank ELSE Line(s)[x]]
    BY <2>2
  <2>4. Line(t) = [x \in Width |-> IF x = 0 THEN ">" ELSE IF x <= Len(t) THEN t[x] ELSE Blank]
    BY Zenon DEF Line
  <2>5. [x \in Width |-> IF x = n THEN Blank ELSE Line(s)[x]] =
          [x \in Width |-> IF x = 0 THEN ">" ELSE IF x <= Len(t) THEN t[x] ELSE Blank]
    BY <2>1, Zenon
  <2>. QED BY <2>3, <2>4, <2>5, Zenon
<1>7. d.col = 1 + Len(t)
  BY <1>1, <1>4, <1>5
<1>8. ASSUME NEW y \in Scanlines(d.row) PROVE d.cells[y] = Line(t)
  <2>1. c.cells[y] = Line(s) /\ d.cells[y] = [c.cells[y] EXCEPT ![n] = Blank]
    BY <1>2, <1>4, Zenon
  <2>. QED BY <1>6, <2>1
<1>. QED BY <1>7, <1>8, Zenon DEF Shows, t, n

-----------------------------------------------------------------------------
(* Lines                                                                   *)

\* f[k] is the console after k characters of s.
Printed(f, c, s) ==
  /\ f[0] = c /\ \A k \in 1 .. Len(s) : f[k] = write_char(f[k - 1], s[k])
  /\ \A k \in 0 .. Len(s) : Good(f[k])

\* A string is printed character by character.
LEMMA PrintingIs ==
  ASSUME NEW c, Good(c), NEW s \in Seq(Glyphs), NEW f, f = Printing(c, s)
  PROVE  Printed(f, c, s)
<1> DEFINE n == Len(s)
           S == {d \in Wide : Good(d)}
           g == [k \in 1..n |-> [d \in S |-> write_char(d, s[k])]]
           Along(w) == w = [k \in 0..n |-> IF k = 0 THEN c ELSE write_char(w[k - 1], s[k])]
<1>1. n \in Nat /\ c \in S /\ \A k \in 1..n : s[k] \in Glyphs
  <2>1. n \in Nat /\ \A k \in 1..n : s[k] \in Glyphs
    OBVIOUS
  <2>. QED BY <2>1, Zenon DEF Good
<1>2. g \in [1..n -> [S -> S]]
  <2>1. ASSUME NEW k \in 1..n, NEW d \in S PROVE write_char(d, s[k]) \in S
    <3>1. Good(write_char(d, s[k]))
      BY <1>1, WriteGood, Zenon
    <3>. QED BY <3>1, Zenon DEF Good
  <2> HIDE DEF S
  <2>. QED BY <2>1, Zenon
<1>3. PICK w \in [0..n -> S] : Goes(w, c, g, n)
  <2> HIDE DEF g, S, n
  <2>. QED BY <1>1, <1>2, GoesExist, Zenon
<1>4. w[0] = c /\ \A k \in 1..n : w[k] = g[k][w[k - 1]]
  BY <1>3, Zenon DEF Goes
<1>5. ASSUME NEW k \in 0..n PROVE w[k] = IF k = 0 THEN c ELSE write_char(w[k - 1], s[k])
  <2>1. CASE k = 0
    BY <1>4, <2>1, Zenon
  <2>2. CASE k # 0
    <3>1. k \in 1..n /\ k - 1 \in 0..n
      BY <1>1, <2>2
    <3>2. w[k - 1] \in S
      BY <1>3, <3>1, Zenon
    <3>3. w[k] = g[k][w[k - 1]]
      BY <1>4, <3>1, Zenon
    <3>. QED BY <2>2, <3>1, <3>2, <3>3, Zenon
  <2>. QED BY <2>1, <2>2
<1>6. Along(w)
  <2>1. w = [k \in 0..n |-> w[k]]
    BY <1>3, Zenon
  <2>. QED BY <1>5, <2>1, Zenon
<1>7. f = CHOOSE v : Along(v)
  BY Zenon DEF Printing
<1>8. Along(f)
  <2> HIDE DEF Along
  <2>. QED BY <1>6, <1>7, Zenon
<1>9. \A k \in 0..n : f[k] = IF k = 0 THEN c ELSE write_char(f[k - 1], s[k])
  BY <1>8, Zenon
<1>10. 0 \in 0..n /\ \A k \in 1..n : k \in 0..n /\ k # 0
  BY <1>1
<1>11. f[0] = c /\ \A k \in 1..n : f[k] = write_char(f[k - 1], s[k])
  BY <1>9, <1>10, Zenon
<1>12. \A k \in 0..n : Good(f[k])
  <2> DEFINE T == {k \in 0..n : Good(f[k])}
  <2>1. 0 \in T
    BY <1>10, <1>11, Zenon
  <2>2. ASSUME NEW k \in 1..n, k - 1 \in T PROVE k \in T
    <3>1. Good(f[k - 1])
      BY <2>2, Zenon
    <3>. QED BY <1>1, <1>10, <1>11, <3>1, WriteGood, Zenon
  <2> HIDE DEF T
  <2>3. \A k \in 0..n : k \in T
    BY <1>1, <2>1, <2>2, UpTo, Zenon
  <2>. QED BY <2>3, Zenon DEF T
<1>. QED BY <1>11, <1>12, Zenon DEF Printed

\* Printing leaves nothing below the cursor.
LEMMA PrintGood == ASSUME NEW c, Good(c), NEW s \in Seq(Glyphs) PROVE Good(print(c, s))
<1>1. Printed(Printing(c, s), c, s)
  BY PrintingIs, Zenon
<1>2. Len(s) \in 0 .. Len(s)
  BY LenProperties
<1>. QED BY <1>1, <1>2, Zenon DEF Printed, print

\* One character, and three.
LEMMA PrintOne ==
  ASSUME NEW c, Good(c), NEW ch \in Glyphs
  PROVE  print(c, <<ch>>) = write_char(c, ch)
<1> DEFINE s == <<ch>>
           f == Printing(c, s)
<1>1. s \in Seq(Glyphs) /\ Len(s) = 1 /\ s[1] = ch
  OBVIOUS
<1> HIDE DEF s
<1>2. Printed(f, c, s)
  BY <1>1, PrintingIs, Zenon
<1>3. 1 \in 1 .. Len(s) /\ 1 - 1 = 0
  BY <1>1
<1>4. f[0] = c /\ f[1] = write_char(f[1 - 1], s[1])
  BY <1>2, <1>3, Zenon DEF Printed
<1>5. print(c, s) = f[1]
  BY <1>1, Zenon DEF print
<1>. QED BY <1>1, <1>3, <1>4, <1>5, Zenon DEF s

\* A string whose third and last character is a newline leads to a blank row.
LEMMA PrintThree ==
  ASSUME NEW c, Good(c), NEW a \in Glyphs, NEW b \in Glyphs
  PROVE  Fresh(print(c, <<a, b, "\n">>))
<1> DEFINE s == <<a, b, "\n">>
           f == Printing(c, s)
<1>1. s \in Seq(Glyphs) /\ Len(s) = 3 /\ s[3] = "\n"
  BY GlyphsAre
<1> HIDE DEF s
<1>2. Printed(f, c, s)
  BY <1>1, PrintingIs, Zenon
<1>3. 3 \in 1 .. Len(s) /\ 3 - 1 \in 0 .. Len(s)
  BY <1>1
<1>4. Good(f[3 - 1]) /\ f[3] = write_char(f[3 - 1], s[3])
  BY <1>2, <1>3, Zenon DEF Printed
<1>5. print(c, s) = f[3]
  BY <1>1, Zenon DEF print
<1>6. Fresh(f[3])
  BY <1>1, <1>4, Newline, Zenon
<1>. QED BY <1>5, <1>6, Zenon DEF s

\* The prefixes of a line.
LEMMA Prefixes ==
  ASSUME NEW S, NEW s \in Seq(S), NEW k \in 1 .. Len(s)
  PROVE  /\ Append(SubSeq(s, 1, k - 1), s[k]) = SubSeq(s, 1, k)
         /\ SubSeq(s, 1, k - 1) = SubSeq(SubSeq(s, 1, k), 1, k - 1)
         /\ SubSeq(s, 1, k - 1) \in Seq(S) /\ SubSeq(s, 1, k) \in Seq(S) /\ s[k] \in S
         /\ Len(SubSeq(s, 1, k - 1)) = k - 1 /\ Len(SubSeq(s, 1, k)) = k
<1> DEFINE a == SubSeq(s, 1, k - 1)
           b == SubSeq(s, 1, k)
           d == SubSeq(b, 1, k - 1)
<1>1. Len(s) \in Nat /\ k \in Nat /\ k >= 1 /\ k <= Len(s) /\ s[k] \in S
  OBVIOUS
<1>2. a \in Seq(S) /\ Len(a) = k - 1 /\ \A i \in 1 .. k - 1 : a[i] = s[i]
  BY <1>1
<1>3. b \in Seq(S) /\ Len(b) = k /\ \A i \in 1..k : b[i] = s[i]
  BY <1>1
<1> HIDE DEF a, b
<1>4. d \in Seq(S) /\ Len(d) = k - 1 /\ \A i \in 1 .. k - 1 : d[i] = b[i]
  BY <1>1, <1>3
<1> HIDE DEF d
<1>5. /\ Append(a, s[k]) \in Seq(S) /\ Len(Append(a, s[k])) = k
      /\ \A i \in 1 .. k - 1 : Append(a, s[k])[i] = a[i]
      /\ Append(a, s[k])[k] = s[k]
  BY <1>1, <1>2, AppendProperties
<1>6. \A i \in 1..k : Append(a, s[k])[i] = b[i]
  BY <1>1, <1>2, <1>3, <1>5
<1>7. Append(a, s[k]) = b
  BY <1>3, <1>5, <1>6, SeqEqual
<1>8. ASSUME NEW i \in 1 .. Len(a) PROVE a[i] = d[i]
  <2>1. i \in 1 .. k - 1 /\ i \in 1..k
    BY <1>1, <1>2
  <2>. QED BY <1>2, <1>3, <1>4, <2>1, Zenon
<1>9. a = d
  BY <1>2, <1>4, <1>8, SeqEqual
<1>. QED BY <1>1, <1>2, <1>3, <1>7, <1>9, Zenon DEF a, b, d

\* All of a line, and nothing of it.
LEMMA WholeAndNone ==
  ASSUME NEW S, NEW s \in Seq(S)
  PROVE  SubSeq(s, 1, Len(s)) = s /\ SubSeq(s, 1, 0) = << >> /\ Len(s) \in Nat
<1>1. SubSeq(s, 1, Len(s)) = s
  <2>1. /\ SubSeq(s, 1, Len(s)) \in Seq(S) /\ Len(SubSeq(s, 1, Len(s))) = Len(s)
        /\ \A i \in 1 .. Len(s) : SubSeq(s, 1, Len(s))[i] = s[i]
    OBVIOUS
  <2>. QED BY <2>1, SeqEqual
<1>2. SubSeq(s, 1, 0) = << >>
  <2>1. SubSeq(s, 1, 0) \in Seq(S) /\ Len(SubSeq(s, 1, 0)) = 0
    OBVIOUS
  <2>. QED BY <2>1, EmptySeq
<1>. QED BY <1>1, <1>2

\* A line printed after an empty prompt is shown.
LEMMA PrintShows ==
  ASSUME NEW c, Good(c), Shows(c, << >>), NEW s \in Seq(Chars), 1 + Len(s) < COLS
  PROVE  Shows(print(c, s), s)
<1> DEFINE n == Len(s)
           f == Printing(c, s)
           T == {k \in 0..n : Shows(f[k], SubSeq(s, 1, k))}
<1>1. n \in Nat /\ SubSeq(s, 1, n) = s /\ SubSeq(s, 1, 0) = << >> /\ 0 \in 0..n /\ n \in 0..n
  BY WholeAndNone
<1>2. Printed(f, c, s)
  <2>1. s \in Seq(Glyphs)
    <3>1. Chars \subseteq Glyphs
      BY GlyphsAre, Zenon
    <3>. QED BY <3>1
  <2>. QED BY <2>1, PrintingIs, Zenon
<1>3. /\ f[0] = c /\ \A k \in 1..n : f[k] = write_char(f[k - 1], s[k])
      /\ \A k \in 0..n : Good(f[k])
  BY <1>2, Zenon DEF Printed
<1>4. print(c, s) = f[n]
  BY Zenon DEF print
<1> HIDE DEF f
<1>5. 0 \in T
  BY <1>1, <1>3, Zenon
<1>6. ASSUME NEW k \in 1..n, k - 1 \in T PROVE k \in T
  <2> DEFINE a == SubSeq(s, 1, k - 1)
  <2>1. k - 1 \in 0..n /\ k \in 0..n /\ 2 + (k - 1) < COLS
    BY <1>1, Geometry
  <2>2. a \in Seq(Chars) /\ Len(a) = k - 1 /\ s[k] \in Chars /\ Append(a, s[k]) = SubSeq(s, 1, k)
    BY Prefixes, Zenon
  <2>3. Shows(f[k - 1], a) /\ Good(f[k - 1]) /\ f[k] = write_char(f[k - 1], s[k])
    BY <1>3, <1>6, <2>1, Zenon
  <2> HIDE DEF a
  <2>4. Shows(f[k], Append(a, s[k]))
    BY <2>1, <2>2, <2>3, WriteShows
  <2>. QED BY <2>1, <2>2, <2>4, Zenon
<1> HIDE DEF T
<1>7. \A k \in 0..n : k \in T
  BY <1>1, <1>5, <1>6, UpTo, Zenon
<1>8. n \in T
  BY <1>1, <1>7, Zenon
<1>. QED BY <1>1, <1>4, <1>8, Zenon DEF T

\* f[k] is the console after k characters were erased.
Wiping(f, c, n) ==
  /\ f[0] = c /\ \A k \in 1..n : f[k] = backspace(f[k - 1])
  /\ \A k \in 0..n : Good(f[k])

\* Characters are erased one by one.
LEMMA ErasingIs ==
  ASSUME NEW c, Good(c), NEW n \in Nat, NEW f, f = Erasing(c, n)
  PROVE  Wiping(f, c, n)
<1> DEFINE S == {d \in Wide : Good(d)}
           g == [k \in 1..n |-> [d \in S |-> backspace(d)]]
           Along(w) == w = [k \in 0..n |-> IF k = 0 THEN c ELSE backspace(w[k - 1])]
<1>1. c \in S
  BY Zenon DEF Good
<1>2. g \in [1..n -> [S -> S]]
  <2>1. ASSUME NEW d \in S PROVE backspace(d) \in S
    <3>1. Good(backspace(d))
      BY BackIs, Zenon
    <3>. QED BY <3>1, Zenon DEF Good
  <2> HIDE DEF S
  <2>. QED BY <2>1, Zenon
<1>3. PICK w \in [0..n -> S] : Goes(w, c, g, n)
  <2> HIDE DEF g, S
  <2>. QED BY <1>1, <1>2, GoesExist, Zenon
<1>4. w[0] = c /\ \A k \in 1..n : w[k] = g[k][w[k - 1]]
  BY <1>3, Zenon DEF Goes
<1>5. ASSUME NEW k \in 0..n PROVE w[k] = IF k = 0 THEN c ELSE backspace(w[k - 1])
  <2>1. CASE k = 0
    BY <1>4, <2>1, Zenon
  <2>2. CASE k # 0
    <3>1. k \in 1..n /\ k - 1 \in 0..n
      BY <2>2
    <3>2. w[k - 1] \in S
      BY <1>3, <3>1, Zenon
    <3>3. w[k] = g[k][w[k - 1]]
      BY <1>4, <3>1, Zenon
    <3>. QED BY <2>2, <3>1, <3>2, <3>3, Zenon
  <2>. QED BY <2>1, <2>2
<1>6. Along(w)
  <2>1. w = [k \in 0..n |-> w[k]]
    BY <1>3, Zenon
  <2>. QED BY <1>5, <2>1, Zenon
<1>7. f = CHOOSE v : Along(v)
  BY Zenon DEF Erasing
<1>8. Along(f)
  <2> HIDE DEF Along
  <2>. QED BY <1>6, <1>7, Zenon
<1>9. \A k \in 0..n : f[k] = IF k = 0 THEN c ELSE backspace(f[k - 1])
  BY <1>8, Zenon
<1>10. 0 \in 0..n /\ \A k \in 1..n : k \in 0..n /\ k # 0
  OBVIOUS
<1>11. f[0] = c /\ \A k \in 1..n : f[k] = backspace(f[k - 1])
  BY <1>9, <1>10, Zenon
<1>12. \A k \in 0..n : Good(f[k])
  <2> DEFINE T == {k \in 0..n : Good(f[k])}
  <2>1. 0 \in T
    BY <1>10, <1>11, Zenon
  <2>2. ASSUME NEW k \in 1..n, k - 1 \in T PROVE k \in T
    <3>1. Good(f[k - 1])
      BY <2>2, Zenon
    <3>. QED BY <1>10, <1>11, <3>1, BackIs, Zenon
  <2> HIDE DEF T
  <2>3. \A k \in 0..n : k \in T
    BY <2>1, <2>2, UpTo, Zenon
  <2>. QED BY <2>3, Zenon DEF T
<1>. QED BY <1>11, <1>12, Zenon DEF Wiping

\* Erasing leaves nothing below the cursor.
LEMMA EraseGood == ASSUME NEW c, Good(c), NEW n \in Nat PROVE Good(Erased(c, n))
<1>1. Wiping(Erasing(c, n), c, n)
  BY ErasingIs, Zenon
<1>2. n \in 0..n
  OBVIOUS
<1>. QED BY <1>1, <1>2, Zenon DEF Wiping, Erased

\* As many steps as the line is long leave the prompt alone.
LEMMA EraseShows ==
  ASSUME NEW c, Good(c), NEW s \in Seq(Chars), Shows(c, s)
  PROVE  Shows(Erased(c, Len(s)), << >>)
<1> DEFINE n == Len(s)
           f == Erasing(c, n)
           T == {k \in 0..n : Shows(f[k], SubSeq(s, 1, n - k))}
<1>1. /\ n \in Nat /\ SubSeq(s, 1, n) = s /\ SubSeq(s, 1, 0) = << >> /\ 0 \in 0..n /\ n \in 0..n
      /\ n - n = 0 /\ n - 0 = n
  BY WholeAndNone
<1>2. Wiping(f, c, n)
  BY <1>1, ErasingIs, Zenon
<1>3. /\ f[0] = c /\ \A k \in 1..n : f[k] = backspace(f[k - 1])
      /\ \A k \in 0..n : Good(f[k])
  BY <1>2, Zenon DEF Wiping
<1>4. Erased(c, n) = f[n]
  BY Zenon DEF Erased
<1> HIDE DEF f
<1>5. 0 \in T
  BY <1>1, <1>3, Zenon
<1>6. ASSUME NEW k \in 1..n, k - 1 \in T PROVE k \in T
  <2>1. PICK j \in 1..n : j = n - (k - 1)
    BY <1>1
  <2>2. k - 1 \in 0..n /\ k \in 0..n /\ j - 1 = n - k /\ j > 0
    BY <1>1, <2>1
  <2> DEFINE b == SubSeq(s, 1, j)
  <2>3. b \in Seq(Chars) /\ Len(b) = j /\ SubSeq(s, 1, j - 1) = SubSeq(b, 1, j - 1)
    BY Prefixes, Zenon
  <2>4. Shows(f[k - 1], b) /\ Good(f[k - 1]) /\ f[k] = backspace(f[k - 1])
    BY <1>3, <1>6, <2>1, <2>2, Zenon
  <2> HIDE DEF b
  <2>5. Shows(f[k], SubSeq(b, 1, Len(b) - 1))
    BY <2>2, <2>3, <2>4, BackShows, Zenon
  <2>. QED BY <2>2, <2>3, <2>5, Zenon
<1> HIDE DEF T
<1>7. \A k \in 0..n : k \in T
  BY <1>1, <1>5, <1>6, UpTo, Zenon
<1>8. n \in T
  BY <1>1, <1>7, Zenon
<1>. QED BY <1>1, <1>4, <1>8, Zenon DEF T

-----------------------------------------------------------------------------
(* The prompt                                                              *)

\* The status bar is below the text.
LEMMA StatusIs ==
  ASSUME NEW c, Good(c), NEW d, d = draw_status_bar(c)
  PROVE  /\ Good(d) /\ d.col = c.col /\ d.row = c.row
         /\ Fresh(c) => Fresh(d)
         /\ \A y \in Scanlines(c.row) : d.cells[y] = c.cells[y]
<1> DEFINE new == fill_row(c.cells, total_rows - 1, "=")
<1>1. c \in Wide /\ c.row < rows /\ BlankFrom(c.cells, c.row + 1)
  BY Zenon DEF Good
<1>2. c.row \in Nat /\ c.cells \in Cells
  BY <1>1, WideFields, Zenon
<1>3. d = [c EXCEPT !.cells = new]
  BY DEF draw_status_bar
<1>4. Filled(new, c.cells, rows, "=")
  <2>1. total_rows - 1 = rows
    BY Geometry, Zenon
  <2>. QED BY <1>2, <2>1, FillIs, GlyphsAre, Zenon
<1> HIDE DEF new
<1>5. /\ new \in Cells
      /\ \A y \in 0 .. HEIGHT - 1 : y \notin Scanlines(rows) => new[y] = c.cells[y]
  BY <1>4, Zenon DEF Filled
<1>6. d \in Wide /\ d.col = c.col /\ d.row = c.row /\ d.cells = new
  BY <1>1, <1>3, <1>5 DEF Wide
<1>7. \A y \in 0 .. HEIGHT - 1 : y < Top(rows) => y \notin Scanlines(rows)
  <2>1. rows \in Nat
    BY Geometry, Zenon
  <2>2. Top(rows) \in Nat /\ Scanlines(rows) = Top(rows) .. Top(rows) + CHAR_HEIGHT - 1
    BY <2>1, RowTops, Zenon
  <2>. QED BY <2>2, Geometry
<1>8. \A y \in Scanlines(c.row) : y \in 0 .. HEIGHT - 1 /\ y < Top(rows)
  <2>1. /\ Top(c.row) \in Nat
        /\ Scanlines(c.row) = Top(c.row) .. Top(c.row) + CHAR_HEIGHT - 1
        /\ Top(c.row) + CHAR_HEIGHT <= Top(rows)
    BY <1>1, <1>2, RowTops, Zenon
  <2>. QED BY <2>1, Geometry
<1>9. \A r : BlankFrom(c.cells, r) => BlankFrom(new, r)
  BY <1>5, <1>7, Zenon DEF BlankFrom
<1>. QED BY <1>1, <1>5, <1>6, <1>7, <1>8, <1>9, Zenon DEF Good, Fresh

\* A prompt on a blank row.
LEMMA PromptIs ==
  ASSUME NEW c, Fresh(c), NEW d, d = print_prompt(c)
  PROVE  Good(d) /\ Shows(d, << >>)
<1> DEFINE b == draw_status_bar(c)
<1>1. Good(b) /\ Fresh(b)
  BY FreshGood, StatusIs, Zenon
<1>2. d = print(b, <<">">>)
  BY Zenon DEF print_prompt
<1> HIDE DEF b
<1>3. d = write_char(b, ">")
  BY <1>1, <1>2, PrintOne, GlyphsAre, Zenon
<1>4. b \in Wide /\ b.row < rows /\ b.col = 0 /\ BlankFrom(b.cells, b.row)
  BY <1>1, Zenon DEF Fresh
<1>5. b.col + 1 < COLS
  BY <1>4, Geometry
<1>6. Good(d) /\ Put(d, b, ">")
  BY <1>1, <1>3, <1>5, PutChar, GlyphsAre, Zenon
<1>7. /\ d.col = b.col + 1 /\ d.row = b.row
      /\ \A y \in Scanlines(b.row) : d.cells[y] = [b.cells[y] EXCEPT ![b.col] = ">"]
  BY <1>6, Zenon DEF Put
<1>8. b.row \in Nat
  BY <1>4, WideFields, Zenon
<1>9. ASSUME NEW y \in Scanlines(b.row) PROVE b.cells[y] = BlankRow
  <2>1. /\ Top(b.row) \in Nat
        /\ Scanlines(b.row) = Top(b.row) .. Top(b.row) + CHAR_HEIGHT - 1
        /\ Top(b.row) + CHAR_HEIGHT <= Top(rows)
    BY <1>4, <1>8, RowTops, Zenon
  <2>2. y \in 0 .. HEIGHT - 1 /\ Top(b.row) <= y /\ y < Top(rows)
    BY <2>1, Geometry
  <2>. QED BY <1>4, <2>2, Zenon DEF BlankFrom
<1>10. [BlankRow EXCEPT ![0] = ">"] = Line(<< >>)
  <2>1. Len(<< >>) = 0 /\ \A x \in Width : x # 0 => ~(x <= 0)
    BY Geometry DEF Width
  <2>2. [BlankRow EXCEPT ![0] = ">"] = [x \in Width |-> IF x = 0 THEN ">" ELSE Blank]
    BY DEF BlankRow
  <2>3. [x \in Width |-> IF x = 0 THEN ">" ELSE Blank] =
        [x \in Width |-> IF x = 0 THEN ">" ELSE IF x <= Len(<< >>) THEN << >>[x] ELSE Blank]
    BY <2>1
  <2>. QED BY <2>2, <2>3, Zenon DEF Line
<1>11. ASSUME NEW y \in Scanlines(d.row) PROVE d.cells[y] = Line(<< >>)
  <2>1. d.cells[y] = [b.cells[y] EXCEPT ![b.col] = ">"] /\ b.cells[y] = BlankRow
    BY <1>7, <1>9, Zenon
  <2>. QED BY <1>4, <1>10, <2>1
<1>12. d.col = 1 + Len(<< >>)
  BY <1>4, <1>7
<1>. QED BY <1>6, <1>11, <1>12, Zenon DEF Shows

\* A screen that was cleared.
LEMMA ClearIs == ASSUME NEW c PROVE Fresh(clear(c))
<1> DEFINE d == clear(c)
<1>1. d.cells = BlankScreen /\ d.col = 0 /\ d.row = 0
  BY DEF clear
<1>2. BlankScreen = [y \in 0 .. HEIGHT - 1 |-> BlankRow]
  BY Zenon DEF BlankScreen, BlankRow, Width
<1>3. BlankScreen \in Cells /\ \A y \in 0 .. HEIGHT - 1 : BlankScreen[y] = BlankRow
  BY <1>2, GlyphsAre, Zenon DEF Cells
<1>4. 0 \in Width /\ 0 \in 0..rows /\ 0 < rows
  BY Geometry DEF Width
<1>5. d \in Wide
  BY <1>3, <1>4 DEF Wide, clear
<1> HIDE DEF d
<1>6. Fresh(d)
  BY <1>1, <1>3, <1>4, <1>5, Zenon DEF Fresh, BlankFrom
<1>. QED BY <1>6 DEF d

-----------------------------------------------------------------------------
(* The history                                                             *)

Slots == 0 .. HISTORY_SIZE - 1
Histories == [entries : [Slots -> Seq(Chars)], count : 0 .. HISTORY_SIZE, write_idx : Slots,
              browse_idx : Slots, browsing : BOOLEAN]

\* The slot of the i-th of n commands.
Slot(w, n, i) == (w + HISTORY_SIZE - n + i - 1) % HISTORY_SIZE
Recent(h, r) == h.count = Len(r) /\ \A i \in 1 .. Len(r) : h.entries[Slot(h.write_idx, Len(r), i)] = r[i]
HistOK(h, r) == h \in Histories /\ r \in Seq(Seq(Chars)) /\ Len(r) <= HISTORY_SIZE /\ Recent(h, r)

\* A remainder, of less than twice the size.
LEMMA WrapIs ==
  ASSUME NEW a \in Nat, a < 2 * HISTORY_SIZE
  PROVE  a % HISTORY_SIZE = IF a < HISTORY_SIZE THEN a ELSE a - HISTORY_SIZE
<1>1. HISTORY_SIZE \in Nat /\ HISTORY_SIZE >= 1
  BY PromptAssumption
<1>2. CASE a < HISTORY_SIZE
  BY <1>1, <1>2
<1>3. CASE ~(a < HISTORY_SIZE)
  <2>1. PICK b \in Nat : a = b + HISTORY_SIZE /\ b < HISTORY_SIZE
    <3>1. a - HISTORY_SIZE \in Nat /\ a = (a - HISTORY_SIZE) + HISTORY_SIZE /\ a - HISTORY_SIZE < HISTORY_SIZE
      BY <1>1, <1>3
    <3>. QED BY <3>1, Zenon
  <2>. QED BY <1>1, <1>3, <2>1
<1>. QED BY <1>2, <1>3

\* Where the commands are, without a remainder.
LEMMA SlotIs ==
  ASSUME NEW w \in Slots, NEW n \in 0 .. HISTORY_SIZE, NEW i \in 1..n
  PROVE  Slot(w, n, i) = IF w + i - 1 < n THEN w + HISTORY_SIZE - n + i - 1 ELSE w + i - 1 - n
<1>1. HISTORY_SIZE \in Nat /\ HISTORY_SIZE >= 1
  BY PromptAssumption
<1>2. w \in Nat /\ w < HISTORY_SIZE /\ n \in Nat /\ n <= HISTORY_SIZE /\ i \in Nat /\ 1 <= i /\ i <= n
  BY <1>1 DEF Slots
<1>3. PICK a \in Nat : a = w + HISTORY_SIZE - n + i - 1
  BY <1>1, <1>2
<1>4. a < 2 * HISTORY_SIZE
  BY <1>1, <1>2, <1>3
<1>5. a % HISTORY_SIZE = IF a < HISTORY_SIZE THEN a ELSE a - HISTORY_SIZE
  BY <1>4, WrapIs, Zenon
<1>6. Slot(w, n, i) = a % HISTORY_SIZE
  BY <1>3, Zenon DEF Slot
<1>. QED BY <1>1, <1>2, <1>3, <1>5, <1>6

\* The slot after another.
LEMMA NextSlot ==
  ASSUME NEW w \in Slots
  PROVE  /\ (w + 1) % HISTORY_SIZE = IF w + 1 = HISTORY_SIZE THEN 0 ELSE w + 1
         /\ (w + 1) % HISTORY_SIZE \in Slots /\ Previous(w) \in Slots
<1>1. HISTORY_SIZE \in Nat /\ HISTORY_SIZE >= 1 /\ w \in Nat /\ w < HISTORY_SIZE
  BY PromptAssumption DEF Slots
<1>2. PICK a \in Nat : a = w + 1 /\ a < 2 * HISTORY_SIZE
  BY <1>1
<1>3. a % HISTORY_SIZE = IF a < HISTORY_SIZE THEN a ELSE a - HISTORY_SIZE
  BY <1>2, WrapIs, Zenon
<1>. QED BY <1>1, <1>2, <1>3 DEF Slots, Previous

\* A record with some fields changed.
LEMMA HistFields ==
  ASSUME NEW h \in Histories
  PROVE  /\ h.entries \in [Slots -> Seq(Chars)] /\ h.count \in 0 .. HISTORY_SIZE
         /\ h.write_idx \in Slots /\ h.browse_idx \in Slots /\ h.browsing \in BOOLEAN
BY DEF Histories

\* A line is entered after the others, over the oldest when the ring is full.
Entered(r, line) == Append(IF Len(r) = HISTORY_SIZE THEN Tail(r) ELSE r, line)

\* A push that does not look at the newest entry.
LEMMA PushNew ==
  ASSUME NEW h, NEW r, HistOK(h, r), NEW line \in Seq(Chars), NEW g, g = push_always(h, line)
  PROVE  HistOK(g, Entered(r, line))
<1> DEFINE n == Len(r)
           w == h.write_idx
           q == Entered(r, line)
           m == Len(q)
<1>1. HISTORY_SIZE \in Nat /\ HISTORY_SIZE >= 1
  BY PromptAssumption
<1>2. /\ h \in Histories /\ r \in Seq(Seq(Chars)) /\ n <= HISTORY_SIZE /\ h.count = n
      /\ \A i \in 1..n : h.entries[Slot(w, n, i)] = r[i]
  BY Zenon DEF HistOK, Recent
<1>3. n \in Nat /\ n \in 0 .. HISTORY_SIZE /\ w \in Slots /\ h.entries \in [Slots -> Seq(Chars)]
  <2>1. n \in Nat /\ n \in 0 .. HISTORY_SIZE
    BY <1>1, <1>2
  <2>. QED BY <1>2, <2>1, HistFields, Zenon
<1>4. /\ q \in Seq(Seq(Chars)) /\ m = (IF n < HISTORY_SIZE THEN n + 1 ELSE n) /\ q[m] = line
      /\ \A i \in 1 .. m - 1 : q[i] = IF n < HISTORY_SIZE THEN r[i] ELSE r[i + 1]
  <2>1. CASE n = HISTORY_SIZE
    <3>1. q = Append(Tail(r), line)
      BY <2>1, Zenon DEF Entered
    <3>2. r # << >>
      BY <1>1, <2>1
    <3>3. Tail(r) \in Seq(Seq(Chars)) /\ Len(Tail(r)) = n - 1 /\ \A i \in 1 .. n - 1 : Tail(r)[i] = r[i + 1]
      BY <1>2, <3>2
    <3>4. /\ q \in Seq(Seq(Chars)) /\ Len(q) = n /\ q[n] = line
          /\ \A i \in 1 .. n - 1 : q[i] = Tail(r)[i]
      <4> DEFINE t == Tail(r)
      <4>1. t \in Seq(Seq(Chars)) /\ Len(t) = n - 1
        BY <3>3, Zenon
      <4> HIDE DEF t
      <4>2. /\ Append(t, line) \in Seq(Seq(Chars)) /\ Len(Append(t, line)) = Len(t) + 1
            /\ \A i \in 1 .. Len(t) : Append(t, line)[i] = t[i]
            /\ Append(t, line)[Len(t) + 1] = line
        BY <4>1, AppendProperties
      <4>3. q = Append(t, line) /\ Len(t) + 1 = n
        BY <1>3, <3>1, <4>1 DEF t
      <4>. QED BY <4>1, <4>2, <4>3, Zenon DEF t
    <3>5. ~(n < HISTORY_SIZE)
      BY <1>1, <2>1
    <3>. QED BY <3>3, <3>4, <3>5, Zenon
  <2>2. CASE n # HISTORY_SIZE
    <3>1. q = Append(r, line)
      BY <2>2, Zenon DEF Entered
    <3>2. n < HISTORY_SIZE /\ n + 1 - 1 = n
      BY <1>1, <1>3, <2>2
    <3>3. /\ Append(r, line) \in Seq(Seq(Chars)) /\ Len(Append(r, line)) = n + 1
          /\ \A i \in 1..n : Append(r, line)[i] = r[i]
          /\ Append(r, line)[n + 1] = line
      BY <1>2, AppendProperties
    <3>4. q \in Seq(Seq(Chars)) /\ m = n + 1 /\ q[m] = line /\ m - 1 = n
      BY <1>3, <3>1, <3>3
    <3>. QED BY <3>1, <3>2, <3>3, <3>4, Zenon
  <2>. QED BY <2>1, <2>2
<1>5. m \in Nat /\ m >= 1 /\ m <= HISTORY_SIZE /\ m \in 0 .. HISTORY_SIZE
  BY <1>1, <1>3, <1>4
<1> DEFINE v == (w + 1) % HISTORY_SIZE
<1>6. v = (IF w + 1 = HISTORY_SIZE THEN 0 ELSE w + 1) /\ v \in Slots
  BY <1>3, NextSlot, Zenon
<1> HIDE DEF q, v
<1>7. /\ g \in Histories /\ g.write_idx = v /\ g.count = m
      /\ g.entries = [h.entries EXCEPT ![w] = line]
  <2>1. g = [h EXCEPT !.entries[w] = line, !.write_idx = v,
                      !.count = IF @ < HISTORY_SIZE THEN @ + 1 ELSE @, !.browsing = FALSE]
    BY Zenon DEF push_always, v
  <2>2. [h.entries EXCEPT ![w] = line] \in [Slots -> Seq(Chars)]
    BY <1>3
  <2>3. (IF h.count < HISTORY_SIZE THEN h.count + 1 ELSE h.count) = m
    BY <1>2, <1>4, Zenon
  <2>4. g = [h EXCEPT !.entries = [h.entries EXCEPT ![w] = line], !.write_idx = v,
                      !.count = m, !.browsing = FALSE]
    BY <1>2, <2>1, <2>3 DEF Histories
  <2> HIDE DEF m, w
  <2>. QED BY <1>2, <1>5, <1>6, <2>2, <2>4 DEF Histories
<1>8. ASSUME NEW i \in 1..m PROVE g.entries[Slot(v, m, i)] = q[i]
  <2>1. Slot(v, m, i) = IF v + i - 1 < m THEN v + HISTORY_SIZE - m + i - 1 ELSE v + i - 1 - m
    BY <1>5, <1>6, SlotIs, Zenon
  <2>2. w \in Nat /\ w < HISTORY_SIZE
    BY <1>1, <1>3 DEF Slots
  <2>3. CASE i = m
    <3>1. Slot(v, m, i) = w
      BY <1>1, <1>5, <1>6, <2>1, <2>2, <2>3
    <3>. QED BY <1>3, <1>4, <1>7, <2>3, <3>1
  <2>4. CASE i # m
    <3>1. PICK j \in 1..n : j = IF n < HISTORY_SIZE THEN i ELSE i + 1
      BY <1>3, <1>4, <1>5, <2>4
    <3>2. q[i] = r[j]
      <4>1. i \in 1 .. m - 1
        BY <1>5, <2>4
      <4>. QED BY <1>4, <3>1, <4>1
    <3>3. Slot(w, n, j) = IF w + j - 1 < n THEN w + HISTORY_SIZE - n + j - 1 ELSE w + j - 1 - n
      BY <1>3, SlotIs, Zenon
    <3>4. Slot(v, m, i) = Slot(w, n, j) /\ Slot(w, n, j) # w /\ Slot(w, n, j) \in Slots
      <4>1. n < HISTORY_SIZE => m = n + 1 /\ j = i
        BY <1>4, <3>1
      <4>2. ~(n < HISTORY_SIZE) => m = HISTORY_SIZE /\ n = HISTORY_SIZE /\ j = i + 1
        BY <1>1, <1>3, <1>4, <3>1
      <4>3. PICK x : x = Slot(v, m, i)
        OBVIOUS
      <4>4. PICK y : y = Slot(w, n, j)
        OBVIOUS
      <4>5. x = IF v + i - 1 < m THEN v + HISTORY_SIZE - m + i - 1 ELSE v + i - 1 - m
        BY <2>1, <4>3, Zenon
      <4>6. y = IF w + j - 1 < n THEN w + HISTORY_SIZE - n + j - 1 ELSE w + j - 1 - n
        BY <3>3, <4>4, Zenon
      <4> HIDE DEF m, n, w
      <4>7. x = y /\ y # w /\ y \in 0 .. HISTORY_SIZE - 1
        <5>1. CASE n < HISTORY_SIZE /\ w + 1 = HISTORY_SIZE
          BY <1>1, <1>3, <1>5, <1>6, <2>2, <2>4, <4>1, <4>5, <4>6, <5>1
        <5>2. CASE n < HISTORY_SIZE /\ w + 1 # HISTORY_SIZE
          BY <1>1, <1>3, <1>5, <1>6, <2>2, <2>4, <4>1, <4>5, <4>6, <5>2
        <5>3. CASE ~(n < HISTORY_SIZE) /\ w + 1 = HISTORY_SIZE
          BY <1>1, <1>3, <1>5, <1>6, <2>2, <2>4, <4>2, <4>5, <4>6, <5>3
        <5>4. CASE ~(n < HISTORY_SIZE) /\ w + 1 # HISTORY_SIZE
          BY <1>1, <1>3, <1>5, <1>6, <2>2, <2>4, <4>2, <4>5, <4>6, <5>4
        <5>. QED BY <5>1, <5>2, <5>3, <5>4
      <4>. QED BY <4>3, <4>4, <4>7, Zenon DEF Slots
    <3>5. g.entries[Slot(w, n, j)] = h.entries[Slot(w, n, j)]
      BY <1>3, <1>7, <3>4
    <3>6. h.entries[Slot(w, n, j)] = r[j]
      BY <1>2, Zenon
    <3>. QED BY <3>2, <3>4, <3>5, <3>6, Zenon
  <2>. QED BY <2>3, <2>4
<1>. QED BY <1>4, <1>5, <1>7, <1>8, Zenon DEF HistOK, Recent, q

\* A line that is not the newest is entered; one that is leaves all as it was.
LEMMA PushIs ==
  ASSUME NEW h, NEW r, HistOK(h, r), NEW line \in Seq(Chars)
  PROVE  HistOK(push(h, line), IF r # << >> /\ r[Len(r)] = line THEN r ELSE Entered(r, line))
<1>1. HISTORY_SIZE \in Nat /\ HISTORY_SIZE >= 1
  BY PromptAssumption
<1>2. /\ h \in Histories /\ r \in Seq(Seq(Chars)) /\ Len(r) <= HISTORY_SIZE /\ h.count = Len(r)
      /\ \A i \in 1 .. Len(r) : h.entries[Slot(h.write_idx, Len(r), i)] = r[i]
  BY Zenon DEF HistOK, Recent
<1>3. Len(r) \in Nat /\ Len(r) \in 0 .. HISTORY_SIZE /\ (h.count > 0 <=> r # << >>)
  BY <1>1, <1>2
<1>4. ASSUME h.count > 0 PROVE h.entries[Previous(h.write_idx)] = r[Len(r)]
  <2>1. h.write_idx \in Slots /\ Len(r) \in 1 .. Len(r)
    BY <1>2, <1>3, <1>4, HistFields
  <2>2. Slot(h.write_idx, Len(r), Len(r)) =
          IF h.write_idx + Len(r) - 1 < Len(r) THEN h.write_idx + HISTORY_SIZE - Len(r) + Len(r) - 1
          ELSE h.write_idx + Len(r) - 1 - Len(r)
    BY <1>3, <2>1, SlotIs, Zenon
  <2>3. Slot(h.write_idx, Len(r), Len(r)) = Previous(h.write_idx)
    BY <1>1, <1>3, <2>1, <2>2 DEF Previous, Slots
  <2>. QED BY <1>2, <2>1, <2>3, Zenon
<1>5. CASE r # << >> /\ r[Len(r)] = line
  <2>1. push(h, line) = h
    BY <1>3, <1>4, <1>5 DEF push
  <2>. QED BY <1>5, <2>1, Zenon
<1>6. CASE ~(r # << >> /\ r[Len(r)] = line)
  <2>1. push(h, line) = push_always(h, line)
    BY <1>3, <1>4, <1>6, Zenon DEF push, push_always
  <2>2. HistOK(push(h, line), Entered(r, line))
    BY <2>1, PushNew, Zenon
  <2>. QED BY <1>6, <2>2, Zenon
<1>. QED BY <1>5, <1>6

\* Browsing leaves the commands alone, and offers one of them, if any.
SameCommands(g, h) ==
  g \in Histories /\ g.entries = h.entries /\ g.count = h.count /\ g.write_idx = h.write_idx
Offers(p, h) ==
  /\ SameCommands(p[1], h)
  /\ p[2] = None \/ p[2][1] \in Seq(Chars)

\* A browse index changes nothing else.
LEMMA BrowseTo ==
  ASSUME NEW h \in Histories, NEW i \in Slots, NEW b \in BOOLEAN, NEW g,
         g = [h EXCEPT !.browse_idx = i] \/ g = [h EXCEPT !.browsing = b]
           \/ g = [h EXCEPT !.browsing = b, !.browse_idx = i]
  PROVE  SameCommands(g, h)
BY DEF Histories, SameCommands

\* The up arrow.
LEMMA UpOffers == ASSUME NEW h \in Histories PROVE Offers(go_up(h), h)
<1> DEFINE b == start_browse(h)
           u == [b EXCEPT !.browse_idx = Previous(@)]
<1>1. SameCommands(b, h)
  <2>1. b = h \/ b = [h EXCEPT !.browsing = TRUE, !.browse_idx = h.write_idx]
    BY Zenon DEF start_browse
  <2>2. h.write_idx \in Slots /\ TRUE \in BOOLEAN
    BY HistFields, Zenon
  <2> HIDE DEF b
  <2>. QED BY <2>1, <2>2, BrowseTo, Zenon DEF SameCommands
<1> HIDE DEF b
<1>2. u = [b EXCEPT !.browse_idx = Previous(b.browse_idx)]
  OBVIOUS
<1> HIDE DEF u
<1>3. SameCommands(u, h)
  <2>1. b \in Histories
    BY <1>1, Zenon DEF SameCommands
  <2>2. PICK i \in Slots : i = Previous(b.browse_idx)
    BY <2>1, HistFields, NextSlot, Zenon
  <2>3. u = [b EXCEPT !.browse_idx = i] /\ TRUE \in BOOLEAN
    BY <1>2, <2>2
  <2>4. SameCommands(u, b)
    BY <2>1, <2>3, BrowseTo, Zenon
  <2>. QED BY <1>1, <2>4, Zenon DEF SameCommands
<1>4. u.entries[u.browse_idx] \in Seq(Chars)
  BY <1>3, HistFields, Zenon DEF SameCommands
<1>5. \/ go_up(h) = <<h, None>> \/ go_up(h) = <<b, None>> \/ go_up(h) = <<u, None>>
      \/ go_up(h) = <<u, <<u.entries[u.browse_idx]>>>>
  BY Zenon DEF go_up, b, u
<1>6. PICK e : e = u.entries[u.browse_idx]
  OBVIOUS
<1>7. \/ go_up(h)[1] = h /\ go_up(h)[2] = None
      \/ go_up(h)[1] = b /\ go_up(h)[2] = None
      \/ go_up(h)[1] = u /\ (go_up(h)[2] = None \/ go_up(h)[2][1] = e)
  BY <1>5, <1>6
<1>8. SameCommands(h, h)
  BY Zenon DEF SameCommands
<1>. QED BY <1>1, <1>3, <1>4, <1>6, <1>7, <1>8, Zenon DEF Offers

\* The down arrow.
LEMMA DownOffers == ASSUME NEW h \in Histories PROVE Offers(go_down(h), h)
<1> DEFINE next == (h.browse_idx + 1) % HISTORY_SIZE
           b == [h EXCEPT !.browsing = FALSE]
           u == [h EXCEPT !.browse_idx = next]
<1>1. next \in Slots /\ h.entries[next] \in Seq(Chars) /\ h.write_idx \in Slots
  <2>1. h.browse_idx \in Slots /\ h.entries \in [Slots -> Seq(Chars)] /\ h.write_idx \in Slots
    BY HistFields, Zenon
  <2>2. next \in Slots
    BY <2>1, NextSlot, Zenon
  <2>. QED BY <2>1, <2>2, Zenon
<1>2. \/ go_down(h) = <<h, None>> \/ go_down(h) = <<b, << << >> >> >>
      \/ go_down(h) = <<u, <<h.entries[next]>>>>
  BY Zenon DEF go_down
<1>3. FALSE \in BOOLEAN
  OBVIOUS
<1>4. b = [h EXCEPT !.browsing = FALSE] /\ u = [h EXCEPT !.browse_idx = next]
  BY Zenon
<1> HIDE DEF b, u, next
<1>5. SameCommands(b, h)
  BY <1>1, <1>3, <1>4, BrowseTo, Zenon
<1>6. SameCommands(u, h)
  BY <1>1, <1>3, <1>4, BrowseTo, Zenon
<1>7. PICK e : e = h.entries[next]
  OBVIOUS
<1>8. PICK z : z = << >>
  OBVIOUS
<1>9. \/ go_down(h)[1] = h /\ go_down(h)[2] = None
      \/ go_down(h)[1] = b /\ go_down(h)[2][1] = z
      \/ go_down(h)[1] = u /\ go_down(h)[2][1] = e
  <2>1. \/ go_down(h) = <<h, None>> \/ go_down(h) = <<b, <<z>>>> \/ go_down(h) = <<u, <<e>>>>
    BY <1>2, <1>7, <1>8, Zenon
  <2>. QED BY <2>1
<1>10. z \in Seq(Chars) /\ SameCommands(h, h)
  <2>1. << >> \in Seq(Chars)
    OBVIOUS
  <2>. QED BY <1>8, <2>1, Zenon DEF SameCommands
<1>. QED BY <1>1, <1>5, <1>6, <1>7, <1>9, <1>10, Zenon DEF Offers

-----------------------------------------------------------------------------
(* The keys                                                                *)

ScreenOK(c, line, l) ==
  /\ Good(c) /\ line \in Seq(Chars)
  /\ ~l => 1 + Len(line) < COLS /\ Shows(c, line)

PromptInv == ScreenOK(con, cmd, long) /\ HistOK(hist, ran)

\* A line that makes way for another.
LEMMA ReplacedKeeps ==
  ASSUME ScreenOK(con, cmd, long), NEW line \in Seq(Chars), Replaced(line)
  PROVE  ScreenOK(con', cmd', long')
<1> DEFINE e == Erased(con, Len(cmd))
<1>1. Good(con) /\ cmd \in Seq(Chars)
  BY Zenon DEF ScreenOK
<1>2. Len(cmd) \in Nat /\ Len(line) \in Nat /\ line \in Seq(Glyphs) /\ COLS \in Nat
  <2>1. Chars \subseteq Glyphs /\ COLS \in Nat
    BY GlyphsAre, Geometry, Zenon
  <2>. QED BY <1>1, <2>1
<1>3. con' = print(e, line) /\ cmd' = line /\ long' = (long \/ 1 + Len(line) >= COLS)
  BY Zenon DEF Replaced
<1>4. Good(e)
  BY <1>1, <1>2, EraseGood, Zenon
<1>5. ~long => Shows(e, << >>)
  BY <1>1, EraseShows, Zenon DEF ScreenOK
<1> HIDE DEF e
<1>6. Good(con')
  BY <1>2, <1>3, <1>4, PrintGood, Zenon
<1>7. ASSUME ~long' PROVE 1 + Len(line) < COLS /\ Shows(con', line)
  <2>1. ~long /\ ~(1 + Len(line) >= COLS)
    BY <1>3, <1>7, Zenon
  <2>2. 1 + Len(line) < COLS
    BY <1>2, <2>1
  <2>. QED BY <1>3, <1>4, <1>5, <2>1, <2>2, PrintShows, Zenon
<1>. QED BY <1>3, <1>6, <1>7, Zenon DEF ScreenOK

\* A fresh prompt.
LEMMA PromptOK ==
  ASSUME NEW c, Fresh(c)
  PROVE  ScreenOK(print_prompt(c), << >>, FALSE)
<1>1. Good(print_prompt(c)) /\ Shows(print_prompt(c), << >>)
  BY PromptIs, Zenon
<1>2. << >> \in Seq(Chars) /\ 1 + Len(<< >>) < COLS
  BY Geometry
<1>. QED BY <1>1, <1>2, Zenon DEF ScreenOK

\* Enter: the line is executed and entered.
LEMMA EnterKeeps == PromptInv /\ Enter => PromptInv'
<1> SUFFICES ASSUME PromptInv, Enter PROVE PromptInv'
  OBVIOUS
<1>1. Good(con) /\ cmd \in Seq(Chars) /\ HistOK(hist, ran)
  BY Zenon DEF PromptInv, ScreenOK
<1>2. cmd' = << >> /\ long' = FALSE
  BY Zenon DEF Enter
<1>3. CASE cmd = << >>
  <2>1. con' = print_prompt(print(con, <<"\n">>)) /\ UNCHANGED <<hist, ran>>
    BY <1>3, Zenon DEF Enter
  <2>2. Fresh(print(con, <<"\n">>))
    BY <1>1, PrintOne, Newline, GlyphsAre, Zenon
  <2>3. ScreenOK(con', << >>, FALSE)
    BY <2>1, <2>2, PromptOK, Zenon
  <2>. QED BY <1>1, <1>2, <2>1, <2>3, Zenon DEF PromptInv
<1>4. CASE cmd # << >>
  <2>1. /\ con' = print_prompt(print(con, <<"\n", "o", "\n">>)) /\ hist' = push(hist, cmd)
        /\ ran' = IF ran # << >> /\ ran[Len(ran)] = cmd THEN ran ELSE Entered(ran, cmd)
    BY <1>4, Zenon DEF Enter, Entered
  <2>2. Fresh(print(con, <<"\n", "o", "\n">>))
    BY <1>1, PrintThree, GlyphsAre, Zenon
  <2>3. ScreenOK(con', << >>, FALSE)
    BY <2>1, <2>2, PromptOK, Zenon
  <2>4. HistOK(hist', ran')
    BY <1>1, <2>1, PushIs, Zenon
  <2>. QED BY <1>2, <2>3, <2>4, Zenon DEF PromptInv
<1>. QED BY <1>3, <1>4

\* Backspace.
LEMMA BackspaceKeeps == PromptInv /\ Backspace => PromptInv'
<1> SUFFICES ASSUME PromptInv, Backspace PROVE PromptInv'
  OBVIOUS
<1>1. Good(con) /\ cmd \in Seq(Chars) /\ (~long => 1 + Len(cmd) < COLS /\ Shows(con, cmd))
  BY Zenon DEF PromptInv, ScreenOK
<1>2. /\ cmd # << >> /\ cmd' = SubSeq(cmd, 1, Len(cmd) - 1) /\ con' = backspace(con)
      /\ UNCHANGED <<hist, ran, long>>
  BY Zenon DEF Backspace
<1>3. Len(cmd) \in Nat /\ Len(cmd) > 0 /\ cmd' \in Seq(Chars) /\ Len(cmd') = Len(cmd) - 1
  <2>1. Len(cmd) \in Nat /\ Len(cmd) > 0 /\ Len(cmd) \in 1 .. Len(cmd)
    BY <1>1, <1>2
  <2>2. SubSeq(cmd, 1, Len(cmd) - 1) \in Seq(Chars) /\ Len(SubSeq(cmd, 1, Len(cmd) - 1)) = Len(cmd) - 1
    BY <1>1, <2>1, Prefixes, Zenon
  <2>. QED BY <1>2, <2>1, <2>2, Zenon
<1>4. Good(con')
  BY <1>1, <1>2, BackIs, Zenon
<1>5. ~long => Shows(con', cmd')
  BY <1>1, <1>2, <1>3, BackShows, Zenon
<1>6. 1 + Len(cmd) < COLS => 1 + Len(cmd') < COLS
  BY <1>3, Geometry
<1>. QED BY <1>1, <1>2, <1>3, <1>4, <1>5, <1>6, Zenon DEF PromptInv, ScreenOK

\* Ctrl-C and Ctrl-L begin a new line.
LEMMA CtrlKeeps == PromptInv /\ (CtrlC \/ CtrlL) => PromptInv'
<1> SUFFICES ASSUME PromptInv, CtrlC \/ CtrlL PROVE PromptInv'
  OBVIOUS
<1>1. Good(con) /\ HistOK(hist, ran)
  BY Zenon DEF PromptInv, ScreenOK
<1>2. /\ cmd' = << >> /\ long' = FALSE /\ UNCHANGED <<hist, ran>>
      /\ \/ con' = print_prompt(print(con, <<"^", "C", "\n">>))
         \/ con' = print_prompt(clear(con))
  BY Zenon DEF CtrlC, CtrlL
<1>3. Fresh(print(con, <<"^", "C", "\n">>))
  BY <1>1, PrintThree, GlyphsAre, Zenon
<1>4. Fresh(clear(con))
  BY ClearIs, Zenon
<1>5. ScreenOK(con', << >>, FALSE)
  BY <1>2, <1>3, <1>4, PromptOK, Zenon
<1>. QED BY <1>1, <1>2, <1>5, Zenon DEF PromptInv

\* A character is typed.
LEMMA TypeKeeps == ASSUME PromptInv, NEW c \in Chars, Type(c) PROVE PromptInv'
<1>1. Good(con) /\ cmd \in Seq(Chars) /\ (~long => 1 + Len(cmd) < COLS /\ Shows(con, cmd))
  BY Zenon DEF PromptInv, ScreenOK
<1>2. /\ cmd' = Append(cmd, c) /\ con' = print(con, <<c>>)
      /\ long' = (long \/ 2 + Len(cmd) >= COLS) /\ UNCHANGED <<hist, ran>>
  BY Zenon DEF Type
<1>3. c \in Glyphs
  BY GlyphsAre, Zenon
<1>4. con' = write_char(con, c)
  BY <1>1, <1>2, <1>3, PrintOne, Zenon
<1>5. Good(con')
  BY <1>1, <1>3, <1>4, WriteGood, Zenon
<1>6. Len(cmd) \in Nat /\ cmd' \in Seq(Chars) /\ Len(cmd') = Len(cmd) + 1
  BY <1>1, <1>2
<1>7. ASSUME ~long' PROVE 1 + Len(cmd') < COLS /\ Shows(con', cmd')
  <2>1. ~long /\ ~(2 + Len(cmd) >= COLS)
    BY <1>2, <1>7, Zenon
  <2>2. 2 + Len(cmd) < COLS /\ 1 + Len(cmd') < COLS
    BY <1>6, <2>1, Geometry
  <2>. QED BY <1>1, <1>2, <1>4, <2>1, <2>2, WriteShows, Zenon
<1>. QED BY <1>2, <1>5, <1>6, <1>7, Zenon DEF PromptInv, ScreenOK

\* Tab completes the line.
LEMMA TabKeeps == PromptInv /\ Tab => PromptInv'
<1> SUFFICES ASSUME PromptInv, Tab PROVE PromptInv'
  OBVIOUS
<1>1. PICK i \in DOMAIN COMMANDS : Replaced(COMMANDS[i])
  BY Zenon DEF Tab
<1>2. COMMANDS[i] \in Seq(Chars)
  BY PromptAssumption
<1>3. UNCHANGED <<hist, ran>>
  BY Zenon DEF Tab
<1>. QED BY <1>1, <1>2, <1>3, ReplacedKeeps, Zenon DEF PromptInv

\* An arrow replaces the line by one of the history.
LEMMA BrowseKeeps ==
  ASSUME PromptInv, NEW p, Offers(p, hist), Browse(p)
  PROVE  PromptInv'
<1>1. hist' = p[1] /\ ran' = ran
  BY Zenon DEF Browse
<1>2. HistOK(hist', ran')
  BY <1>1, Zenon DEF PromptInv, HistOK, Recent, Offers, SameCommands
<1>3. ScreenOK(con', cmd', long')
  <2>1. CASE p[2] = None
    BY <2>1, Zenon DEF Browse, PromptInv
  <2>2. CASE p[2] # None
    <3>1. Replaced(p[2][1]) /\ p[2][1] \in Seq(Chars)
      BY <2>2, Zenon DEF Browse, Offers
    <3>. QED BY <3>1, ReplacedKeeps, Zenon DEF PromptInv
  <2>. QED BY <2>1, <2>2
<1>. QED BY <1>2, <1>3, Zenon DEF PromptInv

\* The status bar is drawn again.
LEMMA StatusKeeps == PromptInv /\ update_status_bar => PromptInv'
<1> SUFFICES ASSUME PromptInv, update_status_bar PROVE PromptInv'
  OBVIOUS
<1>1. con' = draw_status_bar(con) /\ UNCHANGED <<cmd, hist, ran, long>>
  BY Zenon DEF update_status_bar
<1>2. Good(con)
  BY Zenon DEF PromptInv, ScreenOK
<1>3. /\ Good(con') /\ con'.col = con.col /\ con'.row = con.row
      /\ \A y \in Scanlines(con.row) : con'.cells[y] = con.cells[y]
  BY <1>1, <1>2, StatusIs, Zenon
<1>4. Shows(con, cmd) => Shows(con', cmd)
  BY <1>3, Zenon DEF Shows
<1>. QED BY <1>1, <1>3, <1>4, Zenon DEF PromptInv, ScreenOK

\* The first prompt.
LEMMA PromptStart == PromptInit => PromptInv
<1> SUFFICES ASSUME PromptInit PROVE PromptInv
  OBVIOUS
<1>1. ScreenOK(con, cmd, long)
  BY ClearIs, PromptOK, Zenon DEF PromptInit
<1>2. HistOK(hist, ran)
  <2>1. HISTORY_SIZE \in Nat /\ HISTORY_SIZE >= 1
    BY PromptAssumption
  <2>2. << >> \in Seq(Chars) /\ ran \in Seq(Seq(Chars)) /\ Len(ran) = 0 /\ 0 \in Slots
    BY <2>1 DEF PromptInit, Slots
  <2>3. [i \in Slots |-> << >>] \in [Slots -> Seq(Chars)]
    BY <2>2, Zenon
  <2>4. hist = [entries |-> [i \in Slots |-> << >>], count |-> 0,
                write_idx |-> 0, browse_idx |-> 0, browsing |-> FALSE]
    BY Zenon DEF PromptInit, Slots
  <2>5. hist \in Histories /\ hist.count = 0
    BY <2>1, <2>2, <2>3, <2>4 DEF Histories
  <2>. QED BY <2>1, <2>2, <2>5 DEF HistOK, Recent
<1>. QED BY <1>1, <1>2, Zenon DEF PromptInv

\* No key breaks the invariant.
LEMMA PromptStep == PromptInv /\ [PromptNext]_promptVars => PromptInv'
<1>1. ASSUME PromptInv, UNCHANGED promptVars PROVE PromptInv'
  BY <1>1, Zenon DEF promptVars, PromptInv
<1>2. ASSUME PromptInv, Up \/ Down PROVE PromptInv'
  <2>1. hist \in Histories
    BY <1>2, Zenon DEF PromptInv, HistOK
  <2>. QED BY <1>2, <2>1, UpOffers, DownOffers, BrowseKeeps, Zenon DEF Up, Down
<1>. QED BY <1>1, <1>2, EnterKeeps, BackspaceKeeps, CtrlKeeps, TypeKeeps, TabKeeps, StatusKeeps,
           Zenon DEF PromptNext, Key

\* It says what the screen shows and the ring holds.
LEMMA PromptMeans == PromptInv => PromptFaithful
<1> SUFFICES ASSUME PromptInv PROVE PromptFaithful
  OBVIOUS
<1>1. ScreenShowsLine
  BY Zenon DEF PromptInv, ScreenOK, Shows, Line, Width, ScreenShowsLine
<1>2. HistoryRecent
  BY Zenon DEF PromptInv, HistOK, Recent, Slot, HistoryRecent
<1>. QED BY <1>1, <1>2, Zenon DEF PromptFaithful

\* On any screen and with any history, the row of the cursor shows the line
\* that Enter would execute, as long as it stays clear of the right edge, and
\* the ring holds the last commands executed.
THEOREM PromptIsFaithful == PromptSpec => []PromptFaithful
<1>1. PromptSpec => []PromptInv
  BY PromptStart, PromptStep, PTL DEF PromptSpec
<1>. QED BY <1>1, PromptMeans, PTL

-----------------------------------------------------------------------------
(* Paths                                                                   *)

System == <<"system">>
BootLog == <<"Windows", "Logs", "boot.log">>

\* A name appended to a directory of three names.
LEMMA Append3 ==
  ASSUME NEW a, NEW b, NEW c, NEW d
  PROVE  Append(<<a, b, c>>, d) = <<a, b, c, d>>
<1> DEFINE S == {a, b, c, d}
           x == <<a, b, c>>
           y == <<a, b, c, d>>
<1>1. x \in Seq(S) /\ y \in Seq(S) /\ d \in S
  OBVIOUS
<1>2. /\ Len(x) = 3 /\ x[1] = a /\ x[2] = b /\ x[3] = c
      /\ Len(y) = 4 /\ y[1] = a /\ y[2] = b /\ y[3] = c /\ y[4] = d
  OBVIOUS
<1> HIDE DEF x, y, S
<1>3. /\ Append(x, d) \in Seq(S) /\ Len(Append(x, d)) = Len(x) + 1
      /\ \A i \in 1 .. Len(x) : Append(x, d)[i] = x[i]
      /\ Append(x, d)[Len(x) + 1] = d
  BY <1>1, AppendProperties
<1>4. \A i \in 1 .. Len(y) : Append(x, d)[i] = y[i]
  BY <1>2, <1>3
<1>5. Len(Append(x, d)) = Len(y)
  BY <1>2, <1>3
<1>6. Append(x, d) = y
  BY <1>1, <1>3, <1>4, <1>5, SeqEqual
<1>. QED BY <1>6 DEF x, y

\* The paths, written out.
LEMMA PathsAre ==
  /\ Config = <<"Windows", "System32", "Config">>
  /\ Marker = <<"Windows", "System32", "Config", "init.ok">>
  /\ WindowsHost = <<"Windows", "System32", "Config", "hostname.cfg">>
  /\ WindowsAuto = <<"Windows", "System32", "Config", "autoexec.cfg">>
  /\ LegacyHost = <<"system", "hostname.cfg">>
  /\ LegacyAuto = <<"system", "autoexec.cfg">>
  /\ Theme = <<"system", "theme.cfg">>
  /\ Home = <<"Users", "Root">>
BY Append3, Zenon DEF Config, Marker, WindowsHost, WindowsAuto, LegacyHost, LegacyAuto, Theme, Home

\* The files that matter are different, and none of them is a directory.
LEMMA PathsDiffer ==
  /\ Marker # Theme /\ Marker # LegacyHost /\ Marker # WindowsHost
  /\ Marker \notin Autoexecs /\ Theme \notin Autoexecs
  /\ Theme # LegacyHost /\ Theme # WindowsHost
  /\ LegacyHost \notin Autoexecs /\ WindowsHost \notin Autoexecs
  /\ System # Theme /\ System # Marker /\ System \notin Autoexecs
  /\ LegacyHost # System /\ WindowsHost # System
<1>1. /\ Len(Marker) = 4 /\ Marker[4] = "init.ok"
      /\ Len(WindowsHost) = 4 /\ WindowsHost[4] = "hostname.cfg"
      /\ Len(WindowsAuto) = 4 /\ WindowsAuto[4] = "autoexec.cfg"
  BY PathsAre
<1>2. /\ Len(LegacyHost) = 2 /\ LegacyHost[2] = "hostname.cfg"
      /\ Len(LegacyAuto) = 2 /\ LegacyAuto[2] = "autoexec.cfg"
      /\ Len(Theme) = 2 /\ Theme[2] = "theme.cfg"
  BY PathsAre
<1>3. Len(System) = 1
  BY DEF System
<1>. QED BY <1>1, <1>2, <1>3 DEF Autoexecs

\* theme.cfg is in /system.
LEMMA ThemeIn == Len(Theme) = 2 /\ Parent(Theme) = System /\ Len(System) = 1
<1> DEFINE S == {"system", "theme.cfg"}
           P == SubSeq(Theme, 1, Len(Theme) - 1)
<1>1. Len(Theme) = 2 /\ Theme \in Seq(S) /\ Theme[1] = "system"
  BY PathsAre
<1>2. P \in Seq(S) /\ Len(P) = 1 /\ P[1] = "system"
  BY <1>1
<1>3. System \in Seq(S) /\ Len(System) = 1 /\ System[1] = "system"
  BY DEF System
<1> HIDE DEF P, S
<1>4. P = System
  BY <1>2, <1>3, SeqEqual
<1>. QED BY <1>1, <1>3, <1>4 DEF Parent, P

-----------------------------------------------------------------------------
(* Provisioning                                                            *)

\* The directories are none of the files that change later.
LEMMA DirsAre ==
  /\ Len(Dirs) \in Nat /\ DOMAIN Dirs = 1 .. Len(Dirs) /\ System = Dirs[Len(Dirs)]
  /\ \A i \in DOMAIN Dirs : Dirs[i] # Marker /\ Dirs[i] # Theme /\ Dirs[i] \notin Autoexecs
<1>1. DOMAIN Dirs = 1..7 /\ Len(Dirs) = 7
  BY DEF Dirs
<1>2. /\ Len(Marker) = 4 /\ Len(WindowsAuto) = 4
      /\ Len(Theme) = 2 /\ Theme[1] = "system"
      /\ Len(LegacyAuto) = 2 /\ LegacyAuto[1] = "system"
      /\ Len(Config) = 3 /\ Len(Home) = 2 /\ Home[1] = "Users"
  BY PathsAre
<1>3. /\ Dirs[1] = <<"Windows">> /\ Dirs[2] = <<"Windows", "System32">> /\ Dirs[3] = Config
      /\ Dirs[4] = <<"Windows", "Logs">> /\ Dirs[5] = <<"Users">> /\ Dirs[6] = Home
      /\ Dirs[7] = <<"system">>
  BY Zenon DEF Dirs
<1>4. /\ Len(Dirs[1]) = 1 /\ Len(Dirs[2]) = 2 /\ Dirs[2][1] = "Windows" /\ Len(Dirs[3]) = 3
      /\ Len(Dirs[4]) = 2 /\ Dirs[4][1] = "Windows" /\ Len(Dirs[5]) = 1
      /\ Len(Dirs[6]) = 2 /\ Dirs[6][1] = "Users" /\ Len(Dirs[7]) = 1
  BY <1>2, <1>3
<1>5. \A i \in 1..7 : Dirs[i] # Marker /\ Dirs[i] # WindowsAuto
  BY <1>2, <1>4
<1>6. \A i \in 1..7 : Dirs[i] # Theme /\ Dirs[i] # LegacyAuto
  BY <1>2, <1>4
<1>7. Len(Dirs) \in Nat /\ DOMAIN Dirs = 1 .. Len(Dirs) /\ System = Dirs[Len(Dirs)]
  BY <1>1, <1>3 DEF System
<1>. QED BY <1>1, <1>5, <1>6, <1>7, Zenon DEF Autoexecs

\* Nor are the files that provisioning writes, but for the scripts, which are
\* empty.
LEMMA FilesAre ==
  /\ Len(Files) \in Nat /\ DOMAIN Files = 1 .. Len(Files)
  /\ Files[1][1] = WindowsHost /\ Files[2][1] = WindowsAuto /\ Files[3][1] = LegacyHost
  /\ Files[4][1] = LegacyAuto
  /\ 1 \in DOMAIN Files /\ 2 \in DOMAIN Files /\ 3 \in DOMAIN Files /\ 4 \in DOMAIN Files
  /\ \A i \in DOMAIN Files : /\ Files[i][1] # Marker /\ Files[i][1] # Theme
                             /\ Files[i][1] \in Autoexecs => Files[i][2] = << >>
                             /\ Files[i][2] \in {"CantayaOS", << >>, "text"}
<1>1. DOMAIN Files = 1..5 /\ Len(Files) = 5
  BY DEF Files
<1>2. /\ Files[1] = <<WindowsHost, "CantayaOS">> /\ Files[2] = <<WindowsAuto, << >> >>
      /\ Files[3] = <<LegacyHost, "CantayaOS">> /\ Files[4] = <<LegacyAuto, << >> >>
      /\ Files[5] = <<<<"Windows", "Logs", "boot.log">>, "text">>
  BY Zenon DEF Files
<1>3. /\ Files[1][1] = WindowsHost /\ Files[1][2] = "CantayaOS"
      /\ Files[2][1] = WindowsAuto /\ Files[2][2] = << >>
      /\ Files[3][1] = LegacyHost /\ Files[3][2] = "CantayaOS"
      /\ Files[4][1] = LegacyAuto /\ Files[4][2] = << >>
      /\ Files[5][1] = BootLog /\ Files[5][2] = "text"
  BY <1>2 DEF BootLog
<1>4. BootLog \notin {Marker, Theme, WindowsAuto, LegacyAuto}
  BY PathsAre DEF BootLog
<1>5. Marker # WindowsAuto /\ Marker # LegacyAuto /\ Theme # WindowsAuto /\ Theme # LegacyAuto
  BY PathsDiffer, Zenon DEF Autoexecs
<1>6. ASSUME NEW i \in 1..5
      PROVE  /\ Files[i][1] # Marker /\ Files[i][1] # Theme
             /\ Files[i][1] \in Autoexecs => Files[i][2] = << >>
             /\ Files[i][2] \in {"CantayaOS", << >>, "text"}
  <2>1. i = 1 \/ i = 2 \/ i = 3 \/ i = 4 \/ i = 5
    OBVIOUS
  <2>. QED BY <1>3, <1>4, <1>5, <2>1, PathsDiffer, Zenon DEF Autoexecs
<1>7. Len(Files) \in Nat /\ DOMAIN Files = 1 .. Len(Files)
  BY <1>1
<1>8. 1 \in DOMAIN Files /\ 2 \in DOMAIN Files /\ 3 \in DOMAIN Files /\ 4 \in DOMAIN Files
  BY <1>1
<1>. QED BY <1>1, <1>3, <1>6, <1>7, <1>8, Zenon

\* Steps, and what they write.
Places == {Dirs[i] : i \in DOMAIN Dirs} \cup {Files[i][1] : i \in DOMAIN Files} \cup {Marker, Theme}
Contents == {"dir", "CantayaOS", "text", "OK", "torn", "empty"} \cup Hosts \cup Schemes
              \cup Seq(Lines)
Steps == {mkdir(p) : p \in Places} \cup {write(p, x) : p \in Places, x \in Contents}

\* A step on theme.cfg writes the scheme, one on a script writes a script.
Fine(s, scheme) ==
  /\ s.path = Theme => ~s.dir /\ s.data = scheme
  /\ s.path \in Autoexecs => ~s.dir /\ s.data \in Seq(Lines)

\* What provisioning makes.
Made == Paths(Provisioning)

\* The fields of a step.
LEMMA MkdirIs ==
  ASSUME NEW p, NEW s, s = mkdir(p)
  PROVE  s.path = p /\ s.dir
BY DEF mkdir

\* The fields of a step that writes.
LEMMA WriteIs ==
  ASSUME NEW p, NEW x, NEW s, s = write(p, x)
  PROVE  s.path = p /\ ~s.dir /\ s.data = x
BY DEF write

\* A step names a place, and a write its contents.
LEMMA StepFacts ==
  ASSUME NEW s \in Steps
  PROVE  s.path \in Places /\ (s.dir \/ s.data \in Contents)
<1>1. ASSUME NEW p \in Places, s = mkdir(p) PROVE s.path \in Places /\ s.dir
  BY <1>1, MkdirIs, Zenon
<1>2. ASSUME NEW p \in Places, NEW x \in Contents, s = write(p, x)
      PROVE  s.path \in Places /\ s.data \in Contents
  BY <1>2, WriteIs
<1>3. (\E p \in Places : s = mkdir(p)) \/ \E p \in Places, x \in Contents : s = write(p, x)
  BY DEF Steps
<1>. QED BY <1>1, <1>2, <1>3, Zenon

\* r is the list b after the list a.
Joined(r, a, b) ==
  /\ Len(r) = Len(a) + Len(b) /\ DOMAIN r = 1 .. Len(r)
  /\ \A i \in 1 .. Len(a) : r[i] = a[i]
  /\ \A i \in 1 .. Len(b) : r[Len(a) + i] = b[i]
  /\ \A i \in 1 .. Len(r) : i \in 1 .. Len(a) \/ \E j \in 1 .. Len(b) : i = Len(a) + j

\* Concatenation joins two lists.
LEMMA ConcatIs ==
  ASSUME NEW S, NEW a \in Seq(S), NEW b \in Seq(S), NEW r, r = a \o b
  PROVE  r \in Seq(S) /\ Joined(r, a, b)
<1>1. /\ r \in Seq(S) /\ Len(r) = Len(a) + Len(b)
      /\ \A i \in 1 .. Len(a) + Len(b) : r[i] = IF i <= Len(a) THEN a[i] ELSE b[i - Len(a)]
  BY ConcatProperties, Zenon
<1>2. Len(a) \in Nat /\ Len(b) \in Nat /\ DOMAIN r = 1 .. Len(r)
  BY <1>1
<1>3. \A i \in 1 .. Len(a) : r[i] = a[i]
  BY <1>1, <1>2
<1>4. ASSUME NEW i \in 1 .. Len(b) PROVE r[Len(a) + i] = b[i]
  <2>1. Len(a) + i \in 1 .. Len(a) + Len(b) /\ ~(Len(a) + i <= Len(a)) /\ Len(a) + i - Len(a) = i
    BY <1>2
  <2>. QED BY <1>1, <2>1
<1>5. ASSUME NEW i \in 1 .. Len(r), i \notin 1 .. Len(a) PROVE \E j \in 1 .. Len(b) : i = Len(a) + j
  <2>1. i - Len(a) \in 1 .. Len(b) /\ i = Len(a) + (i - Len(a))
    BY <1>1, <1>2, <1>5
  <2>. QED BY <2>1, Zenon
<1>. QED BY <1>1, <1>2, <1>3, <1>4, <1>5, Zenon DEF Joined

\* A function on 1 .. n is a list of n steps.
LEMMA ListIs ==
  ASSUME NEW S, NEW n \in Nat, NEW f \in [1 .. n -> S]
  PROVE  f \in Seq(S) /\ Len(f) = n
OBVIOUS

\* The first step and those that remain.
LEMMA StepsLeft ==
  ASSUME NEW t \in Seq(Steps), t # << >>
  PROVE  /\ Head(t) \in Steps /\ Head(t) = t[1] /\ Tail(t) \in Seq(Steps)
         /\ Len(t) \in Nat /\ Len(t) > 0 /\ Len(Tail(t)) = Len(t) - 1
         /\ DOMAIN t = 1 .. Len(t) /\ DOMAIN Tail(t) = 1 .. Len(t) - 1
         /\ \A i \in 1 .. Len(t) - 1 : Tail(t)[i] = t[i + 1]
         /\ Paths(t) = {Head(t).path} \cup Paths(Tail(t))
<1>1. /\ Head(t) \in Steps /\ Head(t) = t[1] /\ Tail(t) \in Seq(Steps)
      /\ Len(t) \in Nat /\ Len(t) > 0 /\ Len(Tail(t)) = Len(t) - 1
      /\ DOMAIN t = 1 .. Len(t) /\ DOMAIN Tail(t) = 1 .. Len(t) - 1
      /\ \A i \in 1 .. Len(t) - 1 : Tail(t)[i] = t[i + 1]
  OBVIOUS
<1>2. ASSUME NEW i \in DOMAIN t PROVE t[i].path \in {Head(t).path} \cup Paths(Tail(t))
  <2>1. CASE i = 1
    BY <1>1, <2>1, Zenon
  <2>2. CASE i # 1
    <3>1. i - 1 \in DOMAIN Tail(t) /\ Tail(t)[i - 1] = t[i]
      BY <1>1, <2>2
    <3>2. Tail(t)[i - 1].path \in Paths(Tail(t))
      BY <3>1 DEF Paths
    <3>. QED BY <3>1, <3>2, Zenon
  <2>. QED BY <2>1, <2>2
<1>3. ASSUME NEW i \in DOMAIN Tail(t) PROVE Tail(t)[i].path \in Paths(t)
  <2>1. i + 1 \in DOMAIN t /\ Tail(t)[i] = t[i + 1]
    BY <1>1
  <2>2. t[i + 1].path \in Paths(t)
    BY <2>1 DEF Paths
  <2>. QED BY <2>1, <2>2, Zenon
<1>4. Head(t).path \in Paths(t)
  <2>1. 1 \in DOMAIN t
    BY <1>1
  <2>. QED BY <1>1, <2>1 DEF Paths
<1>5. Paths(t) \subseteq {Head(t).path} \cup Paths(Tail(t))
  BY <1>2 DEF Paths
<1>6. Paths(Tail(t)) \subseteq Paths(t)
  BY <1>3 DEF Paths
<1>. QED BY <1>1, <1>4, <1>5, <1>6, Zenon

\* The empty list of steps.
LEMMA NothingLeft == Paths(<< >>) = {} /\ << >> \in Seq(Steps) /\ DOMAIN << >> = {} /\ Len(<< >>) = 0
BY DEF Paths

\* The steps of provisioning: the marker comes last.
LEMMA ProvisioningIs ==
  /\ Provisioning \in Seq(Steps) /\ Provisioning # << >> /\ Marker \in Made
  /\ \A i \in DOMAIN Provisioning : /\ Provisioning[i].path # Theme
                                    /\ Provisioning[i].path = Marker => i = Len(Provisioning)
                                    /\ \A c : Fine(Provisioning[i], c)
<1> DEFINE a == [i \in DOMAIN Dirs |-> mkdir(Dirs[i])]
           b == [i \in DOMAIN Files |-> write(Files[i][1], Files[i][2])]
           c == <<write(Marker, "OK")>>
           d == a \o b
           OK(s) == s.path # Theme /\ s.path # Marker /\ \A e : Fine(s, e)
<1>1. a \in Seq(Steps) /\ Len(a) = Len(Dirs) /\ \A i \in 1 .. Len(a) : OK(a[i])
  <2>1. \A i \in DOMAIN Dirs : mkdir(Dirs[i]) \in Steps
    BY DEF Steps, Places
  <2>2. a \in [1 .. Len(Dirs) -> Steps]
    BY <2>1, DirsAre, Zenon
  <2>3. \A i \in DOMAIN Dirs : a[i] = mkdir(Dirs[i])
    BY Zenon
  <2> HIDE DEF a
  <2>4. a \in Seq(Steps) /\ Len(a) = Len(Dirs)
    BY <2>2, DirsAre, ListIs, Zenon
  <2>5. ASSUME NEW i \in DOMAIN Dirs PROVE OK(a[i])
    <3>1. a[i].path = Dirs[i] /\ a[i].dir
      BY <2>3, MkdirIs, Zenon
    <3>. QED BY <3>1, DirsAre, Zenon DEF Fine
  <2>. QED BY <2>4, <2>5, DirsAre, Zenon
<1>2. b \in Seq(Steps) /\ Len(b) = Len(Files) /\ \A i \in 1 .. Len(b) : OK(b[i])
  <2>1. << >> \in Seq(Lines)
    OBVIOUS
  <2>2. \A i \in DOMAIN Files : Files[i][2] \in Contents
    <3>1. "CantayaOS" \in Contents /\ "text" \in Contents
      BY DEF Contents
    <3>2. << >> \in Contents
      BY <2>1, Zenon DEF Contents
    <3>. QED BY <3>1, <3>2, FilesAre, Zenon
  <2>3. \A i \in DOMAIN Files : write(Files[i][1], Files[i][2]) \in Steps
    BY <2>2 DEF Steps, Places
  <2>4. b \in [1 .. Len(Files) -> Steps]
    BY <2>3, FilesAre, Zenon
  <2>5. \A i \in DOMAIN Files : b[i] = write(Files[i][1], Files[i][2])
    BY Zenon
  <2> HIDE DEF b
  <2>6. b \in Seq(Steps) /\ Len(b) = Len(Files)
    BY <2>4, FilesAre, ListIs, Zenon
  <2>7. ASSUME NEW i \in DOMAIN Files PROVE OK(b[i])
    <3>1. b[i].path = Files[i][1] /\ ~b[i].dir /\ b[i].data = Files[i][2]
      BY <2>5, WriteIs
    <3>. QED BY <2>1, <3>1, FilesAre, Zenon DEF Fine
  <2>. QED BY <2>6, <2>7, FilesAre, Zenon
<1>3. c \in Seq(Steps) /\ Len(c) = 1 /\ c[1] = write(Marker, "OK")
  <2>1. write(Marker, "OK") \in Steps
    <3>1. Marker \in Places
      BY Zenon DEF Places
    <3>2. "OK" \in Contents
      BY DEF Contents
    <3>. QED BY <3>1, <3>2 DEF Steps
  <2>. QED BY <2>1
<1>4. Provisioning = d \o c
  BY Zenon DEF Provisioning
<1> HIDE DEF a, b, c
<1>5. d = a \o b
  OBVIOUS
<1> HIDE DEF d, OK
<1>6. d \in Seq(Steps) /\ \A i \in 1 .. Len(d) : OK(d[i])
  <2>1. /\ d \in Seq(Steps)
        /\ \A i \in 1 .. Len(a) : d[i] = a[i]
        /\ \A i \in 1 .. Len(b) : d[Len(a) + i] = b[i]
        /\ \A i \in 1 .. Len(d) : i \in 1 .. Len(a) \/ \E j \in 1 .. Len(b) : i = Len(a) + j
    <3>1. a \in Seq(Steps) /\ b \in Seq(Steps)
      BY <1>1, <1>2, Zenon
    <3>2. d \in Seq(Steps) /\ Joined(d, a, b)
      BY <1>5, <3>1, ConcatIs, Zenon
    <3>. QED BY <3>2, Zenon DEF Joined
  <2>. QED BY <1>1, <1>2, <2>1, Zenon
<1>7. /\ Provisioning \in Seq(Steps) /\ Len(Provisioning) = Len(d) + 1
      /\ DOMAIN Provisioning = 1 .. Len(Provisioning)
      /\ \A i \in 1 .. Len(d) : Provisioning[i] = d[i]
      /\ Provisioning[Len(d) + 1] = c[1]
  <2>1. /\ Provisioning \in Seq(Steps) /\ Len(Provisioning) = Len(d) + Len(c)
        /\ DOMAIN Provisioning = 1 .. Len(Provisioning)
        /\ \A i \in 1 .. Len(d) : Provisioning[i] = d[i]
        /\ \A i \in 1 .. Len(c) : Provisioning[Len(d) + i] = c[i]
    <3>1. d \in Seq(Steps) /\ c \in Seq(Steps)
      BY <1>3, <1>6, Zenon
    <3>2. Provisioning \in Seq(Steps) /\ Joined(Provisioning, d, c)
      BY <1>4, <3>1, ConcatIs, Zenon
    <3>. QED BY <3>2, Zenon DEF Joined
  <2>2. 1 \in 1 .. Len(c)
    BY <1>3
  <2>. QED BY <1>3, <2>1, <2>2, Zenon
<1>8. Len(d) \in Nat
  BY <1>6, LenProperties, Zenon
<1>9. \A i \in DOMAIN Provisioning : i \in 1 .. Len(d) \/ (i = Len(d) + 1 /\ i = Len(Provisioning))
  BY <1>7, <1>8
<1>10. Len(Provisioning) \in DOMAIN Provisioning /\ Provisioning # << >>
  BY <1>7, <1>8
<1>11. /\ Provisioning[Len(Provisioning)].path = Marker
       /\ \A e : Fine(Provisioning[Len(Provisioning)], e)
  <2>1. Provisioning[Len(Provisioning)] = write(Marker, "OK")
    BY <1>3, <1>7, Zenon
  <2>2. Provisioning[Len(Provisioning)].path = Marker
    BY <2>1, WriteIs
  <2>. QED BY <2>2, PathsDiffer, Zenon DEF Fine
<1>12. Marker \in Made
  BY <1>10, <1>11 DEF Made, Paths
<1>. QED BY <1>6, <1>7, <1>9, <1>10, <1>11, <1>12, PathsDiffer, Zenon DEF OK

-----------------------------------------------------------------------------
(* The volume                                                              *)

\* The volume's files: theme.cfg has its directory, a script holds commands.
FilesOK(f) ==
  /\ f = [q \in DOMAIN f |-> f[q]]
  /\ \A q \in DOMAIN f : f[q] \in Contents
  /\ Theme \in DOMAIN f => System \in DOMAIN f
  /\ \A p \in Autoexecs : p \in DOMAIN f => f[p] \in Seq(Lines)

\* g is f but for x at p.
Differs(g, f, p, x) ==
  /\ DOMAIN g = DOMAIN f \cup {p} /\ g = [q \in DOMAIN g |-> g[q]]
  /\ g[p] = x /\ \A q \in DOMAIN f : q # p => g[q] = f[q]

\* With gives a path its content and leaves the others.
LEMMA WithIs == ASSUME NEW f, NEW p, NEW x, NEW g, g = With(f, p, x) PROVE Differs(g, f, p, x)
BY Zenon DEF With, Differs

\* A step leaves the volume alone or gives its path a content.
LEMMA Outcome ==
  ASSUME NEW f, NEW s \in Steps, NEW c, Fine(s, c), NEW g, g = Done(f, s) \/ g \in Spoilt(f, s)
  PROVE  \/ g = f
         \/ /\ Reachable(f, s.path)
            /\ \E x \in Contents : /\ g = With(f, s.path, x)
                                   /\ s.path \in Autoexecs => x \in Seq(Lines)
<1>1. "dir" \in Contents /\ "torn" \in Contents /\ "empty" \in Contents
  BY DEF Contents
<1>2. << >> \in Seq(Lines) /\ << >> \in Contents
  BY DEF Contents
<1>3. s.dir \/ s.data \in Contents
  BY StepFacts, Zenon
<1>4. CASE g = Done(f, s)
  <2>1. \/ g = f
        \/ Reachable(f, s.path) /\ s.dir /\ g = With(f, s.path, "dir")
        \/ Reachable(f, s.path) /\ ~s.dir /\ g = With(f, s.path, s.data)
    BY <1>4 DEF Done
  <2>. QED BY <1>1, <1>3, <2>1, Zenon DEF Fine
<1>5. CASE g \in Spoilt(f, s)
  <2>1. \/ g = f
        \/ Reachable(f, s.path) /\ \E x \in Torn(s.path) : g = With(f, s.path, x)
    BY <1>5 DEF Spoilt
  <2>2. \A x \in Torn(s.path) : x \in Contents /\ (s.path \in Autoexecs => x \in Seq(Lines))
    <3>1. CASE s.path \in Autoexecs
      BY <1>2, <3>1, Zenon DEF Torn
    <3>2. CASE s.path \notin Autoexecs
      BY <1>1, <3>2, Zenon DEF Torn
    <3>. QED BY <3>1, <3>2, Zenon
  <2>. QED BY <2>1, <2>2, Zenon
<1>. QED BY <1>4, <1>5, Zenon

\* g is f but for the path p, and sound.
Follows(g, f, p) ==
  /\ FilesOK(g)
  /\ DOMAIN f \subseteq DOMAIN g /\ DOMAIN g \subseteq DOMAIN f \cup {p}
  /\ \A q \in DOMAIN f : q # p => g[q] = f[q]

\* So it keeps the volume sound, and every other file.
LEMMA StepKeeps ==
  ASSUME NEW f, FilesOK(f), NEW s \in Steps, NEW c, Fine(s, c),
         NEW g, g = Done(f, s) \/ g \in Spoilt(f, s)
  PROVE  Follows(g, f, s.path)
<1>1. CASE g = f
  BY <1>1, Zenon DEF Follows
<1>2. ASSUME Reachable(f, s.path), NEW x \in Contents, g = With(f, s.path, x),
             s.path \in Autoexecs => x \in Seq(Lines)
      PROVE  Follows(g, f, s.path)
  <2>1. /\ DOMAIN g = DOMAIN f \cup {s.path} /\ g = [q \in DOMAIN g |-> g[q]]
        /\ g[s.path] = x /\ \A q \in DOMAIN f : q # s.path => g[q] = f[q]
    <3>1. Differs(g, f, s.path, x)
      BY <1>2, WithIs, Zenon
    <3>. QED BY <3>1, Zenon DEF Differs
  <2>2. s.path = Theme => System \in DOMAIN f
    <3>1. s.path = Theme => Len(Theme) = 1 \/ Parent(Theme) \in DOMAIN f
      BY <1>2, Zenon DEF Reachable
    <3>2. Len(Theme) # 1
      BY ThemeIn
    <3>. QED BY <3>1, <3>2, ThemeIn, Zenon
  <2>3. \A q \in DOMAIN g : g[q] \in Contents
    BY <1>2, <2>1, Zenon DEF FilesOK
  <2>4. Theme \in DOMAIN g => System \in DOMAIN g
    BY <2>1, <2>2, Zenon DEF FilesOK
  <2>5. \A p \in Autoexecs : p \in DOMAIN g => g[p] \in Seq(Lines)
    BY <1>2, <2>1, Zenon DEF FilesOK
  <2>. QED BY <2>1, <2>3, <2>4, <2>5, Zenon DEF FilesOK, Follows
<1>3. \/ g = f
      \/ /\ Reachable(f, s.path)
         /\ \E x \in Contents : /\ g = With(f, s.path, x)
                                /\ s.path \in Autoexecs => x \in Seq(Lines)
  BY Outcome, Zenon
<1>. QED BY <1>1, <1>2, <1>3, Zenon

\* A write of theme.cfg that succeeds leaves the scheme in it, if anything.
LEMMA ThemeWritten ==
  ASSUME NEW f, FilesOK(f), NEW s \in Steps, NEW c, Fine(s, c), s.path = Theme,
         volume = "fat32", Theme \in DOMAIN Done(f, s)
  PROVE  Done(f, s)[Theme] = c
<1>1. ~s.dir /\ s.data = c
  BY Zenon DEF Fine
<1>2. CASE Reachable(f, Theme)
  <2>1. Done(f, s) = With(f, Theme, c)
    BY <1>1, <1>2 DEF Done
  <2>2. Differs(Done(f, s), f, Theme, c)
    BY <2>1, WithIs, Zenon
  <2>. QED BY <2>2, Zenon DEF Differs
<1>3. CASE ~Reachable(f, Theme)
  <2>1. Done(f, s) = f
    BY <1>3 DEF Done
  <2>2. System \in DOMAIN f
    BY <2>1, Zenon DEF FilesOK
  <2>. QED BY <1>3, <2>2, ThemeIn, Zenon DEF Reachable
<1>. QED BY <1>2, <1>3

-----------------------------------------------------------------------------
(* The inductive invariant                                                 *)

TodoOK(t, scheme) == t \in Seq(Steps) /\ \A i \in DOMAIN t : Fine(t[i], scheme)

\* The marker is written last, when all else has been made or lost.
MarkerOK(f, gone, t) ==
  /\ Marker \in DOMAIN f => Made \subseteq DOMAIN f \cup gone
  /\ \A i \in DOMAIN t : t[i].path = Marker =>
                           i = Len(t) /\ Made \subseteq (DOMAIN f \cup gone) \cup Paths(t)

\* theme.cfg holds the scheme chosen unless it is spoilt or about to be
\* written.
ThemeOK(v, f, gone, t, scheme) ==
  v = "fat32" /\ Theme \notin gone /\ Theme \notin Paths(t) =>
    IF Theme \in DOMAIN f THEN f[Theme] = scheme ELSE scheme = "default"

SettingsInv ==
  /\ FilesOK(files)
  /\ TodoOK(todo, chosen.scheme)
  /\ MarkerOK(files, spoilt, todo)
  /\ ThemeOK(volume, files, spoilt, todo, chosen.scheme)
  /\ chosen \in [host : Hosts \cup {"CantayaOS"}, scheme : Schemes \cup {"default"}]
  /\ script \in Seq(Lines)
  /\ pc \in {"off", "autoexec"} => todo = << >>
  /\ pc = "theme" => colours = Colours("default")
  /\ ThemeSurvives

\* What the first step leaves of the volume.
LEMMA HeadKeeps ==
  ASSUME SettingsInv, todo # << >>, NEW g,
         g = Done(files, Head(todo)) \/ g \in Spoilt(files, Head(todo))
  PROVE  Follows(g, files, Head(todo).path)
<1>1. todo \in Seq(Steps) /\ FilesOK(files) /\ \A i \in DOMAIN todo : Fine(todo[i], chosen.scheme)
  BY Zenon DEF SettingsInv, TodoOK
<1>2. Head(todo) \in Steps /\ Head(todo) = todo[1] /\ 1 \in DOMAIN todo
  BY <1>1, StepsLeft
<1>3. Fine(Head(todo), chosen.scheme)
  BY <1>1, <1>2, Zenon
<1>. QED BY <1>1, <1>2, <1>3, StepKeeps, Zenon

\* The first step was performed or failed.
LEMMA OneStep ==
  ASSUME SettingsInv, todo # << >>, NEW g, NEW gone,
         g = Done(files, Head(todo)) \/ g \in Spoilt(files, Head(todo)),
         DOMAIN files \cup spoilt \cup {Head(todo).path} \subseteq DOMAIN g \cup gone,
         Head(todo).path # Theme /\ Theme \notin gone => Theme \notin spoilt,
         Head(todo).path = Theme /\ Theme \notin gone => g = Done(files, Head(todo)) /\ Theme \in DOMAIN g
  PROVE  /\ FilesOK(g) /\ TodoOK(Tail(todo), chosen.scheme)
         /\ MarkerOK(g, gone, Tail(todo))
         /\ ThemeOK(volume, g, gone, Tail(todo), chosen.scheme)
<1> DEFINE s == Head(todo)
           t == Tail(todo)
           c == chosen.scheme
<1>1. todo \in Seq(Steps) /\ FilesOK(files) /\ \A i \in DOMAIN todo : Fine(todo[i], c)
  BY Zenon DEF SettingsInv, TodoOK
<1>2. /\ s \in Steps /\ s = todo[1] /\ t \in Seq(Steps)
      /\ Len(todo) \in Nat /\ Len(todo) > 0 /\ Len(t) = Len(todo) - 1
      /\ DOMAIN todo = 1 .. Len(todo) /\ DOMAIN t = 1 .. Len(todo) - 1
      /\ \A i \in 1 .. Len(todo) - 1 : t[i] = todo[i + 1]
      /\ Paths(todo) = {s.path} \cup Paths(t)
  BY <1>1, StepsLeft, Zenon
<1> HIDE DEF s, t, c
<1>3. Fine(s, c)
  <2>1. 1 \in DOMAIN todo
    BY <1>2
  <2>. QED BY <1>1, <1>2, <2>1, Zenon
<1>4. /\ FilesOK(g)
      /\ DOMAIN files \subseteq DOMAIN g /\ DOMAIN g \subseteq DOMAIN files \cup {s.path}
      /\ \A q \in DOMAIN files : q # s.path => g[q] = files[q]
  <2>1. g = Done(files, s) \/ g \in Spoilt(files, s)
    BY Zenon DEF s
  <2>2. FilesOK(files) /\ s \in Steps
    BY <1>1, <1>2, Zenon
  <2>3. Follows(g, files, s.path)
    BY <1>3, <2>1, <2>2, StepKeeps, Zenon
  <2>. QED BY <2>3, Zenon DEF Follows
<1>5. \A i \in DOMAIN t : i + 1 \in DOMAIN todo /\ t[i] = todo[i + 1] /\ (i + 1 = Len(todo) <=> i = Len(t))
  BY <1>2
<1>6. TodoOK(t, c)
  BY <1>1, <1>2, <1>5, Zenon DEF TodoOK
<1>7. (DOMAIN files \cup spoilt) \cup {s.path} \subseteq DOMAIN g \cup gone
  BY Zenon DEF s
<1>8. MarkerOK(g, gone, t)
  <2>1. /\ Marker \in DOMAIN files => Made \subseteq DOMAIN files \cup spoilt
        /\ \A i \in DOMAIN todo : todo[i].path = Marker =>
              i = Len(todo) /\ Made \subseteq (DOMAIN files \cup spoilt) \cup Paths(todo)
    BY Zenon DEF SettingsInv, MarkerOK
  <2>2. ASSUME Marker \in DOMAIN g PROVE Made \subseteq DOMAIN g \cup gone
    <3>1. CASE Marker \in DOMAIN files
      BY <1>7, <2>1, <3>1, Zenon
    <3>2. CASE Marker = s.path
      <4>1. PICK k \in DOMAIN todo : k = 1
        BY <1>2
      <4>2. todo[k].path = Marker
        BY <1>2, <3>2, <4>1, Zenon
      <4>3. k = Len(todo) /\ Made \subseteq (DOMAIN files \cup spoilt) \cup Paths(todo)
        BY <2>1, <4>1, <4>2, Zenon
      <4>4. Len(todo) = 1 /\ DOMAIN t = 1 .. Len(todo) - 1
        BY <1>2, <4>1, <4>3, Zenon
      <4>5. DOMAIN t = {}
        BY <4>4
      <4>6. Paths(t) = {}
        BY <4>5 DEF Paths
      <4>. QED BY <1>2, <1>7, <4>3, <4>6, Zenon
    <3>. QED BY <1>4, <2>2, <3>1, <3>2, Zenon
  <2>3. ASSUME NEW i \in DOMAIN t, t[i].path = Marker
        PROVE  i = Len(t) /\ Made \subseteq (DOMAIN g \cup gone) \cup Paths(t)
    <3>1. i + 1 = Len(todo) /\ Made \subseteq (DOMAIN files \cup spoilt) \cup Paths(todo)
      BY <1>5, <2>1, <2>3, Zenon
    <3>. QED BY <1>2, <1>5, <1>7, <3>1, Zenon
  <2>. QED BY <2>2, <2>3, Zenon DEF MarkerOK
<1>9. ThemeOK(volume, g, gone, t, c)
  <2>1. SUFFICES ASSUME volume = "fat32", Theme \notin gone, Theme \notin Paths(t)
                 PROVE  IF Theme \in DOMAIN g THEN g[Theme] = c ELSE c = "default"
    BY Zenon DEF ThemeOK
  <2>2. CASE s.path = Theme
    <3>1. g = Done(files, s) /\ Theme \in DOMAIN g
      BY <2>1, <2>2, Zenon DEF s
    <3>2. g[Theme] = c
      BY <1>1, <1>2, <1>3, <2>1, <2>2, <3>1, ThemeWritten, Zenon
    <3>. QED BY <3>1, <3>2, Zenon
  <2>3. CASE s.path # Theme
    <3>1. Theme \notin spoilt /\ Theme \notin Paths(todo)
      BY <1>2, <2>1, <2>3, Zenon DEF s
    <3>2. IF Theme \in DOMAIN files THEN files[Theme] = c ELSE c = "default"
      BY <2>1, <3>1, Zenon DEF SettingsInv, ThemeOK, c
    <3>. QED BY <1>4, <2>3, <3>2, Zenon
  <2>. QED BY <2>2, <2>3
<1>. QED BY <1>4, <1>6, <1>8, <1>9, Zenon DEF t, c

\* A step that succeeds.
LEMMA PerformKeeps == SettingsInv /\ Perform => SettingsInv'
<1> SUFFICES ASSUME SettingsInv, Perform PROVE SettingsInv'
  OBVIOUS
<1> DEFINE s == Head(todo)
           g == files'
           gone == spoilt'
<1>1. /\ todo # << >> /\ g = Done(files, s) /\ todo' = Tail(todo)
      /\ gone = IF s.path \in DOMAIN g THEN spoilt \ {s.path} ELSE spoilt \cup {s.path}
      /\ UNCHANGED <<volume, pc, script, hostname, colours, cwd, chosen, left>>
  BY Zenon DEF Perform
<1>2. Follows(g, files, s.path)
  BY <1>1, HeadKeeps, Zenon
<1>3. DOMAIN files \cup spoilt \cup {s.path} \subseteq DOMAIN g \cup gone
  BY <1>1, <1>2, Zenon DEF Follows
<1>4. /\ s.path # Theme /\ Theme \notin gone => Theme \notin spoilt
      /\ s.path = Theme /\ Theme \notin gone => Theme \in DOMAIN g
  BY <1>1, Zenon
<1>5. /\ FilesOK(g) /\ TodoOK(Tail(todo), chosen.scheme)
      /\ MarkerOK(g, gone, Tail(todo))
      /\ ThemeOK(volume, g, gone, Tail(todo), chosen.scheme)
  <2> HIDE DEF g, gone
  <2>. QED BY <1>1, <1>3, <1>4, OneStep, Zenon
<1>6. pc \notin {"off", "autoexec"}
  BY <1>1, Zenon DEF SettingsInv
<1>. QED BY <1>1, <1>5, <1>6, Zenon DEF SettingsInv, ThemeSurvives

\* A step that a disk error spoils.
LEMMA FaultKeeps == SettingsInv /\ Fault => SettingsInv'
<1> SUFFICES ASSUME SettingsInv, Fault PROVE SettingsInv'
  OBVIOUS
<1> DEFINE s == Head(todo)
           g == files'
           gone == spoilt'
<1>1. /\ todo # << >> /\ g \in Spoilt(files, s) /\ todo' = Tail(todo)
      /\ gone = spoilt \cup {s.path}
      /\ UNCHANGED <<volume, pc, script, hostname, colours, cwd, chosen>>
  BY Zenon DEF Fault
<1>2. Follows(g, files, s.path)
  BY <1>1, HeadKeeps, Zenon
<1>3. DOMAIN files \cup spoilt \cup {s.path} \subseteq DOMAIN g \cup gone
  BY <1>1, <1>2, Zenon DEF Follows
<1>4. /\ s.path # Theme /\ Theme \notin gone => Theme \notin spoilt
      /\ ~(s.path = Theme /\ Theme \notin gone)
  BY <1>1, Zenon
<1>5. /\ FilesOK(g) /\ TodoOK(Tail(todo), chosen.scheme)
      /\ MarkerOK(g, gone, Tail(todo))
      /\ ThemeOK(volume, g, gone, Tail(todo), chosen.scheme)
  <2> HIDE DEF g, gone
  <2>. QED BY <1>1, <1>3, <1>4, OneStep, Zenon
<1>6. pc \notin {"off", "autoexec"}
  BY <1>1, Zenon DEF SettingsInv
<1>. QED BY <1>1, <1>5, <1>6, Zenon DEF SettingsInv, ThemeSurvives

\* The loss of power: what was to be written counts as spoilt.
LEMMA PowerLossKeeps == SettingsInv /\ PowerLoss => SettingsInv'
<1> SUFFICES ASSUME SettingsInv, PowerLoss PROVE SettingsInv'
  OBVIOUS
<1> DEFINE g == files'
           gone == spoilt'
<1>1. /\ \/ g = files
         \/ /\ todo # << >>
            /\ g = Done(files, Head(todo)) \/ g \in Spoilt(files, Head(todo))
      /\ gone = spoilt \cup Paths(todo) /\ pc' = "off" /\ todo' = << >> /\ script' = << >>
      /\ UNCHANGED <<volume, chosen>>
  BY Zenon DEF PowerLoss
<1> HIDE DEF g, gone
<1>2. /\ FilesOK(g) /\ DOMAIN files \subseteq DOMAIN g /\ DOMAIN g \subseteq DOMAIN files \cup Paths(todo)
      /\ \A q \in DOMAIN files : q \notin Paths(todo) => g[q] = files[q]
  <2>1. CASE g = files
    BY <2>1, Zenon DEF SettingsInv
  <2>2. CASE g # files
    <3>1. todo # << >> /\ Follows(g, files, Head(todo).path)
      BY <1>1, <2>2, HeadKeeps, Zenon
    <3>2. Head(todo).path \in Paths(todo)
      <4>1. todo \in Seq(Steps)
        BY Zenon DEF SettingsInv, TodoOK
      <4>2. Paths(todo) = {Head(todo).path} \cup Paths(Tail(todo))
        BY <3>1, <4>1, StepsLeft, Zenon
      <4>. QED BY <4>2, Zenon
    <3>. QED BY <3>1, <3>2, Zenon DEF Follows
  <2>. QED BY <2>1, <2>2, Zenon
<1>3. TodoOK(<< >>, chosen.scheme) /\ Paths(<< >>) = {} /\ DOMAIN << >> = {}
  BY NothingLeft, Zenon DEF TodoOK
<1>4. MarkerOK(g, gone, << >>)
  <2>1. ASSUME Marker \in DOMAIN g PROVE Made \subseteq DOMAIN g \cup gone
    <3>1. CASE Marker \in DOMAIN files
      <4>1. Made \subseteq DOMAIN files \cup spoilt
        BY <3>1, Zenon DEF SettingsInv, MarkerOK
      <4>. QED BY <1>1, <1>2, <4>1, Zenon
    <3>2. CASE Marker \notin DOMAIN files
      <4>1. Marker \in Paths(todo)
        BY <1>2, <2>1, <3>2, Zenon
      <4>2. PICK i \in DOMAIN todo : todo[i].path = Marker
        BY <4>1 DEF Paths
      <4>3. Made \subseteq (DOMAIN files \cup spoilt) \cup Paths(todo)
        BY <4>2, Zenon DEF SettingsInv, MarkerOK
      <4>. QED BY <1>1, <1>2, <4>3, Zenon
    <3>. QED BY <3>1, <3>2, Zenon
  <2>. QED BY <1>3, <2>1, Zenon DEF MarkerOK
<1>5. ThemeOK(volume, g, gone, << >>, chosen.scheme)
  BY <1>1, <1>2, Zenon DEF SettingsInv, ThemeOK
<1>6. << >> \in Seq(Lines)
  OBVIOUS
<1>7. /\ FilesOK(files') /\ MarkerOK(files', spoilt', todo')
      /\ ThemeOK(volume', files', spoilt', todo', chosen.scheme)
  BY <1>1, <1>2, <1>4, <1>5, Zenon DEF g, gone
<1>. QED BY <1>1, <1>3, <1>6, <1>7, Zenon DEF SettingsInv, ThemeSurvives

-----------------------------------------------------------------------------
(* What the boot and the commands begin                                    *)

\* A list of steps that touches neither the marker nor theme.cfg.
Quiet(t) ==
  /\ t \in Seq(Steps)
  /\ \A i \in DOMAIN t : t[i].path \notin {Marker, Theme} /\ \A c : Fine(t[i], c)

\* One after the other they are one.
LEMMA QuietJoin ==
  ASSUME NEW a, NEW b, Quiet(a), Quiet(b), NEW t, t = a \o b
  PROVE  Quiet(t)
<1>1. a \in Seq(Steps) /\ b \in Seq(Steps)
  BY Zenon DEF Quiet
<1>2. t \in Seq(Steps) /\ Joined(t, a, b)
  BY <1>1, ConcatIs, Zenon
<1>3. /\ DOMAIN t = 1 .. Len(t) /\ DOMAIN a = 1 .. Len(a) /\ DOMAIN b = 1 .. Len(b)
  BY <1>1, <1>2
<1>4. ASSUME NEW i \in DOMAIN t
      PROVE  (\E j \in DOMAIN a : t[i] = a[j]) \/ \E j \in DOMAIN b : t[i] = b[j]
  <2>1. /\ \A j \in 1 .. Len(a) : t[j] = a[j]
        /\ \A j \in 1 .. Len(b) : t[Len(a) + j] = b[j]
        /\ i \in 1 .. Len(a) \/ \E j \in 1 .. Len(b) : i = Len(a) + j
    BY <1>2, <1>3, Zenon DEF Joined
  <2>. QED BY <1>3, <2>1, Zenon
<1>. QED BY <1>2, <1>4, Zenon DEF Quiet

\* The copy of a file to another place.
LEMMA CopiedQuiet ==
  ASSUME FilesOK(files), NEW from, NEW to \in Places, to \notin {Marker, Theme},
         to \in Autoexecs => from \in Autoexecs
  PROVE  Quiet(Copied(from, to))
<1>1. CASE Copied(from, to) = << >>
  BY <1>1, NothingLeft, Zenon DEF Quiet
<1>2. CASE from \in DOMAIN files /\ Copied(from, to) = <<write(to, files[from])>>
  <2> DEFINE w == write(to, files[from])
  <2>1. files[from] \in Contents /\ (to \in Autoexecs => files[from] \in Seq(Lines))
    BY <1>2, Zenon DEF FilesOK
  <2>2. w \in Steps
    BY <2>1 DEF Steps
  <2>3. w.path = to /\ ~w.dir /\ w.data = files[from]
    BY WriteIs
  <2>4. w.path \notin {Marker, Theme} /\ \A c : Fine(w, c)
    BY <2>1, <2>3, Zenon DEF Fine
  <2> HIDE DEF w
  <2>5. <<w>> \in Seq(Steps) /\ \A i \in DOMAIN <<w>> : <<w>>[i] = w
    BY <2>2
  <2>6. Quiet(<<w>>)
    BY <2>4, <2>5, Zenon DEF Quiet
  <2>. QED BY <1>2, <2>6 DEF w
<1>. QED BY <1>1, <1>2 DEF Copied, exists

\* The directory, then the file of a setting.
LEMMA SavedIs ==
  ASSUME NEW p \in {LegacyHost, Theme}, NEW x \in Hosts \cup Schemes, NEW c, p = Theme => x = c
  PROVE  /\ TodoOK(Saved(p, x), c) /\ Marker \notin Paths(Saved(p, x))
         /\ volume # "none" => p \in Paths(Saved(p, x))
<1>1. CASE volume = "none"
  <2>1. Saved(p, x) = << >>
    BY <1>1 DEF Saved
  <2>. QED BY <1>1, <2>1, NothingLeft, Zenon DEF TodoOK
<1>2. CASE volume # "none"
  <2> DEFINE m == mkdir(System)
             w == write(p, x)
  <2>1. Saved(p, x) = <<m, w>>
    BY <1>2 DEF Saved, System
  <2>2. System \in Places /\ p \in Places /\ x \in Contents
    <3>1. System \in {Dirs[i] : i \in DOMAIN Dirs}
      <4>1. Len(Dirs) \in DOMAIN Dirs
        BY DEF Dirs
      <4>. QED BY <4>1, DirsAre
    <3>2. LegacyHost \in {Files[i][1] : i \in DOMAIN Files}
      BY FilesAre
    <3>3. x \in Contents
      BY DEF Contents
    <3>. QED BY <3>1, <3>2, <3>3, Zenon DEF Places
  <2>3. m \in Steps /\ w \in Steps
    BY <2>2 DEF Steps
  <2>4. m.path = System
    BY MkdirIs, Zenon
  <2>5. w.path = p /\ ~w.dir /\ w.data = x
    BY WriteIs
  <2>6. Fine(m, c) /\ Fine(w, c) /\ m.path # Marker /\ w.path # Marker
    BY <2>4, <2>5, PathsDiffer, Zenon DEF Fine
  <2> HIDE DEF m, w
  <2>7. /\ <<m, w>> \in Seq(Steps) /\ DOMAIN <<m, w>> = {1, 2}
        /\ <<m, w>>[1] = m /\ <<m, w>>[2] = w
    BY <2>3
  <2>8. Paths(<<m, w>>) = {m.path, w.path}
    BY <2>7 DEF Paths
  <2>9. TodoOK(<<m, w>>, c)
    BY <2>6, <2>7, Zenon DEF TodoOK
  <2>. QED BY <2>1, <2>5, <2>6, <2>8, <2>9, Zenon
<1>. QED BY <1>1, <1>2

\* Power-on.
LEMMA InitKeeps == SettingsInv /\ init => SettingsInv'
<1> SUFFICES ASSUME SettingsInv, init PROVE SettingsInv'
  OBVIOUS
<1> DEFINE t == todo'
<1>1. /\ pc' = "theme" /\ colours' = Colours("default")
      /\ \/ t = << >>
         \/ t = Provisioning /\ Marker \notin DOMAIN files
         \/ t = migrate_legacy_configs
      /\ UNCHANGED <<volume, files, script, chosen, spoilt>>
  BY Zenon DEF init, provision_filesystem, exists
<1>2. todo = << >> /\ FilesOK(files)
  BY Zenon DEF SettingsInv, init
<1> HIDE DEF t
<1>3. TodoOK(t, chosen.scheme) /\ MarkerOK(files, spoilt, t) /\ Theme \notin Paths(t)
  <2>1. CASE Quiet(t)
    <3>1. Marker \in DOMAIN files => Made \subseteq DOMAIN files \cup spoilt
      BY Zenon DEF SettingsInv, MarkerOK
    <3>2. Theme \notin Paths(t)
      BY <2>1 DEF Quiet, Paths
    <3>. QED BY <2>1, <3>1, <3>2, Zenon DEF Quiet, TodoOK, MarkerOK
  <2>2. CASE t = << >>
    BY <2>1, <2>2, NothingLeft, Zenon DEF Quiet
  <2>3. CASE t = migrate_legacy_configs
    <3> DEFINE a == Copied(LegacyHost, WindowsHost)
               b == Copied(LegacyAuto, WindowsAuto)
    <3>1. WindowsHost \in Places /\ WindowsAuto \in Places
      <4>1. WindowsHost \in {Files[i][1] : i \in DOMAIN Files}
        BY FilesAre
      <4>2. WindowsAuto \in {Files[i][1] : i \in DOMAIN Files}
        BY FilesAre
      <4>. QED BY <4>1, <4>2, Zenon DEF Places
    <3>2. Quiet(a)
      BY <1>2, <3>1, PathsDiffer, CopiedQuiet, Zenon
    <3>3. WindowsAuto \in Autoexecs /\ LegacyAuto \in Autoexecs
      BY Zenon DEF Autoexecs
    <3>4. Quiet(b)
      BY <1>2, <3>1, <3>3, PathsDiffer, CopiedQuiet, Zenon
    <3>5. t = a \o b
      BY <2>3, Zenon DEF migrate_legacy_configs
    <3> HIDE DEF a, b
    <3>. QED BY <2>1, <3>2, <3>4, <3>5, QuietJoin, Zenon
  <2>4. CASE t = Provisioning /\ Marker \notin DOMAIN files
    <3>1. Paths(t) = Made
      BY <2>4, Zenon DEF Made
    <3>2. \A i \in DOMAIN t : /\ t[i].path # Theme /\ Fine(t[i], chosen.scheme)
                              /\ t[i].path = Marker => i = Len(t)
      BY <2>4, ProvisioningIs, Zenon
    <3>3. Theme \notin Paths(t)
      BY <3>2 DEF Paths
    <3>4. t \in Seq(Steps)
      BY <2>4, ProvisioningIs, Zenon
    <3>. QED BY <2>4, <3>1, <3>2, <3>3, <3>4, Zenon DEF TodoOK, MarkerOK
  <2>. QED BY <1>1, <2>2, <2>3, <2>4, Zenon
<1>4. ThemeOK(volume, files, spoilt, t, chosen.scheme)
  <2>1. Paths(todo) = {}
    BY <1>2, NothingLeft, Zenon
  <2>. QED BY <2>1, Zenon DEF SettingsInv, ThemeOK
<1>5. TodoOK(todo', chosen.scheme) /\ MarkerOK(files, spoilt, todo')
      /\ ThemeOK(volume, files, spoilt, todo', chosen.scheme)
  BY <1>3, <1>4, Zenon DEF t
<1>. QED BY <1>1, <1>5, Zenon DEF SettingsInv, ThemeSurvives

\* The shell starts in the colours of the scheme chosen.
LEMMA LoadKeeps == SettingsInv /\ load_saved_theme => SettingsInv'
<1> SUFFICES ASSUME SettingsInv, load_saved_theme PROVE SettingsInv'
  OBVIOUS
<1>1. /\ pc = "theme" /\ todo = << >> /\ pc' = "autoexec"
      /\ colours' = IF Theme \in DOMAIN files /\ files[Theme] \in Schemes \cup {"default"}
                    THEN Colours(files[Theme]) ELSE colours
      /\ UNCHANGED <<volume, files, todo, script, chosen, spoilt>>
  BY Zenon DEF load_saved_theme, exists
<1>2. ASSUME volume = "fat32", Theme \notin spoilt PROVE colours' = Colours(chosen.scheme)
  <2>1. Paths(todo) = {}
    BY <1>1, NothingLeft, Zenon
  <2>2. IF Theme \in DOMAIN files THEN files[Theme] = chosen.scheme ELSE chosen.scheme = "default"
    BY <1>2, <2>1, Zenon DEF SettingsInv, ThemeOK
  <2>3. chosen.scheme \in Schemes \cup {"default"}
    BY DEF SettingsInv
  <2>4. colours = Colours("default")
    BY <1>1, Zenon DEF SettingsInv
  <2>. QED BY <1>1, <2>2, <2>3, <2>4, Zenon
<1>. QED BY <1>1, <1>2, Zenon DEF SettingsInv, ThemeSurvives

\* The start-up script is one of the two on the volume, or empty.
LEMMA AutoexecReadKeeps == SettingsInv /\ run_autoexec => SettingsInv'
<1> SUFFICES ASSUME SettingsInv, run_autoexec PROVE SettingsInv'
  OBVIOUS
<1>1. /\ pc' = "script"
      /\ \/ WindowsAuto \in DOMAIN files /\ script' = files[WindowsAuto]
         \/ LegacyAuto \in DOMAIN files /\ script' = files[LegacyAuto]
         \/ script' = << >>
      /\ UNCHANGED <<volume, files, todo, chosen, spoilt>>
  <2>1. script' = CASE exists(WindowsAuto) -> files[WindowsAuto]
                    [] ~exists(WindowsAuto) /\ exists(LegacyAuto) -> files[LegacyAuto]
                    [] OTHER -> << >>
    BY Zenon DEF run_autoexec
  <2>2. \/ WindowsAuto \in DOMAIN files /\ script' = files[WindowsAuto]
        \/ LegacyAuto \in DOMAIN files /\ script' = files[LegacyAuto]
        \/ script' = << >>
    BY <2>1 DEF exists
  <2>. QED BY <2>2, Zenon DEF run_autoexec
<1>2. << >> \in Seq(Lines)
  OBVIOUS
<1>3. script' \in Seq(Lines)
  BY <1>1, <1>2, Zenon DEF SettingsInv, FilesOK, Autoexecs
<1>. QED BY <1>1, <1>3, Zenon DEF SettingsInv, ThemeSurvives

-----------------------------------------------------------------------------
(* The commands                                                            *)

\* What a command keeps, whatever it does to the rest.
Kept == /\ FilesOK(files) /\ TodoOK(todo, chosen.scheme) /\ MarkerOK(files, spoilt, todo)
        /\ ThemeOK(volume, files, spoilt, todo, chosen.scheme)
        /\ chosen \in [host : Hosts \cup {"CantayaOS"}, scheme : Schemes \cup {"default"}]

\* A command that saves a setting.
LEMMA ExecuteKeeps ==
  ASSUME SettingsInv, todo = << >>, NEW line \in Lines, Execute(line), volume' = volume
  PROVE  Kept'
<1> DEFINE t == todo'
<1>1. Paths(todo) = {}
  BY NothingLeft, Zenon
<1>2. CASE line.cmd = "hostname" /\ cmd_hostname(line.arg)
  <2>1. line.arg \in Hosts
    BY <1>2 DEF Lines
  <2>2. /\ t = Saved(LegacyHost, line.arg) /\ chosen' = [chosen EXCEPT !.host = line.arg]
        /\ UNCHANGED <<files, spoilt>>
    BY <1>2, Zenon DEF cmd_hostname
  <2>3. /\ chosen' \in [host : Hosts \cup {"CantayaOS"}, scheme : Schemes \cup {"default"}]
        /\ chosen'.scheme = chosen.scheme
    BY <2>1, <2>2 DEF SettingsInv
  <2> HIDE DEF t
  <2>4. TodoOK(t, chosen.scheme) /\ Marker \notin Paths(t)
    BY <2>1, <2>2, PathsDiffer, SavedIs, Zenon
  <2>5. \A i \in DOMAIN t : t[i].path # Marker
    BY <2>4 DEF Paths
  <2>6. MarkerOK(files, spoilt, t) /\ ThemeOK(volume, files, spoilt, t, chosen.scheme)
    BY <1>1, <2>5, Zenon DEF SettingsInv, MarkerOK, ThemeOK
  <2>. QED BY <2>2, <2>3, <2>4, <2>6, Zenon DEF SettingsInv, Kept, t
<1>3. CASE line.cmd = "color" /\ cmd_color(line.arg)
  <2>1. line.arg \in Schemes
    BY <1>3 DEF Lines
  <2>2. /\ t = Saved(Theme, line.arg) /\ chosen' = [chosen EXCEPT !.scheme = line.arg]
        /\ UNCHANGED <<files, spoilt>>
    BY <1>3, Zenon DEF cmd_color
  <2>3. /\ chosen' \in [host : Hosts \cup {"CantayaOS"}, scheme : Schemes \cup {"default"}]
        /\ chosen'.scheme = line.arg
    BY <2>1, <2>2 DEF SettingsInv
  <2> HIDE DEF t
  <2>4. /\ TodoOK(t, line.arg) /\ Marker \notin Paths(t)
        /\ volume # "none" => Theme \in Paths(t)
    BY <2>1, <2>2, SavedIs, Zenon
  <2>5. \A i \in DOMAIN t : t[i].path # Marker
    BY <2>4 DEF Paths
  <2>6. MarkerOK(files, spoilt, t)
    BY <2>5, Zenon DEF SettingsInv, MarkerOK
  <2>7. ThemeOK(volume, files, spoilt, t, line.arg)
    BY <2>4 DEF ThemeOK
  <2>. QED BY <2>2, <2>3, <2>4, <2>6, <2>7, Zenon DEF SettingsInv, Kept, t
<1>. QED BY <1>2, <1>3, Zenon DEF Execute

\* A file is removed: it is gone by the user's own wish.
LEMMA RmKeeps ==
  ASSUME SettingsInv, todo = << >>, volume' = volume,
         NEW p \in Autoexecs \cup {WindowsHost, LegacyHost, Theme}, cmd_rm(p)
  PROVE  Kept'
<1> DEFINE g == files'
           gone == spoilt'
<1>1. /\ g = [q \in DOMAIN files \ {p} |-> files[q]] /\ gone = spoilt \cup {p}
      /\ UNCHANGED <<todo, chosen>>
  BY Zenon DEF cmd_rm
<1>2. p # Marker /\ p # System
  BY PathsDiffer, Zenon
<1> HIDE DEF g, gone
<1>3. DOMAIN g = DOMAIN files \ {p} /\ \A q \in DOMAIN g : g[q] = files[q]
  BY <1>1, Zenon
<1>4. g = [q \in DOMAIN g |-> g[q]]
  BY <1>1, Zenon
<1>5. FilesOK(files)
  BY Zenon DEF SettingsInv
<1>6. FilesOK(g)
  BY <1>2, <1>3, <1>4, <1>5, Zenon DEF FilesOK
<1>7. Paths(todo) = {} /\ DOMAIN todo = {}
  BY NothingLeft, Zenon
<1>8. MarkerOK(g, gone, todo)
  <2>1. Marker \in DOMAIN g => Made \subseteq DOMAIN files \cup spoilt
    BY <1>3, Zenon DEF SettingsInv, MarkerOK
  <2>. QED BY <1>1, <1>3, <1>7, <2>1, Zenon DEF MarkerOK
<1>9. ThemeOK(volume, g, gone, todo, chosen.scheme)
  BY <1>1, <1>3, <1>7, Zenon DEF SettingsInv, ThemeOK
<1>. QED BY <1>1, <1>6, <1>8, <1>9, Zenon DEF SettingsInv, Kept, g, gone

\* A start-up script is written.
LEMMA SaveScriptKeeps ==
  ASSUME SettingsInv, todo = << >>, volume' = volume,
         NEW p \in Autoexecs, NEW line \in Lines, SaveScript(p, line)
  PROVE  Kept'
<1> DEFINE w == write(p, <<line>>)
           t == <<w>>
<1>1. todo' = t /\ UNCHANGED <<files, chosen, spoilt>>
  BY Zenon DEF SaveScript
<1>2. <<line>> \in Seq(Lines)
  OBVIOUS
<1>3. w.path = p /\ ~w.dir /\ w.data = <<line>>
  BY WriteIs
<1>4. w \in Steps
  <2>1. p \in {Files[i][1] : i \in DOMAIN Files}
    BY FilesAre DEF Autoexecs
  <2>2. p \in Places
    BY <2>1, Zenon DEF Places
  <2>3. <<line>> \in Contents
    BY <1>2, Zenon DEF Contents
  <2>. QED BY <2>2, <2>3 DEF Steps
<1>5. Fine(w, chosen.scheme) /\ w.path # Marker /\ w.path # Theme
  BY <1>2, <1>3, PathsDiffer, Zenon DEF Fine
<1> HIDE DEF w
<1>6. t \in Seq(Steps) /\ \A i \in DOMAIN t : t[i] = w
  BY <1>4
<1>7. Paths(todo) = {}
  BY NothingLeft, Zenon
<1> HIDE DEF t
<1>8. TodoOK(t, chosen.scheme) /\ \A i \in DOMAIN t : t[i].path # Marker
  BY <1>5, <1>6, Zenon DEF TodoOK
<1>9. MarkerOK(files, spoilt, t) /\ ThemeOK(volume, files, spoilt, t, chosen.scheme)
  BY <1>7, <1>8, Zenon DEF SettingsInv, MarkerOK, ThemeOK
<1>. QED BY <1>1, <1>8, <1>9, Zenon DEF SettingsInv, Kept

\* A line of the start-up script, or the end of it.
LEMMA AutoexecKeeps == SettingsInv /\ Autoexec => SettingsInv'
<1> SUFFICES ASSUME SettingsInv, Autoexec PROVE SettingsInv'
  OBVIOUS
<1>1. todo = << >> /\ pc = "script" /\ volume' = volume /\ script \in Seq(Lines)
  BY Zenon DEF Autoexec, SettingsInv
<1>2. CASE script = << >>
  BY <1>1, <1>2, Zenon DEF Autoexec, SettingsInv, ThemeSurvives
<1>3. CASE script # << >>
  <2>1. Head(script) \in Lines /\ Tail(script) \in Seq(Lines)
    BY <1>1, <1>3
  <2>2. Execute(Head(script)) /\ script' = Tail(script) /\ pc' = pc
    BY <1>3, Zenon DEF Autoexec
  <2>3. Kept'
    BY <1>1, <2>1, <2>2, ExecuteKeeps, Zenon
  <2>. QED BY <1>1, <2>1, <2>2, <2>3, Zenon DEF SettingsInv, Kept, ThemeSurvives
<1>. QED BY <1>2, <1>3

\* A command typed at the prompt.
LEMMA CommandKeeps == SettingsInv /\ Command => SettingsInv'
<1> SUFFICES ASSUME SettingsInv, Command PROVE SettingsInv'
  OBVIOUS
<1>1. /\ todo = << >> /\ pc = "shell" /\ UNCHANGED <<volume, pc, script>>
      /\ \/ \E line \in Lines : Execute(line)
         \/ \E p \in Autoexecs \cup {WindowsHost, LegacyHost, Theme} : cmd_rm(p)
         \/ \E p \in Autoexecs, line \in Lines : exists(p) /\ SaveScript(p, line)
  BY Zenon DEF Command
<1>2. Kept'
  BY <1>1, ExecuteKeeps, RmKeeps, SaveScriptKeeps, Zenon
<1>. QED BY <1>1, <1>2, Zenon DEF SettingsInv, Kept, ThemeSurvives

-----------------------------------------------------------------------------
(* What a restart keeps                                                    *)

\* A machine that was never switched on, with a new disk or an old one.
LEMMA SettingsStart == Init => SettingsInv
<1> SUFFICES ASSUME Init PROVE SettingsInv
  OBVIOUS
<1>1. /\ pc = "off" /\ todo = << >> /\ script = << >> /\ spoilt = {}
      /\ \/ files = BlankDisk /\ chosen = [host |-> "CantayaOS", scheme |-> "default"]
         \/ /\ chosen \in [host : Hosts, scheme : Schemes]
            /\ files = Legacy(chosen.host, chosen.scheme)
  BY Zenon DEF Init
<1>2. << >> \in Seq(Lines) /\ Paths(todo) = {} /\ DOMAIN todo = {} /\ TodoOK(todo, chosen.scheme)
  <2>1. << >> \in Seq(Lines)
    OBVIOUS
  <2>. QED BY <1>1, <2>1, NothingLeft, Zenon DEF TodoOK
<1>3. /\ FilesOK(files) /\ Marker \notin DOMAIN files
      /\ IF Theme \in DOMAIN files THEN files[Theme] = chosen.scheme ELSE chosen.scheme = "default"
      /\ chosen \in [host : Hosts \cup {"CantayaOS"}, scheme : Schemes \cup {"default"}]
  <2>1. CASE files = BlankDisk /\ chosen = [host |-> "CantayaOS", scheme |-> "default"]
    <3>1. DOMAIN files = {} /\ files = [q \in DOMAIN files |-> files[q]]
      BY <2>1, Zenon DEF BlankDisk
    <3>2. /\ chosen \in [host : Hosts \cup {"CantayaOS"}, scheme : Schemes \cup {"default"}]
          /\ chosen.scheme = "default"
      BY <2>1
    <3>. QED BY <3>1, <3>2, Zenon DEF FilesOK
  <2>2. CASE /\ chosen \in [host : Hosts, scheme : Schemes]
             /\ files = Legacy(chosen.host, chosen.scheme)
    <3>1. /\ chosen \in [host : Hosts \cup {"CantayaOS"}, scheme : Schemes \cup {"default"}]
          /\ chosen.host \in Contents /\ chosen.scheme \in Contents
      BY <2>2 DEF Contents
    <3>2. /\ DOMAIN files = {System, LegacyHost, LegacyAuto, Theme}
          /\ files = [q \in DOMAIN files |-> files[q]]
      <4> DEFINE S == {System, LegacyHost, LegacyAuto, Theme}
                 G(p) == CASE p = LegacyHost -> chosen.host [] p = LegacyAuto -> << >>
                           [] p = Theme -> chosen.scheme [] OTHER -> "dir"
      <4>1. files = [p \in S |-> G(p)]
        BY <2>2, Zenon DEF Legacy, System
      <4> HIDE DEF S, G
      <4>2. DOMAIN files = S /\ files = [q \in DOMAIN files |-> files[q]]
        BY <4>1, Zenon
      <4>. QED BY <4>2 DEF S
    <3>3. /\ files[LegacyHost] = chosen.host /\ files[LegacyAuto] = << >>
          /\ files[Theme] = chosen.scheme /\ files[System] = "dir"
      <4>1. \A p \in {System, LegacyHost, LegacyAuto, Theme} :
              files[p] = CASE p = LegacyHost -> chosen.host [] p = LegacyAuto -> << >>
                           [] p = Theme -> chosen.scheme [] OTHER -> "dir"
        BY <2>2, Zenon DEF Legacy, System
      <4>2. /\ LegacyHost # LegacyAuto /\ LegacyHost # Theme /\ LegacyAuto # Theme
            /\ System \notin {LegacyHost, LegacyAuto, Theme}
        BY PathsDiffer, Zenon DEF Autoexecs
      <4>. QED BY <4>1, <4>2
    <3>4. << >> \in Seq(Lines) /\ << >> \in Contents /\ "dir" \in Contents
      BY DEF Contents
    <3>5. Marker \notin DOMAIN files /\ WindowsAuto \notin DOMAIN files
      <4>1. Len(Marker) = 4 /\ Len(WindowsAuto) = 4
        BY PathsAre
      <4>2. Len(System) = 1 /\ Len(LegacyHost) = 2 /\ Len(LegacyAuto) = 2 /\ Len(Theme) = 2
        BY PathsAre DEF System
      <4>. QED BY <3>2, <4>1, <4>2
    <3>. QED BY <3>1, <3>2, <3>3, <3>4, <3>5, Zenon DEF FilesOK, Autoexecs
  <2>. QED BY <1>1, <2>1, <2>2, Zenon
<1>4. MarkerOK(files, spoilt, todo) /\ ThemeOK(volume, files, spoilt, todo, chosen.scheme)
  BY <1>2, <1>3, Zenon DEF MarkerOK, ThemeOK
<1>. QED BY <1>1, <1>2, <1>3, <1>4 DEF SettingsInv, ThemeSurvives

\* No step breaks the invariant.
LEMMA SettingsStep == SettingsInv /\ [Next]_vars => SettingsInv'
<1>1. ASSUME SettingsInv, UNCHANGED vars PROVE SettingsInv'
  BY <1>1, Zenon DEF vars, SettingsInv, ThemeSurvives
<1>. QED BY <1>1, PerformKeeps, FaultKeeps, PowerLossKeeps, InitKeeps, LoadKeeps, AutoexecReadKeeps,
           AutoexecKeeps, CommandKeeps, Zenon DEF Next, Boot

\* It says that the marker stands for a whole installation.
LEMMA SettingsMeans == SettingsInv => RestartKeeps
<1> SUFFICES ASSUME SettingsInv PROVE RestartKeeps
  OBVIOUS
<1>1. Marker \in DOMAIN files => Made \subseteq DOMAIN files \cup spoilt
  BY Zenon DEF SettingsInv, MarkerOK
<1>2. ThemeSurvives
  BY Zenon DEF SettingsInv
<1>. QED BY <1>1, <1>2, Zenon DEF RestartKeeps, MarkerMeansProvisioned, exists, Made

\* However often the power goes and whatever disk errors come, a volume that
\* carries init.ok has all that provision_filesystem makes, and the shell
\* starts in the colours of the scheme last chosen, but for files that an error
\* or the user took.
THEOREM RestartIsKept == Spec => []RestartKeeps
<1>1. Spec => []SettingsInv
  BY SettingsStart, SettingsStep, PTL DEF Spec
<1>. QED BY <1>1, SettingsMeans, PTL
=============================================================================
