--------------------------- MODULE ConsoleProofs ----------------------------
(***************************************************************************)
(* The console never draws outside the framebuffer, its pixels are those   *)
(* of an abstract text screen, and the row shows the line that Enter hands *)
(* to the shell: for every size of the framebuffer and of its cells, and   *)
(* every text.                                                             *)
(***************************************************************************)
EXTENDS LineEditor, SequenceTheorems, TLAPS

CursorInv == cur_x \in Nat /\ cur_y \in Nat /\ CursorInside

LEMMA SizeTypes == /\ fb_w \in Nat /\ fb_h \in Nat /\ cell_w \in Nat /\ cell_h \in Nat
                   /\ cell_w <= fb_w /\ cell_h <= fb_h
  BY ConsoleConstantsOK

\* An earlier column of a cell that fits fits as well.
LEMMA EarlierFits ==
  ASSUME NEW x \in Nat, NEW w \in Nat, NEW total \in Nat, x > 0, (x + 1) * w <= total
  PROVE  ((x - 1) + 1) * w <= total
  <1>1. (x + 1) * w = x * w + w /\ ((x - 1) + 1) * w = x * w
    OBVIOUS
  <1>2. x * w \in Nat
    OBVIOUS
  <1> QED BY <1>1, <1>2

\* A new row is only taken when it is wholly on the screen.
LEMMA NextRowKeeps ==
  ASSUME CursorInv, NEW f, NextRow(f)
  PROVE  CursorInv'
  <1>1. cur_x' = 0
    BY DEF NextRow
  <1>2. (cur_x' + 1) * cell_w <= fb_w
    BY <1>1, SizeTypes
  <1>3. CASE (cur_y + 2) * cell_h > fb_h
    <2>1. cur_y' = cur_y
      BY <1>3 DEF NextRow
    <2> QED BY <1>1, <1>2, <2>1 DEF CursorInv, CursorInside
  <1>4. CASE ~((cur_y + 2) * cell_h > fb_h)
    <2>1. cur_y' = cur_y + 1
      BY <1>4 DEF NextRow
    <2>2. cur_y \in Nat
      BY DEF CursorInv
    <2>3. (cur_y + 1) + 1 = cur_y + 2
      BY <2>2
    <2>4. (cur_y + 2) * cell_h <= fb_h
      BY <1>4, <2>2, SizeTypes
    <2>5. (cur_y' + 1) * cell_h <= fb_h
      BY <2>1, <2>3, <2>4
    <2> QED BY <1>1, <1>2, <2>1, <2>2, <2>5 DEF CursorInv, CursorInside
  <1> QED BY <1>3, <1>4

\* Every character keeps the cursor's cell on the screen.
LEMMA PutKeeps ==
  ASSUME CursorInv, NEW c, fb_putc(c)
  PROVE  CursorInv'
  <1>1. CASE UNCHANGED fbvars
    BY <1>1 DEF CursorInv, CursorInside, fbvars
  <1>2. CASE NextRow(fb)
    BY <1>2, NextRowKeeps
  <1>3. CASE PutBackspace /\ cur_x # 0
    <2>1. cur_x' = cur_x - 1 /\ cur_y' = cur_y
      BY <1>3 DEF PutBackspace
    <2>2. cur_x \in Nat /\ cur_x > 0 /\ cur_x - 1 \in Nat
      BY <1>3 DEF CursorInv
    <2>3. ((cur_x - 1) + 1) * cell_w <= fb_w
      BY <2>2, EarlierFits, SizeTypes DEF CursorInv, CursorInside
    <2> QED BY <2>1, <2>2, <2>3 DEF CursorInv, CursorInside
  <1>4. CASE PutPlain(c)
    <2> DEFINE f == draw_glyph(fb, cur_x * cell_w, cur_y * cell_h, glyph_for(c))
    <2>1. CASE (cur_x + 2) * cell_w > fb_w
      <3>1. NextRow(f)
        BY <1>4, <2>1 DEF PutPlain
      <3> QED BY <3>1, NextRowKeeps
    <2>2. CASE ~((cur_x + 2) * cell_w > fb_w)
      <3>1. cur_x' = cur_x + 1 /\ cur_y' = cur_y
        BY <1>4, <2>2 DEF PutPlain
      <3>2. cur_x \in Nat /\ (cur_x + 1) + 1 = cur_x + 2
        BY DEF CursorInv
      <3>3. (cur_x + 2) * cell_w <= fb_w
        BY <2>2, <3>2, SizeTypes
      <3>4. (cur_x' + 1) * cell_w <= fb_w
        BY <3>1, <3>2, <3>3
      <3> QED BY <3>1, <3>2, <3>4 DEF CursorInv, CursorInside
    <2> QED BY <2>1, <2>2
  <1>5. PutBackspace /\ cur_x = 0 => UNCHANGED fbvars
    BY DEF PutBackspace
  <1> QED BY <1>1, <1>2, <1>3, <1>4, <1>5 DEF fb_putc

\* fill_rect does not clip, and never has to: whatever is written, the cell
\* that the next character is drawn in lies inside the framebuffer.
THEOREM DrawsInside == ConsoleSpec => []CursorInside
  <1>1. ConsoleInit => CursorInv
    BY SizeTypes DEF ConsoleInit, CursorInv, CursorInside
  <1>2. CursorInv /\ [\E c \in Plain \cup {NL, CR, BS} : fb_putc(c)]_fbvars => CursorInv'
    <2> SUFFICES ASSUME CursorInv, [\E c \in Plain \cup {NL, CR, BS} : fb_putc(c)]_fbvars
                 PROVE  CursorInv'
      OBVIOUS
    <2>1. CASE UNCHANGED fbvars
      BY <2>1 DEF CursorInv, CursorInside, fbvars
    <2>2. CASE \E c \in Plain \cup {NL, CR, BS} : fb_putc(c)
      <3>1. PICK c : fb_putc(c)
        BY <2>2
      <3> QED BY <3>1, PutKeeps
    <2> QED BY <2>1, <2>2
  <1>3. CursorInv => CursorInside
    BY DEF CursorInv
  <1> QED BY <1>1, <1>2, <1>3, PTL DEF ConsoleSpec

-----------------------------------------------------------------------------
(* Where a cell's pixels are. *)

LEMMA TimesMonotone ==
  ASSUME NEW B \in Nat, NEW r \in Nat, NEW q \in Nat, r <= q
  PROVE  r * B \in Nat /\ q * B \in Nat /\ r * B <= q * B
OBVIOUS

LEMMA TimesNext ==
  ASSUME NEW B \in Nat, NEW r \in Nat
  PROVE  (r + 1) * B = r * B + B /\ (r + 2) * B = r * B + B + B
OBVIOUS

\* A place in cell q is inside cell r only if they are the same.
LEMMA InCell ==
  ASSUME NEW B \in Nat \ {0}, NEW r \in Nat, NEW q \in Nat, NEW d \in 0 .. B - 1
  PROVE  r * B <= q * B + d /\ q * B + d < r * B + B <=> q = r
<1>1. r * B \in Nat /\ q * B \in Nat
  BY TimesMonotone
<1>2. r + 1 <= q => r * B + B <= q * B
  <2>1. r + 1 \in Nat /\ (r + 1) * B = r * B + B
    BY TimesNext
  <2> QED
    BY <2>1, TimesMonotone
<1>3. q + 1 <= r => q * B + B <= r * B
  <2>1. q + 1 \in Nat /\ (q + 1) * B = q * B + B
    BY TimesNext
  <2> QED
    BY <2>1, TimesMonotone
<1>4. d \in Nat /\ d < B
  OBVIOUS
<1>5. r = q \/ r + 1 <= q \/ q + 1 <= r
  OBVIOUS
<1>6. r = q => r * B = q * B
  OBVIOUS
<1> QED
  BY <1>1, <1>2, <1>3, <1>4, <1>5, <1>6

\* How many cells fit.
LEMMA Fit ==
  ASSUME NEW B \in Nat \ {0}, NEW total \in Nat, total >= B
  PROVE  /\ total \div B \in Nat /\ total \div B >= 1
         /\ \A n \in Nat : n * B <= total <=> n <= total \div B
<1>1. PICK q \in Nat : q = total \div B
  OBVIOUS
<1>2. PICK t \in 0 .. B - 1 : total = q * B + t
  <2>1. total % B \in 0 .. B - 1 /\ total = B * (total \div B) + (total % B)
    OBVIOUS
  <2>2. B * q = q * B
    OBVIOUS
  <2> QED
    BY <1>1, <2>1, <2>2
<1>3. q * B \in Nat /\ (q + 1) * B = q * B + B /\ q + 1 \in Nat
  BY TimesMonotone, TimesNext
<1>4. ASSUME NEW n \in Nat PROVE n * B <= total <=> n <= q
  <2>1. n <= q => n * B <= q * B
    BY TimesMonotone
  <2>2. q + 1 <= n => (q + 1) * B <= n * B
    BY <1>3, TimesMonotone
  <2>3. n * B \in Nat
    BY TimesMonotone
  <2>4. n <= q \/ q + 1 <= n
    OBVIOUS
  <2>5. t \in Nat /\ t < B
    OBVIOUS
  <2> QED
    BY <1>2, <1>3, <2>1, <2>2, <2>3, <2>4, <2>5
<1>5. 1 * B = B
  OBVIOUS
<1>6. q >= 1
  BY <1>4, <1>5
<1> QED
  BY <1>1, <1>4, <1>6

LEMMA ScreenSize ==
  /\ Columns \in Nat /\ Columns >= 1 /\ Lines \in Nat /\ Lines >= 1
  /\ \A n \in Nat : n * cell_w <= fb_w <=> n <= Columns
  /\ \A n \in Nat : n * cell_h <= fb_h <=> n <= Lines
  /\ cell_w \in Nat \ {0} /\ cell_h \in Nat \ {0} /\ fb_w \in Nat /\ fb_h \in Nat
<1>1. cell_w \in Nat \ {0} /\ cell_h \in Nat \ {0} /\ fb_w \in Nat /\ fb_h \in Nat
      /\ fb_w >= cell_w /\ fb_h >= cell_h
  BY ConsoleConstantsOK
<1> QED
  BY <1>1, Fit DEF Columns, Lines

-----------------------------------------------------------------------------
(* What the framebuffer shows. *)

Marks == Glyph \cup {Space}
Cells == [0 .. Lines - 1 -> [0 .. Columns - 1 -> Marks]]
Empty == [c \in 0 .. Columns - 1 |-> Space]

\* The framebuffer f shows the cells of t, and nothing beside them.
Paints(f, t) ==
  /\ \A y \in Y, x \in X : x >= Columns * cell_w \/ y >= Lines * cell_h => f[y][x] = Dark
  /\ \A r \in 0 .. Lines - 1, c \in 0 .. Columns - 1 :
       \A dy \in 0 .. cell_h - 1, dx \in 0 .. cell_w - 1 :
         f[r * cell_h + dy][c * cell_w + dx] = Dot(t[r][c], dx, dy)

\* The pixels of the cells are pixels of the framebuffer.
LEMMA CellPixels ==
  /\ \A r \in 0 .. Lines - 1, dy \in 0 .. cell_h - 1 :
       r * cell_h + dy \in Y /\ r * cell_h + dy < Lines * cell_h /\ r * cell_h \in Nat
  /\ \A c \in 0 .. Columns - 1, dx \in 0 .. cell_w - 1 :
       c * cell_w + dx \in X /\ c * cell_w + dx < Columns * cell_w /\ c * cell_w \in Nat
<1>1. ASSUME NEW B \in Nat \ {0}, NEW m \in Nat, NEW total \in Nat, m * B <= total,
             NEW r \in 0 .. m - 1, NEW d \in 0 .. B - 1
      PROVE  r * B + d \in 0 .. total - 1 /\ r * B + d < m * B /\ r * B \in Nat
  <2>1. (r + 1) * B <= m * B /\ r * B \in Nat /\ m * B \in Nat /\ (r + 1) * B = r * B + B
    BY TimesMonotone, TimesNext
  <2>2. d \in Nat /\ d < B
    OBVIOUS
  <2> QED
    BY <1>1, <2>1, <2>2
<1>2. Lines * cell_h <= fb_h /\ Columns * cell_w <= fb_w
  BY ScreenSize
<1> QED
  BY <1>1, <1>2, ScreenSize DEF X, Y

LEMMA DrawPixel ==
  ASSUME NEW f, NEW a \in Nat, NEW b \in Nat, NEW g, NEW y \in Y, NEW x \in X
  PROVE  draw_glyph(f, a, b, g)[y][x] =
           IF a <= x /\ x < a + cell_w /\ b <= y /\ y < b + cell_h
           THEN Dot(g, x - a, y - b) ELSE f[y][x]
BY DEF draw_glyph, fill_rect

\* Drawing a glyph changes the one cell.
LEMMA DrawPaints ==
  ASSUME NEW f, NEW t \in Cells, Paints(f, t), NEW g \in Marks,
         NEW r0 \in 0 .. Lines - 1, NEW c0 \in 0 .. Columns - 1
  PROVE  /\ [t EXCEPT ![r0][c0] = g] \in Cells
         /\ Paints(draw_glyph(f, c0 * cell_w, r0 * cell_h, g), [t EXCEPT ![r0][c0] = g])
<1> DEFINE u == [t EXCEPT ![r0][c0] = g]
           h == draw_glyph(f, c0 * cell_w, r0 * cell_h, g)
<1>1. u \in Cells
  BY DEF Cells
<1>2. \A r \in 0 .. Lines - 1, c \in 0 .. Columns - 1 : u[r][c] = IF r = r0 /\ c = c0 THEN g ELSE t[r][c]
  BY DEF Cells
<1>3. c0 * cell_w \in Nat /\ r0 * cell_h \in Nat
  BY ScreenSize, TimesMonotone
<1>4. ASSUME NEW y \in Y, NEW x \in X, x >= Columns * cell_w \/ y >= Lines * cell_h
      PROVE  h[y][x] = Dark
  <2>1. c0 * cell_w + cell_w <= Columns * cell_w /\ r0 * cell_h + cell_h <= Lines * cell_h
    <3>1. (c0 + 1) * cell_w <= Columns * cell_w /\ (r0 + 1) * cell_h <= Lines * cell_h
      BY ScreenSize, TimesMonotone
    <3>2. (c0 + 1) * cell_w = c0 * cell_w + cell_w /\ (r0 + 1) * cell_h = r0 * cell_h + cell_h
      BY ScreenSize, TimesNext
    <3> QED
      BY <3>1, <3>2
  <2>2. f[y][x] = Dark
    BY <1>4 DEF Paints
  <2>3. y \in Nat /\ x \in Nat
    BY ScreenSize DEF X, Y
  <2>4. Columns * cell_w \in Nat /\ Lines * cell_h \in Nat
    BY ScreenSize, TimesMonotone
  <2>5. ~(x < c0 * cell_w + cell_w /\ y < r0 * cell_h + cell_h)
    BY <1>3, <1>4, <2>1, <2>3, <2>4, ScreenSize
  <2> QED
    BY <1>3, <2>2, <2>5, DrawPixel
<1>5. ASSUME NEW r \in 0 .. Lines - 1, NEW c \in 0 .. Columns - 1,
             NEW dy \in 0 .. cell_h - 1, NEW dx \in 0 .. cell_w - 1
      PROVE  h[r * cell_h + dy][c * cell_w + dx] = Dot(u[r][c], dx, dy)
  <2>1. PICK y \in Y : y = r * cell_h + dy
    BY CellPixels
  <2>2. PICK x \in X : x = c * cell_w + dx
    BY CellPixels
  <2>3. r0 * cell_h <= y /\ y < r0 * cell_h + cell_h <=> r = r0
    BY <2>1, ScreenSize, InCell
  <2>4. c0 * cell_w <= x /\ x < c0 * cell_w + cell_w <=> c = c0
    BY <2>2, ScreenSize, InCell
  <2>5. f[y][x] = Dot(t[r][c], dx, dy)
    BY <2>1, <2>2 DEF Paints
  <2>6. r = r0 /\ c = c0 => y - r0 * cell_h = dy /\ x - c0 * cell_w = dx
    BY <1>3, <2>1, <2>2
  <2>7. h[y][x] = IF r = r0 /\ c = c0 THEN Dot(g, x - c0 * cell_w, y - r0 * cell_h) ELSE f[y][x]
    <3>1. PICK a \in Nat, b \in Nat : a = c0 * cell_w /\ b = r0 * cell_h
      BY <1>3
    <3>2. draw_glyph(f, a, b, g)[y][x] = IF a <= x /\ x < a + cell_w /\ b <= y /\ y < b + cell_h
                                         THEN Dot(g, x - a, y - b) ELSE f[y][x]
      <4>1. a \in Nat /\ b \in Nat /\ y \in Y /\ x \in X
        BY <2>1, <2>2, <3>1
      <4> QED
        BY <4>1, Zenon DEF draw_glyph, fill_rect
    <3>3. (a <= x /\ x < a + cell_w /\ b <= y /\ y < b + cell_h) <=> r = r0 /\ c = c0
      BY <2>3, <2>4, <3>1
    <3> QED
      BY <3>1, <3>2, <3>3, Zenon
  <2>8. h[y][x] = Dot(u[r][c], dx, dy)
    BY <1>2, <2>5, <2>6, <2>7
  <2> QED
    BY <2>1, <2>2, <2>8
<1> QED
  BY <1>1, <1>4, <1>5 DEF Paints

LEMMA ScrollPixel ==
  ASSUME NEW f, NEW y \in Y, NEW x \in X
  PROVE  Scrolled(f)[y][x] = IF y >= fb_h - cell_h THEN Dark ELSE f[y + cell_h][x]
<1>1. y \in Nat /\ y < fb_h /\ x \in Nat /\ x < fb_w /\ fb_h - cell_h \in Nat
  BY SizeTypes, ScreenSize DEF X, Y
<1> QED
  BY <1>1, SizeTypes DEF Scrolled, fill_rect

\* Scrolling moves the rows up, and the strip below the last row with them.
LEMMA ScrollPaints ==
  ASSUME NEW f, NEW t \in Cells, Paints(f, t)
  PROVE  LET u == [r \in 0 .. Lines - 1 |-> IF r < Lines - 1 THEN t[r + 1] ELSE Empty]
         IN  u \in Cells /\ Paints(Scrolled(f), u)
<1> DEFINE u == [r \in 0 .. Lines - 1 |-> IF r < Lines - 1 THEN t[r + 1] ELSE Empty]
           h == Scrolled(f)
<1>1. u \in Cells
  BY ScreenSize DEF Cells, Empty, Marks
<1>2. /\ Lines * cell_h \in Nat /\ Columns * cell_w \in Nat /\ Lines * cell_h <= fb_h
      /\ (Lines - 1) * cell_h \in Nat /\ Lines * cell_h = (Lines - 1) * cell_h + cell_h
      /\ fb_h < Lines * cell_h + cell_h
  <2>1. Lines - 1 \in Nat /\ (Lines - 1) + 1 = Lines /\ Lines + 1 \in Nat
    BY ScreenSize
  <2>2. ((Lines - 1) + 1) * cell_h = (Lines - 1) * cell_h + cell_h
        /\ (Lines + 1) * cell_h = Lines * cell_h + cell_h
    BY <2>1, ScreenSize, TimesNext
  <2>3. Lines * cell_h <= fb_h /\ ~((Lines + 1) * cell_h <= fb_h)
    BY <2>1, ScreenSize
  <2>4. Lines * cell_h \in Nat /\ Columns * cell_w \in Nat /\ (Lines - 1) * cell_h \in Nat
    BY <2>1, ScreenSize, TimesMonotone
  <2> QED
    BY <2>1, <2>2, <2>3, <2>4, ScreenSize
<1>3. ASSUME NEW y \in Y, y < fb_h - cell_h
      PROVE  y + cell_h \in Y
  BY <1>3, ScreenSize DEF Y
<1>4. ASSUME NEW y \in Y, NEW x \in X, x >= Columns * cell_w \/ y >= Lines * cell_h
      PROVE  h[y][x] = Dark
  <2>1. CASE y >= fb_h - cell_h
    BY <2>1, ScrollPixel
  <2>2. CASE y < fb_h - cell_h
    <3>1. y + cell_h \in Y /\ (y >= Lines * cell_h => y + cell_h >= Lines * cell_h)
      BY <1>2, <1>3, <2>2, ScreenSize DEF Y
    <3>2. f[y + cell_h][x] = Dark
      BY <1>4, <3>1 DEF Paints
    <3>3. ~(y >= fb_h - cell_h)
      BY <2>2, ScreenSize DEF Y
    <3> QED
      BY <3>2, <3>3, ScrollPixel
  <2> QED
    BY <2>1, <2>2, ScreenSize DEF Y
<1>5. ASSUME NEW r \in 0 .. Lines - 1, NEW c \in 0 .. Columns - 1,
             NEW dy \in 0 .. cell_h - 1, NEW dx \in 0 .. cell_w - 1
      PROVE  h[r * cell_h + dy][c * cell_w + dx] = Dot(u[r][c], dx, dy)
  <2>1. PICK y \in Y : y = r * cell_h + dy
    BY CellPixels
  <2>2. PICK x \in X : x = c * cell_w + dx /\ x < Columns * cell_w
    BY CellPixels
  <2>3. y \in Nat /\ r * cell_h \in Nat /\ dy \in Nat /\ dy < cell_h
    BY CellPixels, ScreenSize DEF Y
  <2>4. CASE r < Lines - 1
    <3>1. r + 1 \in 0 .. Lines - 1 /\ (r + 1) * cell_h = r * cell_h + cell_h
      BY <2>4, ScreenSize, TimesNext
    <3>2. y + cell_h = (r + 1) * cell_h + dy /\ (r + 1) * cell_h + dy \in Y
      <4>1. \A q \in 0 .. Lines - 1 : q * cell_h + dy \in Y
        BY CellPixels
      <4>2. (r + 1) * cell_h + dy \in Y
        BY <3>1, <4>1
      <4> QED
        BY <2>1, <2>3, <3>1, <4>2, ScreenSize
    <3>3. h[y][x] = IF y >= fb_h - cell_h THEN Dark ELSE f[y + cell_h][x]
      BY ScrollPixel
    <3>4. f[y + cell_h][x] = Dot(t[r + 1][c], dx, dy) 
      BY <2>2, <3>1, <3>2 DEF Paints
    <3>5. ~(y >= fb_h - cell_h)
      BY <2>3, <3>2, ScreenSize DEF Y
    <3> QED
      BY <2>1, <2>2, <2>4, <3>3, <3>4, <3>5
  <2>5. CASE r = Lines - 1
    <3>1. u[r][c] = Space /\ Dot(Space, dx, dy) = Dark
      BY <2>5, ScreenSize DEF Empty, Dot
    <3>2. r * cell_h = (Lines - 1) * cell_h
      BY <2>5
    <3>3. CASE y >= fb_h - cell_h
      BY <2>1, <2>2, <3>1, <3>3, ScrollPixel
    <3>4. CASE ~(y >= fb_h - cell_h)
      <4>1. y + cell_h \in Y /\ y + cell_h >= Lines * cell_h
        BY <1>2, <1>3, <2>1, <2>3, <3>2, <3>4, ScreenSize
      <4>2. f[y + cell_h][x] = Dark
        BY <4>1 DEF Paints
      <4> QED
        BY <2>1, <2>2, <3>1, <3>4, <4>2, ScrollPixel
    <3> QED
      BY <3>3, <3>4
  <2> QED
    BY <2>4, <2>5, ScreenSize
<1> QED
  BY <1>1, <1>4, <1>5 DEF Paints

LEMMA BlankPaints ==
  LET t == [r \in 0 .. Lines - 1 |-> Empty]
  IN  t \in Cells /\ Paints([r \in Y |-> [p \in X |-> Dark]], t)
<1> DEFINE t == [r \in 0 .. Lines - 1 |-> Empty]
           f == [r \in Y |-> [p \in X |-> Dark]]
<1>1. t \in Cells
  BY DEF Cells, Empty, Marks
<1>2. \A r \in 0 .. Lines - 1, c \in 0 .. Columns - 1 : t[r][c] = Space
  BY DEF Empty
<1>3. \A dx, dy : Dot(Space, dx, dy) = Dark
  BY DEF Dot
<1>4. ASSUME NEW r \in 0 .. Lines - 1, NEW c \in 0 .. Columns - 1,
             NEW dy \in 0 .. cell_h - 1, NEW dx \in 0 .. cell_w - 1
      PROVE  f[r * cell_h + dy][c * cell_w + dx] = Dot(t[r][c], dx, dy)
  BY <1>2, <1>3, CellPixels
<1> QED
  BY <1>1, <1>4 DEF Paints

\* Two glyphs look different: the pixel at (1, 1) has their name.
LEMMA DotUnique ==
  ASSUME NEW g \in Marks, NEW k \in Marks, \A dx \in 0 .. cell_w - 1, dy \in 0 .. cell_h - 1 : Dot(g, dx, dy) = Dot(k, dx, dy)
  PROVE  g = k
<1>1. 1 \in 0 .. cell_w - 1 /\ 1 \in 0 .. cell_h - 1 /\ 1 \in 1 .. GlyphW /\ 1 \in 1 .. GlyphH
  BY ConsoleConstantsOK
<1>2. Dot(g, 1, 1) = Dot(k, 1, 1)
  BY <1>1
<1>3. \A m : Dot(m, 1, 1) = IF m # Space THEN <<m, 1, 1>> ELSE <<"dark">>
  BY <1>1 DEF Dot, Lit, Dark
<1>4. \A m : <<m, 1, 1>> # <<"dark">>
  <2> SUFFICES ASSUME NEW m, <<m, 1, 1>> = <<"dark">> PROVE FALSE
    OBVIOUS
  <2>1. Len(<<m, 1, 1>>) = 3 /\ Len(<<"dark">>) = 1
    OBVIOUS
  <2> QED
    BY <2>1
<1>5. \A m, n : <<m, 1, 1>> = <<n, 1, 1>> => m = n
  OBVIOUS
<1> QED
  BY <1>2, <1>3, <1>4, <1>5

\* What is painted is what is shown.
LEMMA PaintedShows ==
  ASSUME NEW t \in Cells, Paints(fb, t)
  PROVE  \A r \in 0 .. Lines - 1, c \in 0 .. Columns - 1 : Shown(r, c) = t[r][c]
<1> TAKE r \in 0 .. Lines - 1, c \in 0 .. Columns - 1
<1>1. StripsDark
  BY DEF Paints, StripsDark
<1>2. t[r][c] \in Marks /\ CellShows(c, r, t[r][c])
  BY DEF Paints, CellShows, Cells
<1>3. ASSUME NEW g \in Marks, CellShows(c, r, g)
      PROVE  g = t[r][c]
  <2>1. \A dx \in 0 .. cell_w - 1, dy \in 0 .. cell_h - 1 : Dot(g, dx, dy) = Dot(t[r][c], dx, dy)
    BY <1>2, <1>3 DEF CellShows
  <2> QED
    BY <1>2, <2>1, DotUnique
<1>4. (CHOOSE g \in Glyph \cup {Space} : CellShows(c, r, g)) = t[r][c]
  BY <1>2, <1>3 DEF Marks
<1> QED
  BY <1>1, <1>2, <1>4 DEF Shown, Marks

-----------------------------------------------------------------------------
(* A character on the screen of cells. *)

\* The text of t goes on at the start of the next row, as the screen u.
Broken(t, u) ==
  /\ cur_x' = 0
  /\ IF cur_y < Lines - 1 THEN u = t /\ cur_y' = cur_y + 1
     ELSE /\ u = [r \in 0 .. Lines - 1 |-> IF r < Lines - 1 THEN t[r + 1] ELSE Empty]
          /\ cur_y' = cur_y

\* The character c turns the screen t into u.
Typed(c, t, u) ==
  LET v == [t EXCEPT ![cur_y][cur_x] = glyph_for(c)] IN
  \/ c = CR /\ u = t /\ UNCHANGED <<cur_x, cur_y>>
  \/ c = NL /\ Broken(t, u)
  \/ c = BS /\ cur_x = 0 /\ u = t /\ UNCHANGED <<cur_x, cur_y>>
  \/ c = BS /\ cur_x > 0 /\ u = [t EXCEPT ![cur_y][cur_x - 1] = Space]
     /\ cur_x' = cur_x - 1 /\ UNCHANGED cur_y
  \/ c \in Plain /\ cur_x < Columns - 1 /\ u = v /\ cur_x' = cur_x + 1 /\ UNCHANGED cur_y
  \/ c \in Plain /\ cur_x = Columns - 1 /\ Broken(v, u)

LEMMA CursorRange ==
  ASSUME CursorInv
  PROVE  /\ cur_x \in 0 .. Columns - 1 /\ cur_y \in 0 .. Lines - 1
         /\ (cur_x + 2) * cell_w > fb_w <=> cur_x = Columns - 1
         /\ (cur_y + 2) * cell_h > fb_h <=> cur_y = Lines - 1
<1>1. PICK a \in Nat, b \in Nat : a = cur_x /\ b = cur_y
  BY DEF CursorInv
<1>2. (a + 1) * cell_w <= fb_w /\ (b + 1) * cell_h <= fb_h
  BY <1>1 DEF CursorInv, CursorInside
<1>3. a + 1 <= Columns /\ b + 1 <= Lines
  BY <1>1, <1>2, ScreenSize
<1>4. /\ (a + 2) * cell_w <= fb_w <=> a + 2 <= Columns
      /\ (b + 2) * cell_h <= fb_h <=> b + 2 <= Lines
  BY <1>1, ScreenSize
<1>5. (a + 2) * cell_w \in Nat /\ (b + 2) * cell_h \in Nat
  BY <1>1, ScreenSize, TimesMonotone
<1>6. /\ (a + 2) * cell_w > fb_w <=> ~((a + 2) * cell_w <= fb_w)
      /\ (b + 2) * cell_h > fb_h <=> ~((b + 2) * cell_h <= fb_h)
  BY <1>5, ScreenSize
<1>7. (a + 2) * cell_w > fb_w <=> a = Columns - 1
  BY <1>1, <1>3, <1>4, <1>6, ScreenSize
<1>8. (b + 2) * cell_h > fb_h <=> b = Lines - 1
  BY <1>1, <1>3, <1>4, <1>6, ScreenSize
<1> QED
  BY <1>1, <1>3, <1>7, <1>8, ScreenSize

LEMMA GlyphMarks ==
  /\ \A c \in Plain : glyph_for(c) \in Marks
  /\ Space \in Marks
BY DEF Marks, Glyph

LEMMA NextRowPaints ==
  ASSUME CursorInv, NEW f, NEW t \in Cells, Paints(f, t), NextRow(f)
  PROVE  \E u \in Cells : Paints(fb', u) /\ Broken(t, u)
<1>1. CASE cur_y = Lines - 1
  <2> DEFINE u == [r \in 0 .. Lines - 1 |-> IF r < Lines - 1 THEN t[r + 1] ELSE Empty]
  <2>1. fb' = Scrolled(f) /\ cur_y' = cur_y /\ cur_x' = 0
    BY <1>1, CursorRange DEF NextRow
  <2>2. u \in Cells /\ Paints(fb', u)
    BY <2>1, ScrollPaints
  <2>3. ~(cur_y < Lines - 1)
    BY <1>1, ScreenSize
  <2> QED
    BY <2>1, <2>2, <2>3 DEF Broken
<1>2. CASE cur_y # Lines - 1
  <2>1. fb' = f /\ cur_y' = cur_y + 1 /\ cur_x' = 0
    BY <1>2, CursorRange DEF NextRow
  <2>2. cur_y < Lines - 1
    BY <1>2, CursorRange, ScreenSize
  <2> QED
    BY <2>1, <2>2 DEF Broken
<1> QED
  BY <1>1, <1>2

LEMMA PutPaints ==
  ASSUME CursorInv, NEW t \in Cells, Paints(fb, t), NEW c, fb_putc(c)
  PROVE  \E u \in Cells : Paints(fb', u) /\ Typed(c, t, u)
<1>1. CASE c = CR /\ UNCHANGED fbvars
  BY <1>1 DEF Typed, fbvars
<1>2. CASE c = NL /\ NextRow(fb)
  <2>1. PICK u \in Cells : Paints(fb', u) /\ Broken(t, u)
    BY <1>2, NextRowPaints
  <2> QED
    BY <1>2, <2>1 DEF Typed
<1>3. CASE c = BS /\ PutBackspace
  <2>1. CASE cur_x = 0
    BY <1>3, <2>1 DEF Typed, PutBackspace, fbvars
  <2>2. CASE cur_x # 0
    <3>1. PICK x \in 0 .. Columns - 1, y \in 0 .. Lines - 1 : x = cur_x - 1 /\ y = cur_y
      BY <2>2, CursorRange, ScreenSize
    <3>2. fb' = draw_glyph(fb, x * cell_w, y * cell_h, Space) /\ cur_x' = cur_x - 1 /\ cur_y' = cur_y
      BY <1>3, <2>2, <3>1 DEF PutBackspace
    <3>3. PICK u \in Cells : u = [t EXCEPT ![y][x] = Space] /\ Paints(fb', u)
      BY <3>1, <3>2, DrawPaints, GlyphMarks
    <3>4. cur_x > 0
      BY <2>2, CursorRange
    <3> QED
      BY <1>3, <3>1, <3>2, <3>3, <3>4 DEF Typed
  <2> QED
    BY <2>1, <2>2
<1>4. CASE c \in Plain /\ PutPlain(c)
  <2>1. PICK x \in 0 .. Columns - 1, y \in 0 .. Lines - 1 : x = cur_x /\ y = cur_y
    BY CursorRange
  <2>2. PICK f : f = draw_glyph(fb, x * cell_w, y * cell_h, glyph_for(c))
    OBVIOUS
  <2>3. PICK v \in Cells : v = [t EXCEPT ![y][x] = glyph_for(c)] /\ Paints(f, v)
    BY <1>4, <2>1, <2>2, DrawPaints, GlyphMarks
  <2>4. CASE cur_x = Columns - 1
    <3>1. NextRow(f)
      BY <1>4, <2>1, <2>2, <2>4, CursorRange DEF PutPlain
    <3>2. PICK u \in Cells : Paints(fb', u) /\ Broken(v, u)
      BY <2>3, <3>1, NextRowPaints
    <3> QED
      BY <1>4, <2>1, <2>3, <2>4, <3>2 DEF Typed
  <2>5. CASE cur_x # Columns - 1
    <3>1. fb' = f /\ cur_x' = cur_x + 1 /\ cur_y' = cur_y
      BY <1>4, <2>1, <2>2, <2>5, CursorRange DEF PutPlain
    <3>2. cur_x < Columns - 1
      BY <2>5, CursorRange, ScreenSize
    <3> QED
      BY <1>4, <2>1, <2>3, <3>1, <3>2 DEF Typed
  <2> QED
    BY <2>4, <2>5
<1> QED
  BY <1>1, <1>2, <1>3, <1>4 DEF fb_putc

-----------------------------------------------------------------------------
(* The type invariant of the editor. *)

Pixels == {Dark} \cup {Lit(g, x, y) : g \in Glyph, x \in 1 .. GlyphW, y \in 1 .. GlyphH}
Frames == [Y -> [X -> Pixels]]
Chars  == Plain \cup {NL, CR, BS}

LEMMA TextConcat ==
  ASSUME NEW s \in Seq(Chars), NEW t \in Seq(Chars)
  PROVE  /\ s \o t \in Seq(Chars) /\ Len(s) \in Nat /\ Len(t) \in Nat
         /\ Len(s \o t) = Len(s) + Len(t)
         /\ \A i \in 1 .. Len(s) : (s \o t)[i] = s[i]
         /\ \A i \in 1 .. Len(t) : (s \o t)[Len(s) + i] = t[i]
<1>1. /\ s \o t \in Seq(Chars) /\ Len(s \o t) = Len(s) + Len(t)
      /\ \A i \in 1 .. Len(s) + Len(t) : (s \o t)[i] = IF i <= Len(s) THEN s[i] ELSE t[i - Len(s)]
  BY ConcatProperties, Zenon
<1>2. Len(s) \in Nat /\ Len(t) \in Nat
  OBVIOUS
<1> HIDE DEF Chars
<1> QED
  BY <1>1, <1>2

LEMMA PromptTypes ==
  /\ Banner \in Seq(Chars) /\ Prompt \in Seq(Chars) /\ <<NL>> \in Seq(Chars)
  /\ \A out \in Output : out \in Seq(Chars)
<1>1. Plain \subseteq Chars /\ NL \in Chars
  BY DEF Chars
<1>2. \A s \in Seq(Plain) : s \in Seq(Chars)
  BY <1>1, SeqMonotonic, Zenon
<1>3. Banner \in Seq(Chars) /\ \A out \in Output : out \in Seq(Chars)
  BY LineEditorConstantsOK DEF Chars
<1> QED
  BY <1>1, <1>2, <1>3, LineEditorConstantsOK

LEMMA DrawFrame ==
  ASSUME NEW f \in Frames, NEW a, NEW b, NEW g \in Marks
  PROVE  draw_glyph(f, a, b, g) \in Frames
<1>1. \A dx, dy : Dot(g, dx, dy) \in Pixels
  BY DEF Dot, Pixels, Marks
<1>2. \A y \in Y, x \in X : f[y][x] \in Pixels /\ Dark \in Pixels
  BY DEF Frames, Pixels
<1> HIDE DEF Pixels
<1> QED
  BY <1>1, <1>2 DEF draw_glyph, fill_rect, Frames

LEMMA ScrollFrame ==
  ASSUME NEW f \in Frames
  PROVE  Scrolled(f) \in Frames
<1>1. Dark \in Pixels
  BY DEF Pixels
<1>2. \A y \in Y : y < fb_h - cell_h => y + cell_h \in Y
  BY ScreenSize DEF Y
<1>3. \A y \in Y, x \in X : f[y][x] \in Pixels
  BY DEF Frames
<1> DEFINE moved == [r \in Y |-> IF r < fb_h - cell_h THEN f[r + cell_h] ELSE f[r]]
<1>4. \A y \in Y, x \in X : moved[y][x] \in Pixels
  BY <1>2, <1>3
<1> HIDE DEF moved, Pixels
<1>5. \A a, b, w, h : fill_rect(moved, a, b, w, h) \in Frames
  BY <1>1, <1>4 DEF fill_rect, Frames
<1> QED
  BY <1>5 DEF Scrolled, moved

LEMMA NextRowFrame ==
  ASSUME NEW f \in Frames, NextRow(f)
  PROVE  fb' \in Frames
BY ScrollFrame DEF NextRow

LEMMA PutFrame ==
  ASSUME fb \in Frames, NEW c, fb_putc(c)
  PROVE  fb' \in Frames
<1>1. CASE UNCHANGED fbvars
  BY <1>1 DEF fbvars
<1>2. CASE NextRow(fb)
  BY <1>2, NextRowFrame
<1>3. CASE PutBackspace
  BY <1>3, DrawFrame, GlyphMarks DEF PutBackspace, fbvars
<1>4. CASE c \in Plain /\ PutPlain(c)
  <2>1. PICK f \in Frames : f = draw_glyph(fb, cur_x * cell_w, cur_y * cell_h, glyph_for(c))
    BY <1>4, DrawFrame, GlyphMarks
  <2> QED
    BY <1>4, <2>1, NextRowFrame DEF PutPlain
<1> QED
  BY <1>1, <1>2, <1>3, <1>4 DEF fb_putc

TextTypes ==
  /\ buf \in Seq(Plain) /\ Len(buf) < BufSize
  /\ todo \in Seq(Chars) /\ wrapped \in BOOLEAN

TypeInv == fb \in Frames /\ CursorInv /\ TextTypes

LEMMA EmitTypes ==
  ASSUME TypeInv, Emit
  PROVE  TypeInv'
<1>1. PICK c \in Chars : c = Head(todo)
  BY DEF Emit, TypeInv, TextTypes
<1>2. fb_putc(c) /\ todo' = Tail(todo) /\ buf' = buf /\ todo # <<>> /\ wrapped' \in BOOLEAN
  BY <1>1 DEF Emit
<1>3. fb' \in Frames /\ CursorInv'
  BY <1>2, PutFrame, PutKeeps DEF TypeInv
<1>4. todo' \in Seq(Chars)
  BY <1>2 DEF TypeInv, TextTypes
<1> QED
  BY <1>2, <1>3, <1>4 DEF TypeInv, TextTypes

LEMMA KeyTypes ==
  ASSUME TypeInv, NEW ch \in Key, Backspace(ch) \/ Enter(ch) \/ Insert(ch)
  PROVE  TypeInv'
<1>1. UNCHANGED <<fb, cur_x, cur_y, wrapped>> /\ todo = <<>>
  BY DEF Backspace, Enter, Insert, Waiting, fbvars
<1>2. buf' \in Seq(Plain) /\ Len(buf') < BufSize
  <2>1. CASE Backspace(ch)
    <3>1. CASE buf = <<>>
      BY <2>1, <3>1 DEF Backspace, TypeInv, TextTypes
    <3>2. CASE buf # <<>>
      <4>1. buf' = SubSeq(buf, 1, Len(buf) - 1) /\ buf \in Seq(Plain) /\ Len(buf) \in Nat /\ Len(buf) >= 1
        BY <2>1, <3>2 DEF Backspace, TypeInv, TextTypes
      <4>2. buf' \in Seq(Plain) /\ Len(buf') = Len(buf) - 1
        <5>1. PICK n \in Int : n = Len(buf) - 1 /\ n >= 0
          BY <4>1
        <5>2. \A i \in 1 .. n : buf[i] \in Plain
          BY <4>1, <5>1
        <5>3. SubSeq(buf, 1, n) \in Seq(Plain) /\ Len(SubSeq(buf, 1, n)) = IF 1 <= n THEN n - 1 + 1 ELSE 0
          BY <5>2, SubSeqProperties
        <5> QED
          BY <4>1, <5>1, <5>3
      <4> QED
        BY <4>1, <4>2, LineEditorConstantsOK DEF TypeInv, TextTypes
    <3> QED
      BY <3>1, <3>2
  <2>2. CASE Enter(ch)
    BY <2>2, LineEditorConstantsOK DEF Enter
  <2>3. CASE Insert(ch)
    BY <2>3, LineEditorConstantsOK DEF Insert, TypeInv, TextTypes
  <2> QED
    BY <2>1, <2>2, <2>3
<1>3. todo' \in Seq(Chars)
  <2>1. CASE Backspace(ch)
    <3>1. todo' = todo \/ todo' = <<BS>>
      BY <2>1 DEF Backspace
    <3>2. BS \in Chars
      BY DEF Chars
    <3> QED
      BY <3>1, <3>2 DEF TypeInv, TextTypes
  <2>2. CASE Enter(ch)
    <3>1. PICK out \in Output : todo' = <<NL>> \o out \o <<NL>> \o Prompt
      BY <2>2 DEF Enter
    <3>2. PICK s \in Seq(Chars) : s = <<NL>> \o out
      BY <3>1, PromptTypes, TextConcat
    <3>3. s \o <<NL>> \in Seq(Chars)
      BY <3>2, PromptTypes, TextConcat
    <3>4. (s \o <<NL>>) \o Prompt \in Seq(Chars)
      BY <3>3, PromptTypes, TextConcat
    <3>5. (s \o <<NL>>) \o Prompt = <<NL>> \o out \o <<NL>> \o Prompt
      BY <3>2
    <3> QED
      BY <3>1, <3>4, <3>5, Zenon
  <2>3. CASE Insert(ch)
    BY <2>3 DEF Insert, Chars
  <2> QED
    BY <2>1, <2>2, <2>3
<1> QED
  BY <1>1, <1>2, <1>3 DEF TypeInv, TextTypes, CursorInv, CursorInside

LEMMA InitTypes == Init => TypeInv
<1> SUFFICES ASSUME Init PROVE TypeInv
  OBVIOUS
<1>1. fb \in Frames
  BY DEF Init, ConsoleInit, Frames, Pixels
<1>2. CursorInv
  BY SizeTypes DEF Init, ConsoleInit, CursorInv, CursorInside
<1>3. Banner \o Prompt \in Seq(Chars)
  BY PromptTypes, TextConcat
<1>4. /\ buf = <<>> /\ <<>> \in Seq(Plain) /\ Len(<<>>) < BufSize
      /\ todo \in Seq(Chars) /\ wrapped \in BOOLEAN
  <2>1. buf = <<>> /\ todo \in Seq(Chars) /\ wrapped \in BOOLEAN
    BY <1>3 DEF Init
  <2>2. <<>> \in Seq(Plain) /\ Len(<<>>) = 0
    BY EmptySeq
  <2> QED
    BY <2>1, <2>2, LineEditorConstantsOK
<1>5. TextTypes
  BY <1>4 DEF TextTypes
<1> QED
  BY <1>1, <1>2, <1>5 DEF TypeInv

LEMMA NextTypes == TypeInv /\ [Next]_vars => TypeInv'
<1> SUFFICES ASSUME TypeInv, [Next]_vars PROVE TypeInv'
  OBVIOUS
<1>1. CASE UNCHANGED vars
  BY <1>1 DEF TypeInv, TextTypes, CursorInv, CursorInside, vars, fbvars, lvars
<1> QED
  BY <1>1, EmitTypes, KeyTypes DEF Next

LEMMA TypeInvariance == Spec => []TypeInv
BY InitTypes, NextTypes, PTL DEF Spec

\* The line buffer never takes more than its bytes less the terminating 0
\* (kernel.c:146), and what is on the screen are glyphs and background only,
\* for every screen, buffer and output of a command.
THEOREM EditorTypes == Spec => []TypeOK
<1>1. TypeInv => TypeOK
  BY DEF TypeInv, TextTypes, CursorInv, TypeOK, Frames, Pixels, Chars
<1> QED
  BY <1>1, TypeInvariance, PTL

-----------------------------------------------------------------------------
(* The line under the cursor. *)

text == Prompt \o buf
Mark(c) == glyph_for(text[c + 1])

\* Rows below the cursor are empty.
Below(t) == \A r \in 0 .. Lines - 1 : r > cur_y => t[r] = Empty

\* The cursor's row shows the first n characters of the line.
RowShows(t, n) ==
  \A c \in 0 .. Columns - 1 : t[cur_y][c] = IF c < n THEN Mark(c) ELSE Space

\* A new line and the prompt are the last of what is to be put on the console.
Coming ==
  /\ buf = <<>> /\ Len(todo) > Len(Prompt)
  /\ todo[Len(todo) - Len(Prompt)] = NL
  /\ \A i \in 1 .. Len(Prompt) : todo[Len(todo) - Len(Prompt) + i] = Prompt[i]

\* The end of the line itself is to be put there.
Growing(t) ==
  /\ Len(todo) <= Len(text)
  /\ \A i \in 1 .. Len(todo) : todo[i] = text[Len(text) - Len(todo) + i] /\ todo[i] \in Plain
  /\ ~wrapped => cur_x = Len(text) - Len(todo) /\ RowShows(t, cur_x)

\* The last character, no longer in the buffer, is to be erased.
Erasing(t) ==
  /\ todo = <<BS>>
  /\ ~wrapped => /\ cur_x = Len(text) + 1
                 /\ \A c \in 0 .. Columns - 1 :
                      c # Len(text) => t[cur_y][c] = IF c < Len(text) THEN Mark(c) ELSE Space

LineAt(t) == Coming \/ Growing(t) \/ Erasing(t)

EditInv == \E t \in Cells : Paints(fb, t) /\ Below(t) /\ LineAt(t)

LEMMA LineTypes ==
  ASSUME TypeInv
  PROVE  /\ text \in Seq(Plain) /\ Len(text) \in Nat /\ Len(text) = Len(Prompt) + Len(buf)
         /\ Len(Prompt) \in Nat /\ Len(buf) \in Nat /\ Len(todo) \in Nat
         /\ \A i \in 1 .. Len(text) : text[i] = IF i <= Len(Prompt) THEN Prompt[i] ELSE buf[i - Len(Prompt)]
         /\ todo = <<>> <=> Len(todo) = 0
         /\ Plain \cap {NL, CR, BS} = {} /\ NL # BS /\ NL # CR /\ CR # BS
<1>1. Prompt \in Seq(Plain) /\ buf \in Seq(Plain) /\ todo \in Seq(Chars)
  BY LineEditorConstantsOK DEF TypeInv, TextTypes
<1>2. /\ text \in Seq(Plain) /\ Len(text) = Len(Prompt) + Len(buf)
      /\ \A i \in 1 .. Len(Prompt) + Len(buf) :
           text[i] = IF i <= Len(Prompt) THEN Prompt[i] ELSE buf[i - Len(Prompt)]
  BY <1>1, ConcatProperties, Zenon DEF text
<1>3. Len(Prompt) \in Nat /\ Len(buf) \in Nat /\ Len(todo) \in Nat
  BY <1>1
<1>4. todo = <<>> <=> Len(todo) = 0
  BY <1>1, EmptySeq
<1>5. Plain \cap {NL, CR, BS} = {} /\ NL # BS /\ NL # CR /\ CR # BS
  BY ConsoleConstantsOK
<1> QED
  BY <1>2, <1>3, <1>4, <1>5

\* A row that begins is empty, and so are the rows below it.
LEMMA BrokenBelow ==
  ASSUME CursorInv, NEW t \in Cells, NEW u \in Cells, Below(t), Broken(t, u)
  PROVE  Below(u)' /\ cur_y' \in 0 .. Lines - 1 /\ u[cur_y'] = Empty
<1>1. cur_y \in 0 .. Lines - 1
  BY CursorRange
<1>2. CASE cur_y < Lines - 1
  BY <1>1, <1>2, ScreenSize DEF Broken, Below
<1>3. CASE ~(cur_y < Lines - 1)
  <2>1. cur_y' = Lines - 1 /\ Lines - 1 \in 0 .. Lines - 1 /\ ~(Lines - 1 < Lines - 1)
    <3>1. cur_y = Lines - 1
      BY <1>1, <1>3, ScreenSize
    <3> QED
      BY <1>3, <3>1, ScreenSize DEF Broken
  <2>2. u = [r \in 0 .. Lines - 1 |-> IF r < Lines - 1 THEN t[r + 1] ELSE Empty]
    BY <1>3 DEF Broken
  <2>3. u[Lines - 1] = Empty
    BY <2>1, <2>2
  <2>4. \A r \in 0 .. Lines - 1 : ~(r > Lines - 1)
    BY ScreenSize
  <2> QED
    BY <2>1, <2>3, <2>4 DEF Below
<1> QED
  BY <1>2, <1>3

LEMMA TypedBelow ==
  ASSUME CursorInv, NEW t \in Cells, NEW u \in Cells, Below(t), NEW c, Typed(c, t, u)
  PROVE  Below(u)'
<1>1. cur_y \in 0 .. Lines - 1 /\ cur_x \in 0 .. Columns - 1
  BY CursorRange
<1>2. ASSUME NEW x \in 0 .. Columns - 1, NEW g \in Marks
      PROVE  LET v == [t EXCEPT ![cur_y][x] = g]
             IN  v \in Cells /\ Below(v)
  <2> DEFINE v == [t EXCEPT ![cur_y][x] = g]
  <2>1. v \in Cells
    BY <1>1 DEF Cells
  <2>2. \A r \in 0 .. Lines - 1 : r # cur_y => v[r] = t[r]
    BY DEF Cells
  <2>3. \A r \in 0 .. Lines - 1 : r > cur_y => r # cur_y
    BY <1>1, ScreenSize
  <2>4. Below(v)
    BY <2>2, <2>3 DEF Below
  <2> QED
    BY <2>1, <2>4
<1>3. CASE u = t /\ cur_y' = cur_y
  BY <1>3 DEF Below
<1>4. CASE c = NL /\ Broken(t, u)
  BY <1>4, BrokenBelow
<1>5. CASE cur_x > 0 /\ u = [t EXCEPT ![cur_y][cur_x - 1] = Space] /\ cur_y' = cur_y
  <2>1. cur_x - 1 \in 0 .. Columns - 1
    BY <1>1, <1>5, ScreenSize
  <2>2. Below(u)
    BY <1>2, <1>5, <2>1, GlyphMarks
  <2> QED
    BY <1>5, <2>2 DEF Below
<1>6. CASE c \in Plain /\ u = [t EXCEPT ![cur_y][cur_x] = glyph_for(c)] /\ cur_y' = cur_y
  <2>1. Below(u)
    BY <1>1, <1>2, <1>6, GlyphMarks
  <2> QED
    BY <1>6, <2>1 DEF Below
<1>7. CASE c \in Plain /\ Broken([t EXCEPT ![cur_y][cur_x] = glyph_for(c)], u)
  <2>1. PICK v \in Cells : v = [t EXCEPT ![cur_y][cur_x] = glyph_for(c)] /\ Below(v)
    BY <1>1, <1>2, <1>7, GlyphMarks
  <2> QED
    BY <1>7, <2>1, BrokenBelow
<1> QED
  BY <1>3, <1>4, <1>5, <1>6, <1>7 DEF Typed

\* The new line before the prompt begins an empty line.
LEMMA EmitComing ==
  ASSUME TypeInv, Coming, Emit, NEW t \in Cells, NEW u \in Cells, Below(t), Typed(Head(todo), t, u)
  PROVE  LineAt(u)'
<1> DEFINE n == Len(todo)
           k == Len(Prompt)
<1>1. /\ n \in Nat /\ k \in Nat /\ n > k /\ buf = <<>> /\ buf' = <<>> /\ todo[n - k] = NL
      /\ \A i \in 1 .. k : todo[n - k + i] = Prompt[i]
  BY LineTypes DEF Coming, Emit
<1>2. Len(todo') = n - 1 /\ \A i \in 1 .. n - 1 : todo'[i] = todo[i + 1]
  BY HeadTailProperties DEF Emit, TypeInv, TextTypes
<1>3. Head(todo) = todo[1]
  BY DEF Emit, TypeInv, TextTypes
<1> HIDE DEF n, k
<1>4. CASE n > k + 1
  <2>1. n - 1 > k /\ n - 1 - k \in 1 .. n - 1 /\ (n - 1 - k) + 1 = n - k
    BY <1>1, <1>4
  <2>2. todo'[n - 1 - k] = NL
    BY <1>1, <1>2, <2>1
  <2>3. ASSUME NEW i \in 1 .. k PROVE todo'[n - 1 - k + i] = Prompt[i]
    <3>1. n - 1 - k + i \in 1 .. n - 1 /\ (n - 1 - k + i) + 1 = n - k + i
      BY <1>1, <2>1
    <3> QED
      BY <1>1, <1>2, <3>1
  <2> QED
    BY <1>1, <1>2, <2>1, <2>2, <2>3 DEF LineAt, Coming, k
<1>5. CASE n = k + 1
  <2>1. Head(todo) = NL /\ Len(todo') = k /\ \A i \in 1 .. k : todo'[i] = Prompt[i]
    <3>1. n - k = 1 /\ n - 1 = k
      BY <1>1, <1>5
    <3>2. \A i \in 1 .. k : todo'[i] = todo[i + 1] /\ todo[1 + i] = Prompt[i] /\ 1 + i = i + 1
      BY <1>1, <1>2, <3>1
    <3> QED
      BY <1>1, <1>2, <1>3, <3>1, <3>2
  <2>2. Broken(t, u) /\ wrapped' = FALSE
    BY <2>1, LineTypes DEF Typed, Emit
  <2>3. cur_x' = 0 /\ cur_y' \in 0 .. Lines - 1 /\ u[cur_y'] = Empty
    BY <2>2, BrokenBelow DEF Broken, TypeInv
  <2>4. text' = Prompt
    BY <1>1, ConcatEmptySeq, LineEditorConstantsOK DEF text
  <2>5. RowShows(u, 0)'
    BY <2>3, ScreenSize DEF RowShows, Empty
  <2>6. \A i \in 1 .. k : Prompt[i] \in Plain /\ k - k + i = i
    BY <1>1, LineEditorConstantsOK DEF k
  <2>7. Growing(u)'
    <3>1. Len(text') = k
      BY <2>4 DEF k
    <3>2. \A i \in 1 .. Len(todo') : todo'[i] = text'[Len(text') - Len(todo') + i] /\ todo'[i] \in Plain
      BY <1>1, <2>1, <2>4, <2>6, <3>1
    <3>3. cur_x' = Len(text') - Len(todo') /\ RowShows(u, cur_x)'
      BY <1>1, <2>1, <2>3, <2>5, <3>1
    <3> QED
      BY <1>1, <2>1, <3>1, <3>2, <3>3 DEF Growing
  <2> QED
    BY <2>7 DEF LineAt
<1> QED
  BY <1>1, <1>4, <1>5

\* Another character of the line, at the cursor.
LEMMA EmitGrowing ==
  ASSUME TypeInv, Emit, NEW t \in Cells, NEW u \in Cells, Growing(t), Typed(Head(todo), t, u)
  PROVE  Growing(u)'
<1> DEFINE n == Len(todo)
           k == Len(text)
<1>1. /\ n \in Nat /\ k \in Nat /\ n <= k /\ n >= 1 /\ text' = text
      /\ \A i \in 1 .. n : todo[i] = text[k - n + i] /\ todo[i] \in Plain
      /\ ~wrapped => cur_x = k - n /\ RowShows(t, cur_x)
  <2>1. n \in Nat /\ k \in Nat /\ todo # <<>> /\ (todo = <<>> <=> n = 0)
    BY LineTypes DEF Emit
  <2>2. text' = text
    BY DEF Emit, text
  <2> QED
    BY <2>1, <2>2 DEF Growing
<1>2. Len(todo') = n - 1 /\ \A i \in 1 .. n - 1 : todo'[i] = todo[i + 1]
  BY HeadTailProperties DEF Emit, TypeInv, TextTypes
<1>3. Head(todo) = todo[1]
  BY DEF Emit, TypeInv, TextTypes
<1> HIDE DEF n, k
<1>4. \A i \in 1 .. n - 1 : todo'[i] = text[k - (n - 1) + i] /\ todo'[i] \in Plain
  <2>1. \A i \in 1 .. n - 1 : i + 1 \in 1 .. n /\ k - n + (i + 1) = k - (n - 1) + i
    BY <1>1
  <2> QED
    BY <1>1, <1>2, <2>1
<1>5. Head(todo) \in Plain /\ Head(todo) = text[k - n + 1] /\ Head(todo) # NL
  BY <1>1, <1>3, LineTypes
<1>6. ASSUME ~wrapped'
      PROVE  cur_x' = k - (n - 1) /\ RowShows(u, cur_x)'
  <2>1. ~wrapped /\ cur_x' # 0
    BY <1>5, <1>6 DEF Emit
  <2>2. cur_x \in 0 .. Columns - 1 /\ cur_y \in 0 .. Lines - 1
    BY CursorRange DEF TypeInv
  <2>3. /\ cur_x' = cur_x + 1 /\ cur_y' = cur_y
        /\ u = [t EXCEPT ![cur_y][cur_x] = glyph_for(Head(todo))]
    BY <1>5, <2>1, LineTypes DEF Typed, Broken
  <2>4. cur_x = k - n /\ RowShows(t, cur_x) /\ cur_x + 1 = k - (n - 1)
    BY <1>1, <2>1
  <2>5. Mark(cur_x) = glyph_for(Head(todo)) /\ \A c : Mark(c)' = Mark(c)
    BY <1>1, <1>5, <2>4 DEF Mark
  <2>6. ASSUME NEW c \in 0 .. Columns - 1
        PROVE  u[cur_y][c] = IF c < cur_x + 1 THEN Mark(c) ELSE Space
    <3>1. u[cur_y][c] = IF c = cur_x THEN Mark(c) ELSE t[cur_y][c]
      BY <2>2, <2>3, <2>5 DEF Cells
    <3>2. t[cur_y][c] = IF c < cur_x THEN Mark(c) ELSE Space
      BY <2>4 DEF RowShows
    <3>3. c < cur_x + 1 <=> c < cur_x \/ c = cur_x
      BY <2>2, ScreenSize
    <3> QED
      BY <3>1, <3>2, <3>3
  <2>7. RowShows(u, cur_x)'
    BY <2>3, <2>5, <2>6 DEF RowShows
  <2> QED
    BY <2>3, <2>4, <2>7
<1>7. Len(text') = k /\ n - 1 <= k
  BY <1>1 DEF k
<1> QED
  BY <1>1, <1>2, <1>4, <1>6, <1>7 DEF Growing

LEMMA EmitErasing ==
  ASSUME TypeInv, Emit, NEW t \in Cells, NEW u \in Cells, Erasing(t), Typed(Head(todo), t, u)
  PROVE  Growing(u)'
<1>0. PICK k \in Nat : k = Len(text)
  BY LineTypes
<1>1. /\ todo = <<BS>> /\ text' = text /\ Head(todo) = BS
      /\ ~wrapped => /\ cur_x = k + 1
                     /\ \A c \in 0 .. Columns - 1 : c # k => t[cur_y][c] = IF c < k THEN Mark(c) ELSE Space
  BY <1>0 DEF Erasing, Emit, text
<1>2. Len(todo') = 0
  BY <1>1 DEF Emit
<1>3. Len(text') = k
  BY <1>0, <1>1
<1>4. ASSUME ~wrapped'
      PROVE  cur_x' = k /\ RowShows(u, cur_x)'
  <2>1. ~wrapped
    BY <1>1, <1>4, LineTypes DEF Emit
  <2>2. cur_x \in 0 .. Columns - 1 /\ cur_y \in 0 .. Lines - 1 /\ cur_x = k + 1 /\ cur_x > 0
    BY <1>1, <2>1, CursorRange DEF TypeInv
  <2>3. cur_x' = cur_x - 1 /\ cur_y' = cur_y /\ u = [t EXCEPT ![cur_y][cur_x - 1] = Space]
    BY <1>1, <2>2, LineTypes DEF Typed
  <2>4. cur_x - 1 = k /\ k \in 0 .. Columns - 1 /\ \A c : Mark(c)' = Mark(c)
    BY <1>1, <2>2, ScreenSize DEF Mark
  <2>5. ASSUME NEW c \in 0 .. Columns - 1
        PROVE  u[cur_y][c] = IF c < k THEN Mark(c) ELSE Space
    <3>1. u[cur_y][c] = IF c = k THEN Space ELSE t[cur_y][c]
      BY <2>2, <2>3, <2>4 DEF Cells
    <3>2. c = k => ~(c < k)
      BY <2>4
    <3> QED
      BY <1>1, <2>1, <3>1, <3>2
  <2>6. RowShows(u, cur_x)'
    BY <1>1, <2>2, <2>3, <2>4, <2>5 DEF RowShows
  <2> QED
    BY <2>2, <2>3, <2>4, <2>6
<1>5. k - 0 = k /\ 0 <= k /\ \A i \in 1 .. 0 : FALSE
  OBVIOUS
<1> QED
  BY <1>2, <1>3, <1>4, <1>5 DEF Growing

\* A key finds the line complete.
LEMMA WaitingLine ==
  ASSUME TypeInv, todo = <<>>, NEW t, LineAt(t)
  PROVE  ~wrapped => cur_x = Len(text) /\ RowShows(t, cur_x)
<1>1. Len(todo) = 0 /\ Len(Prompt) \in Nat /\ Len(text) \in Nat
  BY LineTypes
<1>2. ~Coming
  BY <1>1 DEF Coming
<1>3. ~Erasing(t)
  <2>1. Len(<<BS>>) = 1
    OBVIOUS
  <2> QED
    BY <1>1, <2>1 DEF Erasing
<1>4. Growing(t) /\ Len(text) - Len(todo) = Len(text)
  BY <1>1, <1>2, <1>3 DEF LineAt
<1> QED
  BY <1>4 DEF Growing

LEMMA BackspaceLine ==
  ASSUME TypeInv, NEW ch, Backspace(ch), NEW t \in Cells, LineAt(t)
  PROVE  LineAt(t)'
<1>1. UNCHANGED <<cur_x, cur_y, wrapped>> /\ todo = <<>>
  BY DEF Backspace, Waiting, fbvars
<1>2. CASE buf = <<>>
  <2>1. UNCHANGED <<buf, todo>>
    BY <1>2 DEF Backspace
  <2> QED
    BY <1>1, <2>1 DEF LineAt, Coming, Growing, Erasing, RowShows, Mark, text
<1>3. CASE buf # <<>>
  <2>1. PICK k \in Nat, n \in Nat : k = Len(text) /\ n = Len(buf)
    BY LineTypes
  <2>2. n >= 1 /\ Len(Prompt) \in Nat /\ k = Len(Prompt) + n
    <3>1. Len(buf) \in Nat \ {0}
      BY <1>3, EmptySeq DEF TypeInv, TextTypes
    <3> QED
      BY <2>1, <3>1, LineTypes
  <2>3. todo' = <<BS>> /\ buf' = SubSeq(buf, 1, n - 1)
    BY <1>3, <2>1 DEF Backspace
  <2>4. /\ buf' \in Seq(Plain) /\ Len(buf') = n - 1
        /\ \A i \in 1 .. n - 1 : buf'[i] = buf[i]
    <3>1. n - 1 \in Int /\ \A i \in 1 .. n - 1 : buf[i] \in Plain /\ 1 + i - 1 = i
      BY <2>1, <2>2 DEF TypeInv, TextTypes
    <3>2. PICK m \in Int : m = n - 1
      BY <2>2
    <3>3. \A i \in 1 .. m : buf[i] \in Plain
      BY <3>1, <3>2
    <3>4. /\ SubSeq(buf, 1, m) \in Seq(Plain)
          /\ Len(SubSeq(buf, 1, m)) = IF 1 <= m THEN m - 1 + 1 ELSE 0
          /\ \A i \in 1 .. m - 1 + 1 : SubSeq(buf, 1, m)[i] = buf[1 + i - 1]
      BY <3>3, SubSeqProperties
    <3>5. m - 1 + 1 = m /\ (1 <= m \/ m = 0)
      BY <2>2, <3>2
    <3> QED
      BY <2>3, <3>1, <3>2, <3>4, <3>5
  <2>5. /\ Len(text') = k - 1
        /\ \A i \in 1 .. k - 1 : text'[i] = text[i]
    <3>1. Prompt \in Seq(Plain)
      BY LineEditorConstantsOK
    <3>2. PICK b \in Seq(Plain) : b = buf'
      BY <2>4
    <3>3. /\ Len(Prompt \o b) = Len(Prompt) + Len(b)
          /\ \A i \in 1 .. Len(Prompt) + Len(b) :
               (Prompt \o b)[i] = IF i <= Len(Prompt) THEN Prompt[i] ELSE b[i - Len(Prompt)]
      BY <3>1, ConcatProperties, Zenon
    <3>4. text' = Prompt \o b
      BY <3>2 DEF text
    <3>5. Len(b) = n - 1 /\ \A i \in 1 .. n - 1 : b[i] = buf[i]
      BY <2>4, <3>2
    <3>6. Len(text') = k - 1 /\ k - 1 = Len(Prompt) + (n - 1)
      BY <2>2, <3>3, <3>4, <3>5
    <3>7. ASSUME NEW i \in 1 .. k - 1 PROVE text'[i] = text[i]
      <4>1. text[i] = IF i <= Len(Prompt) THEN Prompt[i] ELSE buf[i - Len(Prompt)]
        BY <2>1, <2>2, LineTypes
      <4>2. i > Len(Prompt) => i - Len(Prompt) \in 1 .. n - 1
        BY <2>2, <3>6
      <4>3. text'[i] = IF i <= Len(Prompt) THEN Prompt[i] ELSE b[i - Len(Prompt)]
        BY <3>3, <3>4, <3>5, <3>6
      <4> QED
        BY <2>2, <3>5, <4>1, <4>2, <4>3
    <3> QED
      BY <3>6, <3>7
  <2>6. ~wrapped => cur_x = k /\ RowShows(t, k)
    BY <1>1, <2>1, WaitingLine
  <2>7. ASSUME ~wrapped, NEW c \in 0 .. Columns - 1, c # k - 1
        PROVE  t[cur_y][c] = IF c < k - 1 THEN Mark(c)' ELSE Space
    <3>1. t[cur_y][c] = IF c < k THEN Mark(c) ELSE Space
      BY <2>6, <2>7 DEF RowShows
    <3>2. c < k <=> c < k - 1
      BY <2>2, <2>7
    <3>3. c < k - 1 => Mark(c)' = Mark(c)
      BY <2>5 DEF Mark
    <3> QED
      BY <3>1, <3>2, <3>3
  <2>8. Erasing(t)'
    BY <1>1, <2>2, <2>3, <2>5, <2>6, <2>7 DEF Erasing
  <2> QED
    BY <2>8 DEF LineAt
<1> QED
  BY <1>2, <1>3

LEMMA EnterLine ==
  ASSUME TypeInv, NEW ch, Enter(ch), NEW t
  PROVE  LineAt(t)'
<1>1. PICK out \in Output : todo' = <<NL>> \o out \o <<NL>> \o Prompt /\ buf' = <<>>
  BY DEF Enter
<1>2. PICK s \in Seq(Chars) : s = <<NL>> \o out
  BY <1>1, PromptTypes, TextConcat
<1>3. PICK z \in Seq(Chars) : z = s \o <<NL>> /\ Len(z) = Len(s) + 1 /\ z[Len(s) + 1] = NL
  <2>1. Len(<<NL>>) = 1 /\ <<NL>>[1] = NL /\ 1 \in 1 .. 1
    OBVIOUS
  <2>2. /\ s \o <<NL>> \in Seq(Chars) /\ Len(s \o <<NL>>) = Len(s) + Len(<<NL>>)
        /\ \A i \in 1 .. Len(<<NL>>) : (s \o <<NL>>)[Len(s) + i] = <<NL>>[i]
    BY <1>2, PromptTypes, TextConcat
  <2> QED
    BY <2>1, <2>2
<1>4. todo' = z \o Prompt
  <2>1. (s \o <<NL>>) \o Prompt = <<NL>> \o out \o <<NL>> \o Prompt
    BY <1>2
  <2> QED
    BY <1>1, <1>3, <2>1, Zenon
<1>5. /\ Len(z \o Prompt) = Len(z) + Len(Prompt) /\ Len(z) \in Nat /\ Len(Prompt) \in Nat
      /\ \A i \in 1 .. Len(z) : (z \o Prompt)[i] = z[i]
      /\ \A i \in 1 .. Len(Prompt) : (z \o Prompt)[Len(z) + i] = Prompt[i]
  BY <1>3, PromptTypes, TextConcat
<1>6. Len(s) \in Nat /\ Len(z) \in 1 .. Len(z)
  BY <1>2, <1>3
<1>7. Len(z) + Len(Prompt) - Len(Prompt) = Len(z) /\ Len(z) + Len(Prompt) > Len(Prompt)
  BY <1>5, <1>6
<1> QED
  BY <1>1, <1>3, <1>4, <1>5, <1>6, <1>7 DEF LineAt, Coming

LEMMA InsertLine ==
  ASSUME TypeInv, NEW ch, Insert(ch), NEW t \in Cells, LineAt(t)
  PROVE  LineAt(t)'
<1>1. /\ UNCHANGED <<cur_x, cur_y, wrapped>> /\ todo = <<>> /\ ch \in Plain
      /\ buf' = Append(buf, ch) /\ todo' = <<ch>>
  BY DEF Insert, Waiting, fbvars
<1>2. PICK k \in Nat, n \in Nat : k = Len(text) /\ n = Len(buf)
  BY LineTypes
<1>3. Len(Prompt) \in Nat /\ k = Len(Prompt) + n /\ buf \in Seq(Plain) /\ Prompt \in Seq(Plain)
  BY <1>2, LineTypes, LineEditorConstantsOK DEF TypeInv, TextTypes
<1>4. PICK b \in Seq(Plain) : b = buf' /\ Len(b) = n + 1 /\ b[n + 1] = ch /\ \A i \in 1 .. n : b[i] = buf[i]
  <2>1. \A q \in Seq(Plain) : /\ Append(q, ch) \in Seq(Plain) /\ Len(Append(q, ch)) = Len(q) + 1
                              /\ Append(q, ch)[Len(q) + 1] = ch
                              /\ \A i \in 1 .. Len(q) : Append(q, ch)[i] = q[i]
    BY <1>1
  <2> QED
    BY <1>1, <1>2, <1>3, <2>1
<1>5. /\ Len(Prompt \o b) = Len(Prompt) + Len(b)
      /\ \A i \in 1 .. Len(Prompt) + Len(b) :
           (Prompt \o b)[i] = IF i <= Len(Prompt) THEN Prompt[i] ELSE b[i - Len(Prompt)]
  BY <1>3, ConcatProperties, Zenon
<1>6. text' = Prompt \o b
  BY <1>4 DEF text
<1>7. Len(text') = k + 1
  BY <1>3, <1>4, <1>5, <1>6
<1>8. text'[k + 1] = ch
  BY <1>3, <1>4, <1>5, <1>6
<1>9. ASSUME NEW i \in 1 .. k PROVE text'[i] = text[i]
  <2>1. text[i] = IF i <= Len(Prompt) THEN Prompt[i] ELSE buf[i - Len(Prompt)]
    BY <1>2, LineTypes
  <2>2. i > Len(Prompt) => i - Len(Prompt) \in 1 .. n
    BY <1>3
  <2>3. i \in 1 .. Len(Prompt) + Len(b)
    BY <1>3, <1>4
  <2> QED
    BY <1>3, <1>4, <1>5, <1>6, <2>1, <2>2, <2>3
<1>10. ~wrapped => cur_x = k /\ RowShows(t, k)
  BY <1>1, <1>2, WaitingLine
<1>11. ASSUME ~wrapped, NEW c \in 0 .. Columns - 1
       PROVE  t[cur_y][c] = IF c < k THEN Mark(c)' ELSE Space
  <2>1. t[cur_y][c] = IF c < k THEN Mark(c) ELSE Space
    BY <1>10, <1>11 DEF RowShows
  <2>2. c < k => Mark(c)' = Mark(c)
    BY <1>9 DEF Mark
  <2> QED
    BY <2>1, <2>2
<1>12. Len(todo') = 1 /\ todo'[1] = ch /\ k + 1 - 1 + 1 = k + 1 /\ k + 1 - 1 = k /\ 1 <= k + 1
  BY <1>1
<1>13. \A i \in 1 .. Len(todo') : todo'[i] = text'[Len(text') - Len(todo') + i] /\ todo'[i] \in Plain
  BY <1>1, <1>7, <1>8, <1>12
<1>14. ~wrapped' => cur_x' = Len(text') - Len(todo') /\ RowShows(t, cur_x)'
  BY <1>1, <1>7, <1>10, <1>11, <1>12 DEF RowShows
<1>15. Growing(t)'
  BY <1>7, <1>12, <1>13, <1>14 DEF Growing
<1> QED
  BY <1>15 DEF LineAt

LEMMA InitEdit == Init => EditInv
<1> SUFFICES ASSUME Init PROVE EditInv
  OBVIOUS
<1>1. fb = [r \in Y |-> [p \in X |-> Dark]] /\ cur_x = 0 /\ cur_y = 0 /\ buf = <<>>
      /\ todo = Banner \o Prompt /\ wrapped = FALSE
  BY DEF Init, ConsoleInit
<1>2. PICK t \in Cells : t = [r \in 0 .. Lines - 1 |-> Empty] /\ Paints(fb, t)
  BY <1>1, BlankPaints
<1>3. Below(t)
  BY <1>2 DEF Below
<1>4. /\ Len(todo) = Len(Banner) + Len(Prompt) /\ Len(Banner) \in Nat /\ Len(Prompt) \in Nat
      /\ \A i \in 1 .. Len(Banner) : todo[i] = Banner[i]
      /\ \A i \in 1 .. Len(Prompt) : todo[Len(Banner) + i] = Prompt[i]
  BY <1>1, PromptTypes, TextConcat
<1>5. CASE Banner = <<>>
  <2>1. text = Prompt /\ Len(Banner) = 0
    BY <1>1, <1>5, ConcatEmptySeq, EmptySeq, LineEditorConstantsOK DEF text
  <2>2. RowShows(t, cur_x)
    BY <1>1, <1>2, ScreenSize DEF RowShows, Empty
  <2>3. Len(todo) = Len(Prompt) /\ \A i \in 1 .. Len(Prompt) :
          todo[i] = Prompt[i] /\ Prompt[i] \in Plain /\ Len(Prompt) - Len(Prompt) + i = i
    BY <1>4, <2>1, LineEditorConstantsOK
  <2>4. Growing(t)
    BY <1>1, <1>4, <2>1, <2>2, <2>3 DEF Growing
  <2> QED
    BY <1>2, <1>3, <2>4 DEF EditInv, LineAt
<1>6. CASE Banner # <<>>
  <2>1. Len(Banner) \in 1 .. Len(Banner) /\ Banner[Len(Banner)] = NL
    BY <1>6, PromptTypes, EmptySeq, LineEditorConstantsOK
  <2>2. Len(todo) - Len(Prompt) = Len(Banner) /\ Len(todo) > Len(Prompt)
    BY <1>4, <2>1
  <2>3. Coming
    BY <1>1, <1>4, <2>1, <2>2 DEF Coming
  <2> QED
    BY <1>2, <1>3, <2>3 DEF EditInv, LineAt
<1> QED
  BY <1>5, <1>6

LEMMA NextEdit == TypeInv /\ EditInv /\ [Next]_vars => EditInv'
<1> SUFFICES ASSUME TypeInv, EditInv, [Next]_vars PROVE EditInv'
  OBVIOUS
<1>1. PICK t \in Cells : Paints(fb, t) /\ Below(t) /\ LineAt(t)
  BY DEF EditInv
<1>2. CASE Emit
  <2>1. PICK u \in Cells : Paints(fb', u) /\ Typed(Head(todo), t, u)
    BY <1>1, <1>2, PutPaints DEF Emit, TypeInv
  <2>2. Below(u)'
    BY <1>1, <2>1, TypedBelow DEF TypeInv
  <2>3. LineAt(u)'
    BY <1>1, <1>2, <2>1, EmitComing, EmitGrowing, EmitErasing DEF LineAt
  <2> QED
    BY <2>1, <2>2, <2>3 DEF EditInv
<1>3. ASSUME NEW ch \in Key, Backspace(ch) \/ Enter(ch) \/ Insert(ch)
      PROVE  EditInv'
  <2>1. UNCHANGED <<fb, cur_y>>
    BY <1>3 DEF Backspace, Enter, Insert, Waiting, fbvars
  <2>2. Paints(fb', t) /\ Below(t)'
    BY <1>1, <2>1 DEF Below
  <2>3. LineAt(t)'
    BY <1>1, <1>3, BackspaceLine, EnterLine, InsertLine
  <2> QED
    BY <2>2, <2>3 DEF EditInv
<1>4. CASE UNCHANGED vars
  <2>1. UNCHANGED <<fb, cur_x, cur_y, buf, todo, wrapped>>
    BY <1>4 DEF vars, fbvars, lvars
  <2>2. Paints(fb', t) /\ Below(t)' /\ LineAt(t)'
    BY <1>1, <2>1 DEF Below, LineAt, Coming, Growing, Erasing, RowShows, Mark, text
  <2> QED
    BY <2>2 DEF EditInv
<1> QED
  BY <1>2, <1>3, <1>4 DEF Next

LEMMA EditInvariance == Spec => []EditInv
BY InitEdit, NextEdit, TypeInvariance, InitTypes, NextTypes, PTL DEF Spec

\* Whenever a key is waited for, the cursor's row shows the prompt and exactly
\* the characters that Enter would hand to the shell (kernel.c:131-150), for
\* every screen, every output of the commands before, and every sequence of
\* keys, as long as the line has not wrapped.
THEOREM LineIsShown == Spec => []LineShown
<1>1. TypeInv /\ EditInv => LineShown
  <2> SUFFICES ASSUME TypeInv, EditInv, todo = <<>>, ~wrapped
               PROVE  /\ cur_x = Len(text)
                      /\ \A c \in 0 .. Columns - 1 :
                           Shown(cur_y, c) = IF c < Len(text) THEN Mark(c) ELSE Space
    BY DEF LineShown, text, Mark
  <2>1. PICK t \in Cells : Paints(fb, t) /\ LineAt(t)
    BY DEF EditInv
  <2>2. cur_x = Len(text) /\ RowShows(t, cur_x)
    BY <2>1, WaitingLine
  <2>3. cur_y \in 0 .. Lines - 1
    BY CursorRange DEF TypeInv
  <2>4. \A c \in 0 .. Columns - 1 : Shown(cur_y, c) = t[cur_y][c]
    BY <2>1, <2>3, PaintedShows
  <2> QED
    BY <2>2, <2>4 DEF RowShows
<1> QED
  BY <1>1, TypeInvariance, EditInvariance, PTL

-----------------------------------------------------------------------------
(* The abstract screen. *)

CellsShown == [r \in 0 .. Lines - 1 |-> [c \in 0 .. Columns - 1 |-> Shown(r, c)]]

ShownRight == \A t \in Cells : Paints(fb, t) => CellsShown = t

LEMMA ShownCells == ShownRight
<1> SUFFICES ASSUME NEW t \in Cells, Paints(fb, t) PROVE CellsShown = t
  BY DEF ShownRight
<1>1. \A r \in 0 .. Lines - 1, c \in 0 .. Columns - 1 : Shown(r, c) = t[r][c]
  BY PaintedShows
<1>2. CellsShown = [r \in 0 .. Lines - 1 |-> [c \in 0 .. Columns - 1 |-> t[r][c]]]
  BY <1>1 DEF CellsShown
<1> QED
  BY <1>2 DEF Cells

LEMMA ShownCellsNext == ShownRight'
BY ShownCells, PTL

LEMMA InitScreen == Init => Screen!Init
<1> SUFFICES ASSUME Init PROVE Screen!Init
  OBVIOUS
<1>1. PICK t \in Cells : t = [r \in 0 .. Lines - 1 |-> Empty] /\ Paints(fb, t)
  BY BlankPaints DEF Init, ConsoleInit
<1>2. CellsShown = t
  BY <1>1, ShownCells DEF ShownRight
<1>3. Screen!BlankRow = Empty
  BY DEF Screen!BlankRow, Empty
<1>4. CellsShown = [r \in 0 .. Lines - 1 |-> Screen!BlankRow]
  BY <1>1, <1>2, <1>3
<1> QED
  BY <1>4 DEF Screen!Init, CellsShown, Init, ConsoleInit

\* A new row of the screen of cells is the terminal's.
LEMMA BreakStep ==
  ASSUME CursorInv, NEW t, NEW u \in Cells, Paints(fb', u), Broken(t, u)
  PROVE  Screen!Break(t)
<1>1. CellsShown' = u
  BY ShownCellsNext DEF ShownRight
<1>2. Screen!BlankRow = Empty
  BY DEF Screen!BlankRow, Empty
<1>3. cur_x' = 0 /\ IF cur_y < Lines - 1 THEN u = t /\ cur_y' = cur_y + 1
                    ELSE u = [r \in 0 .. Lines - 1 |-> IF r < Lines - 1 THEN t[r + 1] ELSE Empty] /\ cur_y' = cur_y
  BY DEF Broken
<1> QED
  BY <1>1, <1>2, <1>3 DEF Screen!Break, CellsShown

LEMMA ScreenStep ==
  ASSUME CursorInv, NEW t \in Cells, Paints(fb, t), NEW u \in Cells, Paints(fb', u), NEW c, Typed(c, t, u)
  PROVE  [Screen!Next]_(Screen!svars)
<1>1. CellsShown = t /\ CellsShown' = u
  BY ShownCells, ShownCellsNext DEF ShownRight
<1>2. CASE u = t /\ UNCHANGED <<cur_x, cur_y>>
  BY <1>1, <1>2 DEF Screen!svars, CellsShown
<1>3. CASE Broken(t, u)
  <2>1. Screen!NewLine
    BY <1>1, <1>3, BreakStep DEF Screen!NewLine, CellsShown
  <2> QED
    BY <2>1 DEF Screen!Next
<1>4. CASE cur_x > 0 /\ u = [t EXCEPT ![cur_y][cur_x - 1] = Space] /\ cur_x' = cur_x - 1 /\ UNCHANGED cur_y
  <2>1. Screen!Erase
    BY <1>1, <1>4 DEF Screen!Erase, CellsShown
  <2> QED
    BY <2>1 DEF Screen!Next
<1>5. ASSUME c \in Plain
      PROVE  glyph_for(c) \in Glyph
  BY <1>5 DEF Glyph
<1>6. CASE c \in Plain /\ cur_x < Columns - 1 /\ u = [t EXCEPT ![cur_y][cur_x] = glyph_for(c)]
           /\ cur_x' = cur_x + 1 /\ UNCHANGED cur_y
  <2>1. Screen!Show(glyph_for(c))
    BY <1>1, <1>6 DEF Screen!Show, CellsShown
  <2> QED
    BY <1>5, <1>6, <2>1 DEF Screen!Next
<1>7. CASE c \in Plain /\ cur_x = Columns - 1 /\ Broken([t EXCEPT ![cur_y][cur_x] = glyph_for(c)], u)
  <2>1. PICK v : v = [t EXCEPT ![cur_y][cur_x] = glyph_for(c)]
    OBVIOUS
  <2>2. Screen!Break(v)
    BY <1>7, <2>1, BreakStep
  <2>3. ~(cur_x < Columns - 1)
    BY <1>7, ScreenSize
  <2>4. Screen!Show(glyph_for(c))
    BY <1>1, <2>1, <2>2, <2>3 DEF Screen!Show, CellsShown
  <2> QED
    BY <1>5, <1>7, <2>4 DEF Screen!Next
<1> QED
  BY <1>2, <1>3, <1>4, <1>6, <1>7 DEF Typed

\* Pixel by pixel, whatever is written, the framebuffer shows a terminal's
\* rows of cells: text wraps after the last column, rows move up when it goes
\* past the last one, and erasing stops at the start of a row (fb.c:102-146).
THEOREM PixelsImplementScreen == Spec => ImplementsTextScreen
<1>1. TypeInv /\ EditInv /\ [Next]_vars => [Screen!Next]_(Screen!svars)
  <2> SUFFICES ASSUME TypeInv, EditInv, [Next]_vars PROVE [Screen!Next]_(Screen!svars)
    OBVIOUS
  <2>1. CASE Emit
    <3>1. PICK t \in Cells : Paints(fb, t)
      BY DEF EditInv
    <3>2. PICK u \in Cells : Paints(fb', u) /\ Typed(Head(todo), t, u)
      BY <2>1, <3>1, PutPaints DEF Emit, TypeInv
    <3> QED
      BY <3>1, <3>2, ScreenStep DEF TypeInv
  <2>2. CASE UNCHANGED fbvars
    <3>1. UNCHANGED <<fb, cur_x, cur_y>>
      BY <2>2 DEF fbvars
    <3>2. CellsShown' = CellsShown
      BY <3>1 DEF CellsShown, Shown, StripsDark, CellShows
    <3> QED
      BY <3>1, <3>2 DEF Screen!svars, CellsShown
  <2> QED
    BY <2>1, <2>2 DEF Next, vars, Backspace, Enter, Insert, Waiting
<1> QED
  BY <1>1, InitScreen, TypeInvariance, EditInvariance, PTL DEF Spec, ImplementsTextScreen, Screen!Spec
=============================================================================
