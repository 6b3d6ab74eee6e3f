------------------------------ MODULE Console -------------------------------
(***************************************************************************)
(* The framebuffer console, Console/fb.c: glyphs drawn pixel by pixel at a *)
(* cursor, and a screen that scrolls by copying the framebuffer onto       *)
(* itself.  The width and the height need not be multiples of a cell's.    *)
(* A lit pixel is named after the glyph and the place in it, so that no    *)
(* two glyphs look alike.                                                  *)
(***************************************************************************)
EXTENDS Integers, Sequences

CONSTANTS
  fb_w, fb_h,            \* the framebuffer, in pixels
  cell_w, cell_h,        \* a cell
  GlyphW, GlyphH,        \* the pixels of a cell that a glyph may light, from (1, 1) on
  Letters,               \* lower-case letters
  Upcase,                \* letter -> its capital
  Shapes,                \* characters with a glyph of their own
  Plain,                 \* every printable character
  Space, Query,          \* ' ' and '?'
  NL, CR, BS             \* '\n', '\r', and 8 or 127

ASSUME ConsoleConstantsOK ==
  /\ cell_w \in Nat /\ cell_h \in Nat /\ GlyphW \in Nat \ {0} /\ GlyphH \in Nat \ {0}
  /\ GlyphW < cell_w /\ GlyphH < cell_h
  /\ fb_w \in Nat /\ fb_h \in Nat /\ fb_w >= cell_w /\ fb_h >= cell_h
  /\ Letters \subseteq Plain /\ Shapes \subseteq Plain
  /\ Upcase \in [Letters -> Shapes]
  /\ {Space, Query} \subseteq Shapes
  /\ {NL, CR, BS} \cap Plain = {} /\ NL # CR /\ NL # BS /\ CR # BS

VARIABLES fb, cur_x, cur_y

fbvars == <<fb, cur_x, cur_y>>

Dark == <<"dark">>
Lit(g, x, y) == <<g, x, y>>

X == 0 .. fb_w - 1
Y == 0 .. fb_h - 1

glyph_for(c) ==
  LET u == IF c \in Letters THEN Upcase[c] ELSE c
  IN  IF u \in Shapes THEN u ELSE Query

Glyph == {glyph_for(c) : c \in Plain}

-----------------------------------------------------------------------------
(* Drawing. *)

fill_rect(f, x, y, w, h) ==
  [r \in Y |-> [p \in X |-> IF x <= p /\ p < x + w /\ y <= r /\ r < y + h THEN Dark ELSE f[r][p]]]

\* The pixel of glyph g at (dx, dy) of its cell.
Dot(g, dx, dy) ==
  IF g # Space /\ dx \in 1 .. GlyphW /\ dy \in 1 .. GlyphH THEN Lit(g, dx, dy) ELSE Dark

\* Mutant: the cell is not cleared first.
draw_glyph_NoClear(f, x, y, g) ==
  [r \in Y |-> [p \in X |->
     IF x <= p /\ p < x + cell_w /\ y <= r /\ r < y + cell_h /\ Dot(g, p - x, r - y) # Dark
     THEN Dot(g, p - x, r - y) ELSE f[r][p]]]

\* The cell is cleared and the glyph drawn over it.
draw_glyph(f, x, y, g) ==
  LET bg == fill_rect(f, x, y, cell_w, cell_h) IN
  [r \in Y |-> [p \in X |->
     IF x <= p /\ p < x + cell_w /\ y <= r /\ r < y + cell_h
     THEN Dot(g, p - x, r - y) ELSE bg[r][p]]]

\* scroll_up, the framebuffer: all but the top rows copied up, the bottom cleared.
Scrolled(f) ==
  fill_rect([r \in Y |-> IF r < fb_h - cell_h THEN f[r + cell_h] ELSE f[r]],
            0, fb_h - cell_h, fb_w, cell_h)

-----------------------------------------------------------------------------
ConsoleInit ==
  /\ fb = [r \in Y |-> [p \in X |-> Dark]]
  /\ cur_x = 0 /\ cur_y = 0

\* Mutant: the test looks at the row the cursor leaves.
NextRow_Late(f) ==
  /\ cur_x' = 0
  /\ IF (cur_y + 1) * cell_h > fb_h
     THEN fb' = Scrolled(f) /\ UNCHANGED cur_y
     ELSE fb' = f /\ cur_y' = cur_y + 1

\* cur_x = 0, cur_y++, and scroll_up when the new row does not fit, which
\* takes cur_y back.
NextRow(f) ==
  /\ cur_x' = 0
  /\ IF (cur_y + 2) * cell_h > fb_h
     THEN fb' = Scrolled(f) /\ UNCHANGED cur_y
     ELSE fb' = f /\ cur_y' = cur_y + 1

PutBackspace ==
  IF cur_x = 0 THEN UNCHANGED fbvars
  ELSE /\ cur_x' = cur_x - 1
       /\ fb' = draw_glyph(fb, (cur_x - 1) * cell_w, cur_y * cell_h, Space)
       /\ UNCHANGED cur_y

PutPlain(c) ==
  LET f == draw_glyph(fb, cur_x * cell_w, cur_y * cell_h, glyph_for(c)) IN
  IF (cur_x + 2) * cell_w > fb_w THEN NextRow(f)
  ELSE fb' = f /\ cur_x' = cur_x + 1 /\ UNCHANGED cur_y

fb_putc(c) ==
  \/ c = CR /\ UNCHANGED fbvars
  \/ c = NL /\ NextRow(fb)
  \/ c = BS /\ PutBackspace
  \/ c \in Plain /\ PutPlain(c)

ConsoleSpec == ConsoleInit /\ [][\E c \in Plain \cup {NL, CR, BS} : fb_putc(c)]_fbvars

-----------------------------------------------------------------------------
(* Properties. *)

\* fill_rect does not clip: the cell at the cursor, where the next character
\* is drawn, is always wholly inside the framebuffer.
CursorInside == (cur_x + 1) * cell_w <= fb_w /\ (cur_y + 1) * cell_h <= fb_h

\* Pixel by pixel, the framebuffer shows the rows of an abstract screen: no
\* glyph is left over under another one, in the strips at the right and at
\* the bottom that make no full cell, or in a row that has scrolled.
Columns == fb_w \div cell_w
Lines   == fb_h \div cell_h
CellShows(c, r, g) ==
  \A dx \in 0 .. cell_w - 1, dy \in 0 .. cell_h - 1 :
    fb[r * cell_h + dy][c * cell_w + dx] = Dot(g, dx, dy)
StripsDark ==
  \A y \in Y, x \in X : x >= Columns * cell_w \/ y >= Lines * cell_h => fb[y][x] = Dark
Shown(r, c) ==
  IF StripsDark /\ \E g \in Glyph \cup {Space} : CellShows(c, r, g)
  THEN CHOOSE g \in Glyph \cup {Space} : CellShows(c, r, g) ELSE "garbled"

Screen == INSTANCE TextScreen WITH
  Rows <- Lines, Cols <- Columns, Blank <- Space,
  cell <- [r \in 0 .. Lines - 1 |-> [c \in 0 .. Columns - 1 |-> Shown(r, c)]],
  col <- cur_x, row <- cur_y
ImplementsTextScreen == Screen!Spec
=============================================================================
