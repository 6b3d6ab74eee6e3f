----------------------------- MODULE TextScreen -----------------------------
(***************************************************************************)
(* What a console promises: rows of character cells and a cursor, text     *)
(* that wraps after the last column, and rows that move up when the text   *)
(* goes past the last one.  Erasing stops at the start of a row.           *)
(***************************************************************************)
EXTENDS Naturals

CONSTANTS Rows, Cols, Glyph, Blank

VARIABLES cell, col, row      \* cell[r][c] is the glyph shown there

svars == <<cell, col, row>>

BlankRow == [c \in 0 .. Cols - 1 |-> Blank]

Init ==
  /\ cell = [r \in 0 .. Rows - 1 |-> BlankRow]
  /\ col = 0 /\ row = 0

\* The text t continues at the start of the next row.
Break(t) ==
  /\ col' = 0
  /\ IF row < Rows - 1
     THEN cell' = t /\ row' = row + 1
     ELSE /\ cell' = [r \in 0 .. Rows - 1 |-> IF r < Rows - 1 THEN t[r + 1] ELSE BlankRow]
          /\ UNCHANGED row

Show(g) ==
  LET t == [cell EXCEPT ![row][col] = g] IN
  IF col < Cols - 1 THEN cell' = t /\ col' = col + 1 /\ UNCHANGED row
                    ELSE Break(t)

NewLine == Break(cell)

Erase ==
  /\ col > 0
  /\ cell' = [cell EXCEPT ![row][col - 1] = Blank] /\ col' = col - 1
  /\ UNCHANGED row

Next == NewLine \/ Erase \/ \E g \in Glyph : Show(g)

Spec == Init /\ [][Next]_svars
=============================================================================
