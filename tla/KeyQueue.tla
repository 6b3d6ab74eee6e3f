------------------------------ MODULE KeyQueue ------------------------------
(***************************************************************************)
(* What the keyboard buffer promises its two users, the interrupt handler  *)
(* that offers characters and the program that polls for them: a bounded   *)
(* FIFO that loses a character only when it is full, and a poll that       *)
(* returns the oldest one, or NoKey when it finds none.                    *)
(***************************************************************************)
EXTENDS Naturals, Sequences

CONSTANTS Char, NoKey, Capacity

VARIABLES queue, out    \* buffered characters, what the last poll returned

vars == <<queue, out>>

Init == queue = <<>> /\ out = NoKey

Offer(c) ==
  /\ queue' = IF Len(queue) < Capacity THEN Append(queue, c) ELSE queue
  /\ UNCHANGED out

Take ==
  /\ queue # <<>>
  /\ out' = Head(queue)
  /\ queue' = Tail(queue)

Miss ==
  /\ queue = <<>>
  /\ out' = NoKey
  /\ UNCHANGED queue

Next == (\E c \in Char : Offer(c)) \/ Take \/ Miss

Spec == Init /\ [][Next]_vars
=============================================================================
