---------------------------- MODULE PageAllocator ----------------------------
(***************************************************************************)
(* What the page allocator promises: from a fixed set of pages, Alloc      *)
(* hands out one that nobody holds, and fails only when there is none.     *)
(***************************************************************************)
CONSTANT Null     \* what a failed Alloc returns

VARIABLES avail, held, out    \* pages it owns, pages held, last page returned

vars == <<avail, held, out>>

Init == avail = {} /\ held = {} /\ out = Null

\* The pages it owns become known.
Setup ==
  /\ avail = {} /\ held = {}
  /\ UNCHANGED <<held, out>>

Alloc(p) ==
  /\ p \in avail \ held /\ p # Null
  /\ held' = held \cup {p}
  /\ out' = p
  /\ UNCHANGED avail

Fail ==
  /\ avail \subseteq held
  /\ out' = Null
  /\ UNCHANGED <<avail, held>>

Free(p) ==
  /\ p \in held
  /\ held' = held \ {p}
  /\ UNCHANGED <<avail, out>>

Next ==
  \/ Setup
  \/ \E p \in avail : Alloc(p)
  \/ Fail
  \/ \E p \in held : Free(p)

Spec == Init /\ [][Next]_vars
=============================================================================
