------------------------------ MODULE KbdRing -------------------------------
(***************************************************************************)
(* The character ring of src/Input/kbd.c: qpush runs in the keyboard       *)
(* interrupt, kbd_getch in the program it interrupts, and no lock protects *)
(* the two indices.  qpush is one step, since the program does not run     *)
(* while it does; kbd_getch is four, since the interrupt can come between  *)
(* its two reads for the test, its load and its store.                     *)
(***************************************************************************)
EXTENDS Integers, Sequences

CONSTANTS
  Size,       \* KBD_QSZ
  Char,       \* characters the scancode maps yield
  NoKey       \* the -1 of an empty poll

ASSUME RingConstantsOK == Size \in Nat /\ Size > 1 /\ NoKey \notin Char

VARIABLES
  q, qh, qt,  \* slots, next to fill, next to empty
  pc, h, c,   \* where kbd_getch is: idle, test, load, store; and its locals
  out         \* what the last kbd_getch returned

ring     == <<q, qh, qt>>
getch    == <<pc, h, c, out>>
ringVars == <<ring, getch>>

\* (i + 1) & (KBD_QSZ - 1)
Succ(i) == IF i = Size - 1 THEN 0 ELSE i + 1

\* The three variables are in .bss: zero, like the slots.
RingInit ==
  /\ q = [i \in 0 .. Size - 1 |-> NoKey] /\ qh = 0 /\ qt = 0
  /\ pc = "idle" /\ h = 0 /\ c = NoKey /\ out = NoKey

\* Mutant: makes room by dropping the oldest character.
qpush_DropsOldest(ch) ==
  /\ q' = [q EXCEPT ![qh] = ch]
  /\ qh' = Succ(qh)
  /\ qt' = IF Succ(qh) = qt THEN Succ(qt) ELSE qt

qpush(ch) ==
  /\ IF Succ(qh) # qt THEN q' = [q EXCEPT ![qh] = ch] /\ qh' = Succ(qh)
                      ELSE UNCHANGED <<q, qh>>
  /\ UNCHANGED qt

Interrupt == \E ch \in Char : qpush(ch) /\ UNCHANGED getch

\* qh == qt, one volatile read at a time.
ReadHead ==
  /\ pc = "idle"
  /\ h' = qh
  /\ pc' = "test"
  /\ UNCHANGED <<ring, c, out>>

Test ==
  /\ pc = "test"
  /\ IF h = qt THEN pc' = "idle" /\ out' = NoKey
               ELSE pc' = "load" /\ UNCHANGED out
  /\ UNCHANGED <<ring, h, c>>

Load ==
  /\ pc = "load"
  /\ c' = q[qt]
  /\ pc' = "store"
  /\ UNCHANGED <<ring, h, out>>

Store ==
  /\ pc = "store"
  /\ qt' = Succ(qt)
  /\ out' = c
  /\ pc' = "idle"
  /\ UNCHANGED <<q, qh, h, c>>

Poll == ReadHead \/ Test \/ Load \/ Store
RingNext == Interrupt \/ Poll
RingSpec == RingInit /\ [][RingNext]_ringVars

-----------------------------------------------------------------------------
RingTypeOK ==
  /\ q \in [0 .. Size - 1 -> Char \cup {NoKey}]
  /\ qh \in 0 .. Size - 1 /\ qt \in 0 .. Size - 1 /\ h \in 0 .. Size - 1
  /\ pc \in {"idle", "test", "load", "store"}
  /\ c \in Char \cup {NoKey} /\ out \in Char \cup {NoKey}

\* Characters in the ring, oldest first.
Count    == IF qh >= qt THEN qh - qt ELSE qh - qt + Size
Slot(k)  == IF qt + k - 1 < Size THEN qt + k - 1 ELSE qt + k - 1 - Size
Contents == [k \in 1 .. Count |-> q[Slot(k)]]

\* The ring is the bounded FIFO, one character smaller than its array.  A
\* poll that read qh = qt misses there, although a character that comes
\* before it reads qt is already in the ring when it returns.
Queue == INSTANCE KeyQueue WITH
  queue    <- Contents,
  out      <- IF pc = "test" /\ h = qt THEN NoKey ELSE out,
  Capacity <- Size - 1
ImplementsKeyQueue == Queue!Spec
=============================================================================
