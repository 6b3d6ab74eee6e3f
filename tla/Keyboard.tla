------------------------------ MODULE Keyboard ------------------------------
(***************************************************************************)
(* From a key to the program that polls for it: the keyboard's own buffer, *)
(* the controller's one-byte output buffer and its edge-triggered          *)
(* interrupt, the boot sequence that drains and routes it (kernel.c), the  *)
(* handler that decodes a byte (kbd_irq, kbd.c), the ring it fills         *)
(* (KbdRing), and the loop that polls the ring and halts when it is empty. *)
(* An extended key's byte comes behind the prefix E0, for which kbd.c sets *)
(* a flag `ext' that nothing reads (it is left out): E0 2A and E0 AA, the  *)
(* fake shifts a keyboard puts around an extended key to make up for Num   *)
(* Lock or a shift key held, are taken for a shift key's press and release.*)
(***************************************************************************)
EXTENDS KbdRing, SequencesExt

CONSTANTS
  Letters, Symbols,  \* keys with two characters: Caps Lock shifts letters only
  Shifts, CapsKey,   \* the shift keys, and Caps Lock
  ExtKeys, E0,       \* extended keys: arrows, Print Screen; and their prefix
  WindowKeys,        \* whether a byte may come between the drain and the routing
  FifoSize,          \* bound: bytes waiting in the keyboard
  MaxPresses         \* bound: key presses

\* The two extended keys whose byte yields a character (Enter and / of the
\* keypad) are left out.
Keys  == Letters \cup Symbols \cup Shifts \cup {CapsKey} \cup ExtKeys
Bytes == [key : Keys \cup {E0}, rel : BOOLEAN]

ASSUME KeyboardConstantsOK ==
  /\ Char = (Letters \cup Symbols) \X BOOLEAN  \* a key, and whether shifted
  /\ Shifts # {} /\ E0 \notin Keys
  /\ (ExtKeys \cup {CapsKey}) \cap (Letters \cup Symbols \cup Shifts) = {} /\ CapsKey \notin ExtKeys
  /\ Shifts \cap (Letters \cup Symbols) = {}
  /\ WindowKeys \in BOOLEAN /\ FifoSize \in Nat /\ MaxPresses \in Nat

VARIABLES
  down, presses,     \* keys held, and how many were pressed
  fakes,             \* extended keys held behind a fake shift
  fifo, ob, irr,     \* keyboard buffer, output buffer, interrupt pending
  stage,             \* next boot step: drain, route, timer, sti; then run
  shift, caps,       \* kbd.c's flags
  loop, asleep,      \* the polling loop: poll or got; halted
  \* history variables
  capsOn,            \* Caps Lock as the user sees it
  typed, got,        \* characters the user typed, characters the loop took
  clean,             \* no byte discarded, no ring overflow, never two shifts
                     \* held, and no character typed while fakes # {}
  owed               \* a character typed since the loop last took one

user  == <<down, presses, fakes>>
line  == <<fifo, ob, irr>>
main  == <<loop, asleep>>
hist  == <<capsOn, typed, got, clean, owed>>
vars  == <<user, line, stage, shift, caps, ring, getch, main, hist>>

-----------------------------------------------------------------------------
(* The user and the hardware. *)

Held      == down \cap Shifts # {}
Intended(k) == <<k, IF k \in Letters THEN Held # capsOn ELSE Held>>

Code(k, rel)  == [key |-> k, rel |-> rel]
Codes(k, rel) == IF k \in ExtKeys THEN <<Code(E0, FALSE), Code(k, rel)>> ELSE <<Code(k, rel)>>

\* Which shift key's byte it is makes no difference to kbd.c.
FakeShift(rel) == <<Code(E0, FALSE), Code(CHOOSE k \in Shifts : TRUE, rel)>>

Send(bytes) ==
  /\ Len(fifo) + Len(bytes) <= FifoSize
  /\ fifo' = fifo \o bytes

Types(k) ==
  /\ IF k \in Letters \cup Symbols
     THEN typed' = Append(typed, Intended(k)) /\ owed' = (owed \/ stage = "run")
     ELSE UNCHANGED <<typed, owed>>
  /\ clean' = (clean /\ ~(k \in Shifts \ down /\ Held) /\ ~(k \in Letters \cup Symbols /\ fakes # {}))

\* The fake shift is a release while a shift key is held, or else a press;
\* whether there is one depends on Num Lock and on the key.
Press(k) ==
  /\ k \notin down /\ presses < MaxPresses
  /\ \/ Send(Codes(k, FALSE)) /\ UNCHANGED fakes
     \/ k \in ExtKeys /\ Send(FakeShift(Held) \o Codes(k, FALSE)) /\ fakes' = fakes \cup {k}
  /\ Types(k)
  /\ down' = down \cup {k} /\ presses' = presses + 1
  /\ capsOn' = IF k = CapsKey THEN ~capsOn ELSE capsOn
  /\ UNCHANGED <<ob, irr, stage, shift, caps, ring, getch, main, got>>

\* The keyboard repeats the last key held; Caps Lock is not held here.
Repeat(k) ==
  /\ k \in down \ {CapsKey} /\ presses < MaxPresses
  /\ Send(Codes(k, FALSE)) /\ Types(k)
  /\ presses' = presses + 1
  /\ UNCHANGED <<down, fakes, ob, irr, stage, shift, caps, ring, getch, main, capsOn, got>>

\* Behind the key the keyboard takes its fake shift back: it sends what the
\* shift keys say by then.
Release(k) ==
  /\ k \in down
  /\ Send(IF k \in fakes THEN Codes(k, TRUE) \o FakeShift(~Held) ELSE Codes(k, TRUE))
  /\ down' = down \ {k} /\ fakes' = fakes \ {k}
  /\ UNCHANGED <<presses, ob, irr, stage, shift, caps, ring, getch, main, hist>>

Routed == stage \notin {"drain", "route"}

\* A byte reaches the empty output buffer; the edge is lost while the I/O
\* APIC entry is masked.
Deliver ==
  /\ ob = <<>> /\ fifo # <<>>
  /\ WindowKeys \/ stage # "route"
  /\ ob' = <<Head(fifo)>> /\ fifo' = Tail(fifo)
  /\ irr' = (irr \/ Routed)
  /\ UNCHANGED <<user, stage, shift, caps, ring, getch, main, hist>>

-----------------------------------------------------------------------------
(* Boot. *)

\* kbd_ps2_drain
Drain ==
  /\ stage = "drain"
  /\ IF ob # <<>> THEN ob' = <<>> /\ clean' = FALSE /\ UNCHANGED stage
                  ELSE stage' = "route" /\ UNCHANGED <<ob, clean>>
  /\ UNCHANGED <<user, fifo, irr, shift, caps, ring, getch, main, capsOn, typed, got, owed>>

\* ioapic_route_gsi, lapic_timer_init, sti
BootStep ==
  /\ \/ stage = "route" /\ stage' = "timer"
     \/ stage = "timer" /\ stage' = "sti"
     \/ stage = "sti"   /\ stage' = "run"
  /\ UNCHANGED <<user, line, shift, caps, ring, getch, main, hist>>

-----------------------------------------------------------------------------
(* Interrupts. *)

\* Mutant: Caps Lock shifts symbols too.
CharOf_CapsAll(k) == <<k, shift # caps>>

\* The character of map_norm or map_shift.
CharOf(k) == <<k, IF k \in Letters THEN shift # caps ELSE shift>>

\* Mutant: the release of a shift key is dropped with all other releases.
Decode_ShiftSticks(b) ==
  /\ shift' = (shift \/ (b.key \in Shifts /\ ~b.rel))
  /\ caps' = IF b.key = CapsKey /\ ~b.rel THEN ~caps ELSE caps
  /\ IF b.key \in Letters \cup Symbols /\ ~b.rel
     THEN qpush(CharOf(b.key)) /\ clean' = (clean /\ Succ(qh) # qt)
     ELSE UNCHANGED <<ring, clean>>

\* kbd_irq, once it has read the byte b; E0 and the extended keys do nothing.
Decode(b) ==
  /\ shift' = IF b.key \in Shifts THEN ~b.rel ELSE shift
  /\ caps' = IF b.key = CapsKey /\ ~b.rel THEN ~caps ELSE caps
  /\ IF b.key \in Letters \cup Symbols /\ ~b.rel
     THEN qpush(CharOf(b.key)) /\ clean' = (clean /\ Succ(qh) # qt)
     ELSE UNCHANGED <<ring, clean>>

\* Mutant: the handler returns without reading the byte of a released key.
isr_kbd_KeepsRelease ==
  /\ stage = "run" /\ irr /\ irr' = FALSE /\ asleep' = FALSE
  /\ IF ob # <<>> /\ ~ob[1].rel THEN ob' = <<>> /\ Decode(ob[1])
                  ELSE UNCHANGED <<ob, shift, caps, ring, clean>>
  /\ UNCHANGED <<user, fifo, stage, getch, loop, capsOn, typed, got, owed>>

\* Runs with interrupts off, so it is one step; its end of interrupt lets
\* the next edge in, and it ends a hlt.
isr_kbd ==
  /\ stage = "run" /\ irr /\ irr' = FALSE /\ asleep' = FALSE
  /\ IF ob # <<>> THEN ob' = <<>> /\ Decode(ob[1])
                  ELSE UNCHANGED <<ob, shift, caps, ring, clean>>
  /\ UNCHANGED <<user, fifo, stage, getch, loop, capsOn, typed, got, owed>>

\* Mutant: the timer is one-shot, and has fired when the loop starts.
isr_lapic_timer_OneShot ==
  /\ stage = "sti" /\ asleep /\ asleep' = FALSE
  /\ UNCHANGED <<user, line, stage, shift, caps, ring, getch, loop, hist>>

\* The periodic timer does nothing here but end a hlt.
isr_lapic_timer ==
  /\ stage = "run" /\ asleep /\ asleep' = FALSE
  /\ UNCHANGED <<user, line, stage, shift, caps, ring, getch, loop, hist>>

-----------------------------------------------------------------------------
(* The polling loop of the kernel and of the programs. *)

kbd_getch ==
  /\ stage = "run" /\ ~asleep /\ loop = "poll"
  /\ Poll
  /\ loop' = IF pc' = "idle" THEN "got" ELSE "poll"
  /\ UNCHANGED <<user, line, stage, shift, caps, asleep, hist>>

Hlt ==
  /\ loop = "got" /\ ~asleep /\ out = NoKey
  /\ loop' = "poll" /\ asleep' = TRUE
  /\ UNCHANGED <<user, line, stage, shift, caps, ring, getch, hist>>

\* Mutant: the -1 of an empty poll is taken for a character.
TakeKey_Unchecked ==
  /\ loop = "got" /\ ~asleep
  /\ loop' = "poll" /\ got' = Append(got, out) /\ owed' = FALSE
  /\ UNCHANGED <<user, line, stage, shift, caps, ring, getch, asleep, capsOn, typed, clean>>

TakeKey ==
  /\ loop = "got" /\ ~asleep /\ out # NoKey
  /\ loop' = "poll" /\ got' = Append(got, out) /\ owed' = FALSE
  /\ UNCHANGED <<user, line, stage, shift, caps, ring, getch, asleep, capsOn, typed, clean>>

Main == kbd_getch \/ Hlt \/ TakeKey

-----------------------------------------------------------------------------
Init ==
  /\ down = {} /\ presses = 0 /\ fakes = {} /\ fifo = <<>> /\ ob = <<>> /\ irr = FALSE
  /\ stage = "drain" /\ shift = FALSE /\ caps = FALSE
  /\ RingInit
  /\ loop = "poll" /\ asleep = FALSE
  /\ capsOn = FALSE /\ typed = <<>> /\ got = <<>> /\ clean = TRUE /\ owed = FALSE

User == \E k \in Keys : Press(k) \/ Repeat(k) \/ Release(k)

Next == User \/ Deliver \/ Drain \/ BootStep \/ isr_kbd \/ isr_lapic_timer \/ Main

Spec == Init /\ [][Next]_vars

\* The processor, the timer and the keyboard controller keep running; the
\* user need not type.
FairSpec ==
  /\ Spec
  /\ WF_vars(Deliver) /\ WF_vars(Drain \/ BootStep)
  /\ WF_vars(isr_kbd) /\ WF_vars(isr_lapic_timer) /\ WF_vars(Main)

-----------------------------------------------------------------------------
(* Properties. *)

TypeOK ==
  /\ RingTypeOK
  /\ down \subseteq Keys /\ fakes \subseteq down \cap ExtKeys /\ presses \in 0 .. MaxPresses
  /\ fifo \in Seq(Bytes) /\ Len(fifo) <= FifoSize
  /\ ob \in Seq(Bytes) /\ Len(ob) <= 1
  /\ stage \in {"drain", "route", "timer", "sti", "run"}
  /\ {irr, shift, caps, asleep, capsOn, clean, owed} \subseteq BOOLEAN
  /\ loop \in {"poll", "got"}
  /\ typed \in Seq(Char) /\ got \in Seq(Char)

\* A byte in the output buffer has its interrupt pending: the edge-triggered
\* line gives no second one, so a byte without it would be the last.
EdgePending == Routed /\ ob # <<>> => irr

\* The characters the loop takes are the ones typed, in order, with the case
\* the shift keys and Caps Lock gave them as they were typed.  `clean' leaves
\* out characters typed while an extended key is held behind a fake shift:
\* kbd.c gives those the case of the fake shift.
TypedInOrder == clean => IsPrefix(got, typed)

\* Once every byte is decoded, shift is set only while a shift key is held,
\* or an extended key behind a fake shift.
NoStuckShift == stage = "run" /\ fifo = <<>> /\ ob = <<>> /\ shift => Held \/ fakes # {}

\* A character typed once the system runs makes the loop take a character:
\* it is not left in the ring by a hlt that comes after its interrupt.
KeysArrive == owed ~> ~owed
=============================================================================
