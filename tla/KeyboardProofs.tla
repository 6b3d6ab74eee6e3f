--------------------------- MODULE KeyboardProofs ---------------------------
(***************************************************************************)
(* For every set of keys, every size of the ring and any amount of typing: *)
(* that the ring is a bounded FIFO wherever the interrupt comes, the types,*)
(* that no byte waits without its interrupt once the keyboard is routed,   *)
(* that shift does not stick, and that what the polling loop takes is what *)
(* the user typed, in order and in the case it was typed in.               *)
(***************************************************************************)
EXTENDS Keyboard, SequenceTheorems, TLAPS

-----------------------------------------------------------------------------
(* The ring: the types, the safety of an interrupted poll, and that it is  *)
(* the bounded FIFO KeyQueue, for every size and every set of characters.  *)

\* Whatever the interrupt does between its steps, a poll that found a
\* character still finds one, and hands out the one it loaded.
PollSafe ==
  /\ pc = "test" /\ h # qt => qh # qt
  /\ pc \in {"load", "store"} => qh # qt
  /\ pc = "store" => c = q[qt]

RingInv == RingTypeOK /\ PollSafe

-----------------------------------------------------------------------------
(* The arithmetic of the indices. *)

LEMMA SuccType == ASSUME NEW i \in 0 .. Size - 1 PROVE Succ(i) \in 0 .. Size - 1
BY RingConstantsOK DEF Succ

\* The count is 0 exactly when the indices meet, and Size - 1 exactly when
\* the next push would make them meet.
LEMMA CountBounds ==
  ASSUME RingTypeOK
  PROVE  /\ Count \in 0 .. Size - 1
         /\ Count = 0 <=> qh = qt
         /\ Count = Size - 1 <=> Succ(qh) = qt
BY RingConstantsOK DEF RingTypeOK, Count, Succ

\* The oldest character is at qt, the next one goes to qh, and no character
\* in the ring is there.
LEMMA SlotBounds ==
  ASSUME RingTypeOK
  PROVE  /\ \A k \in 1 .. Size : Slot(k) \in 0 .. Size - 1
         /\ Slot(1) = qt
         /\ Slot(Count + 1) = qh
         /\ \A k \in 1 .. Count : Slot(k) # qh
BY RingConstantsOK DEF RingTypeOK, Count, Slot

\* The contents are a sequence as long as the count.
LEMMA ContentsType ==
  ASSUME RingTypeOK
  PROVE  Contents \in Seq(Char \cup {NoKey}) /\ Len(Contents) = Count
<1>1. Count \in Nat /\ Count <= Size
  BY CountBounds, RingConstantsOK
<1>2. Contents \in [1 .. Count -> Char \cup {NoKey}]
  BY <1>1, SlotBounds, RingConstantsOK DEF Contents, RingTypeOK
<1>3. Contents \in Seq(Char \cup {NoKey})
  BY <1>1, <1>2
<1>4. DOMAIN Contents = 1 .. Count /\ DOMAIN Contents = 1 .. Len(Contents)
  BY <1>2, <1>3, LenProperties
<1>5. Len(Contents) \in Nat
  BY <1>3, LenProperties
<1> QED
  BY <1>1, <1>3, <1>4, <1>5

-----------------------------------------------------------------------------
(* What a push and a pop do to the contents. *)

LEMMA PushContents ==
  ASSUME RingTypeOK, NEW ch \in Char, qpush(ch), RingTypeOK'
  PROVE  Contents' = IF Len(Contents) < Size - 1 THEN Append(Contents, ch) ELSE Contents
<1>1. CASE Succ(qh) # qt
  <2>1. /\ qt' = qt /\ qh' = Succ(qh) /\ q' = [q EXCEPT ![qh] = ch]
        /\ Len(Contents) < Size - 1 /\ Len(Contents) = Count
    BY <1>1, CountBounds, ContentsType, RingConstantsOK DEF qpush
  <2>2. Count' = Count + 1
    BY <1>1, <2>1, RingConstantsOK DEF RingTypeOK, Count, Succ
  <2>3. \A k \in 1 .. Count' : Contents'[k] = IF k = Count + 1 THEN ch ELSE Contents[k]
    <3> SUFFICES ASSUME NEW k \in 1 .. Count + 1
                 PROVE  q'[Slot(k)'] = IF k = Count + 1 THEN ch ELSE q[Slot(k)]
      BY <2>2, CountBounds DEF Contents
    <3>1. Slot(k)' = Slot(k)
      BY <2>1 DEF Slot
    <3>2. Slot(k) \in 0 .. Size - 1
      BY <2>1, SlotBounds, CountBounds, RingConstantsOK
    <3>3. k = Count + 1 <=> Slot(k) = qh
      BY SlotBounds, CountBounds
    <3> QED
      BY <2>1, <3>1, <3>2, <3>3 DEF RingTypeOK
  <2>4. /\ Contents' \in Seq(Char \cup {NoKey}) /\ Len(Contents') = Count + 1
    <3>1. RingTypeOK' => (Contents \in Seq(Char \cup {NoKey}) /\ Len(Contents) = Count)'
      BY ContentsType, PTL
    <3> QED
      BY <2>2, <3>1
  <2>5. Contents' = Append(Contents, ch)
    BY <2>1, <2>2, <2>3, <2>4, ContentsType, AppendProperties, SeqEqual, CountBounds
  <2> QED
    BY <2>1, <2>5
<1>2. CASE Succ(qh) = qt
  <2>1. Contents' = Contents
    BY <1>2 DEF qpush, Contents, Count, Slot
  <2>2. Len(Contents) = Size - 1
    BY <1>2, CountBounds, ContentsType
  <2> QED
    BY <2>1, <2>2, RingConstantsOK
<1> QED
  BY <1>1, <1>2

LEMMA PopContents ==
  ASSUME RingTypeOK, qh # qt, qt' = Succ(qt), UNCHANGED <<q, qh>>, RingTypeOK'
  PROVE  Contents # <<>> /\ Head(Contents) = q[qt] /\ Contents' = Tail(Contents)
<1> DEFINE S == Char \cup {NoKey}
<1>1. Count # 0 /\ Count \in Nat /\ Count' = Count - 1
  BY CountBounds, RingConstantsOK DEF RingTypeOK, Count, Succ
<1>2. Contents \in Seq(S) /\ Len(Contents) = Count
  BY ContentsType
<1>3. Contents' \in Seq(S) /\ Len(Contents') = Count - 1
  <2>1. RingTypeOK' => (Contents \in Seq(S) /\ Len(Contents) = Count)'
    BY ContentsType, PTL
  <2> QED
    BY <1>1, <2>1
<1>4. Contents # <<>>
  BY <1>1, <1>2, EmptySeq
<1>5. Head(Contents) = q[qt]
  <2>1. Contents[1] = q[Slot(1)]
    BY <1>1, CountBounds DEF Contents
  <2>2. Head(Contents) = Contents[1]
    BY <1>2, <1>4
  <2> QED
    BY <2>1, <2>2, SlotBounds
<1>6. /\ Tail(Contents) \in Seq(S) /\ Len(Tail(Contents)) = Count - 1
      /\ \A i \in 1 .. Count - 1 : Tail(Contents)[i] = Contents[i + 1]
  BY <1>2, <1>4, HeadTailProperties
<1>7. \A k \in 1 .. Count - 1 : Contents'[k] = Contents[k + 1]
  <2> SUFFICES ASSUME NEW k \in 1 .. Count - 1
               PROVE  q'[Slot(k)'] = q[Slot(k + 1)]
    BY <1>1 DEF Contents
  <2>1. Slot(k)' = Slot(k + 1)
    BY CountBounds, RingConstantsOK DEF RingTypeOK, Slot, Succ
  <2> QED
    BY <2>1
<1>8. Contents' = Tail(Contents)
  BY <1>3, <1>6, <1>7, SeqEqual, Zenon
<1> QED
  BY <1>4, <1>5, <1>8

-----------------------------------------------------------------------------
(* The invariant. *)

LEMMA RingInitially == RingInit => RingInv
BY RingConstantsOK DEF RingInit, RingInv, RingTypeOK, PollSafe

LEMMA RingKeeps == RingInv /\ [RingNext]_ringVars => RingInv'
<1> SUFFICES ASSUME RingInv, [RingNext]_ringVars PROVE RingInv'
  OBVIOUS
<1> USE RingConstantsOK DEF RingInv, RingTypeOK, ring, getch
<1>1. CASE Interrupt
  <2>1. PICK ch \in Char : qpush(ch) /\ UNCHANGED getch
    BY <1>1 DEF Interrupt
  <2>2. Succ(qh) \in 0 .. Size - 1
    BY SuccType
  <2>3. RingTypeOK'
    BY <2>1, <2>2 DEF qpush
  <2>4. PollSafe'
    <3>1. (pc = "test" /\ h # qt) \/ pc \in {"load", "store"} =>
            qh # qt /\ qh' # qt /\ q'[qt] = q[qt]
      BY <2>1 DEF PollSafe, qpush
    <3> QED
      BY <2>1, <3>1 DEF PollSafe, qpush
  <2> QED
    BY <2>3, <2>4
<1>2. CASE ReadHead
  BY <1>2 DEF ReadHead, PollSafe
<1>3. CASE Test
  BY <1>3 DEF Test, PollSafe
<1>4. CASE Load
  BY <1>4 DEF Load, PollSafe
<1>5. CASE Store
  BY <1>5, SuccType DEF Store, PollSafe
<1>6. CASE UNCHANGED ringVars
  BY <1>6 DEF ringVars, PollSafe
<1> QED
  BY <1>1, <1>2, <1>3, <1>4, <1>5, <1>6 DEF RingNext, Poll

\* The types, and an interrupt between the steps of a poll never takes away
\* or overwrites the character the poll is about to return.
THEOREM RingInvariant == RingSpec => []RingInv
BY RingInitially, RingKeeps, PTL DEF RingSpec

\* An interrupt between the steps of kbd_getch is harmless, in a ring of any
\* size.
THEOREM PollIsSafe == RingSpec => []PollSafe
<1>1. RingInv => PollSafe
  BY DEF RingInv
<1> QED
  BY <1>1, RingInvariant, PTL

-----------------------------------------------------------------------------
(* The refinement. *)

\* A push is an offer, ReadHead may be a miss, Store is a take, and every
\* other step leaves the abstract queue alone.
LEMMA RingRefines ==
  ASSUME RingInv, RingInv', [RingNext]_ringVars
  PROVE  [Queue!Next]_(Queue!vars)
<1> DEFINE absOut == IF pc = "test" /\ h = qt THEN NoKey ELSE out
<1>0. RingTypeOK /\ RingTypeOK' /\ PollSafe
  BY DEF RingInv
<1>1. CASE Interrupt
  <2>1. PICK ch \in Char : qpush(ch) /\ UNCHANGED getch
    BY <1>1 DEF Interrupt
  <2>2. absOut' = absOut
    BY <2>1 DEF qpush, getch
  <2>3. Contents' = IF Len(Contents) < Size - 1 THEN Append(Contents, ch) ELSE Contents
    BY <1>0, <2>1, PushContents
  <2> QED
    BY <2>2, <2>3 DEF Queue!Next, Queue!Offer
<1>2. CASE ReadHead
  <2>1. Contents' = Contents
    BY <1>2 DEF ReadHead, ring, Contents, Count, Slot
  <2>2. CASE qh = qt
    <3>1. Contents = <<>>
      BY <1>0, <2>2, CountBounds, ContentsType, EmptySeq
    <3>2. absOut' = NoKey
      BY <1>2, <2>2 DEF ReadHead, ring
    <3> QED
      BY <2>1, <3>1, <3>2 DEF Queue!Next, Queue!Miss
  <2>3. CASE qh # qt
    BY <1>2, <2>1, <2>3 DEF ReadHead, ring, Queue!vars
  <2> QED
    BY <2>2, <2>3
<1>3. CASE Test \/ Load
  <2>1. Contents' = Contents /\ absOut' = absOut
    BY <1>3 DEF Test, Load, ring, Contents, Count, Slot
  <2> QED
    BY <2>1 DEF Queue!vars
<1>4. CASE Store
  <2>1. qh # qt /\ c = q[qt]
    BY <1>0, <1>4 DEF Store, PollSafe
  <2>2. /\ Contents # <<>> /\ Head(Contents) = q[qt]
        /\ Contents' = Tail(Contents)
    BY <1>0, <1>4, <2>1, PopContents DEF Store
  <2>3. absOut' = q[qt]
    BY <1>4, <2>1 DEF Store
  <2> QED
    BY <2>2, <2>3 DEF Queue!Next, Queue!Take
<1>5. CASE UNCHANGED ringVars
  <2>1. Contents' = Contents /\ absOut' = absOut
    BY <1>5 DEF ringVars, ring, getch, Contents, Count, Slot
  <2> QED
    BY <2>1 DEF Queue!vars
<1> QED
  BY <1>1, <1>2, <1>3, <1>4, <1>5 DEF RingNext, Poll

\* kbd.c's lock-free ring is a bounded FIFO, whatever its size and whenever
\* the interrupt comes.
THEOREM RingImplementsQueue == RingSpec => ImplementsKeyQueue
<1>1. RingInit => Queue!Init
  <2> SUFFICES ASSUME RingInit PROVE Queue!Init
    OBVIOUS
  <2>1. Contents = <<>>
    <3>1. RingTypeOK
      BY RingInitially DEF RingInv
    <3>2. Count = 0
      BY DEF RingInit, Count
    <3> QED
      BY <3>1, <3>2, ContentsType, EmptySeq
  <2> QED
    BY <2>1 DEF RingInit, Queue!Init
<1>2. RingInv /\ RingInv' /\ [RingNext]_ringVars => [Queue!Next]_(Queue!vars)
  BY RingRefines
<1> QED
  BY <1>1, <1>2, RingInvariant, PTL DEF RingSpec, ImplementsKeyQueue, Queue!Spec

-----------------------------------------------------------------------------
(* The rest of the state. *)

StateTypes ==
  /\ down \subseteq Keys /\ fakes \subseteq down \cap ExtKeys /\ presses \in 0 .. MaxPresses
  /\ fifo \in Seq(Bytes) /\ Len(fifo) <= FifoSize
  /\ ob \in Seq(Bytes) /\ Len(ob) <= 1
  /\ stage \in {"drain", "route", "timer", "sti", "run"}
  /\ irr \in BOOLEAN /\ shift \in BOOLEAN /\ caps \in BOOLEAN /\ asleep \in BOOLEAN
  /\ capsOn \in BOOLEAN /\ clean \in BOOLEAN /\ owed \in BOOLEAN
  /\ loop \in {"poll", "got"}
  /\ typed \in Seq(Char) /\ got \in Seq(Char)

TypeInv == StateTypes /\ RingInv

LEMMA Typed == TypeInv => TypeOK
BY DEF TypeInv, StateTypes, TypeOK, RingInv

-----------------------------------------------------------------------------
(* StateTypes. *)

LEMMA TypesInitially == Init => TypeInv
<1> SUFFICES ASSUME Init PROVE TypeInv
  OBVIOUS
<1>1. RingInv
  BY RingInitially, RingConstantsOK DEF Init
<1>2. <<>> \in Seq(Bytes) /\ Len(<<>>) = 0 /\ <<>> \in Seq(Char)
  OBVIOUS
<1>3. 0 \in 0 .. MaxPresses /\ 0 <= FifoSize
  BY KeyboardConstantsOK
<1>4. /\ fifo \in Seq(Bytes) /\ Len(fifo) <= FifoSize /\ ob \in Seq(Bytes) /\ Len(ob) <= 1
      /\ typed \in Seq(Char) /\ got \in Seq(Char)
  BY <1>2, <1>3 DEF Init
<1>5. StateTypes
  BY <1>3, <1>4 DEF Init, StateTypes
<1> QED
  BY <1>1, <1>5 DEF TypeInv

LEMMA CharTyped ==
  ASSUME StateTypes, NEW k \in Letters \cup Symbols
  PROVE  CharOf(k) \in Char /\ Intended(k) \in Char
<1>1. (IF k \in Letters THEN shift # caps ELSE shift) \in BOOLEAN
  BY DEF StateTypes
<1>2. (IF k \in Letters THEN Held # capsOn ELSE Held) \in BOOLEAN
  BY DEF Held
<1> QED
  BY <1>1, <1>2, KeyboardConstantsOK DEF CharOf, Intended

\* The byte at the head of what waits.
LEMMA ByteOut ==
  ASSUME NEW s \in Seq(Bytes), s # <<>>
  PROVE  /\ Head(s) \in Bytes /\ s[1] \in Bytes /\ s[1] = Head(s)
         /\ Tail(s) \in Seq(Bytes) /\ Len(Tail(s)) = Len(s) - 1
         /\ s[1].key \in Keys \cup {E0} /\ s[1].rel \in BOOLEAN
<1>1. Len(s) \in Nat /\ Len(s) >= 1
  BY EmptySeq
<1>2. s[1] \in Bytes /\ s[1] = Head(s)
  BY <1>1
<1> QED
  BY <1>1, <1>2 DEF Bytes

\* The keys that do nothing are none of the others.
LEMMA KeysApart ==
  /\ \A k \in ExtKeys : k \notin Letters \cup Symbols /\ k \notin Shifts /\ k # CapsKey
  /\ E0 \notin Letters \cup Symbols /\ E0 \notin Shifts /\ E0 # CapsKey
BY KeyboardConstantsOK DEF Keys

LEMMA HeldType == Held \in BOOLEAN /\ (~Held) \in BOOLEAN
BY DEF Held

LEMMA Pairs ==
  ASSUME NEW S, NEW a \in S, NEW b \in S
  PROVE  <<a>> \in Seq(S) /\ <<b>> \in Seq(S) /\ <<a, b>> \in Seq(S) /\ <<a>> \o <<b>> = <<a, b>>
<1>1. <<a>> \in Seq(S) /\ <<b>> \in Seq(S) /\ <<a, b>> \in Seq(S)
  OBVIOUS
<1>2. <<a>> \o <<b>> \in Seq(S) /\ Len(<<a>> \o <<b>>) = 2 /\ Len(<<a, b>>) = 2
  BY <1>1
<1>3. \A i \in 1 .. 2 : (<<a>> \o <<b>>)[i] = <<a, b>>[i]
  BY <1>1
<1>4. <<a>> \o <<b>> = <<a, b>>
  BY <1>1, <1>2, <1>3, SeqEqual
<1> QED
  BY <1>1, <1>4

LEMMA CodesTyped ==
  ASSUME NEW k \in Keys, NEW rel \in BOOLEAN
  PROVE  /\ Code(k, rel) \in Bytes /\ Code(E0, FALSE) \in Bytes
         /\ Codes(k, rel) \in Seq(Bytes)
<1>1. Code(k, rel) \in Bytes /\ Code(E0, FALSE) \in Bytes
  BY DEF Bytes, Code
<1>2. <<Code(k, rel)>> \in Seq(Bytes) /\ <<Code(E0, FALSE), Code(k, rel)>> \in Seq(Bytes)
  BY <1>1, Pairs
<1> QED
  BY <1>1, <1>2 DEF Codes

LEMMA FakeTyped ==
  ASSUME NEW rel \in BOOLEAN
  PROVE  /\ FakeShift(rel) \in Seq(Bytes)
         /\ \E f \in Shifts : FakeShift(rel) = <<Code(E0, FALSE), Code(f, rel)>> /\ Code(f, rel) \in Bytes
<1> DEFINE f == CHOOSE k \in Shifts : TRUE
<1>1. f \in Shifts
  BY KeyboardConstantsOK
<1>2. Code(f, rel) \in Bytes /\ Code(E0, FALSE) \in Bytes
  BY <1>1, CodesTyped DEF Keys
<1>3. FakeShift(rel) = <<Code(E0, FALSE), Code(f, rel)>>
  BY DEF FakeShift
<1> HIDE DEF f
<1>4. FakeShift(rel) \in Seq(Bytes)
  BY <1>2, <1>3, Pairs
<1> QED
  BY <1>1, <1>2, <1>3, <1>4

\* What the keyboard sends for a key, with or without a fake shift.
LEMMA UserStep ==
  ASSUME StateTypes, NEW k \in Keys, Press(k) \/ Repeat(k) \/ Release(k)
  PROVE  \E rel \in BOOLEAN : \E t \in Seq(Bytes) :
           /\ Send(t)
           /\ ~rel => down' = down \cup {k} /\ Types(k)
           /\ rel => k \in down /\ down' = down \ {k} /\ typed' = typed /\ clean' = clean
           /\ capsOn' = IF k = CapsKey /\ ~rel THEN ~capsOn ELSE capsOn
           /\ \/ fakes' = fakes /\ t = Codes(k, rel)
              \/ k \in ExtKeys /\ ~rel /\ fakes' = fakes \cup {k} /\ t = FakeShift(Held) \o Codes(k, rel)
              \/ k \in fakes /\ rel /\ fakes' = fakes \ {k} /\ t = Codes(k, rel) \o FakeShift(~Held)
<1>1. \A rel \in BOOLEAN : Codes(k, rel) \in Seq(Bytes)
  BY CodesTyped
<1>2. /\ FakeShift(Held) \o Codes(k, FALSE) \in Seq(Bytes)
      /\ Codes(k, TRUE) \o FakeShift(~Held) \in Seq(Bytes)
  <2>1. Held \in BOOLEAN /\ (~Held) \in BOOLEAN
    BY HeldType
  <2>2. FakeShift(Held) \in Seq(Bytes) /\ FakeShift(~Held) \in Seq(Bytes)
    BY <2>1, FakeTyped
  <2> QED
    BY <1>1, <2>2, ConcatProperties
<1>3. CASE Press(k)
  <2>1. CASE Send(Codes(k, FALSE)) /\ UNCHANGED fakes
    BY <1>1, <1>3, <2>1 DEF Press
  <2>2. CASE k \in ExtKeys /\ Send(FakeShift(Held) \o Codes(k, FALSE)) /\ fakes' = fakes \cup {k}
    BY <1>2, <1>3, <2>2 DEF Press
  <2> QED
    BY <1>3, <2>1, <2>2 DEF Press
<1>4. CASE Repeat(k)
  <2>1. down' = down \cup {k} /\ capsOn' = capsOn /\ k # CapsKey /\ fakes' = fakes
    BY <1>4 DEF Repeat
  <2> QED
    BY <1>1, <1>4, <2>1 DEF Repeat
<1>5. CASE Release(k)
  <2>1. /\ k \in down /\ down' = down \ {k} /\ fakes' = fakes \ {k}
        /\ typed' = typed /\ clean' = clean /\ capsOn' = capsOn
    BY <1>5 DEF Release, hist
  <2>2. CASE k \in fakes
    BY <1>2, <1>5, <2>1, <2>2 DEF Release
  <2>3. CASE k \notin fakes
    <3>1. fakes' = fakes
      BY <2>1, <2>3
    <3> QED
      BY <1>1, <1>5, <2>1, <2>3, <3>1 DEF Release
  <2> QED
    BY <2>2, <2>3
<1> QED
  BY <1>3, <1>4, <1>5

LEMMA UserTypes ==
  ASSUME StateTypes, NEW k \in Keys, Press(k) \/ Repeat(k) \/ Release(k)
  PROVE  StateTypes'
<1>1. PICK rel \in BOOLEAN, t \in Seq(Bytes) :
        /\ Send(t)
        /\ ~rel => down' = down \cup {k}
        /\ rel => down' = down \ {k}
        /\ \/ fakes' = fakes /\ t = Codes(k, rel)
           \/ k \in ExtKeys /\ ~rel /\ fakes' = fakes \cup {k} /\ t = FakeShift(Held) \o Codes(k, rel)
           \/ k \in fakes /\ rel /\ fakes' = fakes \ {k} /\ t = Codes(k, rel) \o FakeShift(~Held)
  BY UserStep
<1>2. fifo' \in Seq(Bytes) /\ Len(fifo') <= FifoSize
  <2>1. fifo' = fifo \o t /\ Len(fifo) + Len(t) <= FifoSize /\ fifo \in Seq(Bytes)
    BY <1>1 DEF Send, StateTypes
  <2> QED
    BY <2>1, ConcatProperties
<1>3. Types(k) => typed' \in Seq(Char) /\ owed' \in BOOLEAN /\ clean' \in BOOLEAN
  <2>1. CASE k \in Letters \cup Symbols
    <3>1. Intended(k) \in Char /\ typed \in Seq(Char)
      BY <2>1, CharTyped DEF StateTypes
    <3>2. Append(typed, Intended(k)) \in Seq(Char)
      BY <3>1
    <3> QED
      BY <2>1, <3>2 DEF Types, StateTypes
  <2>2. CASE k \notin Letters \cup Symbols
    BY <2>2 DEF Types, StateTypes
  <2> QED
    BY <2>1, <2>2
<1>4. presses < MaxPresses => presses + 1 \in 0 .. MaxPresses
  BY KeyboardConstantsOK DEF StateTypes
<1>5. down' \subseteq Keys /\ fakes' \subseteq ExtKeys
  BY <1>1 DEF StateTypes
<1>6. CASE Press(k)
  <2>1. capsOn' \in BOOLEAN /\ fakes' \subseteq down'
    BY <1>6 DEF Press, StateTypes
  <2> QED
    BY <1>2, <1>3, <1>4, <1>5, <1>6, <2>1 DEF Press, StateTypes, ring, getch, main
<1>7. CASE Repeat(k)
  BY <1>2, <1>3, <1>4, <1>5, <1>7 DEF Repeat, StateTypes, ring, getch, main
<1>8. CASE Release(k)
  BY <1>2, <1>5, <1>8 DEF Release, StateTypes, hist, ring, getch, main
<1> QED
  BY <1>6, <1>7, <1>8

LEMMA HardwareTypes ==
  ASSUME StateTypes, Deliver \/ Drain \/ BootStep \/ isr_lapic_timer
  PROVE  StateTypes'
<1>1. CASE Deliver
  <2>1. /\ Tail(fifo) \in Seq(Bytes) /\ Len(Tail(fifo)) = Len(fifo) - 1
        /\ <<Head(fifo)>> \in Seq(Bytes) /\ Len(<<Head(fifo)>>) = 1
    BY <1>1, ByteOut DEF Deliver, StateTypes
  <2>2. Len(fifo) - 1 <= FifoSize
    BY KeyboardConstantsOK DEF StateTypes
  <2>3. irr' \in BOOLEAN /\ ob' = <<Head(fifo)>> /\ fifo' = Tail(fifo)
    BY <1>1 DEF Deliver, Routed, StateTypes
  <2>4. ob' \in Seq(Bytes) /\ Len(ob') <= 1 /\ fifo' \in Seq(Bytes) /\ Len(fifo') <= FifoSize
    BY <2>1, <2>2, <2>3 DEF StateTypes
  <2>5. UNCHANGED <<down, presses, fakes, stage, shift, caps, loop, asleep, capsOn, typed, got, clean, owed>>
    BY <1>1 DEF Deliver, user, main, hist
  <2>6. irr' \in BOOLEAN
    BY <2>3
  <2> QED
    BY <2>4, <2>5, <2>6 DEF StateTypes
<1>2. CASE Drain
  <2>1. ob' \in Seq(Bytes) /\ Len(ob') <= 1
    <3>1. ob' = <<>> \/ ob' = ob
      BY <1>2 DEF Drain
    <3>2. <<>> \in Seq(Bytes) /\ Len(<<>>) <= 1
      OBVIOUS
    <3> QED
      BY <3>1, <3>2 DEF StateTypes
  <2>2. stage' \in {"drain", "route"} /\ clean' \in BOOLEAN
    BY <1>2 DEF Drain, StateTypes
  <2>3. UNCHANGED <<down, presses, fakes, fifo, irr, shift, caps, loop, asleep, capsOn, typed, got, owed>>
    BY <1>2 DEF Drain, user, main
  <2> QED
    BY <2>1, <2>2, <2>3 DEF StateTypes
<1>3. CASE BootStep
  BY <1>3 DEF BootStep, StateTypes, user, line, ring, getch, main, hist
<1>4. CASE isr_lapic_timer
  BY <1>4 DEF isr_lapic_timer, StateTypes, user, line, ring, getch, main, hist
<1> QED
  BY <1>1, <1>2, <1>3, <1>4

LEMMA InterruptTypes ==
  ASSUME StateTypes, isr_kbd
  PROVE  StateTypes'
<1>1. CASE ob # <<>>
  <2>1. ob[1].rel \in BOOLEAN /\ ob' = <<>> /\ Decode(ob[1])
    BY <1>1, ByteOut DEF isr_kbd, StateTypes
  <2>2. shift' \in BOOLEAN /\ caps' \in BOOLEAN
    BY <2>1 DEF Decode, StateTypes
  <2>3. clean' \in BOOLEAN
    BY <2>1 DEF Decode, StateTypes
  <2>4. ob' \in Seq(Bytes) /\ Len(ob') <= 1
    BY <2>1
  <2> QED
    BY <2>2, <2>3, <2>4 DEF isr_kbd, StateTypes, user, getch
<1>2. CASE ob = <<>>
  BY <1>2 DEF isr_kbd, StateTypes, user, getch
<1> QED
  BY <1>1, <1>2

LEMMA MainTypes ==
  ASSUME TypeInv, Main
  PROVE  StateTypes'
<1>1. CASE kbd_getch
  BY <1>1 DEF kbd_getch, TypeInv, StateTypes, user, line, hist
<1>2. CASE Hlt
  BY <1>2 DEF Hlt, TypeInv, StateTypes, user, line, ring, getch, hist
<1>3. CASE TakeKey
  <2>1. out \in Char
    BY <1>3 DEF TakeKey, TypeInv, RingInv, RingTypeOK
  <2>2. got' \in Seq(Char)
    BY <1>3, <2>1 DEF TakeKey, TypeInv, StateTypes
  <2> QED
    BY <1>3, <2>2 DEF TakeKey, TypeInv, StateTypes, user, line, ring, getch
<1> QED
  BY <1>1, <1>2, <1>3 DEF Main

\* To the ring, the rest of the system is characters that come and polls.
LEMMA RingSteps ==
  ASSUME StateTypes, [Next]_vars
  PROVE  [RingNext]_ringVars
<1>1. CASE isr_kbd
  <2>1. UNCHANGED getch
    BY <1>1 DEF isr_kbd
  <2>2. CASE UNCHANGED ring
    BY <2>1, <2>2 DEF ring, getch, ringVars, ring, getch
  <2>3. CASE ~UNCHANGED ring
    <3>1. ob # <<>> /\ Decode(ob[1])
      BY <1>1, <2>3 DEF isr_kbd, ring
    <3>2. ob[1].key \in Letters \cup Symbols /\ qpush(CharOf(ob[1].key))
      BY <2>3, <3>1 DEF Decode, ring
    <3>3. qpush(CharOf(ob[1].key)) /\ CharOf(ob[1].key) \in Char
      BY <3>2, CharTyped
    <3> QED
      BY <2>1, <3>3 DEF getch, RingNext, Interrupt, getch
  <2> QED
    BY <2>2, <2>3
<1>2. CASE kbd_getch
  BY <1>2 DEF kbd_getch, RingNext
<1>3. CASE User \/ Deliver \/ Drain \/ BootStep \/ isr_lapic_timer \/ Hlt \/ TakeKey \/ UNCHANGED vars
  <2>1. UNCHANGED <<ring, getch>>
    BY <1>3 DEF User, Press, Repeat, Release, Deliver, Drain, BootStep, isr_lapic_timer, Hlt, TakeKey, vars
  <2> QED
    BY <2>1 DEF ring, getch, ringVars, ring, getch
<1> QED
  BY <1>1, <1>2, <1>3 DEF Next, Main

LEMMA NextTypes == TypeInv /\ [Next]_vars => TypeInv'
<1> SUFFICES ASSUME TypeInv, [Next]_vars PROVE TypeInv'
  OBVIOUS
<1>1. RingInv'
  BY RingSteps, RingKeeps DEF TypeInv
<1>2. CASE User
  BY <1>1, <1>2, UserTypes DEF User, TypeInv
<1>3. CASE UNCHANGED vars
  BY <1>1, <1>3 DEF vars, user, line, ring, getch, main, hist, TypeInv, StateTypes
<1> QED
  BY <1>1, <1>2, <1>3, HardwareTypes, InterruptTypes, MainTypes DEF Next, TypeInv

LEMMA TypeInvariance == Spec => []TypeInv
BY TypesInitially, NextTypes, PTL DEF Spec

\* In the running system, too, the interrupt handler and the polling loop do
\* to the ring only what the ring allows, so it is the FIFO there.
THEOREM KeyboardFillsQueue == Spec => ImplementsKeyQueue
<1>1. Init => RingInit
  BY DEF Init
<1>2. TypeInv /\ [Next]_vars => [RingNext]_ringVars
  BY RingSteps DEF TypeInv
<1>3. Spec => RingSpec
  BY <1>1, <1>2, TypeInvariance, PTL DEF Spec, RingSpec
<1> QED
  BY <1>3, RingImplementsQueue

\* A character is never taken for the -1 of an empty poll, nor a byte decoded
\* to anything but a key (kbd.c:60-96), for every set of keys and ring size.
THEOREM KeyboardTypes == Spec => []TypeOK
BY Typed, TypeInvariance, PTL

-----------------------------------------------------------------------------
(* The interrupt of a waiting byte. *)

\* No byte comes between the drain and the routing, unless it may.
EdgeInv == (stage = "route" => ob = <<>>) /\ EdgePending

LEMMA NextEdge == ~WindowKeys /\ TypeInv /\ EdgeInv /\ [Next]_vars => EdgeInv'
<1> SUFFICES ASSUME ~WindowKeys, TypeInv, EdgeInv, [Next]_vars PROVE EdgeInv'
  OBVIOUS
<1>1. CASE Deliver
  BY <1>1 DEF Deliver, EdgeInv, EdgePending, Routed
<1>2. CASE Drain
  BY <1>2 DEF Drain, EdgeInv, EdgePending, Routed
<1>3. CASE BootStep
  BY <1>3 DEF BootStep, line, EdgeInv, EdgePending, Routed
<1>4. CASE isr_kbd
  BY <1>4 DEF isr_kbd, EdgeInv, EdgePending, Routed
<1>5. CASE User \/ isr_lapic_timer \/ Main \/ UNCHANGED vars
  <2>1. UNCHANGED <<ob, irr, stage>>
    BY <1>5 DEF User, Press, Repeat, Release, isr_lapic_timer, Main, kbd_getch, Hlt, TakeKey, vars, line
  <2> QED
    BY <2>1 DEF EdgeInv, EdgePending, Routed
<1> QED
  BY <1>1, <1>2, <1>3, <1>4, <1>5 DEF Next

\* Once the keyboard is routed, a byte in the output buffer has its interrupt
\* pending (kernel.c's drain before ioapic_route_gsi, kbd_irq's one read per
\* interrupt), if no byte comes between the two boot steps.
THEOREM NoByteForgotten ==
  ASSUME ~WindowKeys
  PROVE  Spec => []EdgePending
<1>1. Init => EdgeInv
  BY DEF Init, EdgeInv, EdgePending
<1>2. EdgeInv => EdgePending
  BY DEF EdgeInv
<1>3. TypeInv /\ EdgeInv /\ [Next]_vars => EdgeInv'
  BY NextEdge
<1> QED
  BY <1>1, <1>2, <1>3, TypeInvariance, PTL DEF Spec

-----------------------------------------------------------------------------
(* What the keyboard has sent and the handler has not decoded. *)

Pending == ob \o fifo

LEMMA PendingType ==
  ASSUME StateTypes
  PROVE  /\ Pending \in Seq(Bytes) /\ Len(Pending) \in Nat
         /\ ob = <<>> /\ fifo = <<>> => Pending = <<>> /\ Len(Pending) = 0
         /\ \A i \in 1 .. Len(Pending) : Pending[i] \in Bytes
BY DEF StateTypes, Pending

\* What is sent comes behind what is pending, one byte after the other.
LEMMA SentPending ==
  ASSUME StateTypes, NEW t \in Seq(Bytes), Send(t), ob' = ob
  PROVE  Pending' = Pending \o t
<1>1. fifo' = fifo \o t /\ fifo \in Seq(Bytes) /\ ob \in Seq(Bytes)
  BY DEF Send, StateTypes
<1> QED
  BY <1>1, ConcatAssociative DEF Pending

LEMMA ByteByByte ==
  ASSUME NEW P \in Seq(Bytes), NEW a \in Bytes, NEW b \in Bytes
  PROVE  /\ P \o <<a>> = Append(P, a)
         /\ P \o <<a, b>> = Append(Append(P, a), b)
         /\ Append(P, a) \in Seq(Bytes) /\ Append(Append(P, a), b) \in Seq(Bytes)
<1>1. P \o <<a>> = Append(P, a) /\ Append(P, a) \in Seq(Bytes)
  OBVIOUS
<1>2. <<a>> \in Seq(Bytes) /\ <<b>> \in Seq(Bytes) /\ <<a>> \o <<b>> = <<a, b>>
  BY Pairs
<1>3. (P \o <<a>>) \o <<b>> = P \o <<a, b>>
  <2>1. PICK x \in Seq(Bytes), y \in Seq(Bytes) : x = <<a>> /\ y = <<b>>
    BY <1>2, Zenon
  <2>2. (P \o x) \o y = P \o (x \o y)
    BY ConcatAssociative
  <2>3. P \o (x \o y) = P \o <<a, b>>
    BY <1>2, <2>1, Zenon
  <2> QED
    BY <2>1, <2>2, <2>3, Zenon
<1>4. Append(P, a) \o <<b>> = Append(Append(P, a), b) /\ Append(Append(P, a), b) \in Seq(Bytes)
  <2> DEFINE Q == Append(P, a)
  <2>1. Q \in Seq(Bytes)
    BY <1>1
  <2> HIDE DEF Q
  <2>2. Q \o <<b>> = Append(Q, b) /\ Append(Q, b) \in Seq(Bytes)
    BY <2>1
  <2> QED
    BY <2>2 DEF Q
<1> QED
  BY <1>1, <1>3, <1>4


LEMMA DeliveredPending ==
  ASSUME StateTypes, Deliver
  PROVE  Pending' = Pending
<1>1. fifo \in Seq(Bytes) /\ fifo # <<>> /\ ob = <<>> /\ ob' = <<Head(fifo)>> /\ fifo' = Tail(fifo)
  BY DEF Deliver, StateTypes
<1>2. <<Head(fifo)>> \o Tail(fifo) = fifo
  BY <1>1
<1>3. <<>> \o fifo = fifo
  BY <1>1
<1> QED
  BY <1>1, <1>2, <1>3 DEF Pending

LEMMA TakenPending ==
  ASSUME StateTypes, ob # <<>>, ob' = <<>>, fifo' = fifo
  PROVE  /\ Len(Pending) >= 1 /\ Pending[1] = ob[1] /\ ob[1] \in Bytes
         /\ Len(Pending') = Len(Pending) - 1
         /\ \A i \in 1 .. Len(Pending) - 1 : Pending'[i] = Pending[i + 1]
<1>1. fifo \in Seq(Bytes) /\ ob \in Seq(Bytes) /\ Len(ob) = 1 /\ ob[1] \in Bytes
  <2>1. fifo \in Seq(Bytes) /\ ob \in Seq(Bytes) /\ Len(ob) <= 1 /\ ob[1] \in Bytes
    BY ByteOut DEF StateTypes
  <2>2. Len(ob) \in Nat \ {0}
    BY <2>1, EmptySeq
  <2>3. Len(ob) = 1
    <3>1. Len(ob) <= 1
      BY <2>1
    <3>2. \A n \in Nat \ {0} : n <= 1 => n = 1
      OBVIOUS
    <3> QED
      BY <2>2, <3>1, <3>2, Zenon
  <2> QED
    BY <2>1, <2>3
<1>2. Pending' = fifo
  BY <1>1 DEF Pending
<1>3. Len(Pending) = Len(fifo) + 1 /\ Pending[1] = ob[1] /\ \A i \in 1 .. Len(fifo) : Pending[i + 1] = fifo[i]
  <2>0. /\ Len(ob \o fifo) = Len(ob) + Len(fifo)
        /\ \A i \in 1 .. Len(ob) + Len(fifo) :
             (ob \o fifo)[i] = IF i <= Len(ob) THEN ob[i] ELSE fifo[i - Len(ob)]
    BY <1>1, ConcatProperties, Zenon
  <2>1. /\ Len(Pending) = 1 + Len(fifo)
        /\ \A i \in 1 .. 1 + Len(fifo) : Pending[i] = IF i <= 1 THEN ob[i] ELSE fifo[i - 1]
    BY <1>1, <2>0 DEF Pending
  <2>2. Len(fifo) \in Nat
    BY <1>1
  <2> QED
    BY <2>1, <2>2
<1>4. Len(fifo) \in Nat
  BY <1>1
<1> QED
  BY <1>1, <1>2, <1>3, <1>4

LEMMA SamePending ==
  ASSUME UNCHANGED <<ob, fifo>>
  PROVE  Pending' = Pending
BY DEF Pending

-----------------------------------------------------------------------------
(* Shift. *)

ShiftPress(b)   == b.key \in Shifts /\ ~b.rel
ShiftRelease(b) == b.key \in Shifts /\ b.rel
ReleaseAfter(P, i) == \E j \in i + 1 .. Len(P) : ShiftRelease(P[j])

\* With the flag s and the bytes P to come: the flag, and every press that may
\* still set it, has a shift key held (held) or a release to come that clears it.
Unstuck(P, s, held) ==
  /\ \A i \in 1 .. Len(P) : ShiftPress(P[i]) => held \/ ReleaseAfter(P, i)
  /\ s => held \/ ReleaseAfter(P, 0)

ShiftInv ==
  /\ fakes = {} => Unstuck(Pending, shift, Held)
  /\ stage = "drain" => ~shift

\* A shift key that is held excuses everything, a release clears everything.
LEMMA UnstuckHeld == ASSUME NEW P, NEW s PROVE Unstuck(P, s, TRUE)
BY DEF Unstuck

LEMMA UnstuckCleared ==
  ASSUME NEW P \in Seq(Bytes), NEW b \in Bytes, ShiftRelease(b), NEW s, NEW held
  PROVE  Unstuck(Append(P, b), s, held)
<1> DEFINE Q == Append(P, b)
           n == Len(P)
<1>1. n \in Nat /\ Len(Q) = n + 1 /\ Q[n + 1] = b /\ \A i \in 1 .. n : Q[i] = P[i]
  BY AppendProperties
<1> HIDE DEF Q, n
<1>2. \A i \in 0 .. n : ReleaseAfter(Q, i)
  BY <1>1 DEF ReleaseAfter
<1>3. ~ShiftPress(Q[n + 1])
  BY <1>1 DEF ShiftPress, ShiftRelease
<1>4. \A i \in 1 .. n + 1 : i = n + 1 \/ i \in 0 .. n
  BY <1>1
<1>5. 0 \in 0 .. n
  BY <1>1
<1>6. Unstuck(Q, s, held)
  BY <1>1, <1>2, <1>3, <1>4, <1>5 DEF Unstuck
<1> QED
  BY <1>6 DEF Q

\* Any other byte clears nothing, and may only set the flag for a key held.
LEMMA UnstuckByte ==
  ASSUME NEW P \in Seq(Bytes), NEW b \in Bytes, NEW s, NEW held, NEW held1, Unstuck(P, s, held),
         held => held1, ShiftPress(b) => held1
  PROVE  Unstuck(Append(P, b), s, held1)
<1> DEFINE Q == Append(P, b)
           n == Len(P)
<1>1. n \in Nat /\ Len(Q) = n + 1 /\ Q[n + 1] = b /\ \A i \in 1 .. n : Q[i] = P[i]
  BY AppendProperties
<1>2. /\ \A i \in 1 .. n : ShiftPress(P[i]) => held \/ ReleaseAfter(P, i)
      /\ s => held \/ ReleaseAfter(P, 0)
  BY DEF Unstuck
<1> HIDE DEF Q
<1>3. \A i \in 0 .. n : ReleaseAfter(P, i) => ReleaseAfter(Q, i)
  BY <1>1 DEF ReleaseAfter
<1> HIDE DEF n
<1>4. \A i \in 1 .. n + 1 : i = n + 1 \/ (i \in 0 .. n /\ i \in 1 .. n)
  BY <1>1
<1>5. 0 \in 0 .. n
  BY <1>1
<1>6. Unstuck(Q, s, held1)
  BY <1>1, <1>2, <1>3, <1>4, <1>5 DEF Unstuck
<1> QED
  BY <1>6 DEF Q

LEMMA UnstuckSame ==
  ASSUME NEW P \in Seq(Bytes), NEW b \in Bytes, NEW s, NEW held, Unstuck(P, s, held), ~ShiftPress(b)
  PROVE  Unstuck(Append(P, b), s, held)
BY UnstuckByte

LEMMA SentShift ==
  ASSUME StateTypes, ShiftInv, NEW k \in Keys, Press(k) \/ Repeat(k) \/ Release(k)
  PROVE  ShiftInv'
<1> DEFINE P == Pending
<1>1. PICK rel \in BOOLEAN, t \in Seq(Bytes) :
        /\ Send(t)
        /\ ~rel => down' = down \cup {k}
        /\ rel => down' = down \ {k}
        /\ \/ fakes' = fakes /\ t = Codes(k, rel)
           \/ k \in ExtKeys /\ ~rel /\ fakes' = fakes \cup {k} /\ t = FakeShift(Held) \o Codes(k, rel)
           \/ k \in fakes /\ rel /\ fakes' = fakes \ {k} /\ t = Codes(k, rel) \o FakeShift(~Held)
  BY UserStep
<1>2. UNCHANGED <<ob, shift, stage>>
  BY DEF Press, Repeat, Release
<1>3. P' = P \o t /\ P \in Seq(Bytes)
  BY <1>1, <1>2, SentPending, PendingType
<1>4. /\ Code(k, rel) \in Bytes /\ Code(E0, FALSE) \in Bytes
      /\ Code(k, rel).key = k /\ Code(k, rel).rel = rel
      /\ ~ShiftPress(Code(E0, FALSE)) /\ (ShiftPress(Code(E0, FALSE)) => Held)
  BY CodesTyped, KeysApart DEF Code, ShiftPress
<1>5. /\ Held => Held' \/ (rel /\ k \in Shifts)
      /\ k \in Shifts /\ ~rel => Held'
      /\ k \notin Shifts => (Held' <=> Held)
  BY <1>1 DEF Held
<1> HIDE DEF P
<1>6. ASSUME fakes' = {}
      PROVE  Unstuck(P', shift, Held')
  <2>1. CASE fakes' = fakes /\ t = Codes(k, rel)
    <3>1. Unstuck(P, shift, Held)
      BY <1>6, <2>1 DEF ShiftInv, P
    <3>2. CASE rel /\ k \in Shifts
      <4>1. t = <<Code(k, rel)>>
        BY <2>1, <3>2, KeysApart DEF Codes
      <4>2. P' = Append(P, Code(k, rel))
        BY <1>3, <1>4, <4>1, ByteByByte
      <4>3. ShiftRelease(Code(k, rel))
        BY <1>4, <3>2 DEF ShiftRelease
      <4> QED
        BY <1>3, <1>4, <4>2, <4>3, UnstuckCleared
    <3>3. CASE ~(rel /\ k \in Shifts)
      <4>1. (Held => Held') /\ (ShiftPress(Code(k, rel)) => Held')
        BY <1>4, <1>5, <3>3 DEF ShiftPress
      <4>2. CASE k \in ExtKeys
        <5>1. t = <<Code(E0, FALSE), Code(k, rel)>>
          BY <2>1, <4>2 DEF Codes
        <5>2. P' = Append(Append(P, Code(E0, FALSE)), Code(k, rel)) /\ Append(P, Code(E0, FALSE)) \in Seq(Bytes)
          BY <1>3, <1>4, <5>1, ByteByByte
        <5>3. Unstuck(Append(P, Code(E0, FALSE)), shift, Held)
          BY <1>3, <1>4, <3>1, UnstuckSame
        <5>4. Unstuck(Append(Append(P, Code(E0, FALSE)), Code(k, rel)), shift, Held')
          BY <1>4, <4>1, <5>2, <5>3, UnstuckByte, Zenon
        <5> QED
          BY <5>2, <5>4
      <4>3. CASE k \notin ExtKeys
        <5>1. P' = Append(P, Code(k, rel))
          BY <1>3, <1>4, <2>1, <4>3, ByteByByte DEF Codes
        <5> QED
          BY <1>3, <1>4, <3>1, <4>1, <5>1, UnstuckByte
      <4> QED
        BY <4>2, <4>3
    <3> QED
      BY <3>2, <3>3
  <2>2. CASE k \in ExtKeys /\ ~rel /\ fakes' = fakes \cup {k} /\ t = FakeShift(Held) \o Codes(k, rel)
    BY <1>6, <2>2
  <2>3. CASE k \in fakes /\ rel /\ fakes' = fakes \ {k} /\ t = Codes(k, rel) \o FakeShift(~Held)
    <3>1. k \in ExtKeys /\ k \notin Shifts
      BY <2>3, KeysApart DEF StateTypes
    <3>2. Held' <=> Held
      BY <1>5, <3>1
    <3>3. CASE Held
      BY <3>2, <3>3, UnstuckHeld
    <3>4. CASE ~Held
      <4>1. PICK f \in Shifts : FakeShift(TRUE) = <<Code(E0, FALSE), Code(f, TRUE)>> /\ Code(f, TRUE) \in Bytes
        BY FakeTyped
      <4>a. (~Held) = TRUE
        BY <3>4, Zenon
      <4>2. FakeShift(~Held) = FakeShift(TRUE) /\ FakeShift(TRUE) \in Seq(Bytes) /\ Codes(k, rel) \in Seq(Bytes)
        BY <4>a, FakeTyped, CodesTyped
      <4>3. P' = (P \o Codes(k, rel)) \o <<Code(E0, FALSE), Code(f, TRUE)>> /\ P \o Codes(k, rel) \in Seq(Bytes)
        <5>0. P' = P \o (Codes(k, rel) \o FakeShift(TRUE)) /\ P \in Seq(Bytes)
          BY <1>3, <2>3, <4>2, Zenon
        <5>1. /\ P' = (P \o Codes(k, rel)) \o FakeShift(TRUE) /\ P \o Codes(k, rel) \in Seq(Bytes)
          <6>1. \A x, y \in Seq(Bytes) : (P \o x) \o y = P \o (x \o y) /\ P \o x \in Seq(Bytes)
            BY <5>0
          <6> QED
            BY <4>2, <5>0, <6>1, Zenon
        <5> QED
          BY <4>1, <5>1, Zenon
      <4>4. /\ P' = Append(Append(P \o Codes(k, rel), Code(E0, FALSE)), Code(f, TRUE))
            /\ Append(P \o Codes(k, rel), Code(E0, FALSE)) \in Seq(Bytes)
        BY <1>4, <4>1, <4>3, ByteByByte
      <4>5. ShiftRelease(Code(f, TRUE))
        BY DEF ShiftRelease, Code
      <4> QED
        BY <4>1, <4>4, <4>5, UnstuckCleared
    <3> QED
      BY <3>3, <3>4
  <2> QED
    BY <1>1, <2>1, <2>2, <2>3
<1> QED
  BY <1>2, <1>6 DEF ShiftInv, P

\* The first byte is gone: a release that is to come still is.
LEMMA LaterReleases ==
  ASSUME StateTypes, ob # <<>>, ob' = <<>>, fifo' = fifo
  PROVE  /\ \A i \in 1 .. Len(Pending) : ReleaseAfter(Pending, i) => ReleaseAfter(Pending', i - 1)
         /\ ReleaseAfter(Pending, 0) => ShiftRelease(ob[1]) \/ ReleaseAfter(Pending', 0)
<1> DEFINE n == Len(Pending)
<1>1. /\ n \in Nat /\ n >= 1 /\ Pending[1] = ob[1] /\ Len(Pending') = n - 1
      /\ \A i \in 1 .. n - 1 : Pending'[i] = Pending[i + 1]
  BY PendingType, TakenPending
<1> HIDE DEF n
<1>2. ASSUME NEW i \in 0 .. n, NEW j \in i + 1 .. n, j # 1, ShiftRelease(Pending[j])
      PROVE  ShiftRelease(Pending'[j - 1]) /\ j - 1 \in 1 .. Len(Pending') /\ j - 1 > i - 1
  <2>1. j - 1 \in 1 .. n - 1 /\ (j - 1) + 1 = j
    BY <1>1, <1>2
  <2> QED
    BY <1>1, <1>2, <2>1
<1>3. ASSUME NEW i \in 1 .. n, ReleaseAfter(Pending, i)
      PROVE  ReleaseAfter(Pending', i - 1)
  <2>1. PICK j \in i + 1 .. n : ShiftRelease(Pending[j])
    BY <1>3 DEF ReleaseAfter, n
  <2>2. j - 1 \in (i - 1) + 1 .. Len(Pending') /\ ShiftRelease(Pending'[j - 1])
    BY <1>1, <1>2, <2>1
  <2> QED
    BY <2>2 DEF ReleaseAfter
<1>4. ASSUME ReleaseAfter(Pending, 0), ~ShiftRelease(ob[1])
      PROVE  ReleaseAfter(Pending', 0)
  <2>1. PICK j \in 1 .. n : ShiftRelease(Pending[j])
    BY <1>4 DEF ReleaseAfter, n
  <2>2. j # 1
    BY <1>1, <1>4, <2>1
  <2>3. j - 1 \in 0 + 1 .. Len(Pending') /\ ShiftRelease(Pending'[j - 1])
    BY <1>1, <1>2, <2>1, <2>2
  <2> QED
    BY <2>3 DEF ReleaseAfter
<1> QED
  BY <1>3, <1>4 DEF n

LEMMA TakenShift ==
  ASSUME StateTypes, ShiftInv, ob # <<>>, ob' = <<>>, UNCHANGED <<fifo, down, fakes, stage>>,
         \/ shift' = IF ob[1].key \in Shifts THEN ~ob[1].rel ELSE shift
         \/ stage = "drain" /\ shift' = shift,
         stage = "drain" => ~shift'
  PROVE  ShiftInv'
<1> DEFINE n == Len(Pending)
<1> SUFFICES ASSUME fakes = {}
             PROVE  Unstuck(Pending', shift', Held')
  BY DEF ShiftInv
<1>1. /\ n \in Nat /\ n >= 1 /\ Pending[1] = ob[1] /\ Len(Pending') = n - 1
      /\ \A i \in 1 .. n - 1 : Pending'[i] = Pending[i + 1]
  BY PendingType, TakenPending
<1>2. /\ \A i \in 1 .. n : ReleaseAfter(Pending, i) => ReleaseAfter(Pending', i - 1)
      /\ ReleaseAfter(Pending, 0) => ShiftRelease(ob[1]) \/ ReleaseAfter(Pending', 0)
  BY LaterReleases
<1>3. /\ \A i \in 1 .. n : ShiftPress(Pending[i]) => Held \/ ReleaseAfter(Pending, i)
      /\ shift => Held \/ ReleaseAfter(Pending, 0)
  BY DEF ShiftInv, Unstuck
<1> HIDE DEF n
<1>4. Held' <=> Held
  BY DEF Held
<1>5. ASSUME NEW i \in 1 .. n - 1, ShiftPress(Pending'[i])
      PROVE  Held' \/ ReleaseAfter(Pending', i)
  <2>1. i + 1 \in 1 .. n /\ (i + 1) - 1 = i /\ Pending'[i] = Pending[i + 1]
    BY <1>1, <1>5
  <2>2. Held \/ ReleaseAfter(Pending, i + 1)
    BY <1>3, <1>5, <2>1
  <2>3. ReleaseAfter(Pending, i + 1) => ReleaseAfter(Pending', i)
    BY <1>2, <2>1
  <2> QED
    BY <1>4, <2>2, <2>3
<1>6. shift' => Held' \/ ReleaseAfter(Pending', 0)
  <2>1. CASE stage = "drain"
    BY <2>1
  <2>2. CASE stage # "drain" /\ ob[1].key \in Shifts
    <3>1. ShiftPress(ob[1]) => Held \/ ReleaseAfter(Pending', 0)
      <4>1. 1 \in 1 .. n /\ 1 - 1 = 0
        BY <1>1
      <4>2. ReleaseAfter(Pending, 1) => ReleaseAfter(Pending', 0)
        BY <1>2, <4>1
      <4> QED
        BY <1>1, <1>3, <4>1, <4>2
    <3> QED
      BY <1>4, <2>2, <3>1 DEF ShiftPress
  <2>3. CASE stage # "drain" /\ ob[1].key \notin Shifts
    BY <1>2, <1>3, <1>4, <2>3 DEF ShiftRelease
  <2> QED
    BY <2>1, <2>2, <2>3
<1> QED
  BY <1>1, <1>5, <1>6 DEF Unstuck

LEMMA StillShift ==
  ASSUME ShiftInv, Pending' = Pending, UNCHANGED <<down, fakes, shift>>, stage' = "drain" => stage = "drain"
  PROVE  ShiftInv'
<1>1. Held' = Held
  BY DEF Held
<1> QED
  BY <1>1 DEF ShiftInv

LEMMA NextShift == TypeInv /\ ShiftInv /\ [Next]_vars => ShiftInv'
<1> SUFFICES ASSUME TypeInv, ShiftInv, [Next]_vars PROVE ShiftInv'
  OBVIOUS
<1>0. StateTypes
  BY DEF TypeInv
<1>1. CASE User
  BY <1>0, <1>1, SentShift DEF User
<1>2. CASE Deliver
  BY <1>0, <1>2, DeliveredPending, StillShift DEF Deliver, user
<1>3. CASE Drain
  <2>1. CASE ob # <<>>
    BY <1>0, <1>3, <2>1, TakenShift DEF Drain, user, ShiftInv
  <2>2. CASE ob = <<>>
    BY <1>3, <2>2, SamePending, StillShift DEF Drain, user
  <2> QED
    BY <2>1, <2>2
<1>4. CASE isr_kbd
  <2>1. CASE ob # <<>>
    BY <1>0, <1>4, <2>1, TakenShift DEF isr_kbd, Decode, user
  <2>2. CASE ob = <<>>
    BY <1>4, <2>2, SamePending, StillShift DEF isr_kbd, user
  <2> QED
    BY <2>1, <2>2
<1>5. CASE BootStep \/ isr_lapic_timer \/ Main \/ UNCHANGED vars
  <2>1. UNCHANGED <<ob, fifo, down, fakes, shift>> /\ (stage' = "drain" => stage = "drain")
    BY <1>5 DEF BootStep, isr_lapic_timer, Main, kbd_getch, Hlt, TakeKey, vars, line, user
  <2> QED
    BY <2>1, SamePending, StillShift
<1> QED
  BY <1>1, <1>2, <1>3, <1>4, <1>5 DEF Next

\* Once every byte is decoded, shift is set only while a shift key is held or
\* an extended key behind a fake shift, which sets the flag like a shift key
\* (kbd.c:74-77): whatever was pressed during boot and discarded, whatever the
\* two shift keys do to the one flag, and whichever fake shifts the keyboard
\* puts between, it does not stick.
THEOREM ShiftDoesNotStick == Spec => []NoStuckShift
<1>1. Init => ShiftInv
  BY TypesInitially, PendingType DEF Init, TypeInv, ShiftInv, Unstuck
<1>2. TypeInv /\ ShiftInv => NoStuckShift
  BY PendingType DEF TypeInv, ShiftInv, Unstuck, ReleaseAfter, NoStuckShift
<1> QED
  BY <1>1, <1>2, NextShift, TypeInvariance, PTL DEF Spec

-----------------------------------------------------------------------------
(* What is typed is what is taken. *)

CodeTypes(b) == b.key \in Letters \cup Symbols /\ ~b.rel
CharAs(k, s, cap) == <<k, IF k \in Letters THEN s # cap ELSE s>>

\* What the loop has taken, what its poll has returned, and what is in the ring.
Taken == IF loop = "got" /\ out # NoKey THEN Append(got, out) ELSE got
Seen == Taken \o Contents

OneShift == \A j, k \in down \cap Shifts : j = k
InOrder == Len(Seen) <= Len(typed) /\ \A i \in 1 .. Len(Seen) : Seen[i] = typed[i]

\* Decoding b, with n0 of the characters ty, shift s0 and caps c0 before it.
ShiftAfter(b, s0) == IF b.key \in Shifts THEN ~b.rel ELSE s0
CapsAfter(b, c0)  == IF b.key = CapsKey /\ ~b.rel THEN ~c0 ELSE c0

CodeStep(ty, b, n0, s0, c0, n1, s1, c1) ==
  /\ s1 = ShiftAfter(b, s0) /\ c1 = CapsAfter(b, c0)
  /\ IF CodeTypes(b) THEN n1 = n0 + 1 /\ n0 < Len(ty) /\ ty[n0 + 1] = CharAs(b.key, s0, c0)
                     ELSE n1 = n0

\* The handler, decoding the bytes P, brings what is seen from the first l
\* characters of ty to all of them, and its two flags from s0, c0 to s1, c1.
Chain(P, ty, l, s0, c0, s1, c1, f, s, cap) ==
  LET n == Len(P)
  IN  /\ f \in [1 .. n + 1 -> Nat] /\ s \in [1 .. n + 1 -> BOOLEAN] /\ cap \in [1 .. n + 1 -> BOOLEAN]
      /\ f[1] = l /\ s[1] = s0 /\ cap[1] = c0
      /\ f[n + 1] = Len(ty) /\ s[n + 1] = s1 /\ cap[n + 1] = c1
      /\ \A i \in 1 .. n : CodeStep(ty, P[i], f[i], s[i], cap[i], f[i + 1], s[i + 1], cap[i + 1])

Plan(P, ty, l, s0, c0, s1, c1) == \E f, s, cap : Chain(P, ty, l, s0, c0, s1, c1, f, s, cap)

\* What is pending brings the ring to all that was typed, and the two flags to
\* the user's: shift only while no key is held behind a fake shift.
Planned == \E s1 \in BOOLEAN : /\ fakes = {} => s1 = Held
                               /\ Plan(Pending, typed, Len(Seen), shift, caps, s1, capsOn)

TypedInv == clean => OneShift /\ InOrder /\ Planned

-----------------------------------------------------------------------------

LEMMA SeenType ==
  ASSUME TypeInv
  PROVE  /\ Taken \in Seq(Char) /\ Contents \in Seq(Char \cup {NoKey})
         /\ Seen \in Seq(Char \cup {NoKey}) /\ Len(Seen) \in Nat
         /\ Len(Taken) \in Nat /\ Len(Contents) \in Nat
         /\ Len(Seen) = Len(Taken) + Len(Contents)
         /\ \A i \in 1 .. Len(Taken) : Seen[i] = Taken[i]
         /\ \A i \in 1 .. Len(Contents) : Seen[Len(Taken) + i] = Contents[i]
<1> DEFINE C == Contents
<1>1. Taken \in Seq(Char)
  <2>1. got \in Seq(Char) /\ out \in Char \cup {NoKey}
    BY DEF TypeInv, StateTypes, RingInv, RingTypeOK
  <2>2. out # NoKey => Append(got, out) \in Seq(Char)
    BY <2>1
  <2> QED
    BY <2>1, <2>2 DEF Taken
<1>2. C \in Seq(Char \cup {NoKey})
  BY ContentsType, RingConstantsOK DEF TypeInv, RingInv
<1> HIDE DEF C
<1>3. Taken \in Seq(Char \cup {NoKey})
  BY <1>1
<1>4. /\ Taken \o C \in Seq(Char \cup {NoKey})
      /\ Len(Taken \o C) = Len(Taken) + Len(C)
      /\ \A i \in 1 .. Len(Taken) + Len(C) : (Taken \o C)[i] = IF i <= Len(Taken) THEN Taken[i] ELSE C[i - Len(Taken)]
  BY <1>2, <1>3, ConcatProperties, Zenon
<1>5. Len(Taken) \in Nat /\ Len(C) \in Nat
  BY <1>1, <1>2
<1>6. \A i \in 1 .. Len(Taken) : (Taken \o C)[i] = Taken[i]
  BY <1>4, <1>5
<1>7. \A i \in 1 .. Len(C) : (Taken \o C)[Len(Taken) + i] = C[i]
  <2> TAKE i \in 1 .. Len(C)
  <2>1. /\ Len(Taken) + i \in 1 .. Len(Taken) + Len(C) /\ ~(Len(Taken) + i <= Len(Taken))
        /\ (Len(Taken) + i) - Len(Taken) = i
    BY <1>5
  <2> QED
    BY <1>4, <2>1
<1> QED
  BY <1>1, <1>2, <1>4, <1>5, <1>6, <1>7 DEF Seen, C

\* One more byte at the end.
LEMMA AppendPlan ==
  ASSUME NEW P \in Seq(Bytes), NEW b \in Bytes, NEW ty \in Seq(Char), NEW ty1 \in Seq(Char),
         NEW l, NEW s0, NEW c0, NEW s1, NEW c1, Plan(P, ty, l, s0, c0, s1, c1),
         ty1 = IF CodeTypes(b) THEN Append(ty, CharAs(b.key, s1, c1)) ELSE ty
  PROVE  Plan(Append(P, b), ty1, l, s0, c0, ShiftAfter(b, s1), CapsAfter(b, c1))
<1> DEFINE n == Len(P)
           Q == Append(P, b)
           m == Len(ty)
<1>0. PICK f, s, cap : Chain(P, ty, l, s0, c0, s1, c1, f, s, cap)
  BY DEF Plan
<1>1. /\ n \in Nat /\ Len(Q) = n + 1
      /\ \A i \in 1 .. n + 1 : Q[i] = IF i <= n THEN P[i] ELSE b
  BY AppendProperties
<1>2. m \in Nat
  OBVIOUS
<1>3. /\ f \in [1 .. n + 1 -> Nat] /\ s \in [1 .. n + 1 -> BOOLEAN] /\ cap \in [1 .. n + 1 -> BOOLEAN]
      /\ f[1] = l /\ s[1] = s0 /\ cap[1] = c0
      /\ f[n + 1] = m /\ s[n + 1] = s1 /\ cap[n + 1] = c1
      /\ \A i \in 1 .. n : CodeStep(ty, P[i], f[i], s[i], cap[i], f[i + 1], s[i + 1], cap[i + 1])
  BY <1>0 DEF Chain
<1>5. /\ Len(ty1) = IF CodeTypes(b) THEN m + 1 ELSE m
      /\ \A i \in 1 .. m : ty1[i] = ty[i]
      /\ CodeTypes(b) => ty1[m + 1] = CharAs(b.key, s1, c1)
  <2>1. CASE CodeTypes(b)
    <3>1. ty1 = Append(ty, CharAs(b.key, s1, c1))
      BY <2>1
    <3> QED
      BY <2>1, <3>1
  <2>2. CASE ~CodeTypes(b)
    BY <2>2
  <2> QED
    BY <2>1, <2>2
<1> HIDE DEF n, m, Q
<1>6. (IF CodeTypes(b) THEN m + 1 ELSE m) \in Nat
  BY <1>2
<1>7. n + 1 \in 1 .. n + 1 /\ ShiftAfter(b, s1) \in BOOLEAN /\ CapsAfter(b, c1) \in BOOLEAN
  <2>1. n + 1 \in 1 .. n + 1
    BY <1>1
  <2>2. s1 \in BOOLEAN /\ c1 \in BOOLEAN
    BY <1>3, <2>1, Zenon
  <2> QED
    BY <2>1, <2>2, Zenon DEF ShiftAfter, CapsAfter
<1>8. PICK f1 \in [1 .. n + 2 -> Nat] :
        (\A i \in 1 .. n + 1 : f1[i] = f[i]) /\ f1[n + 2] = IF CodeTypes(b) THEN m + 1 ELSE m
  <2> DEFINE g == [i \in 1 .. n + 2 |-> IF i <= n + 1 THEN f[i] ELSE (IF CodeTypes(b) THEN m + 1 ELSE m)]
  <2>1. /\ \A i \in 1 .. n + 2 : i <= n + 1 => i \in 1 .. n + 1
        /\ \A i \in 1 .. n + 1 : i \in 1 .. n + 2 /\ i <= n + 1
        /\ n + 2 \in 1 .. n + 2 /\ ~(n + 2 <= n + 1)
    BY <1>1
  <2>2. g \in [1 .. n + 2 -> Nat]
    BY <1>1, <1>3, <1>6, <2>1
  <2>3. (\A i \in 1 .. n + 1 : g[i] = f[i]) /\ g[n + 2] = (IF CodeTypes(b) THEN m + 1 ELSE m)
    BY <2>1
  <2> HIDE DEF g
  <2> QED
    BY <2>2, <2>3
<1>9. PICK t1 \in [1 .. n + 2 -> BOOLEAN] :
        (\A i \in 1 .. n + 1 : t1[i] = s[i]) /\ t1[n + 2] = ShiftAfter(b, s1)
  <2> DEFINE g == [i \in 1 .. n + 2 |-> IF i <= n + 1 THEN s[i] ELSE ShiftAfter(b, s1)]
  <2>1. /\ \A i \in 1 .. n + 2 : i <= n + 1 => i \in 1 .. n + 1
        /\ \A i \in 1 .. n + 1 : i \in 1 .. n + 2 /\ i <= n + 1
        /\ n + 2 \in 1 .. n + 2 /\ ~(n + 2 <= n + 1)
    BY <1>1
  <2>2. g \in [1 .. n + 2 -> BOOLEAN]
    BY <1>3, <1>7, <2>1, Zenon
  <2>3. (\A i \in 1 .. n + 1 : g[i] = s[i]) /\ g[n + 2] = ShiftAfter(b, s1)
    BY <2>1
  <2> HIDE DEF g
  <2> QED
    BY <2>2, <2>3
<1>10. PICK u1 \in [1 .. n + 2 -> BOOLEAN] :
        (\A i \in 1 .. n + 1 : u1[i] = cap[i]) /\ u1[n + 2] = CapsAfter(b, c1)
  <2> DEFINE g == [i \in 1 .. n + 2 |-> IF i <= n + 1 THEN cap[i] ELSE CapsAfter(b, c1)]
  <2>1. /\ \A i \in 1 .. n + 2 : i <= n + 1 => i \in 1 .. n + 1
        /\ \A i \in 1 .. n + 1 : i \in 1 .. n + 2 /\ i <= n + 1
        /\ n + 2 \in 1 .. n + 2 /\ ~(n + 2 <= n + 1)
    BY <1>1
  <2>2. g \in [1 .. n + 2 -> BOOLEAN]
    BY <1>3, <1>7, <2>1, Zenon
  <2>3. (\A i \in 1 .. n + 1 : g[i] = cap[i]) /\ g[n + 2] = CapsAfter(b, c1)
    BY <2>1
  <2> HIDE DEF g
  <2> QED
    BY <2>2, <2>3
<1>11. ASSUME NEW i \in 1 .. n + 1
      PROVE  CodeStep(ty1, Q[i], f1[i], t1[i], u1[i], f1[i + 1], t1[i + 1], u1[i + 1])
  <2>1. CASE i <= n
    <3>1. i \in 1 .. n /\ i + 1 \in 1 .. n + 1 /\ Q[i] = P[i]
      BY <1>1, <2>1
    <3>2. /\ f1[i] = f[i] /\ t1[i] = s[i] /\ u1[i] = cap[i]
          /\ f1[i + 1] = f[i + 1] /\ t1[i + 1] = s[i + 1] /\ u1[i + 1] = cap[i + 1]
          /\ f[i] \in Nat
      BY <1>3, <1>8, <1>9, <1>10, <3>1
    <3>3. CodeStep(ty, P[i], f[i], s[i], cap[i], f[i + 1], s[i + 1], cap[i + 1])
      BY <1>3, <3>1
    <3>4. f[i] < m => f[i] < Len(ty1) /\ ty1[f[i] + 1] = ty[f[i] + 1]
      BY <1>2, <1>5, <3>2
    <3> QED
      BY <3>1, <3>2, <3>3, <3>4 DEF CodeStep, m
  <2>2. CASE i = n + 1
    <3>1. Q[i] = b /\ i + 1 = n + 2 /\ n + 1 \in 1 .. n + 1
      BY <1>1, <2>2
    <3>2. f1[i] = m /\ t1[i] = s1 /\ u1[i] = c1
      BY <1>3, <1>8, <1>9, <1>10, <2>2, <3>1
    <3>3. CodeTypes(b) => m < Len(ty1)
      BY <1>2, <1>5
    <3> QED
      BY <1>5, <1>8, <1>9, <1>10, <2>2, <3>1, <3>2, <3>3 DEF CodeStep
  <2> QED
    BY <1>1, <2>1, <2>2
<1>12. Chain(Q, ty1, l, s0, c0, ShiftAfter(b, s1), CapsAfter(b, c1), f1, t1, u1)
  <2>1. /\ (n + 1) + 1 = n + 2 /\ 1 \in 1 .. n + 1 /\ n + 1 \in 1 .. n + 1
    BY <1>1
  <2>2. f1[1] = l /\ t1[1] = s0 /\ u1[1] = c0
    BY <1>3, <1>8, <1>9, <1>10, <2>1
  <2>3. f1[n + 2] = Len(ty1)
    BY <1>5, <1>8
  <2> QED
    BY <1>1, <1>8, <1>9, <1>10, <1>11, <2>1, <2>2, <2>3 DEF Chain
<1> QED
  BY <1>12 DEF Plan, Q

\* The prefix and the extended keys do nothing.
LEMMA PrefixPlan ==
  ASSUME NEW P \in Seq(Bytes), NEW ty \in Seq(Char), NEW l, NEW s0, NEW c0, NEW s1, NEW c1,
         Plan(P, ty, l, s0, c0, s1, c1)
  PROVE  /\ Append(P, Code(E0, FALSE)) \in Seq(Bytes)
         /\ Plan(Append(P, Code(E0, FALSE)), ty, l, s0, c0, s1, c1)
<1> DEFINE b == Code(E0, FALSE)
<1>1. b \in Bytes
  BY DEF Bytes, Code
<1>2. ~CodeTypes(b) /\ ShiftAfter(b, s1) = s1 /\ CapsAfter(b, c1) = c1
  BY KeysApart DEF CodeTypes, ShiftAfter, CapsAfter, Code
<1> HIDE DEF b
<1>3. Plan(Append(P, b), ty, l, s0, c0, ShiftAfter(b, s1), CapsAfter(b, c1))
  BY <1>1, <1>2, AppendPlan
<1>4. Append(P, b) \in Seq(Bytes)
  BY <1>1, AppendProperties
<1> QED
  BY <1>2, <1>3, <1>4 DEF b

\* A fake shift leaves the flag as its last byte says.
LEMMA FakePlan ==
  ASSUME NEW P \in Seq(Bytes), NEW ty \in Seq(Char), NEW l, NEW s0, NEW c0, NEW s1, NEW c1,
         NEW rel \in BOOLEAN, Plan(P, ty, l, s0, c0, s1, c1)
  PROVE  /\ P \o FakeShift(rel) \in Seq(Bytes)
         /\ Plan(P \o FakeShift(rel), ty, l, s0, c0, ~rel, c1)
<1>1. PICK k \in Shifts : FakeShift(rel) = <<Code(E0, FALSE), Code(k, rel)>> /\ Code(k, rel) \in Bytes
  BY FakeTyped
<1> DEFINE e == Code(E0, FALSE)
           b == Code(k, rel)
           Q == Append(P, e)
<1>2. ~CodeTypes(b) /\ ShiftAfter(b, s1) = ~rel /\ CapsAfter(b, c1) = c1
  <2>1. k \notin Letters \cup Symbols /\ k # CapsKey
    BY KeyboardConstantsOK
  <2> QED
    BY <2>1 DEF CodeTypes, ShiftAfter, CapsAfter, Code
<1>3. e \in Bytes /\ b \in Bytes
  BY <1>1 DEF Bytes, Code
<1>4. Q \in Seq(Bytes) /\ Plan(Q, ty, l, s0, c0, s1, c1)
  BY PrefixPlan
<1>5. P \o FakeShift(rel) = Append(Q, b)
  <2> HIDE DEF e, b
  <2>1. FakeShift(rel) = <<e, b>>
    BY <1>1 DEF e, b
  <2> QED
    BY <1>3, <2>1, ByteByByte
<1> HIDE DEF b, Q
<1>6. Plan(Append(Q, b), ty, l, s0, c0, ShiftAfter(b, s1), CapsAfter(b, c1))
  BY <1>2, <1>3, <1>4, AppendPlan
<1>7. Append(Q, b) \in Seq(Bytes)
  BY <1>3, <1>4, AppendProperties
<1> QED
  BY <1>2, <1>5, <1>6, <1>7

\* A key's own bytes.
LEMMA CodesPlan ==
  ASSUME NEW P \in Seq(Bytes), NEW ty \in Seq(Char), NEW ty1 \in Seq(Char), NEW k \in Keys, NEW rel \in BOOLEAN,
         NEW l, NEW s0, NEW c0, NEW s1, NEW c1, NEW s2, NEW c2, Plan(P, ty, l, s0, c0, s1, c1),
         ty1 = IF k \in Letters \cup Symbols /\ ~rel THEN Append(ty, CharAs(k, s1, c1)) ELSE ty,
         s2 = (IF k \in Shifts THEN ~rel ELSE s1), c2 = IF k = CapsKey /\ ~rel THEN ~c1 ELSE c1
  PROVE  P \o Codes(k, rel) \in Seq(Bytes) /\ Plan(P \o Codes(k, rel), ty1, l, s0, c0, s2, c2)
<1> DEFINE b == Code(k, rel)
           e == Code(E0, FALSE)
<1>1. b \in Bytes /\ e \in Bytes /\ b.key = k /\ b.rel = rel
  BY CodesTyped DEF Code
<1>2. ty1 = IF CodeTypes(b) THEN Append(ty, CharAs(b.key, s1, c1)) ELSE ty
  BY <1>1 DEF CodeTypes
<1>3. ShiftAfter(b, s1) = s2 /\ CapsAfter(b, c1) = c2
  BY <1>1 DEF ShiftAfter, CapsAfter
<1>4. CASE k \in ExtKeys
  <2> DEFINE Q == Append(P, e)
  <2>1. Q \in Seq(Bytes) /\ Plan(Q, ty, l, s0, c0, s1, c1)
    BY PrefixPlan
  <2>2. P \o Codes(k, rel) = Append(Q, b)
    <3>1. Codes(k, rel) = <<e, b>>
      BY <1>4 DEF Codes
    <3> HIDE DEF e, b
    <3> QED
      BY <1>1, <3>1, ByteByByte
  <2> HIDE DEF b, Q
  <2>3. Plan(Append(Q, b), ty1, l, s0, c0, ShiftAfter(b, s1), CapsAfter(b, c1))
    BY <1>1, <1>2, <2>1, AppendPlan
  <2>4. Append(Q, b) \in Seq(Bytes)
    BY <1>1, <2>1, AppendProperties
  <2> QED
    BY <1>3, <2>2, <2>3, <2>4
<1>5. CASE k \notin ExtKeys
  <2>1. P \o Codes(k, rel) = Append(P, b)
    <3>1. Codes(k, rel) = <<b>>
      BY <1>5 DEF Codes
    <3> HIDE DEF b
    <3> QED
      BY <1>1, <3>1, ByteByByte
  <2> HIDE DEF b
  <2>2. Plan(Append(P, b), ty1, l, s0, c0, ShiftAfter(b, s1), CapsAfter(b, c1))
    BY <1>1, <1>2, AppendPlan
  <2>3. Append(P, b) \in Seq(Bytes)
    BY <1>1, AppendProperties
  <2> QED
    BY <1>3, <2>1, <2>2, <2>3
<1> QED
  BY <1>4, <1>5

\* Decoding a byte that types a character puts the character behind the rest;
\* decoding any other leaves what is seen alone.
LEMMA DecodedSeen ==
  ASSUME TypeInv, RingTypeOK', NEW b \in Bytes, Decode(b), clean', UNCHANGED <<loop, out, got>>
  PROVE  IF CodeTypes(b)
         THEN /\ Len(Seen') = Len(Seen) + 1 /\ Seen'[Len(Seen) + 1] = CharOf(b.key)
              /\ \A i \in 1 .. Len(Seen) : Seen'[i] = Seen[i]
         ELSE Seen' = Seen
<1> DEFINE C == Contents
<1>1. Taken' = Taken
  BY DEF Taken
<1>2. CASE CodeTypes(b)
  <2>1. qpush(CharOf(b.key)) /\ Succ(qh) # qt /\ b.key \in Letters \cup Symbols
    BY <1>2 DEF Decode, CodeTypes
  <2>2. qpush(CharOf(b.key)) /\ Succ(qh) # qt
    BY <2>1 DEF Succ, Succ
  <2>3. CharOf(b.key) \in Char /\ RingTypeOK
    BY <2>1, CharTyped DEF TypeInv, RingInv
  <2>4. Len(C) < Size - 1
    <3>1. Len(C) = Count /\ Count \in 0 .. Size - 1 /\ Count # Size - 1
      BY <2>2, <2>3, ContentsType, CountBounds, RingConstantsOK
    <3> QED
      BY <3>1, RingConstantsOK
  <2>5. C' = IF Len(C) < Size - 1 THEN Append(C, CharOf(b.key)) ELSE C
    BY <2>2, <2>3, PushContents, RingConstantsOK
  <2>6. C' = Append(C, CharOf(b.key))
    BY <2>4, <2>5
  <2>7. Taken \in Seq(Char \cup {NoKey}) /\ C \in Seq(Char \cup {NoKey}) /\ Seen \in Seq(Char \cup {NoKey})
    <3>1. Taken \in Seq(Char)
      BY SeenType
    <3>2. Taken \in Seq(Char \cup {NoKey})
      BY <3>1
    <3> QED
      BY <3>2, SeenType
  <2>8. Seen = Taken \o C /\ Seen' = Taken \o C'
    BY <1>1 DEF Seen
  <2> HIDE DEF C
  <2>9. Seen' = Append(Seen, CharOf(b.key))
    BY <2>3, <2>6, <2>7, <2>8
  <2> QED
    BY <1>2, <2>3, <2>7, <2>9
<1>3. CASE ~CodeTypes(b)
  <2>1. UNCHANGED <<q, qh, qt>>
    BY <1>3 DEF Decode, CodeTypes, ring
  <2>2. C' = C
    BY <2>1 DEF Contents, Slot, Count
  <2> QED
    BY <1>1, <1>3, <2>2 DEF Seen
<1> QED
  BY <1>2, <1>3

LEMMA TakenPlan ==
  ASSUME TypeInv, RingTypeOK', ob # <<>>, ob' = <<>>, Decode(ob[1]), clean',
         UNCHANGED <<fifo, down, fakes, capsOn, typed, loop, out, got>>, InOrder, Planned
  PROVE  InOrder' /\ Planned'
<1> DEFINE n == Len(Pending)
           b == ob[1]
           l == Len(Seen)
           m == Len(typed)
<1>z. PICK z \in BOOLEAN : /\ fakes = {} => z = Held
                           /\ Plan(Pending, typed, l, shift, caps, z, capsOn)
  BY DEF Planned
<1>0. PICK f, s, cap : Chain(Pending, typed, l, shift, caps, z, capsOn, f, s, cap)
  BY <1>z DEF Plan
<1>1. /\ n \in Nat /\ n >= 1 /\ Pending[1] = b /\ b \in Bytes /\ Len(Pending') = n - 1
      /\ \A i \in 1 .. n - 1 : Pending'[i] = Pending[i + 1]
  BY PendingType, TakenPending DEF TypeInv
<1>2. l \in Nat /\ m \in Nat /\ l <= m /\ \A i \in 1 .. l : Seen[i] = typed[i]
  BY SeenType DEF InOrder, TypeInv, StateTypes
<1>3. /\ f \in [1 .. n + 1 -> Nat] /\ s \in [1 .. n + 1 -> BOOLEAN] /\ cap \in [1 .. n + 1 -> BOOLEAN]
      /\ f[1] = l /\ s[1] = shift /\ cap[1] = caps
      /\ f[n + 1] = m /\ s[n + 1] = z /\ cap[n + 1] = capsOn
      /\ \A i \in 1 .. n : CodeStep(typed, Pending[i], f[i], s[i], cap[i], f[i + 1], s[i + 1], cap[i + 1])
  BY <1>0 DEF Chain
<1>4. IF CodeTypes(b)
      THEN Len(Seen') = l + 1 /\ Seen'[l + 1] = CharOf(b.key) /\ \A i \in 1 .. l : Seen'[i] = Seen[i]
      ELSE Seen' = Seen
  BY <1>1, DecodedSeen
<1>5. shift' = ShiftAfter(b, shift) /\ caps' = CapsAfter(b, caps)
  BY DEF Decode, ShiftAfter, CapsAfter
<1> HIDE DEF n, b, l, m
<1>6. CodeStep(typed, b, l, shift, caps, f[2], s[2], cap[2])
  <2>1. 1 \in 1 .. n /\ 1 + 1 = 2
    BY <1>1
  <2>2. CodeStep(typed, Pending[1], f[1], s[1], cap[1], f[1 + 1], s[1 + 1], cap[1 + 1])
    BY <1>3, <2>1
  <2> QED
    BY <1>1, <1>3, <2>1, <2>2
<1>7. f[2] = Len(Seen') /\ s[2] = shift' /\ cap[2] = caps' /\ InOrder'
  <2>1. s[2] = shift' /\ cap[2] = caps'
    BY <1>5, <1>6 DEF CodeStep
  <2>2. CASE CodeTypes(b)
    <3>1. f[2] = l + 1 /\ l < m /\ typed[l + 1] = CharOf(b.key)
      BY <1>6, <2>2 DEF CodeStep, CharAs, CharOf, m
    <3>2. Len(Seen') = l + 1 /\ Seen'[l + 1] = CharOf(b.key) /\ \A i \in 1 .. l : Seen'[i] = Seen[i]
      BY <1>4, <2>2
    <3>3. l + 1 <= m /\ \A i \in 1 .. l + 1 : i = l + 1 \/ i \in 1 .. l
      BY <1>2, <3>1
    <3>4. \A i \in 1 .. l + 1 : Seen'[i] = typed[i]
      BY <1>2, <3>1, <3>2, <3>3
    <3> QED
      BY <2>1, <3>1, <3>2, <3>3, <3>4 DEF InOrder, m
  <2>3. CASE ~CodeTypes(b)
    <3>1. f[2] = l /\ Seen' = Seen
      BY <1>4, <1>6, <2>3 DEF CodeStep
    <3> QED
      BY <2>1, <3>1 DEF InOrder, l
  <2> QED
    BY <2>2, <2>3
<1>8. /\ \A i \in 1 .. n : i + 1 \in 1 .. n + 1
      /\ 1 \in 1 .. n /\ n \in 1 .. n /\ 1 + 1 = 2 /\ (n - 1) + 1 = n
      /\ \A i \in 1 .. n - 1 : i \in 1 .. n /\ i + 1 \in 1 .. n
  BY <1>1
<1>9. PICK f1 \in [1 .. n -> Nat] : \A i \in 1 .. n : f1[i] = f[i + 1]
  <2> DEFINE g == [i \in 1 .. n |-> f[i + 1]]
  <2>1. g \in [1 .. n -> Nat] /\ \A i \in 1 .. n : g[i] = f[i + 1]
    BY <1>3, <1>8
  <2> HIDE DEF g
  <2> QED
    BY <2>1
<1>10. PICK s1 \in [1 .. n -> BOOLEAN] : \A i \in 1 .. n : s1[i] = s[i + 1]
  <2> DEFINE g == [i \in 1 .. n |-> s[i + 1]]
  <2>1. g \in [1 .. n -> BOOLEAN]
    BY <1>3, <1>8, Zenon
  <2>2. \A i \in 1 .. n : g[i] = s[i + 1]
    OBVIOUS
  <2> HIDE DEF g
  <2> QED
    BY <2>1, <2>2
<1>11. PICK c1 \in [1 .. n -> BOOLEAN] : \A i \in 1 .. n : c1[i] = cap[i + 1]
  <2> DEFINE g == [i \in 1 .. n |-> cap[i + 1]]
  <2>1. g \in [1 .. n -> BOOLEAN]
    BY <1>3, <1>8, Zenon
  <2>2. \A i \in 1 .. n : g[i] = cap[i + 1]
    OBVIOUS
  <2> HIDE DEF g
  <2> QED
    BY <2>1, <2>2
<1>12. ASSUME NEW i \in 1 .. n - 1
       PROVE  CodeStep(typed, Pending'[i], f1[i], s1[i], c1[i], f1[i + 1], s1[i + 1], c1[i + 1])
  <2>1. i \in 1 .. n /\ i + 1 \in 1 .. n
    BY <1>8
  <2>2. CodeStep(typed, Pending[i + 1], f[i + 1], s[i + 1], cap[i + 1], f[(i + 1) + 1], s[(i + 1) + 1], cap[(i + 1) + 1])
    BY <1>3, <2>1
  <2> QED
    BY <1>1, <1>9, <1>10, <1>11, <2>1, <2>2
<1>13. Held' = Held
  BY DEF Held
<1>14. Chain(Pending', typed', Len(Seen'), shift', caps', z, capsOn', f1, s1, c1)
  <2>1. f1[1] = f[2] /\ s1[1] = s[2] /\ c1[1] = cap[2]
    BY <1>8, <1>9, <1>10, <1>11
  <2>2. f1[n] = f[n + 1] /\ s1[n] = s[n + 1] /\ c1[n] = cap[n + 1]
    BY <1>8, <1>9, <1>10, <1>11
  <2>3. f1[n] = Len(typed') /\ s1[n] = z /\ c1[n] = capsOn'
    BY <1>3, <2>2 DEF m
  <2> QED
    BY <1>1, <1>7, <1>8, <1>9, <1>10, <1>11, <1>12, <2>1, <2>3 DEF Chain
<1>15. Plan(Pending', typed', Len(Seen'), shift', caps', z, capsOn')
  BY <1>14 DEF Plan
<1>16. Planned'
  BY <1>z, <1>13, <1>15 DEF Planned, l
<1> QED
  BY <1>7, <1>16

-----------------------------------------------------------------------------
(* TypedInv is inductive. *)

LEMMA SameTracked ==
  ASSUME TypedInv, Pending' = Pending, Seen' = Seen, UNCHANGED <<typed, shift, caps, down, fakes, capsOn>>,
         clean' => clean
  PROVE  TypedInv'
<1> SUFFICES ASSUME clean' PROVE (OneShift /\ InOrder /\ Planned)'
  BY DEF TypedInv
<1>1. OneShift' /\ InOrder'
  BY DEF TypedInv, OneShift, InOrder
<1>2. Planned
  BY DEF TypedInv
<1>3. Held' = Held
  BY DEF Held
<1>4. Planned'
  BY <1>2, <1>3 DEF Planned
<1> QED
  BY <1>1, <1>4

LEMMA SameSeen ==
  ASSUME UNCHANGED <<loop, out, got, q, qh, qt>>
  PROVE  Seen' = Seen
BY DEF Seen, Taken, Contents, Slot, Count

LEMMA UserTyped ==
  ASSUME TypeInv, TypeInv', TypedInv, NEW k \in Keys, Press(k) \/ Repeat(k) \/ Release(k)
  PROVE  TypedInv'
<1> SUFFICES ASSUME clean' PROVE (OneShift /\ InOrder /\ Planned)'
  BY DEF TypedInv
<1>0. StateTypes /\ StateTypes'
  BY DEF TypeInv
<1>1. PICK rel \in BOOLEAN, t \in Seq(Bytes) :
        /\ Send(t)
        /\ ~rel => down' = down \cup {k} /\ Types(k)
        /\ rel => k \in down /\ down' = down \ {k} /\ typed' = typed /\ clean' = clean
        /\ capsOn' = IF k = CapsKey /\ ~rel THEN ~capsOn ELSE capsOn
        /\ \/ fakes' = fakes /\ t = Codes(k, rel)
           \/ k \in ExtKeys /\ ~rel /\ fakes' = fakes \cup {k} /\ t = FakeShift(Held) \o Codes(k, rel)
           \/ k \in fakes /\ rel /\ fakes' = fakes \ {k} /\ t = Codes(k, rel) \o FakeShift(~Held)
  BY <1>0, UserStep
<1>2. /\ UNCHANGED <<ob, shift, caps, loop, out, got, q, qh, qt>> /\ clean
      /\ k \in Shifts /\ ~rel => k \in down \/ ~Held
      /\ k \in Letters \cup Symbols /\ ~rel => fakes = {}
  <2>1. UNCHANGED <<ob, shift, caps, loop, out, got, q, qh, qt>>
    BY DEF Press, Repeat, Release, ring, getch, main, hist
  <2>2. CASE rel
    BY <1>1, <2>1, <2>2
  <2>3. CASE ~rel
    BY <1>1, <2>1, <2>3 DEF Types
  <2> QED
    BY <2>2, <2>3
<1>3. Seen' = Seen
  BY <1>2, SameSeen
<1>4. OneShift /\ InOrder
  BY <1>2 DEF TypedInv
<1>5. Held' = (IF k \in Shifts THEN ~rel ELSE Held)
  BY <1>1, <1>2, <1>4 DEF Held, OneShift
<1>6. OneShift'
  BY <1>1, <1>2, <1>4 DEF Held, OneShift
<1>7. typed' = IF k \in Letters \cup Symbols /\ ~rel THEN Append(typed, CharAs(k, Held, capsOn)) ELSE typed
  BY <1>1 DEF Types, Intended, CharAs
<1>8. InOrder'
  <2>1. typed \in Seq(Char) /\ typed' \in Seq(Char) /\ Len(Seen) \in Nat
    BY SeenType DEF TypeInv, StateTypes
  <2>2. Len(typed) <= Len(typed') /\ \A i \in 1 .. Len(typed) : typed'[i] = typed[i]
    <3>1. CASE k \in Letters \cup Symbols /\ ~rel
      <4>1. typed' = Append(typed, CharAs(k, Held, capsOn))
        BY <1>7, <3>1
      <4> QED
        BY <2>1, <4>1
    <3>2. CASE ~(k \in Letters \cup Symbols /\ ~rel)
      <4>1. typed' = typed
        BY <1>7, <3>2
      <4> QED
        BY <2>1, <4>1
    <3> QED
      BY <3>1, <3>2
  <2>3. Len(Seen) <= Len(typed) /\ \A i \in 1 .. Len(Seen) : Seen[i] = typed[i]
    BY <1>4 DEF InOrder
  <2>4. Len(Seen) <= Len(typed') /\ \A i \in 1 .. Len(Seen) : i \in 1 .. Len(typed)
    BY <2>1, <2>2, <2>3
  <2> QED
    BY <1>3, <2>2, <2>3, <2>4 DEF InOrder
<1>9. Planned'
  <2> DEFINE P == Pending
             l == Len(Seen)
  <2>1. PICK s1 \in BOOLEAN : /\ fakes = {} => s1 = Held
                             /\ Plan(P, typed, l, shift, caps, s1, capsOn)
    BY <1>2 DEF TypedInv, Planned
  <2>0. capsOn' = IF k = CapsKey /\ ~rel THEN ~capsOn ELSE capsOn
    BY <1>1
  <2>2. P' = P \o t /\ P \in Seq(Bytes) /\ typed \in Seq(Char) /\ typed' \in Seq(Char)
    BY <1>0, <1>1, <1>2, SentPending, PendingType DEF StateTypes
  <2>3. ASSUME NEW s2 \in BOOLEAN, fakes' = {} => s2 = Held',
               Plan(P', typed', l, shift, caps, s2, capsOn')
        PROVE  Planned'
    BY <1>2, <1>3, <2>3 DEF Planned
  <2>4. typed' = IF k \in Letters \cup Symbols /\ ~rel THEN Append(typed, CharAs(k, s1, capsOn)) ELSE typed
    BY <1>2, <1>7, <2>1
  <2>5. k \in ExtKeys => k \notin Letters \cup Symbols /\ k \notin Shifts /\ k # CapsKey
    BY KeysApart
  <2>6. Held \in BOOLEAN /\ (~Held) \in BOOLEAN
    BY HeldType
  <2> HIDE DEF P, l
  <2>7. CASE fakes' = fakes /\ t = Codes(k, rel)
    <3>0. PICK s2 \in BOOLEAN : s2 = IF k \in Shifts THEN ~rel ELSE s1
      <4>1. (IF k \in Shifts THEN ~rel ELSE s1) \in BOOLEAN
        BY <2>1, Zenon
      <4> QED
        BY <4>1
    <3>1. Plan(P \o Codes(k, rel), typed', l, shift, caps, s2, capsOn')
      BY <2>0, <2>1, <2>2, <2>4, <3>0, CodesPlan
    <3>2. fakes' = {} => s2 = Held'
      BY <1>5, <2>1, <2>7, <3>0
    <3> QED
      BY <2>2, <2>3, <2>7, <3>1, <3>2
  <2>8. CASE k \in ExtKeys /\ ~rel /\ fakes' = fakes \cup {k} /\ t = FakeShift(Held) \o Codes(k, rel)
    <3>1. /\ P \o FakeShift(Held) \in Seq(Bytes)
          /\ Plan(P \o FakeShift(Held), typed, l, shift, caps, ~Held, capsOn)
      BY <2>1, <2>2, <2>6, FakePlan
    <3>2. typed' = IF k \in Letters \cup Symbols /\ ~rel THEN Append(typed, CharAs(k, ~Held, capsOn)) ELSE typed
      BY <2>4, <2>5, <2>8
    <3>3. PICK z \in BOOLEAN : z = ~Held
      BY <2>6
    <3>4. Plan((P \o FakeShift(Held)) \o Codes(k, rel), typed', l, shift, caps, z, capsOn')
      <4>1. z = (IF k \in Shifts THEN ~rel ELSE z)
        BY <2>5, <2>8
      <4>2. /\ Plan(P \o FakeShift(Held), typed, l, shift, caps, z, capsOn)
            /\ typed' = IF k \in Letters \cup Symbols /\ ~rel THEN Append(typed, CharAs(k, z, capsOn)) ELSE typed
        BY <3>1, <3>2, <3>3
      <4> DEFINE Q == P \o FakeShift(Held)
      <4>3. Q \in Seq(Bytes) /\ Plan(Q, typed, l, shift, caps, z, capsOn)
        BY <3>1, <4>2
      <4> HIDE DEF Q
      <4>4. Plan(Q \o Codes(k, rel), typed', l, shift, caps, z, capsOn')
        BY <2>0, <2>2, <4>1, <4>2, <4>3, CodesPlan
      <4> QED
        BY <4>4 DEF Q
    <3>5. (P \o FakeShift(Held)) \o Codes(k, rel) = P'
      BY <2>2, <2>6, <2>8, FakeTyped, CodesTyped, ConcatAssociative
    <3>6. fakes' # {}
      BY <2>8
    <3> QED
      BY <2>3, <3>4, <3>5, <3>6
  <2>9. CASE k \in fakes /\ rel /\ fakes' = fakes \ {k} /\ t = Codes(k, rel) \o FakeShift(~Held)
    <3>0. k \in ExtKeys
      BY <1>0, <2>9 DEF StateTypes
    <3>1. s1 = IF k \in Shifts THEN ~rel ELSE s1
      BY <2>5, <3>0
    <3>2. P \o Codes(k, rel) \in Seq(Bytes) /\ Plan(P \o Codes(k, rel), typed', l, shift, caps, s1, capsOn')
      BY <2>0, <2>1, <2>2, <2>4, <3>1, CodesPlan
    <3>3. PICK z \in BOOLEAN : z = ~Held
      BY <2>6
    <3>5. Held = ~z /\ Held' = Held
      BY <1>5, <2>5, <2>6, <3>0, <3>3
    <3>6. Plan((P \o Codes(k, rel)) \o FakeShift(z), typed', l, shift, caps, ~z, capsOn')
      BY <2>2, <3>2, FakePlan
    <3>4. (P \o Codes(k, rel)) \o FakeShift(z) = P'
      <4>1. t = Codes(k, rel) \o FakeShift(z)
        BY <2>9, <3>3, Zenon
      <4>2. FakeShift(z) \in Seq(Bytes) /\ Codes(k, rel) \in Seq(Bytes)
        BY FakeTyped, CodesTyped
      <4> QED
        BY <2>2, <4>1, <4>2, ConcatAssociative
    <3> QED
      <4>1. Plan(P', typed', l, shift, caps, Held, capsOn')
        BY <3>4, <3>5, <3>6, Zenon
      <4> QED
        BY <2>3, <2>6, <3>5, <4>1
  <2> QED
    BY <1>1, <2>7, <2>8, <2>9
<1> QED
  BY <1>6, <1>8, <1>9

LEMMA InterruptTyped ==
  ASSUME TypeInv, TypeInv', TypedInv, isr_kbd
  PROVE  TypedInv'
<1>1. CASE ob = <<>>
  <2>1. UNCHANGED <<ob, fifo, typed, shift, caps, down, fakes, capsOn, clean, loop, out, got, q, qh, qt>>
    BY <1>1 DEF isr_kbd, user, getch, ring
  <2> QED
    BY <2>1, SamePending, SameSeen, SameTracked
<1>2. CASE ob # <<>>
  <2> SUFFICES ASSUME clean' PROVE (OneShift /\ InOrder /\ Planned)'
    BY DEF TypedInv
  <2>1. /\ ob' = <<>> /\ Decode(ob[1])
        /\ UNCHANGED <<fifo, down, fakes, capsOn, typed, loop, out, got>>
    BY <1>2 DEF isr_kbd, user, getch
  <2>2. clean
    BY <2>1 DEF Decode
  <2>3. OneShift' /\ InOrder
    BY <2>1, <2>2 DEF TypedInv, OneShift
  <2>4. Planned
    BY <2>2 DEF TypedInv
  <2>5. RingTypeOK'
    BY DEF TypeInv, RingInv
  <2> QED
    BY <1>2, <2>1, <2>3, <2>4, <2>5, TakenPlan
<1> QED
  BY <1>1, <1>2

\* The character the poll returns is the oldest in the ring.
LEMMA StoreSeen ==
  ASSUME TypeInv, TypeInv', Store, loop = "poll", loop' = "got", got' = got, InOrder
  PROVE  Seen' = Seen
<1> DEFINE C == Contents
<1>1. RingTypeOK /\ RingTypeOK' /\ qh # qt /\ c = q[qt]
  BY DEF TypeInv, RingInv, PollSafe, Store
<1>2. C # <<>> /\ Head(C) = c /\ C' = Tail(C)
  BY <1>1, PopContents, RingConstantsOK DEF Store
<1>3. C \in Seq(Char \cup {NoKey}) /\ Taken = got /\ got \in Seq(Char) /\ Seen = got \o C
  BY SeenType DEF Taken, Seen, TypeInv, StateTypes
<1>4. Head(C) = C[1] /\ Len(C) >= 1 /\ Len(C) \in Nat
  <2> HIDE DEF C
  <2> QED
    BY <1>2, <1>3, EmptySeq
<1>5. c # NoKey
  <2>1. Seen[Len(Taken) + 1] = C[1] /\ Len(Taken) \in Nat /\ Len(Seen) = Len(Taken) + Len(C)
    BY <1>4, SeenType
  <2>2. Len(Taken) + 1 \in 1 .. Len(Seen) /\ Len(Taken) + 1 \in 1 .. Len(typed)
    <3> HIDE DEF C
    <3>1. Len(typed) \in Nat
      BY DEF TypeInv, StateTypes
    <3> QED
      BY <1>4, <2>1, <3>1 DEF InOrder
  <2>3. typed[Len(Taken) + 1] \in Char
    BY <2>2 DEF TypeInv, StateTypes
  <2>4. c = typed[Len(Taken) + 1]
    BY <1>2, <1>4, <2>1, <2>2 DEF InOrder
  <2> QED
    BY <2>3, <2>4, RingConstantsOK
<1>6. Taken' = Append(got, c)
  BY <1>5 DEF Taken, Store
<1>7. Seen' = Append(got, c) \o Tail(C)
  BY <1>2, <1>6 DEF Seen
<1>8. got \in Seq(Char \cup {NoKey})
  BY <1>3
<1> HIDE DEF C
<1>9. Append(got, Head(C)) \o Tail(C) = got \o C
  BY <1>2, <1>3, <1>8
<1> QED
  BY <1>2, <1>3, <1>7, <1>9

LEMMA MainTyped ==
  ASSUME TypeInv, TypeInv', TypedInv, Main
  PROVE  TypedInv'
<1>1. UNCHANGED <<ob, fifo, typed, shift, caps, down, fakes, capsOn, clean>>
  BY DEF Main, kbd_getch, Hlt, TakeKey, line, user, hist
<1>2. Pending' = Pending
  BY <1>1, SamePending
<1>3. clean => Seen' = Seen
  <2> SUFFICES ASSUME clean PROVE Seen' = Seen
    OBVIOUS
  <2>1. InOrder
    BY DEF TypedInv
  <2>2. CASE kbd_getch
    <3>1. Poll /\ loop = "poll" /\ loop' = (IF pc' = "idle" THEN "got" ELSE "poll") /\ got' = got
      BY <2>2 DEF kbd_getch, hist
    <3>2. CASE Store
      BY <2>1, <3>1, <3>2, StoreSeen DEF Store
    <3>3. CASE ReadHead \/ Test \/ Load
      <4>1. UNCHANGED <<q, qh, qt>> /\ (loop' = "got" => out' = NoKey)
        BY <3>1, <3>3 DEF ReadHead, Test, Load, ring
      <4>2. Taken' = Taken
        BY <3>1, <4>1 DEF Taken
      <4> QED
        BY <4>1, <4>2 DEF Seen, Contents, Slot, Count
    <3> QED
      BY <3>1, <3>2, <3>3 DEF Poll
  <2>3. CASE Hlt \/ TakeKey
    <3>1. Taken' = Taken /\ UNCHANGED <<q, qh, qt>>
      BY <2>3 DEF Hlt, TakeKey, Taken, ring, getch, hist
    <3> QED
      BY <3>1 DEF Seen, Contents, Slot, Count
  <2> QED
    BY <2>2, <2>3 DEF Main
<1>4. CASE clean
  BY <1>1, <1>2, <1>3, <1>4, SameTracked
<1>5. CASE ~clean
  BY <1>1, <1>5 DEF TypedInv
<1> QED
  BY <1>4, <1>5

LEMMA NextTyped == TypeInv /\ TypeInv' /\ TypedInv /\ [Next]_vars => TypedInv'
<1> SUFFICES ASSUME TypeInv, TypeInv', TypedInv, [Next]_vars PROVE TypedInv'
  OBVIOUS
<1>1. CASE User
  BY <1>1, UserTyped DEF User
<1>2. CASE Deliver
  <2>1. UNCHANGED <<typed, shift, caps, down, fakes, capsOn, clean, loop, out, got, q, qh, qt>>
    BY <1>2 DEF Deliver, user, ring, getch, main, hist
  <2>2. Pending' = Pending
    BY <1>2, DeliveredPending DEF TypeInv
  <2> QED
    BY <2>1, <2>2, SameSeen, SameTracked
<1>3. CASE Drain
  <2>1. UNCHANGED <<fifo, typed, shift, caps, down, fakes, capsOn, loop, out, got, q, qh, qt>>
    BY <1>3 DEF Drain, user, ring, getch, main
  <2>2. CASE ob # <<>>
    BY <1>3, <2>2 DEF Drain, TypedInv
  <2>3. CASE ob = <<>>
    BY <1>3, <2>1, <2>3, SamePending, SameSeen, SameTracked DEF Drain
  <2> QED
    BY <2>2, <2>3
<1>4. CASE BootStep \/ isr_lapic_timer \/ UNCHANGED vars
  <2>1. UNCHANGED <<ob, fifo, typed, shift, caps, down, fakes, capsOn, clean, loop, out, got, q, qh, qt>>
    BY <1>4 DEF BootStep, isr_lapic_timer, vars, user, line, ring, getch, main, hist
  <2> QED
    BY <2>1, SamePending, SameSeen, SameTracked
<1>5. CASE isr_kbd
  BY <1>5, InterruptTyped
<1>6. CASE Main
  BY <1>6, MainTyped
<1> QED
  BY <1>1, <1>2, <1>3, <1>4, <1>5, <1>6 DEF Next

LEMMA TypedInitially == Init => TypedInv
<1> SUFFICES ASSUME Init PROVE TypedInv
  OBVIOUS
<1>1. Pending = <<>> /\ Len(Pending) = 0
  BY TypesInitially, PendingType DEF Init, TypeInv
<1>2. Seen = <<>> /\ Len(Seen) = 0
  <2>1. TypeInv
    BY TypesInitially
  <2>2. Count = 0
    BY DEF Init, RingInit, Count
  <2>3. RingTypeOK
    BY <2>1 DEF TypeInv, RingInv
  <2>4. Len(Contents) = 0 /\ Taken = <<>>
    BY <2>2, <2>3, ContentsType, RingConstantsOK DEF Taken, Init
  <2>5. Len(Taken) = 0
    BY <2>4
  <2>6. Len(Seen) = 0 /\ Seen \in Seq(Char \cup {NoKey})
    BY <2>1, <2>4, <2>5, SeenType
  <2> QED
    BY <2>6, EmptySeq
<1>3. Len(typed) = 0 /\ Held = FALSE /\ OneShift
  BY DEF Init, Held, OneShift
<1>4. InOrder
  BY <1>2, <1>3 DEF InOrder
<1> DEFINE f == [i \in 1 .. 1 |-> 0]
           s == [i \in 1 .. 1 |-> FALSE]
<1>5. /\ f \in [1 .. 1 -> Nat] /\ s \in [1 .. 1 -> BOOLEAN] /\ f[1] = 0 /\ s[1] = FALSE
  OBVIOUS
<1> HIDE DEF f, s
<1>6. Chain(Pending, typed, Len(Seen), shift, caps, FALSE, capsOn, f, s, s)
  <2>1. 0 + 1 = 1 /\ 1 .. 0 = {}
    OBVIOUS
  <2>2. shift = FALSE /\ caps = FALSE /\ capsOn = FALSE
    BY DEF Init
  <2> QED
    BY <1>1, <1>2, <1>3, <1>5, <2>1, <2>2 DEF Chain
<1>7. Plan(Pending, typed, Len(Seen), shift, caps, FALSE, capsOn)
  BY <1>6 DEF Plan
<1>8. Planned
  BY <1>3, <1>7 DEF Planned
<1> QED
  BY <1>3, <1>4, <1>8 DEF TypedInv

\* The characters the polling loop takes are the ones typed, in order and in
\* the case they were typed in, as long as no byte was discarded, the ring did
\* not overflow, the two shift keys were never held at once and no character
\* was typed while an extended key was held behind a fake shift (kbd.c:66-111).
THEOREM KeysInOrder == Spec => []TypedInOrder
<1>1. TypeInv /\ TypedInv => TypedInOrder
  <2> SUFFICES ASSUME TypeInv, TypedInv, clean PROVE IsPrefix(got, typed)
    BY DEF TypedInOrder
  <2>1. /\ got \in Seq(Char) /\ typed \in Seq(Char) /\ Len(got) \in Nat /\ Len(typed) \in Nat
    BY DEF TypeInv, StateTypes
  <2>2. Len(got) <= Len(Taken) /\ \A i \in 1 .. Len(got) : Taken[i] = got[i]
    <3>1. out # NoKey => out \in Char
      BY DEF TypeInv, RingInv, RingTypeOK
    <3> QED
      BY <2>1, <3>1 DEF Taken
  <2>3. /\ Len(got) <= Len(typed) /\ \A i \in 1 .. Len(got) : typed[i] = got[i]
    <3>1. /\ Len(Taken) \in Nat /\ Len(Seen) \in Nat /\ Len(Taken) <= Len(Seen)
          /\ \A i \in 1 .. Len(Taken) : Seen[i] = Taken[i]
      BY SeenType
    <3>2. Len(Seen) <= Len(typed) /\ \A i \in 1 .. Len(Seen) : Seen[i] = typed[i]
      BY DEF TypedInv, InOrder
    <3> QED
      BY <2>1, <2>2, <3>1, <3>2
  <2>4. SubSeq(got, 1, Len(got)) = SubSeq(typed, 1, Len(got))
    <3> DEFINE a == SubSeq(got, 1, Len(got))
               b == SubSeq(typed, 1, Len(got))
    <3>1. a \in Seq(Char) /\ b \in Seq(Char)
      BY <2>1, <2>3
    <3>2. Len(a) = Len(got) /\ Len(b) = Len(got)
      BY <2>1, <2>3
    <3>3. \A i \in 1 .. Len(got) : a[i] = b[i]
      BY <2>1, <2>3
    <3> HIDE DEF a, b
    <3>4. a = b
      BY <3>1, <3>2, <3>3, SeqEqual, Zenon
    <3> QED
      BY <3>4 DEF a, b
  <2> QED
    BY <2>3, <2>4 DEF IsPrefix
<1> QED
  BY <1>1, TypedInitially, NextTyped, TypeInvariance, PTL DEF Spec
=============================================================================
