--------------------------- MODULE PhysMemProofs ----------------------------
(***************************************************************************)
(* For every page size, memory size, memory map and place of the kernel:   *)
(* the count of used pages is exact, pages handed out are safe to use, and *)
(* the bitmap implements the abstract allocator.                           *)
(***************************************************************************)
EXTENDS PhysMem, FiniteSetTheorems, WellFoundedInduction, TLAPS

\* The count is the number of set bits, across the overlapping ranges of
\* pmm_init and every allocation and free.
UsedCount == pages_used = Cardinality(bitmap)

\* A page handed out has its bit set and lies below the limit, and page 0 is
\* never one of them: its address would mean failure.
Owned ==
  /\ held \subseteq bitmap
  /\ \A p \in held : p < pages_limit
  /\ 0 \notin held /\ 0 \notin Clear
  /\ ~ready => held = {}

IInv == TypeOK /\ UsedCount /\ Owned

-----------------------------------------------------------------------------
(* Sets of pages. *)

LEMMA ConstantTypes == MaxPages \in Nat /\ PageSize \in Nat \ {0} /\ LowEnd \in Nat \ {0}
BY PhysMemConstantsOK

LEMMA PagesFinite ==
  /\ IsFiniteSet(Page) /\ Cardinality(Page) = MaxPages
  /\ \A S \in SUBSET Page : IsFiniteSet(S) /\ Cardinality(S) \in 0 .. MaxPages
<1>1. IsFiniteSet(Page) /\ Cardinality(Page) = MaxPages
  <2>1. 0 \in Int /\ MaxPages - 1 \in Int /\ MaxPages \in Nat
    BY ConstantTypes
  <2>2. /\ IsFiniteSet(Page)
        /\ Cardinality(Page) = IF 0 > MaxPages - 1 THEN 0 ELSE (MaxPages - 1) - 0 + 1
    BY <2>1, FS_Interval, Zenon DEF Page
  <2> QED
    BY <2>1, <2>2
<1>2. ASSUME NEW S \in SUBSET Page
      PROVE  IsFiniteSet(S) /\ Cardinality(S) \in 0 .. MaxPages
  <2>1. IsFiniteSet(S) /\ Cardinality(S) <= Cardinality(Page)
    BY <1>1, FS_Subset
  <2> QED
    BY <1>1, <2>1, FS_CardinalityType
<1> QED
  BY <1>1, <1>2

LEMMA LimitType == ASSUME NEW map PROVE Limit(map) \in 0 .. MaxPages
BY PagesFinite DEF Limit

LEMMA RangeTypes ==
  ASSUME NEW map PROVE Freed(map) \subseteq Page /\ Pinned(map) \subseteq Page
BY DEF Freed, Pinned, Inside, Touched

\* pmm_init's count: pages that were never freed, and pages taken back.
LEMMA InitCount ==
  ASSUME NEW F \in SUBSET Page, NEW P \in SUBSET Page
  PROVE  Cardinality((Page \ F) \cup P) = MaxPages - Cardinality(F) + Cardinality(P \cap F)
<1> DEFINE A == Page \ F
           B == P \cap F
<1>1. A \in SUBSET Page /\ B \in SUBSET Page /\ A \cup P = A \cup B /\ A \cap B = {}
  OBVIOUS
<1>2. Cardinality(A \cup B) = Cardinality(A) + Cardinality(B) - Cardinality(A \cap B)
  BY <1>1, PagesFinite, FS_Union
<1>3. Cardinality(A) = Cardinality(Page) - Cardinality(Page \cap F)
  BY PagesFinite, FS_Difference
<1>4. Cardinality(Page \cap F) = Cardinality(F)
  <2>1. Page \cap F = F
    OBVIOUS
  <2> QED
    BY <2>1
<1>5. Cardinality({}) = 0
  BY FS_EmptySet
<1>6. Cardinality(A) \in Nat /\ Cardinality(B) \in Nat /\ Cardinality(F) \in Nat
  BY <1>1, PagesFinite, ConstantTypes
<1>7. Cardinality((Page \ F) \cup P) = Cardinality(A \cup B) /\ Cardinality(A \cap B) = 0
  BY <1>1, <1>5
<1> HIDE DEF A
<1> QED
  BY <1>2, <1>3, <1>4, <1>6, <1>7, PagesFinite, ConstantTypes

\* A set of naturals that is not empty has a least element.
LEMMA LeastNat ==
  ASSUME NEW S \in SUBSET Nat, S # {}
  PROVE  \E x \in S : \A y \in S : x <= y
<1>1. PICK x \in S : \A y \in S : ~(<<y, x>> \in OpToRel(<, Nat))
  BY WFMin, NatLessThanWellFounded, Zenon
<1>2. \A y \in S : ~(y < x)
  BY <1>1, Zenon DEF OpToRel
<1>3. \A y \in S : x <= y
  BY <1>2
<1> QED
  BY <1>3

-----------------------------------------------------------------------------
LEMMA InitInv == Init => IInv
<1> SUFFICES ASSUME Init PROVE IInv
  OBVIOUS
<1>1. Cardinality({}) = 0
  BY FS_EmptySet
<1>2. /\ bitmap = {} /\ held = {} /\ mm = NoMap /\ ready = FALSE
      /\ pages_used = 0 /\ pages_limit = 0 /\ out = 0
  BY DEF Init
<1>3. TypeOK
  <2>1. bitmap \subseteq Page
    BY <1>2
  <2>2. held \subseteq Page
    BY <1>2
  <2>3. pages_limit \in 0 .. MaxPages
    BY <1>2, ConstantTypes
  <2>4. ready \in BOOLEAN
    BY <1>2
  <2>5. mm \in MemMap \cup {NoMap}
    BY <1>2
  <2>6. pages_used \in Int /\ out \in Page \cup {0}
    BY <1>2
  <2> QED
    BY <2>1, <2>2, <2>3, <2>4, <2>5, <2>6 DEF TypeOK
<1>4. UsedCount
  BY <1>1, <1>2 DEF UsedCount
<1>5. Clear = {}
  BY <1>2 DEF Clear
<1> QED
  BY <1>2, <1>3, <1>4, <1>5 DEF IInv, Owned

\* Page 0 lies in the low memory.
LEMMA LowPinned ==
  ASSUME NEW map, Limit(map) > 0
  PROVE  0 \in Pinned(map)
<1>1. 0 \in Page
  BY LimitType, ConstantTypes DEF Page
<1>2. Down(0) = 0 /\ Up(0 + LowEnd) > 0
  BY ConstantTypes DEF Down, Up
<1> QED
  BY <1>1, <1>2, LimitType, ConstantTypes DEF Pinned, Touched

LEMMA PmmInitInv ==
  ASSUME IInv, NEW map \in MemMap, pmm_init(map) PROVE IInv'
<1>1. /\ ~ready /\ ready' = TRUE /\ held' = held /\ held = {} /\ out' = out /\ mm' = map
      /\ pages_limit' = Limit(map) /\ bitmap' = (Page \ Freed(map)) \cup Pinned(map)
      /\ pages_used' = MaxPages - Cardinality(Freed(map)) + Cardinality(Pinned(map) \cap Freed(map))
  BY DEF pmm_init, IInv, Owned
<1>2. UsedCount'
  BY <1>1, InitCount, RangeTypes DEF UsedCount
<1>3. TypeOK'
  <2>1. bitmap' \subseteq Page /\ held' \subseteq Page
    BY <1>1, RangeTypes
  <2>2. pages_limit' \in 0 .. MaxPages
    BY <1>1, LimitType
  <2>3. pages_used' \in Int
    <3>1. Pinned(map) \cap Freed(map) \in SUBSET Page /\ Freed(map) \in SUBSET Page
      BY RangeTypes
    <3>2. /\ Cardinality(Freed(map)) \in Int
          /\ Cardinality(Pinned(map) \cap Freed(map)) \in Int
      BY <3>1, PagesFinite, ConstantTypes
    <3> QED
      BY <1>1, <3>2, ConstantTypes
  <2>4. ready' \in BOOLEAN /\ mm' \in MemMap \cup {NoMap}
    BY <1>1
  <2>5. out' \in Page \cup {0}
    BY <1>1 DEF IInv, TypeOK
  <2> QED
    BY <2>1, <2>2, <2>3, <2>4, <2>5 DEF TypeOK
<1>4. 0 \notin Clear'
  BY <1>1, LowPinned, LimitType, ConstantTypes DEF Clear
<1>5. Owned'
  BY <1>1, <1>4 DEF Owned
<1> QED
  BY <1>2, <1>3, <1>5 DEF IInv

LEMMA PmmInitNoneInv ==
  ASSUME IInv, pmm_init_none PROVE IInv'
<1>1. /\ ready' = TRUE /\ held' = held /\ held = {} /\ out' = out /\ mm' = mm
      /\ pages_limit' = MaxPages /\ bitmap' = Page /\ pages_used' = MaxPages
  BY DEF pmm_init_none, IInv, Owned
<1>2. UsedCount'
  BY <1>1, PagesFinite DEF UsedCount
<1>3. TypeOK'
  <2>1. pages_limit' \in 0 .. MaxPages /\ pages_used' \in Int
    BY <1>1, ConstantTypes
  <2> QED
    BY <1>1, <2>1 DEF IInv, TypeOK
<1>4. Clear' = {}
  BY <1>1, ConstantTypes DEF Clear, Page
<1> QED
  BY <1>1, <1>2, <1>3, <1>4 DEF IInv, Owned

\* A clear bit to hand out is a page nobody holds, and not page 0.
LEMMA ClearOK ==
  ASSUME IInv
  PROVE  /\ Clear \subseteq Page /\ Clear \cap held = {} /\ Clear \cap bitmap = {}
         /\ \A p \in Clear : p \in Nat /\ p # 0 /\ p < pages_limit
<1>1. pages_limit \in 0 .. MaxPages /\ held \subseteq bitmap /\ 0 \notin Clear
  BY DEF IInv, TypeOK, Owned
<1> QED
  BY <1>1, ConstantTypes DEF Clear, Page

\* What pmm_alloc does, its CHOOSE and its branches unfolded.
LEMMA AllocStep ==
  ASSUME IInv, pmm_alloc
  PROVE  /\ UNCHANGED <<pages_limit, mm, ready>> /\ ready
         /\ \/ Clear = {} /\ out' = 0 /\ UNCHANGED <<bitmap, pages_used, held>>
            \/ \E i \in Clear : /\ out' = i /\ bitmap' = bitmap \cup {i}
                                /\ pages_used' = pages_used + 1 /\ held' = held \cup {i}
<1>1. CASE Clear = {}
  BY <1>1 DEF pmm_alloc
<1>2. CASE Clear # {}
  <2>1. Clear \subseteq Nat
    BY ClearOK
  <2>2. \E p \in Clear : \A r \in Clear : p <= r
    BY <1>2, <2>1, LeastNat
  <2>3. (CHOOSE p \in Clear : \A r \in Clear : p <= r) \in Clear
    BY <2>2
  <2> QED
    BY <1>2, <2>3 DEF pmm_alloc
<1> QED
  BY <1>1, <1>2

LEMMA PmmAllocInv ==
  ASSUME IInv, pmm_alloc PROVE IInv'
<1>1. CASE Clear = {} /\ out' = 0 /\ UNCHANGED <<bitmap, pages_used, held>>
  <2>1. UNCHANGED <<bitmap, pages_used, pages_limit, mm, ready, held>> /\ out' = 0
    BY <1>1, AllocStep
  <2> QED
    BY <2>1 DEF IInv, TypeOK, UsedCount, Owned, Clear
<1>2. ASSUME NEW i \in Clear, out' = i, bitmap' = bitmap \cup {i},
             pages_used' = pages_used + 1, held' = held \cup {i}
      PROVE  IInv'
  <2>1. UNCHANGED <<pages_limit, mm, ready>> /\ ready
    BY AllocStep
  <2>2. i \in Page /\ i \notin bitmap /\ i # 0 /\ i < pages_limit
    BY ClearOK
  <2>3. UsedCount'
    <3>1. bitmap \in SUBSET Page /\ pages_used = Cardinality(bitmap)
      BY DEF IInv, TypeOK, UsedCount
    <3>2. Cardinality(bitmap \cup {i}) = Cardinality(bitmap) + 1
      BY <2>2, <3>1, PagesFinite, FS_AddElement
    <3> QED
      BY <1>2, <3>1, <3>2 DEF UsedCount
  <2>4. TypeOK'
    BY <1>2, <2>1, <2>2 DEF IInv, TypeOK
  <2>5. Owned'
    BY <1>2, <2>1, <2>2 DEF IInv, Owned, Clear
  <2> QED
    BY <2>3, <2>4, <2>5 DEF IInv
<1> QED
  BY <1>1, <1>2, AllocStep

LEMMA PmmFreeInv ==
  ASSUME IInv, NEW i \in held, pmm_free(i) PROVE IInv'
<1>1. i \in bitmap /\ i < pages_limit /\ i \in Page /\ i # 0
  BY DEF IInv, TypeOK, Owned
<1>2. /\ bitmap' = bitmap \ {i} /\ pages_used' = pages_used - 1 /\ held' = held \ {i}
      /\ UNCHANGED <<pages_limit, out, mm, ready>>
  BY <1>1 DEF pmm_free
<1>3. UsedCount'
  <2>1. bitmap \in SUBSET Page /\ pages_used = Cardinality(bitmap)
    BY DEF IInv, TypeOK, UsedCount
  <2>2. Cardinality(bitmap \ {i}) = Cardinality(bitmap) - 1
    BY <1>1, <2>1, PagesFinite, FS_RemoveElement
  <2> QED
    BY <1>2, <2>1, <2>2 DEF UsedCount
<1>4. TypeOK'
  BY <1>2 DEF IInv, TypeOK
<1>5. Owned'
  BY <1>1, <1>2 DEF IInv, Owned, Clear
<1> QED
  BY <1>3, <1>4, <1>5 DEF IInv

LEMMA NextInv == IInv /\ [Next]_vars => IInv'
<1> SUFFICES ASSUME IInv, [Next]_vars PROVE IInv'
  OBVIOUS
<1>1. CASE \E map \in MemMap : pmm_init(map)
  BY <1>1, PmmInitInv
<1>2. CASE pmm_init_none
  BY <1>2, PmmInitNoneInv
<1>3. CASE pmm_alloc
  BY <1>3, PmmAllocInv
<1>4. CASE \E i \in held : pmm_free(i)
  BY <1>4, PmmFreeInv
<1>5. CASE UNCHANGED vars
  BY <1>5 DEF vars, IInv, TypeOK, UsedCount, Owned, Clear
<1> QED
  BY <1>1, <1>2, <1>3, <1>4, <1>5 DEF Next

-----------------------------------------------------------------------------
\* The inductive invariant: the types, the exact count, and who owns what.
THEOREM Invariance == Spec => []IInv
BY InitInv, NextInv, PTL DEF Spec

\* For every machine, the count of used pages is the number of set bits.
THEOREM UsedCountExact == Spec => []UsedCount
<1>1. IInv => UsedCount
  BY DEF IInv
<1> QED
  BY <1>1, Invariance, PTL

-----------------------------------------------------------------------------
(* Refinement. *)

LEMMA NextRefines == IInv /\ IInv' /\ [Next]_vars => [Pages!Next]_Pages!vars
<1> SUFFICES ASSUME IInv, IInv', [Next]_vars PROVE [Pages!Next]_Pages!vars
  OBVIOUS
<1> DEFINE avail == IF ready THEN Clear \cup held ELSE {}
<1> USE DEF Pages!Next, Pages!vars, Pages!Setup, Pages!Alloc, Pages!Fail, Pages!Free
<1>1. CASE \E map \in MemMap : pmm_init(map)
  BY <1>1 DEF pmm_init, IInv, Owned
<1>2. CASE pmm_init_none
  BY <1>2 DEF pmm_init_none, IInv, Owned
<1>3. CASE pmm_alloc
  <2>1. CASE Clear = {} /\ out' = 0 /\ UNCHANGED <<bitmap, pages_used, held>>
    BY <2>1, <1>3, AllocStep DEF Clear
  <2>2. ASSUME NEW i \in Clear, out' = i, bitmap' = bitmap \cup {i}, held' = held \cup {i}
        PROVE  [Pages!Next]_Pages!vars
    <3>1. UNCHANGED <<pages_limit, ready>> /\ ready
      BY <1>3, AllocStep
    <3>2. Clear' = Clear \ {i}
      BY <2>2, <3>1 DEF Clear
    <3>3. avail' = avail /\ i \in avail \ held /\ i # 0
      BY <2>2, <3>1, <3>2, ClearOK
    <3>4. Pages!Alloc(i)
      BY <2>2, <3>1, <3>3
    <3> QED
      BY <3>3, <3>4
  <2> QED
    BY <1>3, <2>1, <2>2, AllocStep
<1>4. CASE \E i \in held : pmm_free(i)
  <2>1. PICK i \in held : pmm_free(i)
    BY <1>4
  <2>2. i \in bitmap /\ i < pages_limit /\ i \in Page /\ ready /\ pages_limit \in 0 .. MaxPages
    BY DEF IInv, TypeOK, Owned
  <2>3. bitmap' = bitmap \ {i} /\ held' = held \ {i} /\ UNCHANGED <<pages_limit, out, ready>>
    BY <2>1, <2>2 DEF pmm_free
  <2>4. Clear' = Clear \cup {i}
    BY <2>2, <2>3, ConstantTypes DEF Clear, Page
  <2>5. avail' = avail /\ i \in avail
    BY <2>2, <2>3, <2>4
  <2> QED
    BY <2>2, <2>3, <2>5
<1>5. CASE UNCHANGED vars
  BY <1>5 DEF vars, Clear
<1> QED
  BY <1>1, <1>2, <1>3, <1>4, <1>5 DEF Next

\* For every machine, the bitmap implements the allocator: no page has two
\* holders, and an allocation fails only when every page is held.
THEOREM BitmapImplementsAllocator == Spec => ImplementsPageAllocator
<1>1. Init => Pages!Init
  BY DEF Init, Pages!Init
<1> QED
  BY <1>1, NextRefines, Invariance, PTL DEF Spec, ImplementsPageAllocator, Pages!Spec

-----------------------------------------------------------------------------
(* The rounding of byte ranges to pages. *)

LEMMA Div ==
  ASSUME NEW x \in Nat, NEW n \in Nat \ {0}
  PROVE  x \div n \in Nat /\ n * (x \div n) <= x /\ x < n * (x \div n) + n
OBVIOUS

LEMMA TimesMonotone ==
  ASSUME NEW n \in Nat, NEW p \in Nat, NEW q \in Nat, p <= q
  PROVE  n * p <= n * q
OBVIOUS

\* The bytes of page p lie from PageSize * p on, up to PageSize * (p + 1).
LEMMA PageBytes ==
  ASSUME NEW p \in Nat, NEW b \in p * PageSize .. (p + 1) * PageSize - 1
  PROVE  b \in Nat /\ PageSize * p <= b /\ b < PageSize * (p + 1)
<1>1. PageSize * p \in Nat /\ PageSize * (p + 1) \in Nat
  BY ConstantTypes
<1>2. p * PageSize = PageSize * p /\ (p + 1) * PageSize = PageSize * (p + 1)
  BY ConstantTypes
<1> QED
  BY <1>1, <1>2

\* Every byte of a page that mark_free clears is in the range.
LEMMA InsideBytes ==
  ASSUME NEW base \in Nat, NEW len \in Nat, NEW limit, NEW p \in Inside(base, len, limit),
         NEW b \in p * PageSize .. (p + 1) * PageSize - 1
  PROVE  base <= b /\ b < base + len
<1> DEFINE u == Up(base)
           d == Down(base + len)
<1>1. p \in Nat /\ u <= p /\ p < d
  BY ConstantTypes DEF Inside, Page
<1>2. u \in Nat /\ base + PageSize - 1 < PageSize * u + PageSize
  BY ConstantTypes, Div DEF Up
<1>3. d \in Nat /\ PageSize * d <= base + len
  BY ConstantTypes, Div DEF Down
<1> HIDE DEF u, d
<1>4. PageSize * u <= PageSize * p /\ PageSize * u \in Nat /\ PageSize * p \in Nat
  BY <1>1, <1>2, ConstantTypes, TimesMonotone
<1>5. PageSize * (p + 1) <= PageSize * d /\ PageSize * (p + 1) \in Nat /\ PageSize * d \in Nat
  <2>1. p + 1 \in Nat /\ p + 1 <= d
    BY <1>1, <1>3
  <2> QED
    BY <2>1, <1>3, ConstantTypes, TimesMonotone
<1>6. b \in Nat /\ PageSize * p <= b /\ b < PageSize * (p + 1)
  BY <1>1, PageBytes
<1> QED
  BY <1>2, <1>3, <1>4, <1>5, <1>6, ConstantTypes

\* mark_used sets the page of every byte in the range.
LEMMA TouchedBytes ==
  ASSUME NEW base \in Nat, NEW len \in Nat, NEW limit, NEW p \in Page, p < limit,
         NEW b \in p * PageSize .. (p + 1) * PageSize - 1, base <= b, b < base + len
  PROVE  p \in Touched(base, len, limit)
<1> DEFINE d == Down(base)
           u == Up(base + len)
<1>1. p \in Nat
  BY DEF Page
<1>2. d \in Nat /\ PageSize * d <= base
  BY ConstantTypes, Div DEF Down
<1>3. u \in Nat /\ base + len + PageSize - 1 < PageSize * u + PageSize
  BY ConstantTypes, Div DEF Up
<1> HIDE DEF d, u
<1>4. b \in Nat /\ PageSize * p <= b /\ b < PageSize * (p + 1)
  BY <1>1, PageBytes
<1>5. /\ PageSize * p \in Nat /\ PageSize * (p + 1) \in Nat
      /\ PageSize * d \in Nat /\ PageSize * u \in Nat
  BY <1>1, <1>2, <1>3, ConstantTypes
<1>6. d <= p
  <2> SUFFICES ASSUME p + 1 <= d PROVE FALSE
    BY <1>1, <1>2
  <2>1. PageSize * (p + 1) <= PageSize * d
    BY <1>1, <1>2, ConstantTypes, TimesMonotone
  <2> QED
    BY <2>1, <1>2, <1>4, <1>5
<1>7. p < u
  <2> SUFFICES ASSUME u <= p PROVE FALSE
    BY <1>1, <1>3
  <2>1. PageSize * u <= PageSize * p
    BY <1>1, <1>3, ConstantTypes, TimesMonotone
  <2> QED
    BY <2>1, <1>3, <1>4, <1>5, ConstantTypes
<1> QED
  BY <1>6, <1>7 DEF Touched, d, u

-----------------------------------------------------------------------------
(* Safety of the pages handed out. *)

\* Held or free, a page of the allocator was freed by pmm_init and not taken
\* back for the kernel or the low memory.
Provenance ==
  /\ mm # NoMap => pages_limit = Limit(mm)
  /\ mm = NoMap => Clear \cup held = {}
  /\ mm # NoMap => Clear \cup held \subseteq Freed(mm) \ Pinned(mm)
  /\ ~ready => pages_limit = 0 /\ mm = NoMap

LEMMA InitProvenance == Init => Provenance
BY DEF Init, Provenance, Clear

LEMMA NextProvenance == IInv /\ Provenance /\ [Next]_vars => Provenance'
<1> SUFFICES ASSUME IInv, Provenance, [Next]_vars PROVE Provenance'
  OBVIOUS
<1>1. ASSUME NEW map \in MemMap, pmm_init(map) PROVE Provenance'
  <2>1. /\ held' = {} /\ mm' = map /\ map # NoMap /\ ready' = TRUE /\ pages_limit' = Limit(map)
        /\ bitmap' = (Page \ Freed(map)) \cup Pinned(map)
    BY <1>1, PhysMemConstantsOK DEF pmm_init, IInv, Owned
  <2>2. Clear' \subseteq Page
    BY <2>1, LimitType, ConstantTypes DEF Clear, Page
  <2>3. Clear' \subseteq Freed(map) \ Pinned(map)
    BY <2>1, <2>2 DEF Clear
  <2> QED
    BY <2>1, <2>3 DEF Provenance
<1>2. CASE pmm_init_none
  <2>1. /\ held' = {} /\ mm' = NoMap /\ ready' = TRUE /\ pages_limit' = MaxPages /\ bitmap' = Page
    BY <1>2 DEF pmm_init_none, IInv, Owned, Provenance
  <2>2. Clear' = {}
    BY <2>1, ConstantTypes DEF Clear, Page
  <2> QED
    BY <2>1, <2>2 DEF Provenance
<1>3. CASE pmm_alloc
  <2>1. UNCHANGED <<pages_limit, mm, ready>> /\ Clear' \cup held' \subseteq Clear \cup held
    BY <1>3, AllocStep DEF Clear
  <2> QED
    BY <2>1 DEF Provenance
<1>4. ASSUME NEW i \in held, pmm_free(i) PROVE Provenance'
  <2>1. UNCHANGED <<pages_limit, mm, ready>> /\ Clear' \cup held' \subseteq Clear \cup held
    BY <1>4 DEF pmm_free, Clear
  <2> QED
    BY <2>1 DEF Provenance
<1>5. CASE UNCHANGED vars
  BY <1>5 DEF vars, Provenance, Clear
<1> QED
  BY <1>1, <1>2, <1>3, <1>4, <1>5 DEF Next

LEMMA ProvenanceIsSafe == IInv /\ Provenance => PagesAreSafe
<1> SUFFICES ASSUME IInv, Provenance, NEW p \in held,
                    NEW b \in p * PageSize .. (p + 1) * PageSize - 1
             PROVE  /\ \E e \in mm : e.usable /\ e.base <= b /\ b < e.base + e.len
                    /\ b >= LowEnd
                    /\ ~(Kernel.base <= b /\ b < Kernel.base + Kernel.len)
  BY DEF PagesAreSafe
<1>1. /\ mm # NoMap /\ mm \in MemMap /\ p \in Freed(mm) /\ p \notin Pinned(mm) /\ p \in Page
      /\ p \in Nat /\ p < pages_limit /\ pages_limit = Limit(mm)
  BY DEF IInv, TypeOK, Owned, Provenance, Page
<1>2. b \in Nat
  BY <1>1, PageBytes
<1>3. \E e \in mm : e.usable /\ e.base <= b /\ b < e.base + e.len
  <2>1. PICK e \in mm : e.usable /\ p \in Inside(e.base, e.len, Limit(mm))
    BY <1>1 DEF Freed
  <2>2. e.base \in Nat /\ e.len \in Nat
    BY <1>1, <2>1, PhysMemConstantsOK
  <2> QED
    BY <2>1, <2>2, InsideBytes
<1>4. b >= LowEnd
  <2> SUFFICES ASSUME b < LowEnd PROVE FALSE
    BY <1>2, ConstantTypes
  <2>1. p \in Touched(0, LowEnd, Limit(mm))
    BY <1>1, <1>2, ConstantTypes, TouchedBytes
  <2> QED
    BY <1>1, <2>1 DEF Pinned
<1>5. ~(Kernel.base <= b /\ b < Kernel.base + Kernel.len)
  <2> SUFFICES ASSUME Kernel.base <= b, b < Kernel.base + Kernel.len PROVE FALSE
    OBVIOUS
  <2>1. Kernel.base \in Nat /\ Kernel.len \in Nat
    BY PhysMemConstantsOK
  <2>2. p \in Touched(Kernel.base, Kernel.len, Limit(mm))
    BY <1>1, <2>1, TouchedBytes
  <2>3. Kernel.len # 0
    BY <1>2, <2>1
  <2> QED
    BY <1>1, <2>2, <2>3 DEF Pinned
<1> QED
  BY <1>3, <1>4, <1>5

\* For every memory map, whatever its ranges and wherever the kernel lies:
\* each byte of a page handed out is usable memory, outside the kernel and
\* above the low memory.
THEOREM HandedOutPagesAreSafe == Spec => []PagesAreSafe
BY InitInv, InitProvenance, NextInv, NextProvenance, ProvenanceIsSafe, PTL DEF Spec
=============================================================================
