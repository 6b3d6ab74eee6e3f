-------------------------- MODULE AppMemoryProofs ---------------------------
(***************************************************************************)
(* For every set of programs that fit the window, every memory and every   *)
(* memory map: each page the allocator handed out has exactly one use or   *)
(* was lost when a program was unmapped, the TLB never contradicts the     *)
(* page tables, loading never faults, a program that runs has its          *)
(* segments' rights, and as long as the pages not lost yet are enough for  *)
(* a full window no run fails for want of memory.                          *)
(***************************************************************************)
EXTENDS AppMemory, FiniteSetTheorems, TLAPS

PmmP == INSTANCE PhysMemProofs

-----------------------------------------------------------------------------
(* The allocator, which PhysMemProofs proves about, is the one in here. *)

LEMMA PmmConstantsOK ==
  /\ PageSize \in Nat \ {0} /\ MaxPages \in Nat /\ LowEnd \in Nat \ {0} /\ MaxAddr \in Nat
  /\ \A map \in MemMap : map \subseteq [base : 0 .. MaxAddr, len : 0 .. MaxAddr, usable : BOOLEAN]
  /\ Kernel \in [base : Nat, len : Nat] /\ NoMap \notin MemMap
BY AppMemoryConstantsOK

LEMMA SameCardinality ==
  /\ \A S : PmmP!Cardinality(S) = Cardinality(S) /\ Pmm!Cardinality(S) = Cardinality(S)
  /\ \A S : PmmP!IsFiniteSet(S) <=> IsFiniteSet(S)
<1>1. \A S : PmmP!Cardinality(S) = Cardinality(S)
  BY Zenon DEF PmmP!Cardinality, Cardinality
<1>2. \A S : Pmm!Cardinality(S) = Cardinality(S)
  BY Zenon DEF Pmm!Cardinality, Cardinality
<1>3. \A S : PmmP!IsFiniteSet(S) <=> IsFiniteSet(S)
  BY DEF PmmP!IsFiniteSet, IsFiniteSet
<1> QED
  BY <1>1, <1>2, <1>3

LEMMA SameAllocator ==
  /\ PmmP!Init <=> Pmm!Init
  /\ PmmP!TypeOK <=> Pmm!TypeOK
  /\ \A map : PmmP!pmm_init(map) <=> Pmm!pmm_init(map)
  /\ PmmP!pmm_alloc <=> Pmm!pmm_alloc
  /\ \A i : PmmP!pmm_free(i) <=> Pmm!pmm_free(i)
  /\ PmmP!Clear = Pmm!Clear /\ PmmP!Page = Pmm!Page
<1>1. PmmP!Page = Pmm!Page /\ PmmP!Clear = Pmm!Clear
  BY DEF PmmP!Page, Pmm!Page, PmmP!Clear, Pmm!Clear
<1>2. \A x : PmmP!Up(x) = Pmm!Up(x) /\ PmmP!Down(x) = Pmm!Down(x)
  BY DEF PmmP!Up, Pmm!Up, PmmP!Down, Pmm!Down
<1>3. \A map : PmmP!Limit(map) = Pmm!Limit(map)
  BY <1>1, <1>2, SameCardinality, Zenon DEF PmmP!Limit, Pmm!Limit
<1>4. \A base, len, limit : /\ PmmP!Inside(base, len, limit) = Pmm!Inside(base, len, limit)
                            /\ PmmP!Touched(base, len, limit) = Pmm!Touched(base, len, limit)
  BY <1>1, <1>2, Zenon DEF PmmP!Inside, Pmm!Inside, PmmP!Touched, Pmm!Touched
<1>5. \A map : PmmP!Freed(map) = Pmm!Freed(map) /\ PmmP!Pinned(map) = Pmm!Pinned(map)
  BY <1>3, <1>4, Zenon DEF PmmP!Freed, Pmm!Freed, PmmP!Pinned, Pmm!Pinned
<1>6. \A map : PmmP!pmm_init(map) <=> Pmm!pmm_init(map)
  BY <1>1, <1>3, <1>5, SameCardinality DEF PmmP!pmm_init, Pmm!pmm_init
<1>7. PmmP!pmm_alloc <=> Pmm!pmm_alloc
  BY <1>1 DEF PmmP!pmm_alloc, Pmm!pmm_alloc
<1>8. \A i : PmmP!pmm_free(i) <=> Pmm!pmm_free(i)
  BY DEF PmmP!pmm_free, Pmm!pmm_free
<1>9. PmmP!Init <=> Pmm!Init
  BY DEF PmmP!Init, Pmm!Init
<1>10. PmmP!TypeOK <=> Pmm!TypeOK
  BY <1>1 DEF PmmP!TypeOK, Pmm!TypeOK
<1> QED
  BY <1>1, <1>6, <1>7, <1>8, <1>9, <1>10

\* What an allocation, a free and the boot do to the pages that are held.
LEMMA AllocPmm ==
  ASSUME PmmP!IInv, Pmm!pmm_alloc
  PROVE  /\ PmmP!IInv' /\ ready /\ ready' = ready /\ Pmm!Clear' \cup held' = Pmm!Clear \cup held
         /\ \/ out' = 0 /\ held' = held /\ Pmm!Clear = {}
            \/ /\ out' \in Pmm!Page /\ out' # 0 /\ out' \notin held
               /\ held' = held \cup {out'}
<1>1. PmmP!pmm_alloc
  BY SameAllocator
<1>2. PmmP!IInv'
  BY <1>1, PmmP!PmmAllocInv, PmmConstantsOK
<1>3. /\ UNCHANGED <<pages_limit, mm, ready>> /\ ready
      /\ \/ PmmP!Clear = {} /\ out' = 0 /\ UNCHANGED <<bitmap, pages_used, held>>
         \/ \E i \in PmmP!Clear : /\ out' = i /\ bitmap' = bitmap \cup {i}
                                  /\ pages_used' = pages_used + 1 /\ held' = held \cup {i}
  BY <1>1, PmmP!AllocStep, PmmConstantsOK
<1>4. /\ PmmP!Clear \subseteq PmmP!Page /\ PmmP!Clear \cap held = {}
      /\ \A p \in PmmP!Clear : p # 0
  BY PmmP!ClearOK, PmmConstantsOK
<1>5. PmmP!Clear' \cup held' = PmmP!Clear \cup held
  BY <1>3 DEF PmmP!Clear
<1> QED
  BY <1>2, <1>3, <1>4, <1>5, SameAllocator DEF PmmP!Clear, Pmm!Clear

LEMMA FreePmm ==
  ASSUME PmmP!IInv, NEW i \in held, Pmm!pmm_free(i)
  PROVE  /\ PmmP!IInv' /\ UNCHANGED <<ready, out>> /\ Pmm!Clear' \cup held' = Pmm!Clear \cup held
         /\ held' = held \ {i}
<1>1. PmmP!pmm_free(i)
  BY SameAllocator
<1>2. PmmP!IInv'
  BY <1>1, PmmP!PmmFreeInv, PmmConstantsOK
<1>3. i \in bitmap /\ i < pages_limit /\ i \in Pmm!Page /\ pages_limit \in 0 .. MaxPages
  BY DEF PmmP!IInv, PmmP!Owned, PmmP!TypeOK, PmmP!Page, Pmm!Page
<1>4. bitmap' = bitmap \ {i} /\ held' = held \ {i} /\ UNCHANGED <<ready, out, pages_limit>>
  BY <1>3 DEF Pmm!pmm_free
<1>5. Pmm!Clear' = Pmm!Clear \cup {i}
  BY <1>3, <1>4, PmmConstantsOK DEF Pmm!Clear, Pmm!Page
<1> QED
  BY <1>2, <1>4, <1>5

\* A page past all memory is ignored.
LEMMA FreeIgnored ==
  ASSUME PmmP!IInv, NEW i \in Nat, i >= MaxPages, Pmm!pmm_free(i)
  PROVE  PmmP!IInv' /\ UNCHANGED <<ready, out, held>> /\ Pmm!Clear' = Pmm!Clear
<1>1. pages_limit \in 0 .. MaxPages /\ held \subseteq 0 .. MaxPages - 1
  BY DEF PmmP!IInv, PmmP!TypeOK, PmmP!Page
<1>2. ~(i < pages_limit) /\ i \notin held
  BY <1>1, PmmConstantsOK
<1>3. UNCHANGED <<bitmap, pages_used, held, pages_limit, out, mm, ready>>
  BY <1>2 DEF Pmm!pmm_free
<1>4. PmmP!IInv'
  BY <1>3 DEF PmmP!IInv, PmmP!TypeOK, PmmP!UsedCount, PmmP!Owned, PmmP!Page, PmmP!Clear
<1> QED
  BY <1>3, <1>4 DEF Pmm!Clear

LEMMA BootPmm ==
  ASSUME PmmP!IInv, NEW map \in MemMap, Pmm!pmm_init(map)
  PROVE  PmmP!IInv' /\ ~ready /\ held' = held
<1>1. PmmP!pmm_init(map)
  BY SameAllocator
<1> QED
  BY <1>1, PmmP!PmmInitInv, PmmConstantsOK DEF Pmm!pmm_init

LEMMA SamePmm ==
  ASSUME UNCHANGED pmm
  PROVE  (PmmP!IInv <=> PmmP!IInv') /\ Pmm!Clear' = Pmm!Clear
BY DEF pmm, PmmP!IInv, PmmP!TypeOK, PmmP!UsedCount, PmmP!Owned, PmmP!Clear, Pmm!Clear, PmmP!Page

LEMMA HeldType ==
  ASSUME PmmP!IInv
  PROVE  /\ held \subseteq Pmm!Page /\ 0 \notin held /\ IsFiniteSet(held) /\ Cardinality(held) \in Nat
         /\ \A p \in held : p \in Nat
         /\ ~ready => held = {}
<1>1. held \in SUBSET PmmP!Page /\ 0 \notin held /\ (~ready => held = {})
  BY DEF PmmP!IInv, PmmP!TypeOK, PmmP!Owned
<1>2. IsFiniteSet(held) /\ Cardinality(held) \in 0 .. MaxPages
  <2>1. \A S \in SUBSET PmmP!Page : IsFiniteSet(S) /\ Cardinality(S) \in 0 .. MaxPages
    BY PmmP!PagesFinite, PmmConstantsOK, SameCardinality
  <2> QED
    BY <1>1, <2>1, Zenon
<1> QED
  BY <1>1, <1>2, PmmConstantsOK DEF PmmP!Page, Pmm!Page

-----------------------------------------------------------------------------
(* Where a program goes. *)

LEMMA LeastNat == ASSUME NEW S \in SUBSET Nat, S # {} PROVE \E x \in S : \A y \in S : x <= y
BY PmmP!LeastNat, PmmConstantsOK

LEMMA Quotient ==
  ASSUME NEW n \in Nat \ {0}, NEW x \in Nat, NEW k \in Nat
  PROVE  /\ x \div n \in Nat
         /\ n * k <= x => k <= x \div n
         /\ x < n * k => x \div n < k
<1> DEFINE d == x \div n
<1>1. d \in Nat /\ n * d <= x /\ x < n * d + n
  BY PmmP!Div, PmmConstantsOK
<1>2. n * d \in Nat /\ n * k \in Nat /\ n * (d + 1) = n * d + n
  BY <1>1
<1>3. k <= d \/ d + 1 <= k
  BY <1>1
<1>4. d + 1 <= k => n * (d + 1) <= n * k
  BY <1>1, PmmP!TimesMonotone, PmmConstantsOK
<1>5. k <= d => n * k <= n * d
  BY <1>1, PmmP!TimesMonotone, PmmConstantsOK
<1> HIDE DEF d
<1>6. n * k <= x => k <= d
  BY <1>1, <1>2, <1>3, <1>4
<1>7. x < n * k => d < k
  BY <1>1, <1>2, <1>3, <1>5
<1> QED
  BY <1>1, <1>6, <1>7 DEF d

LEMMA QuotientMonotone ==
  ASSUME NEW n \in Nat \ {0}, NEW x \in Nat, NEW y \in Nat, x <= y
  PROVE  x \div n \in Nat /\ y \div n \in Nat /\ x \div n <= y \div n
<1> DEFINE d == x \div n
<1>1. d \in Nat /\ n * d <= x
  BY PmmP!Div, PmmConstantsOK
<1>2. n * d \in Nat
  BY <1>1
<1>3. n * d <= y
  BY <1>1, <1>2
<1> QED
  BY <1>1, <1>3, Quotient

LEMMA ProgramTypes ==
  ASSUME NEW p \in Program
  PROVE  /\ p.segs \in Seq(Segment) /\ Len(p.segs) \in Nat \ {0} /\ DOMAIN p.segs = 1 .. Len(p.segs)
         /\ \A i \in DOMAIN p.segs :
              /\ p.segs[i].vaddr \in Nat /\ p.segs[i].memsz \in Nat \ {0}
              /\ p.segs[i].w \in BOOLEAN /\ p.segs[i].x \in BOOLEAN
         /\ p.relocs \subseteq Nat
         /\ Loadable(p)
<1>1. p \in ProgramType /\ Loadable(p)
  BY AppMemoryConstantsOK
<1>2. p.segs \in Seq(Segment) /\ p.relocs \subseteq Nat
  BY <1>1 DEF ProgramType
<1>3. p.segs # <<>>
  BY <1>1 DEF Loadable
<1>4. \A i \in DOMAIN p.segs : p.segs[i] \in Segment
  BY <1>2
<1>5. DOMAIN p.segs = 1 .. Len(p.segs) /\ Len(p.segs) \in Nat
  BY <1>2
<1>6. Len(p.segs) # 0
  BY <1>2, <1>3
<1> QED
  BY <1>1, <1>2, <1>4, <1>5, <1>6 DEF Segment

\* The lowest address is that of a segment, and no segment lies below it.
LEMMA LowestAddress ==
  ASSUME NEW p \in Program
  PROVE  vmin(p) \in Nat /\ \A i \in DOMAIN p.segs : vmin(p) <= p.segs[i].vaddr
<1> DEFINE V == {s.vaddr : s \in Segs(p)}
<1>1. V \in SUBSET Nat /\ V # {} /\ \A i \in DOMAIN p.segs : p.segs[i] \in Segs(p)
  BY ProgramTypes DEF Segs
<1>2. \E a \in V : \A s \in Segs(p) : a <= s.vaddr
  <2>1. \A s \in Segs(p) : s.vaddr \in V
    OBVIOUS
  <2> HIDE DEF V
  <2>2. PICK a \in V : \A y \in V : a <= y
    BY <1>1, LeastNat
  <2> QED
    BY <2>1, <2>2
<1>3. vmin(p) \in V /\ \A s \in Segs(p) : vmin(p) <= s.vaddr
  BY <1>2 DEF vmin
<1> QED
  BY <1>1, <1>3

\* A segment's pages are an interval of the window, which holds every address
\* of the segment.
LEMMA SegmentPages ==
  ASSUME NEW p \in Program, NEW i \in DOMAIN p.segs
  PROVE  /\ First(p, p.segs[i]) \in Nat /\ Last(p, p.segs[i]) \in Nat
         /\ First(p, p.segs[i]) <= Last(p, p.segs[i])
         /\ Last(p, p.segs[i]) < WindowPages
         /\ \A a \in Nat : p.segs[i].vaddr <= a /\ a < p.segs[i].vaddr + p.segs[i].memsz
                             => dst(p, a) \div PageSize \in PagesOf(p, p.segs[i])
<1> DEFINE s == p.segs[i]
           d == dst(p, s.vaddr)
           e == d + s.memsz + PageSize - 1
           f == d \div PageSize
           b == e \div PageSize
<1>1. /\ s.vaddr \in Nat /\ s.memsz \in Nat \ {0} /\ PageSize \in Nat \ {0}
      /\ vmin(p) \in Nat /\ vmin(p) <= s.vaddr
  BY ProgramTypes, LowestAddress, PmmConstantsOK
<1>2. d \in Nat /\ e \in Nat /\ e >= d + PageSize
  BY <1>1 DEF dst
<1>3. First(p, s) = f /\ Last(p, s) = b - 1
  BY DEF First, Last
<1>4. Last(p, s) < WindowPages
  BY ProgramTypes DEF Loadable
<1>5. f \in Nat /\ b \in Nat /\ PageSize * f <= d /\ e < PageSize * b + PageSize
  BY <1>1, <1>2, PmmP!Div, PmmConstantsOK
<1>6. dst(p, s.vaddr) = s.vaddr - vmin(p) /\ d = dst(p, s.vaddr)
  BY DEF dst
<1> HIDE DEF s, d, b, f
<1>7. f + 1 <= b
  <2>1. PageSize * f \in Nat /\ PageSize * (f + 1) = PageSize * f + PageSize
    BY <1>1, <1>5
  <2>2. PageSize * (f + 1) <= e
    BY <1>1, <1>2, <1>5, <2>1
  <2>3. f + 1 \in Nat
    BY <1>5
  <2> HIDE DEF e
  <2>4. f + 1 <= e \div PageSize
    BY <1>1, <1>2, <2>2, <2>3, Quotient
  <2> QED
    BY <2>4 DEF b, e
<1>8. ASSUME NEW a \in Nat, s.vaddr <= a, a < s.vaddr + s.memsz
      PROVE  dst(p, a) \div PageSize \in f .. b - 1
  <2> DEFINE y == a - vmin(p)
  <2>1. y \in Nat /\ d <= y /\ y + PageSize <= e /\ dst(p, a) = y
    BY <1>1, <1>6, <1>8 DEF dst
  <2>2. PageSize * b \in Nat /\ y < PageSize * b
    BY <1>1, <1>2, <1>5, <2>1
  <2> HIDE DEF y
  <2>3. y \div PageSize \in Nat /\ y \div PageSize < b
    BY <1>1, <1>5, <2>1, <2>2, Quotient
  <2>4. f <= y \div PageSize
    BY <1>1, <1>2, <2>1, QuotientMonotone DEF f
  <2> QED
    BY <1>5, <2>1, <2>3, <2>4
<1>9. \A a \in Nat : s.vaddr <= a /\ a < s.vaddr + s.memsz => dst(p, a) \div PageSize \in PagesOf(p, s)
  BY <1>3, <1>8 DEF PagesOf
<1>10. First(p, s) \in Nat /\ Last(p, s) \in Nat /\ First(p, s) <= Last(p, s)
  BY <1>3, <1>5, <1>7
<1> QED
  BY <1>4, <1>9, <1>10 DEF s

LEMMA OneSegment ==
  ASSUME NEW p \in Program, NEW i \in DOMAIN p.segs, NEW j \in DOMAIN p.segs,
         NEW v \in PagesOf(p, p.segs[i]), v \in PagesOf(p, p.segs[j])
  PROVE  i = j
BY ProgramTypes DEF Loadable

LEMMA PagesInWindow ==
  ASSUME NEW p \in Program, NEW i \in DOMAIN p.segs, NEW v \in PagesOf(p, p.segs[i])
  PROVE  v \in Window /\ v \in Nat /\ v <= Last(p, p.segs[i]) /\ First(p, p.segs[i]) <= v
BY SegmentPages, AppMemoryConstantsOK DEF PagesOf, Window

LEMMA TotalPages ==
  ASSUME NEW p \in Program
  PROVE  Total(p) \in 0 .. WindowPages /\ \A i \in DOMAIN p.segs : Last(p, p.segs[i]) < Total(p)
<1> DEFINE Covers(n) == \A s \in Segs(p) : Last(p, s) + 1 <= n
           B == {n \in 0 .. WindowPages : Covers(n)}
<1>1. \A s \in Segs(p) : Last(p, s) \in Nat /\ Last(p, s) < WindowPages
  BY SegmentPages DEF Segs
<1>2. /\ \A i \in DOMAIN p.segs : p.segs[i] \in Segs(p)
      /\ \E s : s \in Segs(p)
  <2>1. 1 \in DOMAIN p.segs
    BY ProgramTypes
  <2> QED
    BY <2>1 DEF Segs
<1>3. WindowPages \in Nat
  BY AppMemoryConstantsOK
<1>4. WindowPages \in B /\ B \in SUBSET Nat
  BY <1>1, <1>3
<1>5. PICK t \in B : \A n \in B : t <= n
  BY <1>4, LeastNat
<1>6. \E s \in Segs(p) : Last(p, s) + 1 = t
  <2> SUFFICES ASSUME \A s \in Segs(p) : Last(p, s) + 1 # t PROVE FALSE
    OBVIOUS
  <2>1. \A s \in Segs(p) : Last(p, s) + 1 <= t - 1
    BY <1>1, <1>3, <1>5
  <2>2. t - 1 \in 0 .. WindowPages
    BY <1>1, <1>2, <1>3, <1>5, <2>1
  <2>3. t - 1 \in B
    BY <2>1, <2>2
  <2> QED
    BY <1>3, <1>5, <2>3
<1>7. \E n \in 0 .. WindowPages : Covers(n) /\ \E s \in Segs(p) : Last(p, s) + 1 = n
  BY <1>5, <1>6
<1>8. Total(p) \in 0 .. WindowPages /\ Covers(Total(p))
  BY <1>7 DEF Total
<1> QED
  BY <1>1, <1>2, <1>3, <1>8

\* The pages of a program's first n - 1 segments, and of the n-th below a.
Before(p, n, a) ==
  {v \in Window : \E i \in DOMAIN p.segs : v \in PagesOf(p, p.segs[i]) /\ (i < n \/ (i = n /\ v < a))}
AllPages(p) == {v \in Window : \E i \in DOMAIN p.segs : v \in PagesOf(p, p.segs[i])}

LEMMA BeforeNone == ASSUME NEW p \in Program PROVE Before(p, 1, First(p, p.segs[1])) = {}
<1>1. 1 \in DOMAIN p.segs /\ \A i \in DOMAIN p.segs : ~(i < 1)
  BY ProgramTypes
<1>2. \A v \in PagesOf(p, p.segs[1]) : ~(v < First(p, p.segs[1]))
  <2>1. First(p, p.segs[1]) \in Nat /\ Last(p, p.segs[1]) \in Nat
    BY <1>1, SegmentPages
  <2> QED
    BY <2>1 DEF PagesOf
<1> QED
  BY <1>1, <1>2 DEF Before

\* One page more.
LEMMA BeforePage ==
  ASSUME NEW p \in Program, NEW n \in DOMAIN p.segs, NEW a \in PagesOf(p, p.segs[n])
  PROVE  Before(p, n, a + 1) = Before(p, n, a) \cup {a} /\ a \notin Before(p, n, a) /\ a \in Window
<1>1. a \in Window /\ a \in Nat
  BY PagesInWindow
<1>2. \A v \in Window : v < a + 1 <=> v < a \/ v = a
  BY <1>1, AppMemoryConstantsOK DEF Window
<1>3. \A i \in DOMAIN p.segs : a \in PagesOf(p, p.segs[i]) => i = n
  BY OneSegment
<1>4. ~(n < n) /\ ~(a < a)
  BY <1>1, ProgramTypes
<1>5. a \notin Before(p, n, a)
  BY <1>3, <1>4 DEF Before
<1>6. \A v \in Window : v \in Before(p, n, a + 1) <=> v \in Before(p, n, a) \/ v = a
  BY <1>1, <1>2 DEF Before
<1> QED
  BY <1>1, <1>5, <1>6 DEF Before

\* The last page of a segment, which is followed by another or not.
LEMMA BeforeSegment ==
  ASSUME NEW p \in Program, NEW n \in DOMAIN p.segs
  PROVE  /\ n + 1 \in DOMAIN p.segs =>
              Before(p, n, Last(p, p.segs[n]) + 1) = Before(p, n + 1, First(p, p.segs[n + 1]))
         /\ n = Len(p.segs) => Before(p, n, Last(p, p.segs[n]) + 1) = AllPages(p)
         /\ n = Len(p.segs) => \A a : Before(p, n + 1, a) = AllPages(p)
<1>1. n \in Nat /\ DOMAIN p.segs = 1 .. Len(p.segs) /\ Len(p.segs) \in Nat
  BY ProgramTypes
<1>2. Last(p, p.segs[n]) \in Nat /\ \A v \in PagesOf(p, p.segs[n]) : v < Last(p, p.segs[n]) + 1
  BY SegmentPages, PagesInWindow
<1>3. \A i \in DOMAIN p.segs : i < n + 1 <=> i < n \/ i = n
  BY <1>1
<1>4. \A v \in Window : v \in Before(p, n, Last(p, p.segs[n]) + 1) <=>
        \E i \in DOMAIN p.segs : v \in PagesOf(p, p.segs[i]) /\ i < n + 1
  BY <1>2, <1>3 DEF Before
<1>5. \A a : \A v \in Window : v \in Before(p, n + 1, a) <=>
        \E i \in DOMAIN p.segs : v \in PagesOf(p, p.segs[i]) /\ (i < n + 1 \/ (i = n + 1 /\ v < a))
  BY DEF Before
<1>6. n = Len(p.segs) => \A i \in DOMAIN p.segs : i < n + 1
  BY <1>1
<1>7. n = Len(p.segs) => \A v \in Window : v \in AllPages(p) <=>
        \E i \in DOMAIN p.segs : v \in PagesOf(p, p.segs[i]) /\ i < n + 1
  BY <1>6 DEF AllPages
<1>8. n + 1 \in DOMAIN p.segs => \A v \in PagesOf(p, p.segs[n + 1]) : ~(v < First(p, p.segs[n + 1]))
  <2> SUFFICES ASSUME n + 1 \in DOMAIN p.segs
               PROVE  \A v \in PagesOf(p, p.segs[n + 1]) : ~(v < First(p, p.segs[n + 1]))
    OBVIOUS
  <2>1. First(p, p.segs[n + 1]) \in Nat /\ Last(p, p.segs[n + 1]) \in Nat
    BY SegmentPages
  <2> QED
    BY <2>1 DEF PagesOf
<1>9. /\ \A m, a : Before(p, m, a) \subseteq Window
      /\ AllPages(p) \subseteq Window
  BY DEF Before, AllPages
<1>10. n + 1 \in DOMAIN p.segs =>
         Before(p, n, Last(p, p.segs[n]) + 1) = Before(p, n + 1, First(p, p.segs[n + 1]))
  <2> SUFFICES ASSUME n + 1 \in DOMAIN p.segs
               PROVE  Before(p, n, Last(p, p.segs[n]) + 1) = Before(p, n + 1, First(p, p.segs[n + 1]))
    OBVIOUS
  <2>1. \A v \in Window : v \in Before(p, n + 1, First(p, p.segs[n + 1])) <=>
          \E i \in DOMAIN p.segs : v \in PagesOf(p, p.segs[i]) /\ i < n + 1
    BY <1>5, <1>8
  <2>2. \A v \in Window : v \in Before(p, n, Last(p, p.segs[n]) + 1) <=>
                          v \in Before(p, n + 1, First(p, p.segs[n + 1]))
    BY <1>4, <2>1
  <2> QED
    BY <1>9, <2>2
<1>11. n = Len(p.segs) => Before(p, n, Last(p, p.segs[n]) + 1) = AllPages(p)
  BY <1>4, <1>7, <1>9
<1>12. n = Len(p.segs) => \A a : Before(p, n + 1, a) = AllPages(p)
  <2>1. SUFFICES ASSUME n = Len(p.segs), NEW a
                 PROVE  Before(p, n + 1, a) = AllPages(p)
    OBVIOUS
  <2>2. \A v \in Window : v \in Before(p, n + 1, a) <=>
          \E i \in DOMAIN p.segs : v \in PagesOf(p, p.segs[i]) /\ (i < n + 1 \/ (i = n + 1 /\ v < a))
    BY <1>5
  <2>3. \A v \in Window : v \in Before(p, n + 1, a) <=> v \in AllPages(p)
    BY <1>6, <1>7, <2>1, <2>2
  <2> QED
    BY <1>9, <2>3
<1> QED
  BY <1>10, <1>11, <1>12

-----------------------------------------------------------------------------
(* The invariant. *)

Page  == Pmm!Page
Entries == [page : Page, w : BOOLEAN, x : BOOLEAN]
Mapping == pc \in {"alloc", "walk", "copy"}
Loaded  == pc \in {"relocate", "protect", "run"}

\* The types, and that nothing happens before the allocator is set up.
AppTypes ==
  /\ table \in [Node -> Page \cup {Absent}]
  /\ pte \in [Window -> Entries \cup {NoPte}]
  /\ tlb \in [Window -> Entries \cup {NoPte}]
  /\ pc \in {"idle", "alloc", "walk", "copy", "relocate", "protect", "run", "unmap", "wild"}
  /\ prog \in Program /\ seg \in Nat /\ va \in 0 .. WindowPages /\ pa \in Page \cup {0}
  /\ result \in {"none", "rejected", "nomem", "badfile", "badreloc", "badentry", "ok"}
  /\ lost \in SUBSET Page
  /\ ~ready => pc = "idle" /\ result = "none"

\* Where the loops over segments and pages are.
Place ==
  /\ Mapping => seg \in DOMAIN prog.segs
  /\ pc \in {"alloc", "walk"} => va \in PagesOf(prog, prog.segs[seg])
  /\ pc = "copy" => va = Last(prog, prog.segs[seg])
  /\ pc = "protect" => /\ seg \in 1 .. Len(prog.segs) + 1
                       /\ seg \in DOMAIN prog.segs => va \in PagesOf(prog, prog.segs[seg])
  /\ pc = "unmap" => va <= Total(prog)

\* What is mapped.
Extent ==
  /\ pc = "idle" => Mapped = {}
  /\ pc \in {"alloc", "walk"} => Mapped = Before(prog, seg, va)
  /\ pc = "copy" => Mapped = Before(prog, seg, va + 1)
  /\ Loaded => Mapped = AllPages(prog)
  /\ pc = "unmap" => \A v \in Mapped : va <= v /\ v < Total(prog)

\* With which rights.
Rights ==
  /\ Mapping \/ pc = "relocate" => \A v \in Mapped : pte[v].w = TRUE
  /\ Mapping \/ Loaded =>
       \A i \in DOMAIN prog.segs : \A v \in PagesOf(prog, prog.segs[i]) :
         v \in Mapped => pte[v].x = prog.segs[i].x
  /\ pc = "protect" =>
       \A i \in DOMAIN prog.segs : \A v \in PagesOf(prog, prog.segs[i]) :
         pte[v].w = IF v \in Before(prog, seg, va) THEN prog.segs[i].w ELSE TRUE
  /\ pc = "run" =>
       \A i \in DOMAIN prog.segs : \A v \in PagesOf(prog, prog.segs[i]) : pte[v].w = prog.segs[i].w

\* No page has two uses, a lost one has none, and the pages held are these.
Distinct ==
  /\ \A n, k \in Present : table[n] = table[k] => n = k
  /\ \A v, u \in Mapped : pte[v].page = pte[u].page => v = u
  /\ \A n \in Present, v \in Mapped : table[n] # pte[v].page
  /\ \A p \in Pending : (\A n \in Present : table[n] # p) /\ (\A v \in Mapped : pte[v].page # p)
  /\ \A p \in lost : (\A n \in Present : table[n] # p) /\ (\A v \in Mapped : pte[v].page # p) /\ p \notin Pending

InUse == {table[n] : n \in Present} \cup {pte[v].page : v \in Mapped} \cup Pending \cup lost

Accounted ==
  pc # "wild" =>
    /\ held = InUse /\ Distinct
    /\ Cardinality(held) = Cardinality(Present) + Cardinality(Mapped) + Cardinality(Pending) + Cardinality(lost)

AppInv == PmmP!IInv /\ AppTypes /\ Place /\ Extent /\ Rights /\ TlbFresh /\ Accounted

-----------------------------------------------------------------------------
(* Steps that leave the page tables alone. *)

LEMMA WindowType == WindowPages \in Nat /\ Window = 0 .. WindowPages - 1 /\ \A v \in Window : v \in Nat
BY AppMemoryConstantsOK DEF Window

LEMMA MappedType == Mapped \subseteq Window /\ Present \subseteq Node
BY DEF Mapped, Present

LEMMA KeptTables ==
  ASSUME AppInv, UNCHANGED <<table, pte, tlb, lost>>, held' = held, Pending' = Pending,
         pc' # "wild" => pc # "wild"
  PROVE  Mapped' = Mapped /\ Present' = Present /\ TlbFresh' /\ Accounted'
<1>1. Mapped' = Mapped /\ Present' = Present
  BY DEF Mapped, Present
<1>2. TlbFresh'
  BY DEF AppInv, TlbFresh
<1>3. InUse' = InUse /\ (Distinct => Distinct')
  BY <1>1 DEF InUse, Distinct
<1>4. Accounted'
  BY <1>1, <1>3 DEF AppInv, Accounted
<1> QED
  BY <1>1, <1>2, <1>4

\* While a program is put in place or runs, all that is mapped is its own.
LEMMA MappedIsProgram ==
  ASSUME AppInv, Mapping \/ Loaded
  PROVE  /\ \A v \in Mapped : v \in AllPages(prog) /\ 0 <= v /\ v < Total(prog)
         /\ \A i \in DOMAIN prog.segs : \A v \in PagesOf(prog, prog.segs[i]) : v \in AllPages(prog)
<1>1. prog \in Program
  BY DEF AppInv, AppTypes
<1>2. Mapped \subseteq AllPages(prog)
  BY DEF AppInv, Extent, Mapping, Loaded, Before, AllPages
<1>3. ASSUME NEW v \in AllPages(prog)
      PROVE  0 <= v /\ v < Total(prog)
  <2>1. PICK i \in DOMAIN prog.segs : v \in PagesOf(prog, prog.segs[i])
    BY <1>3 DEF AllPages
  <2>2. v \in Nat /\ v <= Last(prog, prog.segs[i])
    BY <1>1, <2>1, PagesInWindow
  <2>3. Last(prog, prog.segs[i]) \in Nat /\ Last(prog, prog.segs[i]) < Total(prog) /\ Total(prog) \in 0 .. WindowPages
    BY <1>1, SegmentPages, TotalPages
  <2> QED
    BY <2>2, <2>3
<1>4. \A i \in DOMAIN prog.segs : \A v \in PagesOf(prog, prog.segs[i]) : v \in AllPages(prog)
  BY <1>1, PagesInWindow DEF AllPages
<1> QED
  BY <1>2, <1>3, <1>4

Results == {"none", "rejected", "nomem", "badfile", "badreloc", "badentry", "ok"}

LEMMA LeaveInv ==
  ASSUME AppInv, Mapping \/ Loaded, pc # "walk", NEW r \in Results, Leave(r), ready, ready' = ready,
         PmmP!IInv', held' = held, UNCHANGED paging, lost' = lost
  PROVE  AppInv'
<1>1. pc' = "unmap" /\ va' = 0 /\ result' = r /\ UNCHANGED <<prog, seg, pa>> /\ pc # "wild"
  BY DEF Leave, Mapping, Loaded
<1>2. Pending' = Pending
  BY <1>1 DEF Pending
<1>3. Mapped' = Mapped /\ TlbFresh' /\ Accounted'
  BY <1>1, <1>2, KeptTables DEF paging
<1>4. AppTypes'
  BY <1>1, WindowType DEF AppInv, AppTypes, paging, Results
<1>5. Total(prog) \in 0 .. WindowPages
  BY TotalPages DEF AppInv, AppTypes
<1>6. Place'
  BY <1>1, <1>5, WindowType DEF Place, Mapping
<1>7. Extent'
  BY <1>1, <1>3, MappedIsProgram DEF Extent, Loaded
<1>8. Rights'
  BY <1>1 DEF Rights, Mapping, Loaded
<1> QED
  BY <1>3, <1>4, <1>6, <1>7, <1>8 DEF AppInv

LEMMA FillInv ==
  ASSUME AppInv, NEW v \in Window, Fill(v)
  PROVE  AppInv'
<1>1. /\ UNCHANGED <<table, pte, pc, prog, seg, va, pa, result, lost>> /\ UNCHANGED pmm
      /\ held' = held /\ ready' = ready
  BY DEF Fill, run, pmm
<1>2. tlb' = [tlb EXCEPT ![v] = pte[v]] /\ tlb \in [Window -> Entries \cup {NoPte}] /\ pte \in [Window -> Entries \cup {NoPte}]
  BY DEF Fill, AppInv, AppTypes
<1>3. tlb' \in [Window -> Entries \cup {NoPte}] /\ TlbFresh'
  BY <1>1, <1>2 DEF TlbFresh, AppInv
<1>4. Mapped' = Mapped /\ Present' = Present /\ Pending' = Pending
  BY <1>1 DEF Mapped, Present, Pending
<1>5. AppTypes' /\ Place'
  BY <1>1, <1>3 DEF AppInv, AppTypes, Place, Mapping
<1>6. Extent' /\ Rights'
  BY <1>1, <1>4 DEF AppInv, Extent, Rights, Mapping, Loaded
<1>7. Accounted'
  BY <1>1, <1>4 DEF AppInv, Accounted, InUse, Distinct
<1>8. PmmP!IInv'
  BY <1>1, SamePmm DEF AppInv
<1> QED
  BY <1>3, <1>5, <1>6, <1>7, <1>8 DEF AppInv

\* Nothing but the allocator, or the result, changes.
LEMMA IdleInv ==
  ASSUME AppInv, PmmP!IInv', held' = held, UNCHANGED <<table, pte, tlb, pc, prog, seg, va, pa, lost>>,
         ready => ready', result' \in Results, ready' \/ result' = result
  PROVE  AppInv'
<1>1. Pending' = Pending
  BY DEF Pending
<1>2. Mapped' = Mapped /\ TlbFresh' /\ Accounted'
  BY <1>1, KeptTables
<1>3. AppTypes' /\ Place'
  BY DEF AppInv, AppTypes, Place, Mapping, Results
<1>4. Extent' /\ Rights'
  BY <1>2 DEF AppInv, Extent, Rights, Mapping, Loaded
<1> QED
  BY <1>2, <1>3, <1>4 DEF AppInv

LEMMA BootInv == ASSUME AppInv, Boot PROVE AppInv'
<1>1. PICK map \in MemMap : Pmm!pmm_init(map) /\ UNCHANGED <<paging, run, lost>>
  BY DEF Boot
<1>2. PmmP!IInv' /\ held' = held /\ ready'
  BY <1>1, BootPmm DEF AppInv, Pmm!pmm_init
<1> QED
  BY <1>1, <1>2, IdleInv DEF paging, run, AppInv, AppTypes, Results

LEMMA RejectInv == ASSUME AppInv, Reject PROVE AppInv'
BY SamePmm, IdleInv DEF Reject, paging, pmm, AppInv, Results

LEMMA StutterInv == ASSUME AppInv, UNCHANGED vars PROVE AppInv'
BY SamePmm, IdleInv DEF vars, run, paging, pmm, AppInv, AppTypes, Results

LEMMA StartInv ==
  ASSUME AppInv, NEW p \in Program, Start(p)
  PROVE  AppInv'
<1>1. /\ ready /\ pc = "idle" /\ pc' = "alloc" /\ prog' = p /\ seg' = 1 /\ va' = First(p, p.segs[1])
      /\ UNCHANGED <<table, pte, tlb, pa, result, lost>> /\ held' = held /\ ready' = ready /\ UNCHANGED pmm
  BY DEF Start, paging, pmm
<1>2. Pending' = Pending
  BY <1>1 DEF Pending
<1>3. Mapped' = Mapped /\ TlbFresh' /\ Accounted' /\ Mapped = {}
  BY <1>1, <1>2, KeptTables DEF AppInv, Extent
<1>4. 1 \in DOMAIN p.segs
  BY ProgramTypes
<1>5. /\ First(p, p.segs[1]) \in 0 .. WindowPages /\ First(p, p.segs[1]) \in PagesOf(p, p.segs[1])
      /\ Before(p, 1, First(p, p.segs[1])) = {}
  <2>1. /\ First(p, p.segs[1]) \in Nat /\ Last(p, p.segs[1]) \in Nat
        /\ First(p, p.segs[1]) <= Last(p, p.segs[1]) /\ Last(p, p.segs[1]) < WindowPages
    BY <1>4, SegmentPages
  <2> QED
    BY <2>1, BeforeNone, WindowType DEF PagesOf
<1>6. AppTypes'
  BY <1>1, <1>5 DEF AppInv, AppTypes
<1>7. Place'
  BY <1>1, <1>4, <1>5 DEF Place, Mapping
<1>8. Extent'
  BY <1>1, <1>3, <1>5 DEF Extent, Loaded
<1>9. Rights'
  BY <1>1, <1>3 DEF Rights, Mapping, Loaded
<1>10. PmmP!IInv'
  BY <1>1, SamePmm DEF AppInv
<1> QED
  BY <1>3, <1>6, <1>7, <1>8, <1>9, <1>10 DEF AppInv

-----------------------------------------------------------------------------
(* The steps of exec_run_elf. *)

LEMMA SetFacts ==
  ASSUME AppInv
  PROVE  /\ IsFiniteSet(Present) /\ IsFiniteSet(Mapped) /\ IsFiniteSet(Pending)
         /\ Cardinality(Present) \in Nat /\ Cardinality(Mapped) \in Nat /\ Cardinality(Pending) \in Nat
         /\ Cardinality(Pending) = (IF pc = "walk" THEN 1 ELSE 0)
         /\ held \subseteq Page /\ 0 \notin held /\ Absent \notin held
         /\ IsFiniteSet(held) /\ Cardinality(held) \in Nat
         /\ IsFiniteSet(lost) /\ Cardinality(lost) \in Nat
<1>1. IsFiniteSet(Window)
  BY FS_Interval, WindowType
<1>2. IsFiniteSet(Node)
  <2>1. (WindowPages - 1) \div TableSpan \in Int
    BY AppMemoryConstantsOK
  <2>2. 2 + (WindowPages - 1) \div TableSpan \in Int
    BY <2>1
  <2> QED
    BY <2>2, FS_Interval DEF Node
<1>3. IsFiniteSet(Present) /\ IsFiniteSet(Mapped)
  BY <1>1, <1>2, FS_Subset, MappedType
<1>4. IsFiniteSet(Pending) /\ Cardinality(Pending) = (IF pc = "walk" THEN 1 ELSE 0)
  BY FS_EmptySet, FS_Singleton DEF Pending
<1>5. Cardinality(Present) \in Nat /\ Cardinality(Mapped) \in Nat /\ Cardinality(Pending) \in Nat
  BY <1>3, <1>4, FS_CardinalityType
<1>6. /\ held \subseteq Page /\ 0 \notin held /\ \A p \in held : p \in Nat
      /\ IsFiniteSet(held) /\ Cardinality(held) \in Nat
  BY HeldType DEF AppInv, Page
<1>7. Absent \notin held
  BY <1>6 DEF Absent
<1>8. IsFiniteSet(lost) /\ Cardinality(lost) \in Nat
  <2>1. IsFiniteSet(0 .. MaxPages - 1)
    BY FS_Interval, PmmConstantsOK
  <2>2. lost \in SUBSET (0 .. MaxPages - 1)
    BY DEF AppInv, AppTypes, Page, Pmm!Page
  <2> QED
    BY <2>1, <2>2, FS_Subset, FS_CardinalityType
<1> QED
  BY <1>3, <1>4, <1>5, <1>6, <1>7, <1>8

\* A page in use is held, so a page just handed out is not in use.
LEMMA UsesAreHeld ==
  ASSUME AppInv, pc # "wild"
  PROVE  /\ \A n \in Present : table[n] \in held
         /\ \A v \in Mapped : pte[v].page \in held
         /\ \A p \in Pending : p \in held
         /\ lost \subseteq held
BY DEF AppInv, Accounted, InUse

LEMMA AllocPageInv == ASSUME AppInv, AllocPage PROVE AppInv'
<1>1. pc = "alloc" /\ Pmm!pmm_alloc /\ UNCHANGED paging /\ lost' = lost
  BY DEF AllocPage
<1>2. /\ PmmP!IInv' /\ ready /\ ready' = ready
      /\ \/ out' = 0 /\ held' = held
         \/ out' \in Page /\ out' # 0 /\ out' \notin held /\ held' = held \cup {out'}
  BY <1>1, AllocPmm DEF AppInv, Page
<1>3. CASE out' = 0
  <2>1. Leave("nomem") /\ held' = held
    BY <1>2, <1>3 DEF AllocPage
  <2> QED
    BY <1>1, <1>2, <2>1, LeaveInv DEF Mapping, Results
<1>4. CASE out' # 0
  <2>1. /\ pc' = "walk" /\ pa' = out' /\ UNCHANGED <<prog, seg, va, result, table, pte, tlb, lost>>
        /\ out' \in Page /\ out' \notin held /\ held' = held \cup {out'}
    BY <1>1, <1>2, <1>4 DEF AllocPage, paging
  <2>2. Mapped' = Mapped /\ Present' = Present /\ Pending = {} /\ Pending' = {out'}
    BY <1>1, <2>1 DEF Mapped, Present, Pending
  <2>3. AppTypes' /\ Place'
    BY <1>1, <1>2, <2>1 DEF AppInv, AppTypes, Place, Mapping
  <2>4. Extent' /\ Rights'
    BY <1>1, <2>1, <2>2 DEF AppInv, Extent, Rights, Mapping, Loaded
  <2>5. TlbFresh'
    BY <2>1 DEF AppInv, TlbFresh
  <2>6. held' = InUse'
    BY <1>1, <2>1, <2>2 DEF AppInv, Accounted, InUse
  <2>7. Distinct'
    BY <1>1, <2>1, <2>2, UsesAreHeld DEF AppInv, Accounted, Distinct
  <2>8. Cardinality(held') = Cardinality(Present') + Cardinality(Mapped') + Cardinality(Pending') + Cardinality(lost')
    <3>1. Cardinality(held \cup {out'}) = Cardinality(held) + 1
      BY <2>1, SetFacts, FS_AddElement
    <3>2. Cardinality(Pending) = 0 /\ Cardinality(Pending') = 1
      BY <2>2, FS_EmptySet, FS_Singleton
    <3>3. Cardinality(held) = Cardinality(Present) + Cardinality(Mapped) + Cardinality(Pending) + Cardinality(lost)
      BY <1>1 DEF AppInv, Accounted
    <3> QED
      BY <2>1, <2>2, <3>1, <3>2, <3>3, SetFacts
  <2> QED
    BY <1>2, <2>3, <2>4, <2>5, <2>6, <2>7, <2>8 DEF AppInv, Accounted
<1> QED
  BY <1>3, <1>4

LEMMA WalkType == ASSUME NEW v \in Window PROVE Walk(v) \subseteq Node /\ Walk(v) \subseteq Nat
<1>1. v \in Nat /\ v <= WindowPages - 1 /\ WindowPages - 1 \in Nat /\ TableSpan \in Nat \ {0}
  BY WindowType, AppMemoryConstantsOK
<1>2. /\ v \div TableSpan \in Nat /\ (WindowPages - 1) \div TableSpan \in Nat
      /\ v \div TableSpan <= (WindowPages - 1) \div TableSpan
  BY <1>1, QuotientMonotone
<1> QED
  BY <1>2 DEF Walk, Node

LEMMA EnsureTableInv == ASSUME AppInv, EnsureTable PROVE AppInv'
<1> DEFINE missing == {n \in Walk(va) : table[n] = Absent}
           m == CHOOSE n \in missing : \A k \in missing : n <= k
<1>1. /\ pc = "walk" /\ missing # {} /\ Pmm!pmm_alloc
      /\ table' = [table EXCEPT ![m] = out']
      /\ pc' = (IF out' = 0 THEN "wild" ELSE "walk")
      /\ UNCHANGED <<pte, tlb, prog, seg, va, pa, result, lost>>
  BY DEF EnsureTable
<1>2. /\ PmmP!IInv' /\ ready /\ ready' = ready
      /\ \/ out' = 0 /\ held' = held
         \/ out' \in Page /\ out' # 0 /\ out' \notin held /\ held' = held \cup {out'}
  BY <1>1, AllocPmm DEF AppInv, Page
<1>3. m \in Node /\ table[m] = Absent
  <2>1. va \in Window
    BY <1>1, PagesInWindow DEF AppInv, Place, AppTypes, Mapping
  <2>2. missing \in SUBSET Nat /\ missing \subseteq Node
    BY <2>1, WalkType
  <2>3. \E n \in missing : \A k \in missing : n <= k
    <3> HIDE DEF missing
    <3> QED
      BY <1>1, <2>2, LeastNat
  <2>4. m \in missing
    BY <2>3
  <2> QED
    BY <2>2, <2>4
<1> HIDE DEF m, missing
<1>4. pa \in held /\ 0 \in Page
  <2>1. pa \in held
    BY <1>1 DEF AppInv, Accounted, InUse, Pending
  <2> QED
    BY <2>1, SetFacts, PmmConstantsOK DEF Page, Pmm!Page
<1>5. table \in [Node -> Page \cup {Absent}] /\ out' \in Page
  BY <1>2, <1>4 DEF AppInv, AppTypes
<1>6. table' \in [Node -> Page \cup {Absent}] /\ table'[m] = out' /\ \A n \in Node : n # m => table'[n] = table[n]
  BY <1>1, <1>3, <1>5
<1>7. AppTypes'
  BY <1>1, <1>2, <1>6 DEF AppInv, AppTypes
<1>8. Mapped' = Mapped /\ Place' /\ Extent' /\ Rights'
  <2>1. Mapped' = Mapped
    BY <1>1 DEF Mapped
  <2> QED
    BY <1>1, <2>1 DEF AppInv, Place, Extent, Rights, Mapping, Loaded
<1>9. TlbFresh'
  BY <1>1 DEF AppInv, TlbFresh
<1>10. ASSUME out' # 0
       PROVE  /\ held' = InUse' /\ Distinct'
              /\ Cardinality(held') = Cardinality(Present') + Cardinality(Mapped') + Cardinality(Pending') + Cardinality(lost')
  <2>1. out' \in Page /\ out' \notin held /\ held' = held \cup {out'} /\ pc' = "walk"
    BY <1>1, <1>2, <1>10
  <2>2. out' # Absent /\ m \notin Present
    BY <1>3, <2>1, PmmConstantsOK DEF Absent, Page, Pmm!Page, Present
  <2>3. Present' = Present \cup {m} /\ Pending' = Pending
    BY <1>1, <1>3, <1>6, <2>1, <2>2 DEF Present, Pending
  <2>4. \A n \in Present : table'[n] = table[n]
    BY <1>6, <2>2 DEF Present
  <2>5. held' = InUse'
    <3>1. {table'[n] : n \in Present'} = {table[n] : n \in Present} \cup {out'}
      BY <1>6, <2>3, <2>4
    <3>2. held = InUse /\ {pte'[v].page : v \in Mapped'} = {pte[v].page : v \in Mapped}
      BY <1>1, <1>8 DEF AppInv, Accounted
    <3> QED
      BY <1>1, <2>1, <2>3, <3>1, <3>2 DEF InUse
  <2>6. Distinct'
    <3>1. /\ \A n \in Present : table[n] # out'
          /\ \A v \in Mapped : pte[v].page # out'
          /\ \A p \in Pending : p # out'
          /\ out' \notin lost
      BY <1>1, <2>1, UsesAreHeld
    <3>2. Distinct
      BY <1>1 DEF AppInv, Accounted
    <3>3. \A n, k \in Present' : table'[n] = table'[k] => n = k
      BY <1>6, <2>3, <2>4, <3>1, <3>2 DEF Distinct
    <3>4. \A n \in Present', v \in Mapped : table'[n] # pte[v].page
      BY <1>6, <2>3, <2>4, <3>1, <3>2 DEF Distinct
    <3>5. \A p \in Pending : (\A n \in Present' : table'[n] # p) /\ (\A v \in Mapped : pte[v].page # p)
      BY <1>6, <2>3, <2>4, <3>1, <3>2 DEF Distinct
    <3>6. \A v, u \in Mapped : pte[v].page = pte[u].page => v = u
      BY <3>2 DEF Distinct
    <3>7. \A p \in lost : (\A n \in Present' : table'[n] # p) /\ (\A v \in Mapped : pte[v].page # p) /\ p \notin Pending
      BY <1>6, <2>3, <2>4, <3>1, <3>2 DEF Distinct
    <3> QED
      BY <1>1, <1>8, <2>3, <3>3, <3>4, <3>5, <3>6, <3>7 DEF Distinct
  <2>7. Cardinality(held') = Cardinality(Present') + Cardinality(Mapped') + Cardinality(Pending') + Cardinality(lost')
    <3>1. Cardinality(held') = Cardinality(held) + 1 /\ Cardinality(Present') = Cardinality(Present) + 1
      BY <2>1, <2>2, <2>3, SetFacts, FS_AddElement
    <3>2. Cardinality(held) = Cardinality(Present) + Cardinality(Mapped) + Cardinality(Pending) + Cardinality(lost)
      BY <1>1 DEF AppInv, Accounted
    <3> QED
      BY <1>1, <1>8, <2>3, <3>1, <3>2, SetFacts
  <2> QED
    BY <2>5, <2>6, <2>7
<1>11. Accounted'
  BY <1>1, <1>10 DEF Accounted
<1> QED
  BY <1>2, <1>7, <1>8, <1>9, <1>11 DEF AppInv

\* Writing an entry invalidates its translation.
LEMMA SetPteFresh ==
  ASSUME AppInv, NEW v \in Window, NEW e \in Entries \cup {NoPte}, SetPte(v, e)
  PROVE  /\ TlbFresh' /\ pte' \in [Window -> Entries \cup {NoPte}] /\ tlb' \in [Window -> Entries \cup {NoPte}]
         /\ pte'[v] = e /\ \A u \in Window : u # v => pte'[u] = pte[u]
<1>1. /\ pte' = [pte EXCEPT ![v] = e] /\ tlb' = [tlb EXCEPT ![v] = NoPte]
      /\ pte \in [Window -> Entries \cup {NoPte}] /\ tlb \in [Window -> Entries \cup {NoPte}]
      /\ TlbFresh
  BY DEF SetPte, AppInv, AppTypes
<1>2. pte' \in [Window -> Entries \cup {NoPte}] /\ tlb' \in [Window -> Entries \cup {NoPte}]
  BY <1>1
<1>3. /\ pte'[v] = e /\ \A u \in Window : u # v => pte'[u] = pte[u]
      /\ tlb'[v] = NoPte /\ \A u \in Window : u # v => tlb'[u] = tlb[u]
  BY <1>1
<1>4. TlbFresh'
  BY <1>1, <1>3 DEF TlbFresh
<1> QED
  BY <1>2, <1>3, <1>4

LEMMA EntryNotNone ==
  /\ \A e \in Entries : e # NoPte /\ e.page \in Page /\ e.w \in BOOLEAN /\ e.x \in BOOLEAN
  /\ NoPte \notin Entries
<1>1. Absent \notin Page
  BY PmmConstantsOK DEF Absent, Page, Pmm!Page
<1> QED
  BY <1>1 DEF Entries, NoPte

LEMMA MapPageInv == ASSUME AppInv, MapPage PROVE AppInv'
<1> DEFINE e == [page |-> pa, w |-> TRUE, x |-> Seg.x]
           s == prog.segs[seg]
<1>1. /\ pc = "walk" /\ SetPte(va, e) /\ UNCHANGED <<table, prog, seg, pa, result, lost>> /\ UNCHANGED pmm
      /\ IF va < Last(prog, s) THEN va' = va + 1 /\ pc' = "alloc" ELSE pc' = "copy" /\ va' = va
  BY DEF MapPage, Seg
<1>2. /\ prog \in Program /\ seg \in DOMAIN prog.segs /\ va \in PagesOf(prog, s) /\ pa \in held
      /\ Mapped = Before(prog, seg, va) /\ ready /\ held' = held /\ ready' = ready
  BY <1>1 DEF AppInv, AppTypes, Place, Extent, Mapping, pmm, Accounted, InUse, Pending
<1>3. /\ va \in Window /\ va \in Nat /\ va <= Last(prog, s) /\ First(prog, s) <= va
      /\ Last(prog, s) \in Nat /\ Last(prog, s) < WindowPages
      /\ First(prog, s) \in Nat
  BY <1>2, PagesInWindow, SegmentPages
<1>4. e \in Entries /\ e.page = pa /\ e.w = TRUE /\ e.x = s.x
  <2>1. pa \in Page
    BY <1>2, SetFacts
  <2>2. s.x \in BOOLEAN
    BY <1>2, ProgramTypes
  <2> QED
    BY <2>1, <2>2 DEF Entries, Seg
<1> HIDE DEF e
<1>5. /\ TlbFresh' /\ pte' \in [Window -> Entries \cup {NoPte}] /\ tlb' \in [Window -> Entries \cup {NoPte}]
      /\ pte'[va] = e /\ \A u \in Window : u # va => pte'[u] = pte[u]
  BY <1>1, <1>3, <1>4, SetPteFresh
<1>6. Mapped' = Mapped \cup {va} /\ va \notin Mapped /\ Mapped' = Before(prog, seg, va + 1) /\ Mapped \subseteq Window
  <2>1. va \notin Mapped /\ Mapped \cup {va} = Before(prog, seg, va + 1)
    BY <1>2, BeforePage
  <2>2. e # NoPte
    BY <1>4, EntryNotNone
  <2>3. Mapped' = Mapped \cup {va}
    BY <1>3, <1>5, <2>2 DEF Mapped
  <2> QED
    BY <2>1, <2>3, MappedType
<1>7. \A v \in Mapped : pte'[v] = pte[v]
  BY <1>5, <1>6
<1>8. va < Last(prog, s) => va + 1 \in PagesOf(prog, s) /\ va + 1 \in 0 .. WindowPages
  BY <1>3, WindowType DEF PagesOf
<1>9. AppTypes'
  BY <1>1, <1>2, <1>5, <1>8 DEF AppInv, AppTypes
<1>10. Place'
  <2>1. CASE va < Last(prog, s)
    BY <1>1, <1>2, <1>8, <2>1 DEF Place, Mapping
  <2>2. CASE ~(va < Last(prog, s))
    <3>1. va = Last(prog, s)
      BY <1>3, <2>2
    <3> QED
      BY <1>1, <1>2, <2>2, <3>1 DEF Place, Mapping
  <2> QED
    BY <2>1, <2>2
<1>11. Extent'
  BY <1>1, <1>2, <1>6 DEF Extent, Loaded
<1>12. Rights'
  <2>1. \A v \in Mapped' : pte'[v].w = TRUE
    BY <1>1, <1>4, <1>5, <1>6, <1>7 DEF AppInv, Rights, Mapping
  <2>2. ASSUME NEW i \in DOMAIN prog.segs, NEW v \in PagesOf(prog, prog.segs[i]), v \in Mapped'
        PROVE  pte'[v].x = prog.segs[i].x
    <3>1. CASE v = va
      <4>1. i = seg
        BY <1>2, <2>2, <3>1, OneSegment
      <4> QED
        BY <1>4, <1>5, <3>1, <4>1
    <3>2. CASE v # va
      BY <1>1, <1>6, <1>7, <2>2, <3>2 DEF AppInv, Rights, Mapping
    <3> QED
      BY <3>1, <3>2
  <2>3. pc' \in {"alloc", "copy"} /\ prog' = prog
    BY <1>1
  <2> QED
    BY <2>1, <2>2, <2>3 DEF Rights, Mapping
<1>13. /\ Present' = Present /\ Pending = {pa} /\ Pending' = {}
  BY <1>1 DEF Present, Pending
<1>14. held' = InUse'
  <2>1. {pte'[v].page : v \in Mapped'} = {pte[v].page : v \in Mapped} \cup {pa}
    BY <1>4, <1>5, <1>6, <1>7
  <2>2. {table'[n] : n \in Present'} = {table[n] : n \in Present}
    BY <1>1, <1>13
  <2>3. held = InUse
    BY <1>1 DEF AppInv, Accounted
  <2> QED
    BY <1>1, <1>2, <1>13, <2>1, <2>2, <2>3 DEF InUse
<1>15. Distinct'
  <2>1. Distinct
    BY <1>1 DEF AppInv, Accounted
  <2>2. (\A n \in Present : table[n] # pa) /\ (\A v \in Mapped : pte[v].page # pa)
    BY <1>13, <2>1 DEF Distinct
  <2>3. \A v, u \in Mapped' : pte'[v].page = pte'[u].page => v = u
    BY <1>4, <1>5, <1>6, <1>7, <2>1, <2>2 DEF Distinct
  <2>4. \A n \in Present, v \in Mapped' : table[n] # pte'[v].page
    BY <1>4, <1>5, <1>6, <1>7, <2>1, <2>2 DEF Distinct
  <2>5. \A p \in lost : \A v \in Mapped' : pte'[v].page # p
    <3>1. \A p \in lost : p # pa
      BY <1>13, <2>1 DEF Distinct
    <3> QED
      BY <1>4, <1>5, <1>6, <1>7, <2>1, <3>1 DEF Distinct
  <2> QED
    BY <1>1, <1>13, <2>1, <2>3, <2>4, <2>5 DEF Distinct
<1>16. Cardinality(held') = Cardinality(Present') + Cardinality(Mapped') + Cardinality(Pending') + Cardinality(lost')
  <2>1. Cardinality(Mapped') = Cardinality(Mapped) + 1
    BY <1>6, SetFacts, FS_AddElement
  <2>2. Cardinality(Pending) = 1 /\ Cardinality(Pending') = 0
    BY <1>13, FS_EmptySet, FS_Singleton
  <2>3. Cardinality(held) = Cardinality(Present) + Cardinality(Mapped) + Cardinality(Pending) + Cardinality(lost)
    BY <1>1 DEF AppInv, Accounted
  <2> QED
    BY <1>1, <1>2, <1>13, <2>1, <2>2, <2>3, SetFacts
<1>17. PmmP!IInv'
  BY <1>1, SamePmm DEF AppInv
<1> QED
  BY <1>5, <1>9, <1>10, <1>11, <1>12, <1>14, <1>15, <1>16, <1>17 DEF AppInv, Accounted

\* A step between two loading steps that leaves memory and page tables alone.
LEMMA NextPlace ==
  ASSUME AppInv, UNCHANGED <<pmm, paging, prog, pa, result, lost>>, ready, pc # "walk", pc' # "walk", pc # "wild",
         pc' \in {"idle", "alloc", "copy", "relocate", "protect", "run", "unmap"},
         seg' \in Nat, va' \in 0 .. WindowPages, Place', Extent', Rights'
  PROVE  AppInv'
<1>1. UNCHANGED <<table, pte, tlb, lost>> /\ held' = held /\ ready' = ready /\ UNCHANGED pmm
  BY DEF paging, pmm
<1>2. Pending' = Pending
  BY DEF Pending
<1>3. TlbFresh' /\ Accounted'
  BY <1>1, <1>2, KeptTables
<1>4. AppTypes'
  BY <1>1 DEF AppInv, AppTypes
<1> QED
  BY <1>1, <1>3, <1>4, SamePmm DEF AppInv

\* All that is mapped is writable until the image is in place.
LEMMA LoadingWrites ==
  ASSUME AppInv, NEW V, V \subseteq Mapped, Mapping \/ pc = "relocate"
  PROVE  Writable(V)
<1>1. ASSUME NEW v \in V PROVE v \in Window /\ Entry(v).w
  <2>1. v \in Window /\ v \in Mapped
    BY MappedType
  <2>2. Entry(v) = pte[v]
    BY <2>1 DEF AppInv, TlbFresh, Entry
  <2> QED
    BY <2>1, <2>2 DEF AppInv, Rights
<1> QED
  BY <1>1 DEF Writable

LEMMA CopyInv == ASSUME AppInv, Copy PROVE AppInv'
<1> DEFINE s == prog.segs[seg]
<1>1. pc = "copy" /\ UNCHANGED <<pmm, paging, lost>> /\ ready
  BY DEF Copy, AppInv, AppTypes
<1>2. /\ prog \in Program /\ seg \in DOMAIN prog.segs /\ va = Last(prog, s)
      /\ Mapped = Before(prog, seg, Last(prog, s) + 1)
  BY <1>1 DEF AppInv, AppTypes, Place, Extent, Mapping
<1>3. CASE ~Seg.ok
  <2>1. Leave("badfile")
    BY <1>3 DEF Copy
  <2> QED
    BY <1>1, <2>1, LeaveInv, SamePmm DEF Mapping, Results, AppInv, pmm
<1>4. CASE Seg.ok
  <2>1. PagesOf(prog, s) \subseteq Mapped
    <3> SUFFICES ASSUME NEW v \in PagesOf(prog, s) PROVE v \in Mapped
      OBVIOUS
    <3>1. v \in Window /\ v \in Nat /\ v <= Last(prog, s) /\ Last(prog, s) \in Nat
      BY <1>2, PagesInWindow, SegmentPages
    <3>2. v < Last(prog, s) + 1
      BY <3>1
    <3> QED
      BY <1>2, <3>1, <3>2 DEF Before
  <2>2. Writable(PagesOf(prog, Seg))
    BY <1>1, <2>1, LoadingWrites DEF Mapping, Seg
  <2>3. /\ UNCHANGED <<prog, pa, result>>
        /\ IF seg < Len(prog.segs)
           THEN pc' = "alloc" /\ seg' = seg + 1 /\ va' = First(prog, prog.segs[seg + 1])
           ELSE pc' = "relocate" /\ seg' = seg /\ va' = va
    BY <1>4, <2>2 DEF Copy
  <2>4. Mapped' = Mapped /\ pte' = pte
    BY <1>1 DEF paging, Mapped
  <2>5. seg \in Nat /\ DOMAIN prog.segs = 1 .. Len(prog.segs) /\ Len(prog.segs) \in Nat
    BY <1>2, ProgramTypes
  <2>6. /\ \A v \in Mapped : pte[v].w = TRUE
        /\ \A i \in DOMAIN prog.segs : \A v \in PagesOf(prog, prog.segs[i]) :
             v \in Mapped => pte[v].x = prog.segs[i].x
    BY <1>1 DEF AppInv, Rights, Mapping
  <2>7. CASE seg < Len(prog.segs)
    <3>1. seg + 1 \in DOMAIN prog.segs
      BY <2>5, <2>7
    <3>2. /\ First(prog, prog.segs[seg + 1]) \in PagesOf(prog, prog.segs[seg + 1])
          /\ First(prog, prog.segs[seg + 1]) \in 0 .. WindowPages
      <4>1. /\ First(prog, prog.segs[seg + 1]) \in Nat /\ Last(prog, prog.segs[seg + 1]) \in Nat
            /\ First(prog, prog.segs[seg + 1]) <= Last(prog, prog.segs[seg + 1])
            /\ Last(prog, prog.segs[seg + 1]) < WindowPages
        BY <1>2, <3>1, SegmentPages
      <4> QED
        BY <4>1, WindowType DEF PagesOf
    <3>3. Mapped = Before(prog, seg + 1, First(prog, prog.segs[seg + 1]))
      BY <1>2, <3>1, BeforeSegment
    <3>4. Place'
      BY <2>3, <2>7, <3>1, <3>2 DEF Place, Mapping
    <3>5. Extent'
      BY <2>3, <2>4, <2>7, <3>3 DEF Extent, Loaded
    <3>6. Rights'
      BY <2>3, <2>4, <2>6, <2>7 DEF Rights, Mapping, Loaded
    <3> QED
      BY <1>1, <2>3, <2>5, <2>7, <3>2, <3>4, <3>5, <3>6, NextPlace
  <2>8. CASE ~(seg < Len(prog.segs))
    <3>1. seg = Len(prog.segs)
      BY <1>2, <2>5, <2>8
    <3>2. Mapped = AllPages(prog)
      BY <1>2, <3>1, BeforeSegment
    <3>3. Place'
      BY <2>3, <2>8 DEF Place, Mapping
    <3>4. Extent'
      BY <2>3, <2>4, <2>8, <3>2 DEF Extent, Loaded
    <3>5. Rights'
      BY <2>3, <2>4, <2>6, <2>8 DEF Rights, Mapping, Loaded
    <3>6. va \in 0 .. WindowPages
      BY DEF AppInv, AppTypes
    <3> QED
      BY <1>1, <2>3, <2>5, <2>8, <3>3, <3>4, <3>5, <3>6, NextPlace
  <2> QED
    BY <2>7, <2>8
<1> QED
  BY <1>3, <1>4

LEMMA RelocateInv == ASSUME AppInv, Relocate PROVE AppInv'
<1> DEFINE V == {dst(prog, a) \div PageSize : a \in prog.relocs}
<1>1. pc = "relocate" /\ UNCHANGED <<pmm, paging, lost>> /\ ready /\ prog \in Program /\ Mapped = AllPages(prog)
  BY DEF Relocate, AppInv, AppTypes, Extent, Loaded
<1>2. V \subseteq Mapped
  <2> SUFFICES ASSUME NEW a \in prog.relocs PROVE dst(prog, a) \div PageSize \in AllPages(prog)
    BY <1>1
  <2>1. PICK s \in Segs(prog) : s.vaddr <= a /\ a < s.vaddr + s.memsz
    BY <1>1, ProgramTypes DEF Loadable
  <2>2. PICK i \in DOMAIN prog.segs : s = prog.segs[i]
    BY <2>1 DEF Segs
  <2>3. a \in Nat
    BY <1>1, ProgramTypes
  <2>4. dst(prog, a) \div PageSize \in PagesOf(prog, prog.segs[i])
    BY <1>1, <2>1, <2>2, <2>3, SegmentPages
  <2> QED
    BY <1>1, <2>4, PagesInWindow DEF AllPages
<1>3. Writable(V)
  <2> HIDE DEF V
  <2> QED
    BY <1>1, <1>2, LoadingWrites
<1>4. CASE ~prog.relocOK
  <2>1. Leave("badreloc")
    BY <1>3, <1>4 DEF Relocate
  <2> QED
    BY <1>1, <2>1, LeaveInv, SamePmm DEF Loaded, Results, AppInv, pmm
<1>5. CASE prog.relocOK
  <2>1. pc' = "protect" /\ seg' = 1 /\ va' = First(prog, prog.segs[1]) /\ UNCHANGED <<prog, pa, result>>
    BY <1>3, <1>5 DEF Relocate
  <2>2. Mapped' = Mapped /\ pte' = pte
    BY <1>1 DEF paging, Mapped
  <2>3. 1 \in DOMAIN prog.segs /\ 1 \in 1 .. Len(prog.segs) + 1
    BY <1>1, ProgramTypes
  <2>4. /\ First(prog, prog.segs[1]) \in PagesOf(prog, prog.segs[1])
        /\ First(prog, prog.segs[1]) \in 0 .. WindowPages
        /\ Before(prog, 1, First(prog, prog.segs[1])) = {}
    <3>1. /\ First(prog, prog.segs[1]) \in Nat /\ Last(prog, prog.segs[1]) \in Nat
          /\ First(prog, prog.segs[1]) <= Last(prog, prog.segs[1]) /\ Last(prog, prog.segs[1]) < WindowPages
      BY <1>1, <2>3, SegmentPages
    <3> QED
      BY <1>1, <3>1, WindowType, BeforeNone DEF PagesOf
  <2>5. Place' /\ Extent'
    BY <1>1, <2>1, <2>2, <2>3, <2>4 DEF Place, Extent, Mapping, Loaded
  <2>6. Rights'
    <3>1. /\ \A v \in Mapped : pte[v].w = TRUE
          /\ \A i \in DOMAIN prog.segs : \A v \in PagesOf(prog, prog.segs[i]) :
               v \in Mapped => pte[v].x = prog.segs[i].x
      BY <1>1 DEF AppInv, Rights, Loaded
    <3>2. \A i \in DOMAIN prog.segs : \A v \in PagesOf(prog, prog.segs[i]) : v \in Mapped
      BY <1>1, MappedIsProgram DEF Loaded
    <3> QED
      BY <2>1, <2>2, <2>4, <3>1, <3>2 DEF Rights, Mapping
  <2> QED
    BY <1>1, <2>1, <2>4, <2>5, <2>6, NextPlace
<1> QED
  BY <1>4, <1>5

LEMMA ProtectInv == ASSUME AppInv, Protect PROVE AppInv'
<1> DEFINE s == prog.segs[seg]
           e == [pte[va] EXCEPT !.w = FALSE]
<1>1. /\ pc = "protect" /\ pc' = "protect" /\ seg <= Len(prog.segs)
      /\ UNCHANGED <<table, prog, pa, result, lost>> /\ UNCHANGED pmm
      /\ IF s.w THEN UNCHANGED <<pte, tlb>> ELSE SetPte(va, e)
      /\ IF va < Last(prog, s) THEN va' = va + 1 /\ seg' = seg
         ELSE /\ seg' = seg + 1
              /\ va' = IF seg < Len(prog.segs) THEN First(prog, prog.segs[seg + 1]) ELSE 0
  BY DEF Protect, Seg
<1>2. /\ prog \in Program /\ seg \in DOMAIN prog.segs /\ va \in PagesOf(prog, s)
      /\ seg \in Nat /\ DOMAIN prog.segs = 1 .. Len(prog.segs) /\ Len(prog.segs) \in Nat
      /\ Mapped = AllPages(prog) /\ ready
  <2>1. prog \in Program /\ seg \in 1 .. Len(prog.segs) + 1 /\ Mapped = AllPages(prog) /\ ready
    BY <1>1 DEF AppInv, AppTypes, Place, Extent, Loaded
  <2>2. DOMAIN prog.segs = 1 .. Len(prog.segs) /\ Len(prog.segs) \in Nat
    BY <2>1, ProgramTypes
  <2>3. seg \in DOMAIN prog.segs
    BY <1>1, <2>1, <2>2
  <2> QED
    BY <1>1, <2>1, <2>2, <2>3 DEF AppInv, Place
<1>3. /\ va \in Window /\ va \in Nat /\ va <= Last(prog, s) /\ First(prog, s) <= va
      /\ Last(prog, s) \in Nat /\ Last(prog, s) < WindowPages /\ First(prog, s) \in Nat
      /\ va \in Mapped /\ s.w \in BOOLEAN
  <2>1. va \in Mapped
    BY <1>1, <1>2, MappedIsProgram DEF Loaded
  <2> QED
    BY <1>2, <2>1, PagesInWindow, SegmentPages, ProgramTypes
<1>4. pte[va] \in Entries /\ e \in Entries /\ e.page = pte[va].page /\ e.x = pte[va].x /\ e.w = FALSE
  <2>1. pte[va] \in Entries
    BY <1>3 DEF AppInv, AppTypes, Mapped
  <2> QED
    BY <2>1 DEF Entries
<1> HIDE DEF e
<1>5. Before(prog, seg', va') = Before(prog, seg, va) \cup {va} /\ va \notin Before(prog, seg, va)
  <2>1. Before(prog, seg, va + 1) = Before(prog, seg, va) \cup {va} /\ va \notin Before(prog, seg, va)
    BY <1>2, BeforePage
  <2>2. CASE va < Last(prog, s)
    BY <1>1, <2>1, <2>2
  <2>3. CASE ~(va < Last(prog, s))
    <3>1. va = Last(prog, s)
      BY <1>3, <2>3
    <3>2. CASE seg < Len(prog.segs)
      <4>1. seg + 1 \in DOMAIN prog.segs
        BY <1>2, <3>2
      <4>2. Before(prog, seg, va + 1) = Before(prog, seg + 1, First(prog, prog.segs[seg + 1]))
        BY <1>2, <3>1, <4>1, BeforeSegment
      <4> QED
        BY <1>1, <2>1, <2>3, <3>2, <4>2
    <3>3. CASE ~(seg < Len(prog.segs))
      <4>1. seg = Len(prog.segs)
        BY <1>2, <3>3
      <4>2. Before(prog, seg, va + 1) = AllPages(prog) /\ Before(prog, seg + 1, 0) = AllPages(prog)
        BY <1>2, <3>1, <4>1, BeforeSegment
      <4> QED
        BY <1>1, <2>1, <2>3, <3>3, <4>2
    <3> QED
      BY <3>2, <3>3
  <2> QED
    BY <2>2, <2>3
<1>6. /\ TlbFresh' /\ pte' \in [Window -> Entries \cup {NoPte}] /\ tlb' \in [Window -> Entries \cup {NoPte}]
      /\ pte'[va] \in Entries /\ pte'[va].page = pte[va].page /\ pte'[va].x = pte[va].x
      /\ pte'[va].w = s.w
      /\ \A u \in Window : u # va => pte'[u] = pte[u]
  <2>1. CASE s.w
    <3>1. pte[va].w = TRUE
      BY <1>1, <1>2, <1>5 DEF AppInv, Rights
    <3> QED
      BY <1>1, <1>3, <1>4, <2>1, <3>1 DEF AppInv, AppTypes, TlbFresh
  <2>2. CASE ~s.w
    <3>1. SetPte(va, e)
      BY <1>1, <2>2
    <3>2. /\ TlbFresh' /\ pte' \in [Window -> Entries \cup {NoPte}] /\ tlb' \in [Window -> Entries \cup {NoPte}]
          /\ pte'[va] = e /\ \A u \in Window : u # va => pte'[u] = pte[u]
      BY <1>3, <1>4, <3>1, SetPteFresh
    <3> QED
      BY <1>3, <1>4, <2>2, <3>2
  <2> QED
    BY <2>1, <2>2
<1>7. Mapped' = Mapped /\ Mapped \subseteq Window
  BY <1>3, <1>6, EntryNotNone DEF Mapped
<1>8. \A v \in Mapped : pte'[v].page = pte[v].page /\ pte'[v].x = pte[v].x
  BY <1>6, <1>7
<1>9. Place' /\ seg' \in Nat /\ va' \in 0 .. WindowPages
  <2>1. CASE va < Last(prog, s)
    <3>1. va + 1 \in PagesOf(prog, s) /\ va + 1 \in 0 .. WindowPages
      BY <1>3, <2>1, WindowType DEF PagesOf
    <3> QED
      BY <1>1, <1>2, <2>1, <3>1 DEF Place, Mapping
  <2>2. CASE ~(va < Last(prog, s)) /\ seg < Len(prog.segs)
    <3>1. seg + 1 \in DOMAIN prog.segs /\ seg + 1 \in 1 .. Len(prog.segs) + 1
      BY <1>2, <2>2
    <3>2. /\ First(prog, prog.segs[seg + 1]) \in PagesOf(prog, prog.segs[seg + 1])
          /\ First(prog, prog.segs[seg + 1]) \in 0 .. WindowPages
      <4>1. /\ First(prog, prog.segs[seg + 1]) \in Nat /\ Last(prog, prog.segs[seg + 1]) \in Nat
            /\ First(prog, prog.segs[seg + 1]) <= Last(prog, prog.segs[seg + 1])
            /\ Last(prog, prog.segs[seg + 1]) < WindowPages
        BY <1>2, <3>1, SegmentPages
      <4> QED
        BY <4>1, WindowType DEF PagesOf
    <3> QED
      BY <1>1, <1>2, <2>2, <3>1, <3>2 DEF Place, Mapping
  <2>3. CASE ~(va < Last(prog, s)) /\ ~(seg < Len(prog.segs))
    <3>1. seg' = seg + 1 /\ va' = 0 /\ seg + 1 \notin DOMAIN prog.segs /\ seg + 1 \in 1 .. Len(prog.segs) + 1
      BY <1>1, <1>2, <2>3
    <3> QED
      BY <1>1, <1>2, <3>1, WindowType DEF Place, Mapping
  <2> QED
    BY <2>1, <2>2, <2>3
<1>10. AppTypes'
  BY <1>1, <1>6, <1>9 DEF AppInv, AppTypes, pmm
<1>11. Extent'
  BY <1>1, <1>2, <1>7 DEF Extent, Loaded
<1>12. Rights'
  <2>1. ASSUME NEW i \in DOMAIN prog.segs, NEW v \in PagesOf(prog, prog.segs[i])
        PROVE  pte'[v].w = IF v \in Before(prog, seg', va') THEN prog.segs[i].w ELSE TRUE
    <3>1. v \in Window
      BY <1>2, PagesInWindow
    <3>2. CASE v = va
      <4>1. i = seg
        BY <1>2, <3>2, OneSegment
      <4> QED
        BY <1>5, <1>6, <3>2, <4>1
    <3>3. CASE v # va
      <4>1. pte[v].w = IF v \in Before(prog, seg, va) THEN prog.segs[i].w ELSE TRUE
        BY <1>1 DEF AppInv, Rights
      <4> QED
        BY <1>5, <1>6, <3>1, <3>3, <4>1
    <3> QED
      BY <3>2, <3>3
  <2>2. \A i \in DOMAIN prog.segs : \A v \in PagesOf(prog, prog.segs[i]) :
          v \in Mapped => pte'[v].x = prog.segs[i].x
    BY <1>1, <1>8 DEF AppInv, Rights, Loaded
  <2> QED
    BY <1>1, <1>7, <2>1, <2>2 DEF Rights, Mapping
<1>13. Present' = Present /\ Pending' = Pending /\ held' = held
  BY <1>1 DEF Present, Pending, pmm
<1>14. Accounted'
  <2>1. {pte'[v].page : v \in Mapped'} = {pte[v].page : v \in Mapped}
    BY <1>7, <1>8
  <2>2. held = InUse /\ Distinct
    BY <1>1 DEF AppInv, Accounted
  <2>3. InUse' = InUse
    BY <1>1, <1>13, <2>1 DEF InUse
  <2>4. Distinct'
    BY <1>1, <1>7, <1>8, <1>13, <2>2 DEF Distinct
  <2>5. Cardinality(held) = Cardinality(Present) + Cardinality(Mapped) + Cardinality(Pending) + Cardinality(lost)
    BY <1>1 DEF AppInv, Accounted
  <2> QED
    BY <1>1, <1>7, <1>13, <2>2, <2>3, <2>4, <2>5 DEF Accounted
<1>15. PmmP!IInv'
  BY <1>1, SamePmm DEF AppInv
<1> QED
  BY <1>6, <1>9, <1>10, <1>11, <1>12, <1>14, <1>15 DEF AppInv

LEMMA EnterInv == ASSUME AppInv, Enter PROVE AppInv'
<1>1. /\ pc = "protect" /\ seg > Len(prog.segs) /\ UNCHANGED <<pmm, paging, lost>> /\ ready /\ prog \in Program
      /\ Mapped = AllPages(prog) /\ seg \in 1 .. Len(prog.segs) + 1
  BY DEF Enter, AppInv, AppTypes, Extent, Loaded, Place
<1>2. CASE ~prog.entryOK
  <2>1. Leave("badentry")
    BY <1>2 DEF Enter
  <2> QED
    BY <1>1, <2>1, LeaveInv, SamePmm DEF Loaded, Results, AppInv, pmm
<1>3. CASE prog.entryOK
  <2>1. pc' = "run" /\ UNCHANGED <<prog, seg, va, pa, result>>
    BY <1>3 DEF Enter
  <2>2. Mapped' = Mapped /\ pte' = pte
    BY <1>1 DEF paging, Mapped
  <2>3. Len(prog.segs) \in DOMAIN prog.segs /\ seg = Len(prog.segs) + 1
    BY <1>1, ProgramTypes
  <2>4. Before(prog, seg, va) = AllPages(prog)
    BY <1>1, <2>3, BeforeSegment
  <2>5. Place' /\ Extent'
    BY <1>1, <2>1, <2>2 DEF Place, Extent, Mapping, Loaded
  <2>6. Rights'
    <3>1. /\ \A i \in DOMAIN prog.segs : \A v \in PagesOf(prog, prog.segs[i]) :
               /\ pte[v].w = IF v \in Before(prog, seg, va) THEN prog.segs[i].w ELSE TRUE
               /\ v \in Mapped => pte[v].x = prog.segs[i].x
      BY <1>1 DEF AppInv, Rights, Loaded
    <3>2. \A i \in DOMAIN prog.segs : \A v \in PagesOf(prog, prog.segs[i]) : v \in AllPages(prog)
      BY <1>1, MappedIsProgram DEF Loaded
    <3>3. \A i \in DOMAIN prog.segs : \A v \in PagesOf(prog, prog.segs[i]) :
            pte[v].w = prog.segs[i].w /\ (v \in Mapped => pte[v].x = prog.segs[i].x)
      BY <2>4, <3>1, <3>2
    <3>4. /\ prog' = prog /\ pc' = "run" /\ pte' = pte /\ Mapped' = Mapped
          /\ \A i \in DOMAIN prog.segs : PagesOf(prog, prog.segs[i])' = PagesOf(prog, prog.segs[i])
      BY <2>1, <2>2 DEF PagesOf, First, Last, dst, vmin, Segs
    <3> QED
      BY <3>3, <3>4 DEF Rights, Mapping, Loaded
  <2>7. seg' \in Nat /\ va' \in 0 .. WindowPages
    BY <2>1 DEF AppInv, AppTypes
  <2> QED
    BY <1>1, <2>1, <2>5, <2>6, <2>7, NextPlace
<1> QED
  BY <1>2, <1>3

LEMMA ReturnInv == ASSUME AppInv, Return PROVE AppInv'
<1>1. pc = "run" /\ Leave("ok") /\ UNCHANGED pmm /\ UNCHANGED paging /\ lost' = lost /\ ready
  BY DEF Return, AppInv, AppTypes
<1>2. PmmP!IInv' /\ held' = held /\ ready' = ready
  BY <1>1, SamePmm DEF AppInv, pmm
<1> QED
  BY <1>1, <1>2, LeaveInv DEF Loaded, Results

\* The no-execute bit makes of a page one that pmm_free ignores.
LEMMA NxFreed ==
  ASSUME PmmP!IInv, NEW e, e.page \in Page, ~e.x, Pmm!pmm_free(FrameOf(e))
  PROVE  PmmP!IInv' /\ UNCHANGED <<ready, out, held>> /\ Pmm!Clear' = Pmm!Clear
<1>1. FrameOf(e) \in Nat /\ FrameOf(e) >= MaxPages
  BY PmmConstantsOK DEF FrameOf, NxFrame, Page, Pmm!Page
<1> QED
  BY <1>1, FreeIgnored

LEMMA UnmapPageInv == ASSUME AppInv, UnmapPage PROVE AppInv'
<1>1. /\ pc = "unmap" /\ va < Total(prog) /\ va' = va + 1 /\ UNCHANGED <<table, pc, prog, seg, pa, result>>
      /\ IF pte[va] = NoPte
         THEN UNCHANGED <<pmm, pte, tlb, lost>>
         ELSE /\ Pmm!pmm_free(FrameOf(pte[va])) /\ SetPte(va, NoPte)
              /\ lost' = IF pte[va].x THEN lost ELSE lost \cup {pte[va].page}
  BY DEF UnmapPage
<1>2. va \in Nat /\ Total(prog) \in 0 .. WindowPages /\ va \in Window /\ va + 1 \in 0 .. WindowPages /\ ready
  <2>1. va \in 0 .. WindowPages /\ Total(prog) \in 0 .. WindowPages /\ ready
    BY <1>1, TotalPages DEF AppInv, AppTypes
  <2> QED
    BY <1>1, <2>1, WindowType
<1>3. Present' = Present /\ Pending' = {} /\ Pending = {}
  BY <1>1 DEF Present, Pending
<1>4. \A v \in Mapped : va <= v /\ v < Total(prog) /\ v \in Nat
  BY <1>1, MappedType, WindowType DEF AppInv, Extent
<1>5. CASE pte[va] = NoPte
  <2>1. UNCHANGED pmm /\ held' = held /\ ready' = ready /\ UNCHANGED <<pte, tlb, lost>>
    BY <1>1, <1>5 DEF pmm
  <2>2. Mapped' = Mapped /\ TlbFresh' /\ Accounted' /\ va \notin Mapped
    BY <1>1, <1>3, <1>5, <2>1, KeptTables DEF Mapped
  <2>3. AppTypes'
    BY <1>1, <1>2, <2>1 DEF AppInv, AppTypes
  <2>4. Place' /\ Rights'
    BY <1>1, <1>2 DEF Place, Rights, Mapping, Loaded
  <2>5. Extent'
    <3>1. \A v \in Mapped : va + 1 <= v /\ v < Total(prog)
      BY <1>2, <1>4, <2>2
    <3> QED
      BY <1>1, <2>2, <3>1 DEF Extent, Loaded
  <2>6. PmmP!IInv'
    BY <2>1, SamePmm DEF AppInv
  <2> QED
    BY <2>2, <2>3, <2>4, <2>5, <2>6 DEF AppInv
<1>6. CASE pte[va] # NoPte
  <2> DEFINE i == pte[va].page
  <2>1. SetPte(va, NoPte) /\ va \in Mapped
    BY <1>1, <1>2, <1>6 DEF Mapped
  <2>2. i \in held /\ i \in Page
    BY <1>1, <2>1, UsesAreHeld, SetFacts
  <2>3. held = InUse /\ Distinct
    BY <1>1 DEF AppInv, Accounted
  <2>4. /\ \A v \in Mapped : pte[v].page = i <=> v = va
        /\ \A n \in Present : table[n] # i
        /\ i \notin lost
    BY <2>1, <2>3 DEF Distinct
  <2>5. /\ PmmP!IInv' /\ ready' = ready
        /\ \/ held' = held \ {i} /\ lost' = lost
           \/ held' = held /\ lost' = lost \cup {i}
    <3>1. CASE pte[va].x
      BY <1>1, <1>6, <2>2, <3>1, FreePmm DEF AppInv, FrameOf
    <3>2. CASE ~pte[va].x
      BY <1>1, <1>6, <2>2, <3>2, NxFreed DEF AppInv
    <3> QED
      BY <3>1, <3>2
  <2> HIDE DEF i
  <2>6. /\ TlbFresh' /\ pte' \in [Window -> Entries \cup {NoPte}] /\ tlb' \in [Window -> Entries \cup {NoPte}]
        /\ pte'[va] = NoPte /\ \A u \in Window : u # va => pte'[u] = pte[u]
    BY <1>2, <2>1, SetPteFresh
  <2>7. Mapped' = Mapped \ {va}
    BY <1>2, <2>6 DEF Mapped
  <2>8. \A v \in Mapped' : pte'[v] = pte[v] /\ v \in Mapped /\ v # va
    BY <2>6, <2>7, MappedType
  <2>9. AppTypes'
    BY <1>1, <1>2, <2>2, <2>5, <2>6 DEF AppInv, AppTypes
  <2>10. Place' /\ Rights'
    BY <1>1, <1>2 DEF Place, Rights, Mapping, Loaded
  <2>11. Extent'
    <3>1. \A v \in Mapped' : va + 1 <= v /\ v < Total(prog)
      BY <1>2, <1>4, <2>8
    <3> QED
      BY <1>1, <3>1 DEF Extent, Loaded
  <2>12. Accounted'
    <3>1. {pte'[v].page : v \in Mapped'} = {pte[v].page : v \in Mapped} \ {i}
      BY <2>4, <2>7, <2>8
    <3>2. {table'[n] : n \in Present'} = {table[n] : n \in Present} /\ i \notin {table[n] : n \in Present}
      BY <1>1, <1>3, <2>4
    <3>3. i \in {pte[v].page : v \in Mapped}
      BY <2>1, <2>4
    <3>4. held' = InUse'
      BY <1>3, <2>3, <2>4, <2>5, <3>1, <3>2, <3>3 DEF InUse
    <3>5. Distinct'
      <4>1. \A p \in lost' : p \in lost \/ p = i
        BY <2>5
      <4>2. \A p \in lost' : /\ \A n \in Present' : table'[n] # p
                             /\ \A v \in Mapped' : pte'[v].page # p
                             /\ p \notin Pending'
        BY <1>1, <1>3, <2>3, <2>4, <2>8, <4>1 DEF Distinct
      <4> QED
        BY <1>1, <1>3, <2>3, <2>8, <4>2 DEF Distinct
    <3>6. Cardinality(Mapped') = Cardinality(Mapped) - 1
      BY <2>1, <2>7, SetFacts, FS_RemoveElement
    <3>7. \/ Cardinality(held') = Cardinality(held) - 1 /\ Cardinality(lost') = Cardinality(lost)
          \/ Cardinality(held') = Cardinality(held) /\ Cardinality(lost') = Cardinality(lost) + 1
      <4>1. Cardinality(held \ {i}) = Cardinality(held) - 1
        BY <2>2, SetFacts, FS_RemoveElement
      <4>2. Cardinality(lost \cup {i}) = Cardinality(lost) + 1
        BY <2>4, SetFacts, FS_AddElement
      <4> QED
        BY <2>5, <4>1, <4>2
    <3>8. Cardinality(held) = Cardinality(Present) + Cardinality(Mapped) + Cardinality(Pending) + Cardinality(lost)
      BY <1>1 DEF AppInv, Accounted
    <3> QED
      BY <1>3, <3>4, <3>5, <3>6, <3>7, <3>8, SetFacts DEF Accounted
  <2> QED
    BY <2>5, <2>6, <2>9, <2>10, <2>11, <2>12 DEF AppInv
<1> QED
  BY <1>5, <1>6

LEMMA DoneInv == ASSUME AppInv, Done PROVE AppInv'
<1>1. /\ pc = "unmap" /\ va = Total(prog) /\ pc' = "idle" /\ UNCHANGED <<pmm, paging, prog, seg, va, pa, result, lost>>
      /\ ready
  BY DEF Done, AppInv, AppTypes
<1>2. Mapped = {} /\ Mapped' = Mapped
  <2>1. \A v \in Mapped : va <= v /\ v < va /\ v \in Nat /\ va \in Nat
    BY <1>1, MappedType, WindowType DEF AppInv, AppTypes, Extent
  <2> QED
    BY <1>1, <2>1 DEF Mapped, paging
<1>3. Place' /\ Extent' /\ Rights'
  BY <1>1, <1>2 DEF Place, Extent, Rights, Mapping, Loaded
<1>4. seg' \in Nat /\ va' \in 0 .. WindowPages
  BY <1>1 DEF AppInv, AppTypes
<1> QED
  BY <1>1, <1>3, <1>4, NextPlace

-----------------------------------------------------------------------------
LEMMA InitAppInv == Init => AppInv
<1> SUFFICES ASSUME Init PROVE AppInv
  OBVIOUS
<1>1. PmmP!IInv
  BY SameAllocator, PmmP!InitInv, PmmConstantsOK DEF Init
<1>2. Mapped = {} /\ Present = {} /\ Pending = {} /\ held = {} /\ ready = FALSE /\ lost = {}
  BY DEF Init, Mapped, Present, Pending, Pmm!Init
<1>3. AppTypes
  BY <1>2, WindowType DEF Init, AppTypes
<1>4. Place /\ Extent /\ Rights /\ TlbFresh
  BY <1>2 DEF Init, Place, Extent, Rights, TlbFresh, Mapping, Loaded
<1>5. Cardinality({}) = 0
  BY FS_EmptySet
<1>6. Accounted
  BY <1>2, <1>5 DEF Accounted, InUse, Distinct
<1> QED
  BY <1>1, <1>3, <1>4, <1>6 DEF AppInv

LEMMA NextAppInv == AppInv /\ [Next]_vars => AppInv'
<1> SUFFICES ASSUME AppInv, [Next]_vars PROVE AppInv'
  OBVIOUS
<1> QED
  BY BootInv, RejectInv, AllocPageInv, EnsureTableInv, MapPageInv, CopyInv, RelocateInv, ProtectInv, EnterInv,
     ReturnInv, UnmapPageInv, DoneInv, StartInv, FillInv, StutterInv DEF Next, Exec

\* The inductive invariant, for every window, memory and set of programs.
THEOREM AppInvariance == Spec => []AppInv
BY InitAppInv, NextAppInv, PTL DEF Spec

\* The types, among them that a mapping's page is always one of the
\* allocator's and that the loops over segments and pages stay in the window
\* (exec.c:208-245, vmm.c:102-119).
THEOREM AppMemoryTypes == Spec => []TypeOK
<1>1. AppInv => TypeOK
  BY SameAllocator DEF AppInv, AppTypes, TypeOK, PmmP!IInv, Page, Entries
<1> QED
  BY <1>1, AppInvariance, PTL

\* The TLB never says what the page tables do not, so neither a page given
\* back nor a right taken away is still in effect (vmm.c's invlpg).
THEOREM TlbStaysFresh == Spec => []TlbFresh
<1>1. AppInv => TlbFresh
  BY DEF AppInv
<1> QED
  BY <1>1, AppInvariance, PTL

\* Every page the allocator handed out has exactly one use, or it was not
\* executable and vmm_unmap did not give it back (vmm.c:122); between runs no
\* page is mapped, whichever way the last run ended (exec.c's unmap_range on
\* every path out).
THEOREM EveryPageHasOneUse == Spec => []PagesAccounted
<1>1. AppInv => PagesAccounted
  BY DEF AppInv, Accounted, InUse, Extent, PagesAccounted
<1> QED
  BY <1>1, AppInvariance, PTL

\* Loading never stores to a page that is unmapped or write-protected
\* (map_segment and apply_relocations_dyn before vmm_set_writable).
THEOREM LoadingNeverFaults == Spec => []LoadNeverFaults
<1>1. AppInv => LoadNeverFaults
  BY DEF AppInv, AppTypes, LoadNeverFaults
<1> QED
  BY <1>1, AppInvariance, PTL

\* A program that runs has its segments' rights on their pages, and nothing
\* else in the window is mapped (exec.c's vmm_set_writable before the entry).
THEOREM RunsWithItsRights == Spec => []RightsFinal
<1>1. AppInv => RightsFinal
  <2> SUFFICES ASSUME AppInv, pc = "run", NEW v \in Window
               PROVE  LET here == {s \in Segs(prog) : v \in PagesOf(prog, s)} IN
                      IF here = {} THEN Entry(v) = NoPte
                      ELSE \E s \in here : Entry(v).w = s.w /\ Entry(v).x = s.x
    BY DEF RightsFinal
  <2> DEFINE here == {s \in Segs(prog) : v \in PagesOf(prog, s)}
  <2>1. Entry(v) = pte[v] /\ Mapped = AllPages(prog)
    BY DEF AppInv, TlbFresh, Entry, Extent, Loaded
  <2>2. CASE here = {}
    <3>1. v \notin AllPages(prog)
      BY <2>2 DEF AllPages, Segs
    <3> QED
      BY <2>1, <2>2, <3>1 DEF Mapped
  <2>3. CASE here # {}
    <3>1. PICK i \in DOMAIN prog.segs : v \in PagesOf(prog, prog.segs[i]) /\ prog.segs[i] \in here
      BY <2>3 DEF Segs
    <3>2. v \in Mapped
      BY <2>1, <3>1 DEF AllPages
    <3>3. pte[v].w = prog.segs[i].w /\ pte[v].x = prog.segs[i].x
      BY <3>1, <3>2 DEF AppInv, Rights, Loaded
    <3> QED
      BY <2>1, <2>3, <3>1, <3>3
  <2> QED
    BY <2>2, <2>3
<1> QED
  BY <1>1, AppInvariance, PTL

-----------------------------------------------------------------------------
(* Memory does not run out. *)

LEMMA Room ==
  ASSUME AppInv, pc \in {"alloc", "walk"}
  PROVE  Cardinality(Mapped) + 1 <= WindowPages /\ Cardinality(Present) <= Cardinality(Node) /\ Cardinality(Node) \in Nat
<1>1. va \in Window /\ va \notin Mapped
  <2>1. /\ prog \in Program /\ seg \in DOMAIN prog.segs /\ va \in PagesOf(prog, prog.segs[seg])
        /\ Mapped = Before(prog, seg, va)
    BY DEF AppInv, AppTypes, Place, Extent, Mapping
  <2> QED
    BY <2>1, BeforePage
<1>2. IsFiniteSet(Window) /\ Cardinality(Window) = WindowPages
  <2>1. IsFiniteSet(0 .. WindowPages - 1) /\ Cardinality(0 .. WindowPages - 1) = WindowPages
    <3>1. 0 \in Int /\ WindowPages - 1 \in Int /\ WindowPages \in Nat
      BY WindowType
    <3>2. /\ IsFiniteSet(0 .. WindowPages - 1)
          /\ Cardinality(0 .. WindowPages - 1)
               = IF 0 > WindowPages - 1 THEN 0 ELSE (WindowPages - 1) - 0 + 1
      BY <3>1, FS_Interval, Zenon
    <3> QED
      BY <3>1, <3>2
  <2> QED
    BY <2>1, WindowType
<1>3. Cardinality(Mapped \cup {va}) = Cardinality(Mapped) + 1
  BY <1>1, SetFacts, FS_AddElement
<1>4. Cardinality(Mapped \cup {va}) <= Cardinality(Window)
  BY <1>1, <1>2, MappedType, FS_Subset
<1>5. IsFiniteSet(Node)
  <2>1. 2 + (WindowPages - 1) \div TableSpan \in Int
    <3>1. (WindowPages - 1) \div TableSpan \in Int
      BY AppMemoryConstantsOK
    <3> QED
      BY <3>1
  <2> QED
    BY <2>1, FS_Interval DEF Node
<1>6. Cardinality(Present) <= Cardinality(Node) /\ Cardinality(Node) \in Nat
  BY <1>5, MappedType, FS_Subset, FS_CardinalityType
<1> QED
  BY <1>2, <1>3, <1>4, <1>6

\* An allocation does not fail while a program is being mapped.
LEMMA AllocSucceeds ==
  ASSUME AppInv, EnoughMemory, pc \in {"alloc", "walk"}, Pmm!pmm_alloc,
         Cardinality(Present) + Cardinality(Pending) <= Cardinality(Node)
  PROVE  out' # 0
<1> SUFFICES ASSUME out' = 0 PROVE FALSE
  OBVIOUS
<1>1. Pmm!Clear = {}
  BY AllocPmm DEF AppInv
<1>2. Cardinality(held) = Cardinality(Present) + Cardinality(Mapped) + Cardinality(Pending) + Cardinality(lost)
  BY DEF AppInv, Accounted
<1>3. Cardinality(held \ lost) = Cardinality(held) - Cardinality(lost)
  <2>1. held \cap lost = lost
    BY UsesAreHeld
  <2> QED
    BY <2>1, SetFacts, FS_Difference
<1>4. WindowPages + Cardinality(Node) <= Cardinality(held \ lost)
  <2>1. (Pmm!Clear \cup held) \ lost = held \ lost
    BY <1>1
  <2> QED
    BY <2>1, SameCardinality DEF EnoughMemory
<1>5. /\ Cardinality(Present) \in Nat /\ Cardinality(Mapped) \in Nat /\ Cardinality(Pending) \in Nat
      /\ Cardinality(Node) \in Nat /\ WindowPages \in Nat /\ Cardinality(held) \in Nat /\ Cardinality(lost) \in Nat
  BY Room, SetFacts, WindowType
<1> QED
  BY <1>2, <1>3, <1>4, <1>5, Room

\* A table is missing on the walk, so not every table there can be is there.
LEMMA MissingTable ==
  ASSUME AppInv, EnsureTable
  PROVE  Cardinality(Present) + Cardinality(Pending) <= Cardinality(Node)
<1>1. pc = "walk" /\ va \in Window
  <2>1. pc = "walk"
    BY DEF EnsureTable
  <2>2. /\ prog \in Program /\ seg \in DOMAIN prog.segs /\ va \in PagesOf(prog, prog.segs[seg])
        /\ Mapped = Before(prog, seg, va)
    BY <2>1 DEF AppInv, AppTypes, Place, Extent, Mapping
  <2> QED
    BY <2>1, <2>2, BeforePage
<1>2. PICK n \in Walk(va) : table[n] = Absent
  BY DEF EnsureTable
<1>3. n \in Node /\ n \notin Present
  BY <1>1, <1>2, WalkType DEF Present
<1>4. IsFiniteSet(Node)
  <2>1. 2 + (WindowPages - 1) \div TableSpan \in Int
    <3>1. (WindowPages - 1) \div TableSpan \in Int
      BY AppMemoryConstantsOK
    <3> QED
      BY <3>1
  <2> QED
    BY <2>1, FS_Interval DEF Node
<1>5. Cardinality(Present \cup {n}) = Cardinality(Present) + 1
  BY <1>3, SetFacts, FS_AddElement
<1>6. Cardinality(Present \cup {n}) <= Cardinality(Node)
  BY <1>3, <1>4, MappedType, FS_Subset
<1>7. Cardinality(Pending) = 1
  BY <1>1, SetFacts
<1> QED
  BY <1>5, <1>6, <1>7

\* The pages there are do not change, and lost ones stay lost.
LEMMA LessMemory ==
  ASSUME AppInv, Pmm!Clear' \cup held' = Pmm!Clear \cup held, lost \subseteq lost', EnoughMemory'
  PROVE  EnoughMemory
<1> DEFINE new == (Pmm!Clear' \cup held') \ lost'
           old == (Pmm!Clear \cup held) \ lost
<1>1. new \in SUBSET old
  OBVIOUS
<1>2. IsFiniteSet(old)
  <2>1. Pmm!Clear \in SUBSET (0 .. MaxPages - 1)
    BY PmmConstantsOK DEF Pmm!Clear, AppInv, PmmP!IInv, PmmP!TypeOK
  <2>2. IsFiniteSet(0 .. MaxPages - 1)
    BY FS_Interval, PmmConstantsOK
  <2>3. IsFiniteSet(Pmm!Clear)
    BY <2>1, <2>2, FS_Subset
  <2>4. IsFiniteSet(Pmm!Clear \cup held)
    BY <2>3, SetFacts, FS_Union
  <2> QED
    BY <2>4, FS_Difference
<1>3. Cardinality(new) <= Cardinality(old) /\ Cardinality(new) \in Nat /\ Cardinality(old) \in Nat
  <2> HIDE DEF new, old
  <2> QED
    BY <1>1, <1>2, FS_Subset, FS_CardinalityType
<1>4. WindowPages \in Nat /\ Cardinality(Node) \in Nat
  <2>1. 2 + (WindowPages - 1) \div TableSpan \in Int
    <3>1. (WindowPages - 1) \div TableSpan \in Int
      BY AppMemoryConstantsOK
    <3> QED
      BY <3>1
  <2>2. IsFiniteSet(Node)
    BY <2>1, FS_Interval DEF Node
  <2> QED
    BY <2>2, FS_CardinalityType, WindowType
<1>5. WindowPages + Cardinality(Node) <= Cardinality(new)
  BY DEF EnoughMemory
<1>6. EnoughMemory <=> WindowPages + Cardinality(Node) <= Cardinality(old)
  BY DEF EnoughMemory
<1> HIDE DEF new, old
<1> QED
  BY <1>3, <1>4, <1>5, <1>6

LEMMA NextNeverDry ==
  ASSUME AppInv, NeverDry, [Next]_vars
  PROVE  NeverDry'
<1> SUFFICES ASSUME ready', EnoughMemory' PROVE pc' # "wild" /\ result' # "nomem"
  BY DEF NeverDry
<1>1. CASE Boot
  <2>1. ~ready /\ pc' = pc /\ result' = result
    BY <1>1, BootPmm DEF Boot, AppInv, run
  <2> QED
    BY <2>1 DEF AppInv, AppTypes
<1>2. CASE AllocPage
  <2>1. pc = "alloc" /\ Pmm!pmm_alloc /\ ready /\ Pmm!Clear' \cup held' = Pmm!Clear \cup held /\ lost' = lost
    BY <1>2, AllocPmm DEF AllocPage, AppInv
  <2>2. EnoughMemory /\ result # "nomem"
    BY <2>1, LessMemory DEF NeverDry
  <2>3. Pending = {} /\ Cardinality({}) = 0
    BY <2>1, FS_EmptySet DEF Pending
  <2>4. Cardinality(Present) + Cardinality(Pending) <= Cardinality(Node)
    BY <2>1, <2>3, Room, SetFacts
  <2>5. out' # 0
    BY <2>1, <2>2, <2>4, AllocSucceeds
  <2> QED
    BY <1>2, <2>2, <2>5 DEF AllocPage
<1>3. CASE EnsureTable
  <2>1. pc = "walk" /\ Pmm!pmm_alloc /\ ready /\ Pmm!Clear' \cup held' = Pmm!Clear \cup held /\ result' = result /\ lost' = lost
    BY <1>3, AllocPmm DEF EnsureTable, AppInv
  <2>2. EnoughMemory /\ result # "nomem"
    BY <2>1, LessMemory DEF NeverDry
  <2>3. Cardinality(Present) + Cardinality(Pending) <= Cardinality(Node)
    BY <1>3, <2>1, MissingTable
  <2>4. out' # 0
    BY <2>1, <2>2, <2>3, AllocSucceeds
  <2> QED
    BY <1>3, <2>1, <2>2, <2>4 DEF EnsureTable
<1>4. CASE UnmapPage
  <2>1. pc' = pc /\ pc = "unmap" /\ result' = result /\ va \in 0 .. WindowPages /\ va < Total(prog) /\ prog \in Program
    BY <1>4 DEF UnmapPage, AppInv, AppTypes
  <2>2. Pmm!Clear' \cup held' = Pmm!Clear \cup held /\ ready' = ready /\ lost \subseteq lost'
    <3>1. CASE pte[va] = NoPte
      BY <1>4, <3>1, SamePmm DEF UnmapPage, pmm
    <3>2. CASE pte[va] # NoPte
      <4>1. va \in Window
        BY <2>1, TotalPages, WindowType
      <4>2. pte[va].page \in held /\ pte[va].page \in Page
        BY <2>1, <3>2, <4>1, UsesAreHeld, SetFacts DEF Mapped
      <4>3. Pmm!pmm_free(FrameOf(pte[va])) /\ lost \subseteq lost'
        BY <1>4, <3>2 DEF UnmapPage
      <4>4. CASE pte[va].x
        BY <4>2, <4>3, <4>4, FreePmm DEF AppInv, FrameOf
      <4>5. CASE ~pte[va].x
        BY <4>2, <4>3, <4>5, NxFreed DEF AppInv
      <4> QED
        BY <4>3, <4>4, <4>5
    <3> QED
      BY <3>1, <3>2
  <2> QED
    BY <2>1, <2>2, LessMemory DEF NeverDry
<1>5. CASE UNCHANGED pmm /\ lost' = lost /\ pc' # "wild" /\ (result' = result \/ result' # "nomem")
  <2>1. Pmm!Clear' \cup held' = Pmm!Clear \cup held /\ ready' = ready
    BY <1>5, SamePmm DEF pmm
  <2> QED
    BY <1>5, <2>1, LessMemory DEF NeverDry
<1>6. CASE UNCHANGED vars
  <2>1. UNCHANGED pmm /\ lost' = lost /\ pc' = pc /\ result' = result
    BY <1>6 DEF vars, run
  <2>2. Pmm!Clear' \cup held' = Pmm!Clear \cup held /\ ready' = ready
    BY <2>1, SamePmm DEF pmm
  <2> QED
    BY <2>1, <2>2, LessMemory DEF NeverDry
<1>7. CASE \E v \in Window : Fill(v)
  <2>1. UNCHANGED pmm /\ lost' = lost /\ pc' = pc /\ result' = result
    BY <1>7 DEF Fill, run
  <2>2. Pmm!Clear' \cup held' = Pmm!Clear \cup held /\ ready' = ready
    BY <2>1, SamePmm DEF pmm
  <2> QED
    BY <2>1, <2>2, LessMemory DEF NeverDry
<1>8. CASE Reject \/ MapPage \/ Copy \/ Relocate \/ Protect \/ Enter \/ Return \/ Done \/ \E p \in Program : Start(p)
  <2>1. CASE Reject
    BY <1>5, <2>1 DEF Reject, AppInv, AppTypes
  <2>2. CASE MapPage
    BY <1>5, <2>2 DEF MapPage
  <2>3. CASE Copy
    BY <1>5, <2>3 DEF Copy, Leave
  <2>4. CASE Relocate
    BY <1>5, <2>4 DEF Relocate, Leave
  <2>5. CASE Protect
    BY <1>5, <2>5 DEF Protect
  <2>6. CASE Enter
    BY <1>5, <2>6 DEF Enter, Leave
  <2>7. CASE Return
    BY <1>5, <2>7 DEF Return, Leave
  <2>8. CASE Done
    BY <1>5, <2>8 DEF Done
  <2>9. CASE \E p \in Program : Start(p)
    BY <1>5, <2>9 DEF Start
  <2> QED
    BY <1>8, <2>1, <2>2, <2>3, <2>4, <2>5, <2>6, <2>7, <2>8, <2>9
<1> QED
  BY <1>1, <1>2, <1>3, <1>4, <1>6, <1>7, <1>8 DEF Next, Exec

\* As long as the pages not lost yet are enough for a window full of pages and
\* their page tables, no sequence of runs, failed or not, makes an allocation
\* fail, so the path on which vmm_map uses a table at address 0 (ensure_table,
\* vmm.c:21-29) is not taken.  The pages a run loses are its own that are not
\* executable, so each run of a program with data brings the end nearer.
THEOREM MemoryNeverRunsDry == Spec => []NeverDry
<1>1. Init => NeverDry
  BY DEF Init, NeverDry
<1>2. AppInv /\ NeverDry /\ [Next]_vars => NeverDry'
  BY NextNeverDry
<1> QED
  BY <1>1, <1>2, AppInvariance, PTL DEF Spec
=============================================================================
