------------------------------ MODULE PhysMem -------------------------------
(***************************************************************************)
(* The physical page allocator, MM/pmm.c: a bitmap of all pages below      *)
(* PMM_MAX_PHYS, filled from the boot loader's memory map.  Addresses are  *)
(* bytes, so that the rounding of a range's ends to pages is modelled; a   *)
(* page is named by its number.                                            *)
(***************************************************************************)
EXTENDS Integers, FiniteSets

CONSTANTS
  PageSize,         \* bytes in a page
  MaxPages,         \* PMM_MAX_PAGES
  LowEnd,           \* 0x100000: never handed out below this address
  MaxAddr,          \* bound: memory map entries end here
  MemMap,           \* memory maps: sets of [base, len, usable]
  Kernel,           \* [base, len], where the boot loader put the kernel
  NoMap             \* a boot loader that gives no memory map

ASSUME PhysMemConstantsOK ==
  /\ PageSize \in Nat \ {0} /\ MaxPages \in Nat /\ LowEnd \in Nat \ {0} /\ MaxAddr \in Nat
  /\ \A map \in MemMap : map \subseteq [base : 0 .. MaxAddr, len : 0 .. MaxAddr, usable : BOOLEAN]
  /\ Kernel \in [base : Nat, len : Nat]
  /\ NoMap \notin MemMap

VARIABLES
  bitmap,           \* pages whose bit is set
  pages_used, pages_limit,
  out,              \* what the last pmm_alloc returned, 0 at first
  \* history variables
  mm,               \* the memory map, NoMap before pmm_init
  ready,            \* pmm_init has run
  held              \* pages handed out and not freed

vars == <<bitmap, pages_used, pages_limit, out, mm, ready, held>>

Page == 0 .. MaxPages - 1

-----------------------------------------------------------------------------
(* Byte ranges and pages. *)

Down(x) == x \div PageSize
Up(x)   == (x + PageSize - 1) \div PageSize

\* Mutant: a usable range's ends are rounded outwards.
Inside_Outwards(base, len, limit) ==
  {p \in Page : Down(base) <= p /\ p < Up(base + len) /\ p < limit}

\* The pages mark_free clears: those wholly in the range.
Inside(base, len, limit) ==
  {p \in Page : Up(base) <= p /\ p < Down(base + len) /\ p < limit}

\* The pages mark_used sets: those the range touches.
Touched(base, len, limit) ==
  {p \in Page : Down(base) <= p /\ p < Up(base + len) /\ p < limit}

\* The pages below the end of the highest entry, MaxPages at most.
Limit(map) == Cardinality({p \in Page : \E e \in map : p < Up(e.base + e.len)})

Freed(map)  == UNION {Inside(e.base, e.len, Limit(map)) : e \in {u \in map : u.usable}}
Pinned(map) == (IF Kernel.len = 0 THEN {} ELSE Touched(Kernel.base, Kernel.len, Limit(map)))
                 \cup Touched(0, LowEnd, Limit(map))

-----------------------------------------------------------------------------
Init ==
  /\ bitmap = {} /\ pages_used = 0 /\ pages_limit = 0 /\ out = 0
  /\ mm = NoMap /\ ready = FALSE /\ held = {}

\* All pages used, then the usable ranges freed, then the kernel and the low
\* memory taken back; each of them counts a page only when its bit changes.
pmm_init(map) ==
  /\ ~ready /\ ready' = TRUE
  /\ pages_limit' = Limit(map)
  /\ bitmap' = (Page \ Freed(map)) \cup Pinned(map)
  /\ pages_used' = MaxPages - Cardinality(Freed(map)) + Cardinality(Pinned(map) \cap Freed(map))
  /\ mm' = map
  /\ UNCHANGED <<out, held>>

\* No response from the boot loader: every page stays used.
pmm_init_none ==
  /\ ~ready /\ ready' = TRUE
  /\ pages_limit' = MaxPages /\ bitmap' = Page /\ pages_used' = MaxPages
  /\ UNCHANGED <<out, mm, held>>

Clear == {p \in 0 .. pages_limit - 1 : p \notin bitmap}

\* The first clear bit; 0, which is also a page's address, for none.
pmm_alloc ==
  /\ ready
  /\ IF Clear = {}
     THEN out' = 0 /\ UNCHANGED <<bitmap, pages_used, held>>
     ELSE LET i == CHOOSE p \in Clear : \A r \in Clear : p <= r IN
          /\ bitmap' = bitmap \cup {i}
          /\ pages_used' = pages_used + 1
          /\ out' = i
          /\ held' = held \cup {i}
  /\ UNCHANGED <<pages_limit, mm, ready>>

\* Mutant: the limit test is off by one.
pmm_free_SkipsLast(i) ==
  /\ IF i < pages_limit - 1 /\ i \in bitmap
     THEN bitmap' = bitmap \ {i} /\ pages_used' = pages_used - 1
     ELSE UNCHANGED <<bitmap, pages_used>>
  /\ held' = held \ {i}
  /\ UNCHANGED <<pages_limit, out, mm, ready>>

\* Pages past the limit and clear bits are ignored.
pmm_free(i) ==
  /\ IF i < pages_limit /\ i \in bitmap
     THEN bitmap' = bitmap \ {i} /\ pages_used' = pages_used - 1
     ELSE UNCHANGED <<bitmap, pages_used>>
  /\ held' = held \ {i}
  /\ UNCHANGED <<pages_limit, out, mm, ready>>

\* The callers free what they were given.
Next ==
  \/ \E map \in MemMap : pmm_init(map)
  \/ pmm_init_none
  \/ pmm_alloc
  \/ \E i \in held : pmm_free(i)

Spec == Init /\ [][Next]_vars

-----------------------------------------------------------------------------
(* Properties. *)

TypeOK ==
  /\ bitmap \subseteq Page /\ held \subseteq Page
  /\ pages_used \in Int /\ pages_limit \in 0 .. MaxPages
  /\ out \in Page \cup {0}
  /\ mm \in MemMap \cup {NoMap} /\ ready \in BOOLEAN

\* Every byte of a page handed out is in a usable range and neither in the
\* kernel nor in the low memory, however the ranges cut the pages.
PagesAreSafe ==
  \A p \in held : \A b \in p * PageSize .. (p + 1) * PageSize - 1 :
    /\ \E e \in mm : e.usable /\ e.base <= b /\ b < e.base + e.len
    /\ b >= LowEnd
    /\ ~(Kernel.base <= b /\ b < Kernel.base + Kernel.len)

\* The bitmap implements the allocator: a page is held by one caller at a
\* time, and a free page is always found.
Pages == INSTANCE PageAllocator WITH
  Null <- 0, avail <- IF ready THEN Clear \cup held ELSE {}
ImplementsPageAllocator == Pages!Spec
=============================================================================
