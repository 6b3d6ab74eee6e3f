------------------------------ MODULE AppMemory ------------------------------
(***************************************************************************)
(* The memory of a program, from exec_run_elf (Exec/exec.c) down to the    *)
(* page tables (MM/vmm.c) and the page allocator (PhysMem): its segments   *)
(* are mapped page by page, filled, relocated and write-protected, it      *)
(* runs, and its range is unmapped, on every path out.  That gives back    *)
(* only the pages that are executable: for the others vmm_unmap passes the *)
(* no-execute bit to pmm_free as part of the address, which then lies past *)
(* all memory and is ignored.                                              *)
(*                                                                         *)
(* The processor may cache a mapping in its TLB at any moment between two  *)
(* steps, because it looks ahead; it forgets it only at an invlpg.  Page   *)
(* tables are kept as one function from pages of the program's window to   *)
(* entries, and the tables on the walk to an entry as the pages they take. *)
(***************************************************************************)
EXTENDS Integers, Sequences, FiniteSets

CONSTANTS
  PageSize, MaxPages, LowEnd, MaxAddr, MemMap, Kernel, NoMap,  \* as in PhysMem
  WindowPages,    \* bound: pages of the window at APP_BASE (APP_MAX_SIZE)
  TableSpan,      \* pages under one page table
  Program         \* programs: see ProgramType

Segment == [vaddr : Nat, memsz : Nat \ {0}, w : BOOLEAN, x : BOOLEAN, ok : BOOLEAN]

\* The PT_LOAD segments of an image, whether each one's bytes are in the file
\* (ok), the addresses its relocations store to, whether they are all of the
\* supported kind, and whether the entry point is in the image.
ProgramType == [segs : Seq(Segment), relocs : SUBSET Nat, relocOK : BOOLEAN, entryOK : BOOLEAN]

VARIABLES
  bitmap, pages_used, pages_limit, out, mm, ready, held,   \* PhysMem's
  table,          \* table node -> its page, or Absent
  pte, tlb,       \* window page -> [page, w, x] or NoPte
  pc,             \* step of exec_run_elf
  prog, seg,      \* the program, the segment being worked on
  va, pa,         \* the page being mapped, protected or unmapped; its new page
  result,         \* how the last run ended
  lost            \* history: pages unmapped, but not given back

Pmm == INSTANCE PhysMem

pmm   == <<bitmap, pages_used, pages_limit, out, mm, ready, held>>
paging == <<table, pte, tlb>>
run   == <<pc, prog, seg, va, pa, result>>
vars  == <<pmm, paging, run, lost>>

Window == 0 .. WindowPages - 1
Absent == -1
NoPte  == [page |-> Absent, w |-> FALSE, x |-> FALSE]

\* The tables on the walk to a page, below the PML4: PDPT, PD and PT.
Node    == 0 .. 2 + (WindowPages - 1) \div TableSpan
Walk(v) == {0, 1, 2 + v \div TableSpan}

-----------------------------------------------------------------------------
(* Where a program goes.  bias is APP_BASE - vmin, so addresses count from *)
(* the lowest segment, whatever its offset in its page was.                *)

Segs(p)   == {p.segs[i] : i \in DOMAIN p.segs}
vmin(p)   == CHOOSE a \in {s.vaddr : s \in Segs(p)} : \A s \in Segs(p) : a <= s.vaddr

dst(p, a) == a - vmin(p)

\* The pages [start, end) of map_segment and vmm_set_writable.
First(p, s) == dst(p, s.vaddr) \div PageSize
Last(p, s)  == (dst(p, s.vaddr) + s.memsz + PageSize - 1) \div PageSize - 1
PagesOf(p, s) == First(p, s) .. Last(p, s)

\* Mutant: vmax is the end of the last segment's file bytes, here its start.
Total_NoBss(p) ==
  CHOOSE n \in 0 .. WindowPages :
    /\ \A s \in Segs(p) : First(p, s) + 1 <= n
    /\ \E s \in Segs(p) : First(p, s) + 1 = n

\* total, in pages
Total(p) ==
  CHOOSE n \in 0 .. WindowPages :
    /\ \A s \in Segs(p) : Last(p, s) + 1 <= n
    /\ \E s \in Segs(p) : Last(p, s) + 1 = n

\* The checks of total, and what the linker makes of the programs' sources
\* (makefile, -z max-page-size=0x1000): the image starts at the start of a
\* page, no two segments share one, and relocations stay in the segments.
Loadable(p) ==
  /\ p.segs # <<>> /\ vmin(p) % PageSize = 0
  /\ \A i \in DOMAIN p.segs :
       /\ Last(p, p.segs[i]) < WindowPages
       /\ \A j \in DOMAIN p.segs :
            i # j => PagesOf(p, p.segs[i]) \cap PagesOf(p, p.segs[j]) = {}
  /\ \A a \in p.relocs : \E s \in Segs(p) : s.vaddr <= a /\ a < s.vaddr + s.memsz

ASSUME AppMemoryConstantsOK ==
  /\ PageSize \in Nat \ {0} /\ MaxPages \in Nat /\ LowEnd \in Nat \ {0} /\ MaxAddr \in Nat
  /\ \A map \in MemMap : map \subseteq [base : 0 .. MaxAddr, len : 0 .. MaxAddr, usable : BOOLEAN]
  /\ Kernel \in [base : Nat, len : Nat] /\ NoMap \notin MemMap
  /\ WindowPages \in Nat /\ TableSpan \in Nat \ {0}
  /\ Program \subseteq ProgramType /\ \A p \in Program : Loadable(p)

Seg == prog.segs[seg]

-----------------------------------------------------------------------------
(* The processor. *)

\* The entry an access to v uses: a cached one if there is one.
Entry(v) == IF tlb[v] # NoPte THEN tlb[v] ELSE pte[v]

\* Whether stores to all of V succeed; a fault ends in hcf.
Writable(V) == \A v \in V : v \in Window /\ Entry(v).w

Fill(v) ==
  /\ pte[v] # NoPte /\ tlb[v] = NoPte
  /\ tlb' = [tlb EXCEPT ![v] = pte[v]]
  /\ UNCHANGED <<pmm, table, pte, run, lost>>

\* Mutant: no invlpg after the entry changes.
SetPte_Stale(v, e) ==
  /\ pte' = [pte EXCEPT ![v] = e]
  /\ UNCHANGED tlb

\* An entry is written and its page's translation invalidated.
SetPte(v, e) ==
  /\ pte' = [pte EXCEPT ![v] = e]
  /\ tlb' = [tlb EXCEPT ![v] = NoPte]

-----------------------------------------------------------------------------
(* exec_run_elf *)

Boot == \E map \in MemMap : Pmm!pmm_init(map) /\ UNCHANGED <<paging, run, lost>>

\* The checks of the headers, before anything is mapped.
Reject ==
  /\ ready /\ pc = "idle"
  /\ result' = "rejected"
  /\ UNCHANGED <<pmm, paging, pc, prog, seg, va, pa, lost>>

\* Mutant: the bias is APP_BASE, the lowest address is not taken off.
Start_NoBias(p) ==
  /\ ready /\ pc = "idle"
  /\ pc' = "alloc" /\ prog' = p /\ seg' = 1 /\ va' = p.segs[1].vaddr \div PageSize
  /\ UNCHANGED <<pmm, paging, pa, result, lost>>

Start(p) ==
  /\ ready /\ pc = "idle"
  /\ pc' = "alloc" /\ prog' = p /\ seg' = 1 /\ va' = First(p, p.segs[1])
  /\ UNCHANGED <<pmm, paging, pa, result, lost>>

\* unmap_range and return
Leave(r) == pc' = "unmap" /\ va' = 0 /\ result' = r /\ UNCHANGED <<prog, seg, pa>>

\* Mutant: when map_segment fails nothing is unmapped.
AllocPage_KeepsOnError ==
  /\ pc = "alloc"
  /\ Pmm!pmm_alloc
  /\ IF out' = 0
     THEN pc' = "idle" /\ result' = "nomem" /\ UNCHANGED <<prog, seg, va, pa>>
     ELSE pc' = "walk" /\ pa' = out' /\ UNCHANGED <<prog, seg, va, result>>
  /\ UNCHANGED <<paging, lost>>

\* map_segment, one page: the page itself, ...
AllocPage ==
  /\ pc = "alloc"
  /\ Pmm!pmm_alloc
  /\ IF out' = 0 THEN Leave("nomem")
     ELSE pc' = "walk" /\ pa' = out' /\ UNCHANGED <<prog, seg, va, result>>
  /\ UNCHANGED <<paging, lost>>

\* ... the missing tables on the walk to it, ...  When memory runs out here
\* the new table is put at address 0 and used all the same; what the machine
\* does from there on is not modelled.
EnsureTable ==
  LET missing == {n \in Walk(va) : table[n] = Absent} IN
  /\ pc = "walk" /\ missing # {}
  /\ Pmm!pmm_alloc
  /\ table' = [table EXCEPT ![CHOOSE n \in missing : \A k \in missing : n <= k] = out']
  /\ pc' = IF out' = 0 THEN "wild" ELSE "walk"
  /\ UNCHANGED <<pte, tlb, prog, seg, va, pa, result, lost>>

\* Mutant: the page is mapped with its final rights at once.
MapPage_FinalRights ==
  /\ pc = "walk" /\ \A n \in Walk(va) : table[n] # Absent
  /\ SetPte(va, [page |-> pa, w |-> Seg.w, x |-> Seg.x])
  /\ IF va < Last(prog, Seg) THEN va' = va + 1 /\ pc' = "alloc"
                             ELSE pc' = "copy" /\ UNCHANGED va
  /\ UNCHANGED <<pmm, table, prog, seg, pa, result, lost>>

\* ... and its entry, writable until the image is in place.
MapPage ==
  /\ pc = "walk" /\ \A n \in Walk(va) : table[n] # Absent
  /\ SetPte(va, [page |-> pa, w |-> TRUE, x |-> Seg.x])
  /\ IF va < Last(prog, Seg) THEN va' = va + 1 /\ pc' = "alloc"
                             ELSE pc' = "copy" /\ UNCHANGED va
  /\ UNCHANGED <<pmm, table, prog, seg, pa, result, lost>>

\* The segment's file bytes and zeros, and on to the next segment.
Copy ==
  /\ pc = "copy"
  /\ IF ~Seg.ok THEN Leave("badfile")
     ELSE /\ IF ~Writable(PagesOf(prog, Seg)) THEN pc' = "fault" /\ UNCHANGED <<seg, va>>
             ELSE IF seg < Len(prog.segs)
                  THEN pc' = "alloc" /\ seg' = seg + 1 /\ va' = First(prog, prog.segs[seg + 1])
                  ELSE pc' = "relocate" /\ UNCHANGED <<seg, va>>
          /\ UNCHANGED <<prog, pa, result>>
  /\ UNCHANGED <<pmm, paging, lost>>

\* apply_relocations_dyn
Relocate ==
  /\ pc = "relocate"
  /\ IF ~Writable({dst(prog, a) \div PageSize : a \in prog.relocs})
     THEN pc' = "fault" /\ UNCHANGED <<prog, seg, va, pa, result>>
     ELSE IF ~prog.relocOK THEN Leave("badreloc")
     ELSE pc' = "protect" /\ seg' = 1 /\ va' = First(prog, prog.segs[1])
          /\ UNCHANGED <<prog, pa, result>>
  /\ UNCHANGED <<pmm, paging, lost>>

\* Mutant: a segment's last page is left out.
Protect_SkipsLast ==
  /\ pc = "protect" /\ seg <= Len(prog.segs)
  /\ IF Seg.w \/ va >= Last(prog, Seg) THEN UNCHANGED <<pte, tlb>>
     ELSE SetPte(va, [pte[va] EXCEPT !.w = FALSE])
  /\ IF va < Last(prog, Seg) THEN va' = va + 1 /\ UNCHANGED seg
     ELSE seg' = seg + 1 /\ va' = IF seg < Len(prog.segs) THEN First(prog, prog.segs[seg + 1]) ELSE 0
  /\ UNCHANGED <<pmm, table, pc, prog, pa, result, lost>>

\* vmm_set_writable(.., 0), one page, for segments that are not writable
Protect ==
  /\ pc = "protect" /\ seg <= Len(prog.segs)
  /\ IF Seg.w THEN UNCHANGED <<pte, tlb>>
     ELSE SetPte(va, [pte[va] EXCEPT !.w = FALSE])
  /\ IF va < Last(prog, Seg) THEN va' = va + 1 /\ UNCHANGED seg
     ELSE seg' = seg + 1 /\ va' = IF seg < Len(prog.segs) THEN First(prog, prog.segs[seg + 1]) ELSE 0
  /\ UNCHANGED <<pmm, table, pc, prog, pa, result, lost>>

Enter ==
  /\ pc = "protect" /\ seg > Len(prog.segs)
  /\ IF prog.entryOK THEN pc' = "run" /\ UNCHANGED <<prog, seg, va, pa, result>>
                     ELSE Leave("badentry")
  /\ UNCHANGED <<pmm, paging, lost>>

Return == pc = "run" /\ Leave("ok") /\ UNCHANGED <<pmm, paging, lost>>

\* The number of the page that pmm_free makes of an entry (pte & ~0xfff): the
\* entry's no-execute bit, bit 63, stays in it and puts it past all pages.
NxFrame    == MaxPages
FrameOf(e) == IF e.x THEN e.page ELSE NxFrame + e.page

\* vmm_unmap, one page: pmm_free, then the entry is cleared.
UnmapPage ==
  /\ pc = "unmap" /\ va < Total(prog)
  /\ IF pte[va] = NoPte
     THEN UNCHANGED <<pmm, pte, tlb, lost>>
     ELSE /\ Pmm!pmm_free(FrameOf(pte[va])) /\ SetPte(va, NoPte)
          /\ lost' = IF pte[va].x THEN lost ELSE lost \cup {pte[va].page}
  /\ va' = va + 1
  /\ UNCHANGED <<table, pc, prog, seg, pa, result>>

Done ==
  /\ pc = "unmap" /\ va = Total(prog)
  /\ pc' = "idle"
  /\ UNCHANGED <<pmm, paging, prog, seg, va, pa, result, lost>>

Init ==
  /\ Pmm!Init
  /\ table = [n \in Node |-> Absent]
  /\ pte = [v \in Window |-> NoPte] /\ tlb = [v \in Window |-> NoPte]
  /\ pc = "idle" /\ prog \in Program /\ seg = 1 /\ va = 0 /\ pa = 0 /\ result = "none"
  /\ lost = {}

Exec ==
  \/ Reject \/ AllocPage \/ EnsureTable \/ MapPage \/ Copy \/ Relocate \/ Protect
  \/ Enter \/ Return \/ UnmapPage \/ Done
  \/ \E p \in Program : Start(p)

Next == Boot \/ Exec \/ \E v \in Window : Fill(v)

Spec == Init /\ [][Next]_vars

-----------------------------------------------------------------------------
(* Properties. *)

Present == {n \in Node : table[n] # Absent}
Mapped  == {v \in Window : pte[v] # NoPte}
Pending == IF pc = "walk" THEN {pa} ELSE {}

TypeOK ==
  /\ Pmm!TypeOK
  /\ table \in [Node -> Pmm!Page \cup {Absent}]
  /\ pte \in [Window -> [page : Pmm!Page, w : BOOLEAN, x : BOOLEAN] \cup {NoPte}]
  /\ tlb \in [Window -> [page : Pmm!Page, w : BOOLEAN, x : BOOLEAN] \cup {NoPte}]
  /\ pc \in {"idle", "alloc", "walk", "copy", "relocate", "protect", "run", "unmap", "wild", "fault"}
  /\ prog \in Program /\ seg \in Nat /\ va \in 0 .. WindowPages /\ pa \in Pmm!Page \cup {0}
  /\ result \in {"none", "rejected", "nomem", "badfile", "badreloc", "badentry", "ok"}
  /\ lost \subseteq Pmm!Page

\* Every page taken from the allocator has exactly one use: a page table, a
\* page of the program, the page being mapped, or it was lost when a program
\* was unmapped.  When no program runs no page is mapped, whichever way the
\* last run ended.
PagesAccounted ==
  pc # "wild" =>
    /\ held = {table[n] : n \in Present} \cup {pte[v].page : v \in Mapped} \cup Pending \cup lost
    /\ Cardinality(held) = Cardinality(Present) + Cardinality(Mapped) + Cardinality(Pending) + Cardinality(lost)
    /\ pc = "idle" => Mapped = {}

\* When no program runs, only the page tables are left in use: vmm_unmap is
\* called to free the physical pages (its free_phys is 1).
AllGivenBack == ready /\ pc = "idle" => held = {table[n] : n \in Present}

\* The TLB holds nothing that the page tables do not say, so neither a page
\* given back nor a right taken away is still in effect.
TlbFresh == \A v \in Window : tlb[v] \in {NoPte, pte[v]}

\* A program that runs has its segments' rights on their pages, and nothing
\* else is mapped.
RightsFinal ==
  pc = "run" =>
    \A v \in Window :
      LET here == {s \in Segs(prog) : v \in PagesOf(prog, s)} IN
      IF here = {} THEN Entry(v) = NoPte
      ELSE \E s \in here : Entry(v).w = s.w /\ Entry(v).x = s.x

\* Loading never stores to a page that is unmapped or write-protected.
LoadNeverFaults == pc # "fault"

\* While the pages that are not lost yet are enough for a window full of pages
\* and their page tables, no run, and no number of failed runs, makes an
\* allocation fail.
EnoughMemory == WindowPages + Cardinality(Node) <= Cardinality((Pmm!Clear \cup held) \ lost)
NeverDry == ready /\ EnoughMemory => pc # "wild" /\ result # "nomem"
=============================================================================
