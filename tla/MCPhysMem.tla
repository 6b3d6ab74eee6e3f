----------------------------- MODULE MCPhysMem ------------------------------
(* Pages of two bytes.  The maps have usable ranges that start or end in   *)
(* the middle of a page, that lie past the last page of the bitmap, or     *)
(* that the kernel or the low memory cuts.                                 *)
EXTENDS PhysMem

CONSTANT Widths   \* lengths of a map's ranges

Range(b, l, u) == [base |-> b, len |-> l, usable |-> u]

\* A usable range, a reserved one right behind it and a second usable one.
MCMemMap ==
  {{Range(a, l, TRUE), Range(a + l, r, FALSE), Range(a + l + r, k, TRUE)} :
     a \in 0 .. 2, l \in Widths, r \in {0, 1, 3}, k \in Widths} \cup {{}}
MCKernel == [base |-> 5, len |-> 3]
=============================================================================
