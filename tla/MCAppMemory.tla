---------------------------- MODULE MCAppMemory -----------------------------
(* Pages of two bytes, four in the window, under two page tables; the      *)
(* programs are shaped like the shipped ones (text, then data in the       *)
(* middle of a page), with a bss longer than a page, a gap, or one fault.  *)
EXTENDS AppMemory

CONSTANT Sizes    \* bytes of usable memory in the memory maps

Text    == [vaddr |-> 12, memsz |-> 2, w |-> FALSE, x |-> TRUE, ok |-> TRUE]
Data    == [vaddr |-> 15, memsz |-> 3, w |-> TRUE, x |-> FALSE, ok |-> TRUE]
RoData  == [vaddr |-> 16, memsz |-> 3, w |-> FALSE, x |-> FALSE, ok |-> TRUE]
FarData == [vaddr |-> 19, memsz |-> 1, w |-> TRUE, x |-> FALSE, ok |-> TRUE]
CutData == [FarData EXCEPT !.ok = FALSE]

Image(segs, relocs, relocOK, entryOK) ==
  [segs |-> segs, relocs |-> relocs, relocOK |-> relocOK, entryOK |-> entryOK]

MCProgram ==
  {Image(<<Text, Data>>, {15, 17}, TRUE, TRUE),
   Image(<<RoData, Text>>, {18}, TRUE, TRUE),
   Image(<<Text, FarData>>, {12}, FALSE, TRUE),
   Image(<<Text, CutData>>, {}, TRUE, TRUE),
   Image(<<Text, RoData>>, {}, TRUE, FALSE)}

\* The kernel sits in the first page of the memory.
MCMemMap == {{[base |-> 2, len |-> n, usable |-> TRUE]} : n \in Sizes}
MCKernel == [base |-> 2, len |-> 2]
=============================================================================
