---------------------------- MODULE MCFat32Write ----------------------------
(***************************************************************************)
(* A small volume: the root directory (cluster 2), one subdirectory (3), a *)
(* file of two clusters in the root (4, 5), a file of one cluster in the   *)
(* subdirectory (6), and free clusters from 7 on.  The one free slot of    *)
(* the root comes before the subdirectory's entry: a file was deleted.     *)
(***************************************************************************)
EXTENDS Fat32Write, TLC

CONSTANTS root, sub,                  \* directories
          nSub, nA, nB, nC            \* names

MCDir     == {root, sub}
MCName    == {nSub, nA, nB, nC}
MCDirName == (root :> nC) @@ (sub :> nSub)
MCDirClus == (root :> 2) @@ (sub :> 3)

MCFat == [c \in Cluster |->
            IF c \in {2, 3, 5, 6} THEN EndMark ELSE IF c = 4 THEN 5 ELSE 0]

MCEntry(k, n, c, len) == [kind |-> k, name |-> n, first |-> c, size |-> len]
Free(k) == MCEntry(k, nC, 0, 0)

SubEntry == MCEntry("dir", nSub, 3, 0)
AEntry   == MCEntry("file", nA, 4, SecPerClus + 1)
BEntry   == MCEntry("file", nB, 6, 1)

MCDirent ==
  (root :> <<Free("deleted"), SubEntry, AEntry>>) @@
  (sub  :> <<BEntry, Free("end"), Free("end")>>)

\* Two files that exist and two that do not, for one free slot.
MCTarget    == {<<root, nA>>, <<root, nC>>, <<root, nB>>, <<sub, nB>>}
\* Also a name that is a directory's.
MCTargetDir == {<<root, nA>>, <<root, nSub>>, <<sub, nB>>}
=============================================================================
