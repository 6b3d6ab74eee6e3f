-------------------------- MODULE Fat32WriteProofs --------------------------
(***************************************************************************)
(* For every volume, every bound and every pattern of failures.            *)
(*                                                                         *)
(* 1. Whatever is saved again after a failure: the types of Fat32Write,    *)
(*    that no save takes, frees or overwrites a directory, and that the    *)
(*    copies of the FAT drift apart by one entry per interruption.  The    *)
(*    invariant says why: nothing a call follows -- a FAT entry, a file's  *)
(*    directory entry, a cluster number it holds -- names a directory's    *)
(*    cluster, and the slot it writes is never a directory's.              *)
(* 2. For callers that leave a damaged file alone: no two files share a    *)
(*    cluster, what was saved reads back, and the call implements          *)
(*    FileStore.  The invariant gives every sound entry a set of clusters  *)
(*    of its own, closed under the links of the FAT (clus), and every      *)
(*    cluster the call has taken a rank in the new chain (new, rank); a    *)
(*    sector of data is where its cluster's rank says.                     *)
(* 3. Under the same condition, and as long as no call has failed: every   *)
(*    cluster that is allocated is reached from some file's entry, from    *)
(*    the old chain that is being freed, or from the new one.              *)
(***************************************************************************)
EXTENDS Fat32Write, FiniteSetTheorems, WellFoundedInduction, TLAPS

\* What the control flow guarantees about the locals of the call.
Control ==
  /\ has => off \in Slot /\ dirent[target[1]][off].kind = "file"
  /\ got # 0 => first \in Cluster /\ prev \in Cluster
  /\ pc \in {"data", "entry"} => first \in Cluster
  /\ pc = "data" => cl \in Cluster
  /\ pos <= sz /\ (pc = "idle" => pos = 0)

\* Nothing that is followed leads into a directory.
Isolated ==
  /\ \A c \in Cluster : fat1[c] \notin DirClusters
  /\ \A d \in Dir, i \in Slot :
       dirent[d][i].kind = "file" => dirent[d][i].first \notin DirClusters
  /\ cur \notin DirClusters /\ first \notin DirClusters
  /\ prev \notin DirClusters /\ cl \notin DirClusters

IInv == TypeOK /\ Control /\ Isolated /\ DirectoriesSurvive

-----------------------------------------------------------------------------
\* A nonempty set of naturals has a least element, and Least picks it.
LEMMA LeastIn ==
  ASSUME NEW T \in SUBSET Nat, T # {}
  PROVE  Least(T) \in T
<1>1. PICK x \in T : \A y \in T : <<y, x>> \notin OpToRel(<, Nat)
  BY WFMin, NatLessThanWellFounded, Zenon
<1>2. \A y \in T : ~(y < x)
  BY <1>1, Zenon DEF OpToRel
<1>3. \A y \in T : x <= y
  BY <1>2
<1> QED
  BY <1>3 DEF Least

\* The directories' cluster numbers are cluster numbers, so neither 0 nor an
\* end mark is one of them.
LEMMA DirClustersOK ==
  /\ DirClusters \subseteq Cluster
  /\ 0 \notin DirClusters /\ EndMark \notin DirClusters
BY ConstantsOK DEF DirClusters, Cluster, EndMark, EndMin

LEMMA ConstantTypes ==
  /\ Cluster \subseteq Nat /\ Slot \subseteq Nat /\ 0 \notin Cluster
  /\ Cluster \subseteq FatValue /\ 0 \in FatValue /\ EndMark \in FatValue
  /\ \A v \in FatValue : v \in Nat
BY ConstantsOK DEF Cluster, Slot, FatValue, EndMin, EndMark

\* find_free_cluster returns 0 or a free cluster, never a directory's.
LEMMA FindFreeOK ==
  ASSUME TypeOK, DirectoriesSurvive, NEW n
  PROVE  FindFree(n) # 0 => FindFree(n) \in Cluster \ DirClusters /\ fat1[FindFree(n)] = 0
<1> DEFINE from == IF n \in Cluster THEN n ELSE 2
           free == {c \in Cluster : c >= from /\ fat1[c] = 0}
<1>1. CASE free = {}
  BY <1>1 DEF FindFree
<1>2. CASE free # {}
  <2>1. free \in SUBSET Nat
    BY ConstantTypes
  <2>2. Least(free) \in free
    BY <1>2, <2>1, LeastIn
  <2>3. \A c \in DirClusters : fat1[c] # 0
    BY ImageOK DEF DirectoriesSurvive, EndMin
  <2> QED
    BY <1>2, <2>2, <2>3 DEF FindFree
<1> QED
  BY <1>1, <1>2

\* The lookup returns 0 or a slot; the slot of a file when it finds a file.
LEMMA LookupOK ==
  ASSUME TypeOK, NEW d \in Dir, NEW n, LookupKind(d, n) = "file"
  PROVE  Lookup(d, n) \in Slot /\ dirent[d][Lookup(d, n)].kind = "file"
<1>1. Lookup(d, n) # 0 /\ dirent[d][Lookup(d, n)].kind = "file"
  BY DEF LookupKind
<1>2. Matches(d, n) # {} /\ Lookup(d, n) = Least(Matches(d, n))
  BY <1>1 DEF Lookup
<1>3. Matches(d, n) \subseteq Slot
  BY DEF Matches
<1>4. Least(Matches(d, n)) \in Matches(d, n)
  BY <1>2, <1>3, LeastIn, ConstantTypes
<1> QED
  BY <1>1, <1>2, <1>3, <1>4

-----------------------------------------------------------------------------
\* The image and the reset locals satisfy the invariant.
LEMMA InitInv == Init => IInv
<1> SUFFICES ASSUME Init PROVE IInv
  OBVIOUS
<1>1. TypeOK
  <2>1. data \in [Cluster -> [0 .. SecPerClus - 1 -> Block]]
    BY ConstantsOK, ConstantTypes DEF Init, InitData, Block
  <2>2. /\ fat1 \in [Cluster -> FatValue] /\ fat2 \in [Cluster -> FatValue]
        /\ dirent \in [Dir -> [Slot -> Entry]]
    BY ImageOK DEF Init
  <2>3. /\ sz \in 0 .. MaxSectors /\ cur \in FatValue
        /\ s \in 0 .. SecPerClus /\ pos \in 0 .. MaxSectors
        /\ writes \in 0 .. MaxWrites /\ interrupts \in 0 .. MaxInterrupts
        /\ lookupFaults \in 0 .. MaxLookupFaults
    BY ConstantsOK, ConstantTypes DEF Init
  <2> QED
    BY <2>1, <2>2, <2>3 DEF Init, TypeOK
<1>2. Control
  BY ConstantsOK DEF Init, Control
<1>3. Isolated
  BY ImageOK, DirClustersOK DEF Init, Isolated
<1>4. DirectoriesSurvive
  BY DEF Init, DirectoriesSurvive
<1> QED
  BY <1>1, <1>2, <1>3, <1>4 DEF IInv

\* A call that gives up changes nothing the invariant speaks of but resets
\* its locals.
LEMMA AbandonInv ==
  ASSUME IInv, Abandon, interrupts' \in 0 .. MaxInterrupts
  PROVE  IInv'
<1>1. TypeOK'
  <2>1. /\ fat1' = fat1 /\ fat2' = fat2 /\ dirent' = dirent /\ data' = data
        /\ target' = target /\ sz' = sz /\ writes' = writes
        /\ lookupFaults' = lookupFaults
    BY DEF Abandon, Reset, disk
  <2>2. /\ pc' = "idle" /\ mirror' = {} /\ has' = FALSE /\ off' = 0
        /\ cur' = 0 /\ first' = 0 /\ prev' = 0 /\ got' = 0
        /\ cl' = 0 /\ s' = 0 /\ pos' = 0 /\ result' = "failed"
        /\ failures' = failures + 1
    BY DEF Abandon, Reset
  <2>3. damaged' \subseteq Target
    BY DEF IInv, TypeOK, Abandon
  <2>4. cur' \in FatValue /\ s' \in 0 .. SecPerClus /\ pos' \in 0 .. MaxSectors
    BY <2>2, ConstantTypes, ConstantsOK
  <2>5. TypeOK
    BY DEF IInv
  <2>6. mirror' \in SUBSET (Cluster \X FatValue) /\ failures' \in Nat
    BY <2>2, <2>5 DEF TypeOK
  <2> QED
    BY <2>1, <2>2, <2>3, <2>4, <2>5, <2>6 DEF TypeOK
<1>2. Control'
  BY DEF IInv, Abandon, Reset, TypeOK, Control
<1>3. Isolated'
  BY DirClustersOK DEF IInv, Abandon, Reset, Isolated, disk
<1>4. DirectoriesSurvive'
  BY DEF IInv, Abandon, DirectoriesSurvive, disk
<1> QED
  BY <1>1, <1>2, <1>3, <1>4 DEF IInv

\* Entering a call: the lookup yields a file's slot or nothing.
LEMMA EnterInv ==
  ASSUME IInv, NEW f \in Target, NEW n \in 0 .. MaxSectors,
         NEW found \in BOOLEAN, NEW faults \in {0, 1},
         Enter(f, n, found, faults),
         lookupFaults + faults <= MaxLookupFaults,
         found => LookupKind(f[1], f[2]) = "file"
  PROVE  IInv'
<1> DEFINE slot == Lookup(f[1], f[2])
<1>1. f[1] \in Dir /\ f[2] \in Name
  BY ConstantsOK DEF File
<1>2. found => slot \in Slot /\ dirent[f[1]][slot].kind = "file"
  BY <1>1, LookupOK DEF IInv
<1>3. found => /\ dirent[f[1]][slot].first \in {0} \cup Cluster
               /\ dirent[f[1]][slot].first \notin DirClusters
  BY <1>1, <1>2 DEF IInv, TypeOK, Entry, Isolated
<1> HIDE DEF slot
<1>4. TypeOK'
  <2>1. /\ fat1' = fat1 /\ fat2' = fat2 /\ dirent' = dirent /\ data' = data
        /\ first' = first /\ prev' = prev /\ got' = got
        /\ cl' = cl /\ s' = s /\ pos' = pos /\ mirror' = mirror
        /\ result' = result /\ damaged' = damaged /\ failures' = failures
        /\ interrupts' = interrupts
    BY DEF Enter, disk, loop
  <2>2. /\ pc' = "free" /\ target' = f /\ sz' = n /\ has' = found
        /\ writes' = writes + 1 /\ writes < MaxWrites
        /\ lookupFaults' = lookupFaults + faults
    BY DEF Enter
  <2>3. off' \in {0} \cup Slot /\ cur' \in FatValue
    BY <1>2, <1>3, ConstantTypes DEF Enter, slot
  <2>4. writes' \in 0 .. MaxWrites /\ lookupFaults' \in 0 .. MaxLookupFaults
    BY <2>2, ConstantsOK DEF IInv, TypeOK
  <2>5. TypeOK
    BY DEF IInv
  <2> QED
    BY <2>1, <2>2, <2>3, <2>4, <2>5 DEF TypeOK
<1>5. Control'
  BY <1>2 DEF IInv, TypeOK, Control, Enter, slot, disk, loop
<1>6. Isolated'
  BY <1>3, DirClustersOK DEF IInv, Isolated, Enter, slot, disk, loop
<1>7. DirectoriesSurvive'
  BY DEF IInv, DirectoriesSurvive, Enter, disk
<1> QED
  BY <1>4, <1>5, <1>6, <1>7 DEF IInv

\* Setting an entry of FAT1 that is not a directory's to a value that does
\* not name one.
LEMMA SetFatOK ==
  ASSUME TypeOK, DirectoriesSurvive, \A k \in Cluster : fat1[k] \notin DirClusters,
         NEW c \in Cluster \ DirClusters, NEW v \in FatValue \ DirClusters,
         SetFat(c, v)
  PROVE  /\ fat1' \in [Cluster -> FatValue]
         /\ mirror' \in SUBSET (Cluster \X FatValue)
         /\ \A k \in Cluster : fat1'[k] \notin DirClusters
         /\ \A k \in DirClusters : fat1'[k] = InitFat[k]
BY DirClustersOK DEF SetFat, TypeOK, DirectoriesSurvive

\* Freeing the old chain: the entry cleared is not a directory's because the
\* chain never leads into one.
LEMMA FreeInv ==
  ASSUME IInv, FreeCluster \/ FreeDone
  PROVE  IInv'
<1> USE DEF IInv
<1>1. CASE FreeCluster
  <2>1. /\ cur \in Cluster \ DirClusters /\ SetFat(cur, 0)
        /\ cur' = fat1[cur]
    BY <1>1 DEF FreeCluster, Isolated
  <2>2. /\ fat1' \in [Cluster -> FatValue]
        /\ mirror' \in SUBSET (Cluster \X FatValue)
        /\ \A k \in Cluster : fat1'[k] \notin DirClusters
        /\ \A k \in DirClusters : fat1'[k] = InitFat[k]
    BY <2>1, SetFatOK, ConstantTypes, DirClustersOK DEF Isolated
  <2>3. cur' \in FatValue /\ cur' \notin DirClusters
    BY <2>1 DEF TypeOK, Isolated
  <2>4. TypeOK'
    BY <1>1, <2>2, <2>3 DEF TypeOK, FreeCluster, call, loop, hist
  <2>5. Control'
    BY <1>1 DEF Control, FreeCluster, call, loop
  <2>6. Isolated' /\ DirectoriesSurvive'
    BY <1>1, <2>2, <2>3 DEF Isolated, DirectoriesSurvive, FreeCluster, loop
  <2> QED
    BY <2>4, <2>5, <2>6
<1>2. CASE FreeDone
  <2>1. TypeOK'
    BY <1>2 DEF TypeOK, FreeDone, disk, call, chain, loop, hist
  <2>2. Control'
    BY <1>2 DEF Control, FreeDone, disk, call, chain, loop
  <2>3. Isolated' /\ DirectoriesSurvive'
    BY <1>2 DEF Isolated, DirectoriesSurvive, FreeDone, disk, chain, loop
  <2> QED
    BY <2>1, <2>2, <2>3
<1> QED
  BY <1>1, <1>2

\* Allocation: the search returns a cluster that is no directory's.
LEMMA AllocInv ==
  ASSUME IInv, AllocCluster \/ AllocDone
  PROVE  IInv'
<1> USE DEF IInv
<1>1. CASE AllocCluster
  <2>1. Search \in Cluster \ DirClusters
    BY <1>1, FindFreeOK DEF AllocCluster, Search
  <2>2. /\ fat1' \in [Cluster -> FatValue]
        /\ mirror' \in SUBSET (Cluster \X FatValue)
        /\ \A k \in Cluster : fat1'[k] \notin DirClusters
        /\ \A k \in DirClusters : fat1'[k] = InitFat[k]
    <3>1. CASE prev = 0
      BY <1>1, <3>1 DEF AllocCluster, TypeOK, Isolated, DirectoriesSurvive
    <3>2. CASE prev # 0
      <4>1. prev \in Cluster \ DirClusters /\ SetFat(prev, Search)
        BY <1>1, <3>2 DEF AllocCluster, TypeOK, Isolated
      <4> QED
        BY <2>1, <4>1, SetFatOK, ConstantTypes DEF Isolated
    <3> QED
      BY <3>1, <3>2
  <2>3. /\ prev' \in Cluster \ DirClusters /\ first' \in Cluster \ DirClusters
        /\ got' = got + 1
    BY <1>1, <2>1 DEF AllocCluster, TypeOK, Isolated
  <2>4. TypeOK'
    BY <1>1, <2>2, <2>3 DEF TypeOK, AllocCluster, call, loop, hist
  <2>5. Control'
    BY <1>1, <2>3 DEF Control, AllocCluster, call, loop
  <2>6. Isolated' /\ DirectoriesSurvive'
    BY <1>1, <2>2, <2>3 DEF Isolated, DirectoriesSurvive, AllocCluster, loop
  <2> QED
    BY <2>4, <2>5, <2>6
<1>2. CASE AllocDone
  <2>1. got # 0
    BY <1>2 DEF AllocDone, Need
  <2>2. prev \in Cluster \ DirClusters /\ first \in Cluster \ DirClusters
    BY <2>1 DEF Control, Isolated
  <2>3. /\ fat1' \in [Cluster -> FatValue]
        /\ mirror' \in SUBSET (Cluster \X FatValue)
        /\ \A k \in Cluster : fat1'[k] \notin DirClusters
        /\ \A k \in DirClusters : fat1'[k] = InitFat[k]
    BY <1>2, <2>2, SetFatOK, ConstantTypes, DirClustersOK DEF AllocDone, Isolated
  <2>4. TypeOK'
    BY <1>2, <2>2, <2>3 DEF TypeOK, AllocDone, call, chain, hist
  <2>5. Control'
    BY <1>2, <2>2 DEF Control, AllocDone, call, chain
  <2>6. Isolated' /\ DirectoriesSurvive'
    BY <1>2, <2>2, <2>3 DEF Isolated, DirectoriesSurvive, AllocDone, chain
  <2> QED
    BY <2>4, <2>5, <2>6
<1> QED
  BY <1>1, <1>2

\* Writing data, and the copy of the FAT: the cluster written is the call's
\* own, which is no directory's.
LEMMA DataInv ==
  ASSUME IInv, Mirror \/ WriteSector \/ NextCluster \/ DataDone
  PROVE  IInv'
<1> USE DEF IInv
<1>1. CASE Mirror
  <2>1. fat2' \in [Cluster -> FatValue] /\ mirror' = {}
    BY <1>1 DEF Mirror, TypeOK
  <2>2. TypeOK'
    BY <1>1, <2>1 DEF TypeOK, Mirror, call, chain, loop, hist
  <2>3. Control'
    BY <1>1 DEF Control, Mirror, call, chain, loop
  <2>4. Isolated' /\ DirectoriesSurvive'
    BY <1>1 DEF Isolated, DirectoriesSurvive, Mirror, chain, loop
  <2> QED
    BY <2>2, <2>3, <2>4
<1>2. CASE WriteSector
  <2>1. cl \in Cluster \ DirClusters
    BY <1>2 DEF WriteSector, Control, Isolated
  <2>2. /\ s \in 0 .. SecPerClus - 1 /\ s' = s + 1
        /\ s' \in 0 .. SecPerClus
    BY <1>2, ConstantsOK DEF WriteSector, TypeOK
  <2>3. pos' \in 0 .. MaxSectors /\ pos' <= sz
    BY <1>2, ConstantsOK DEF WriteSector, TypeOK, Control
  <2>4. /\ data' \in [Cluster -> [0 .. SecPerClus - 1 -> Block]]
        /\ \A c \in DirClusters : data'[c] = data[c]
    <3>1. (IF pos < sz THEN <<writes, pos + 1>> ELSE Zeros) \in Block
      BY ConstantsOK DEF TypeOK, Block, Zeros
    <3> QED
      BY <1>2, <2>1, <2>2, <3>1, DirClustersOK DEF WriteSector, TypeOK
  <2>5. TypeOK'
    BY <1>2, <2>2, <2>3, <2>4 DEF TypeOK, WriteSector, call, chain, hist
  <2>6. Control'
    BY <1>2, <2>3 DEF Control, WriteSector, call, chain
  <2>7. Isolated' /\ DirectoriesSurvive'
    BY <1>2, <2>4 DEF Isolated, DirectoriesSurvive, WriteSector, chain
  <2> QED
    BY <2>5, <2>6, <2>7
<1>3. CASE NextCluster
  <2>1. cl' \in Cluster \ DirClusters /\ s' = 0
    BY <1>3 DEF NextCluster, Control, Isolated
  <2>2. TypeOK'
    BY <1>3, <2>1, ConstantsOK DEF TypeOK, NextCluster, disk, call, chain, hist
  <2>3. Control'
    BY <1>3, <2>1 DEF Control, NextCluster, disk, call, chain
  <2>4. Isolated' /\ DirectoriesSurvive'
    BY <1>3, <2>1 DEF Isolated, DirectoriesSurvive, NextCluster, disk, chain
  <2> QED
    BY <2>2, <2>3, <2>4
<1>4. CASE DataDone
  <2>1. TypeOK'
    BY <1>4 DEF TypeOK, DataDone, disk, call, chain, loop, hist
  <2>2. Control'
    BY <1>4 DEF Control, DataDone, disk, call, chain, loop
  <2>3. Isolated' /\ DirectoriesSurvive'
    BY <1>4 DEF Isolated, DirectoriesSurvive, DataDone, disk, chain, loop
  <2> QED
    BY <2>1, <2>2, <2>3
<1> QED
  BY <1>1, <1>2, <1>3, <1>4

\* The commit: the slot written holds a file or is free, so it is no
\* directory's, and the new entry starts at the call's own cluster.
LEMMA PutEntryInv ==
  ASSUME IInv, PutEntry, result' \in {"ok", "failed"}, failures' \in Nat,
         interrupts' \in 0 .. MaxInterrupts
  PROVE  IInv'
<1> USE DEF IInv
<1> DEFINE d     == target[1]
           slot  == IF has THEN off ELSE Least(FreeSlots(d))
           entry == [kind |-> "file", name |-> target[2], first |-> first, size |-> sz]
<1>1. d \in Dir /\ target[2] \in Name
  BY ConstantsOK DEF TypeOK, File
<1>2. slot \in Slot /\ dirent[d][slot].kind # "dir"
  <2>1. CASE has
    BY <2>1 DEF Control
  <2>2. CASE ~has
    <3>1. FreeSlots(d) # {} /\ FreeSlots(d) \in SUBSET Nat
      BY <2>2, ConstantTypes DEF PutEntry, FreeSlots
    <3>2. Least(FreeSlots(d)) \in FreeSlots(d)
      BY <3>1, LeastIn
    <3> QED
      BY <2>2, <3>2 DEF FreeSlots
  <2> QED
    BY <2>1, <2>2
<1>3. first \in Cluster \ DirClusters
  BY DEF PutEntry, Control, Isolated
<1>4. entry \in Entry /\ entry.kind = "file" /\ entry.first = first
  BY <1>1, <1>3 DEF TypeOK, Entry
<1>5. dirent' = [dirent EXCEPT ![d][slot] = entry]
  BY DEF PutEntry
<1> HIDE DEF d, slot, entry
<1>6. dirent' \in [Dir -> [Slot -> Entry]]
  BY <1>1, <1>2, <1>4, <1>5 DEF TypeOK
<1>7. \A e \in Dir, i \in Slot :
        dirent'[e][i] = IF e = d /\ i = slot THEN entry ELSE dirent[e][i]
  BY <1>1, <1>2, <1>5 DEF TypeOK
<1>8. /\ fat1' = fat1 /\ fat2' = fat2 /\ data' = data /\ target' = target
      /\ sz' = sz /\ writes' = writes /\ lookupFaults' = lookupFaults
      /\ pc' = "idle" /\ mirror' = {} /\ has' = FALSE /\ off' = 0
      /\ cur' = 0 /\ first' = 0 /\ prev' = 0 /\ got' = 0
      /\ cl' = 0 /\ s' = 0 /\ pos' = 0
      /\ damaged' = damaged \ {target}
  BY DEF PutEntry, Reset
<1>9. /\ cur' \in FatValue /\ s' \in 0 .. SecPerClus /\ pos' \in 0 .. MaxSectors
      /\ mirror' \in SUBSET (Cluster \X FatValue) /\ damaged' \subseteq Target
  BY <1>8, ConstantTypes, ConstantsOK DEF TypeOK
<1>10. TypeOK'
  BY <1>6, <1>8, <1>9 DEF TypeOK
<1>11. Control'
  BY <1>8 DEF TypeOK, Control
<1>12. Isolated'
  BY <1>3, <1>4, <1>7, <1>8, DirClustersOK DEF Isolated
<1>13. DirectoriesSurvive'
  <2>1. \A e \in Dir, i \in Slot :
          InitDirent[e][i].kind = "dir" => ~(e = d /\ i = slot)
    BY <1>2 DEF DirectoriesSurvive
  <2> QED
    BY <1>7, <1>8, <2>1 DEF DirectoriesSurvive
<1> QED
  BY <1>10, <1>11, <1>12, <1>13

-----------------------------------------------------------------------------
\* The invariant is inductive.
LEMMA NextInv ==
  ASSUME IInv, [Next]_vars
  PROVE  IInv'
<1>1. CASE Call
  <2>1. PICK f \in Target, n \in 0 .. MaxSectors : Begin(f, n) \/ BeginBlind(f, n)
    BY <1>1 DEF Call
  <2>2. CASE Begin(f, n)
    <3>1. Enter(f, n, LookupKind(f[1], f[2]) = "file", 0)
      BY <2>2 DEF Begin
    <3>2. lookupFaults + 0 <= MaxLookupFaults
      BY ConstantsOK DEF IInv, TypeOK
    <3>3. (LookupKind(f[1], f[2]) = "file") \in BOOLEAN
      OBVIOUS
    <3> QED
      BY <3>1, <3>2, <3>3, EnterInv, Zenon
  <2>3. CASE BeginBlind(f, n)
    <3>1. Enter(f, n, FALSE, 1)
      BY <2>3 DEF BeginBlind
    <3>2. lookupFaults + 1 <= MaxLookupFaults
      BY <2>3, ConstantsOK DEF BeginBlind, IInv, TypeOK
    <3> QED
      BY <3>1, <3>2, EnterInv, Zenon
  <2> QED
    BY <2>1, <2>2, <2>3
<1>2. CASE FreeCluster \/ FreeDone
  BY <1>2, FreeInv
<1>3. CASE AllocCluster \/ AllocDone
  BY <1>3, AllocInv
<1>4. CASE Mirror \/ WriteSector \/ NextCluster \/ DataDone
  BY <1>4, DataInv
<1>5. CASE DiskFull \/ PastEnd \/ ShortChain \/ DirFull
  <2>1. Abandon /\ interrupts' = interrupts
    BY <1>5 DEF DiskFull, PastEnd, ShortChain, DirFull
  <2> QED
    BY <2>1, AbandonInv DEF IInv, TypeOK
<1>6. CASE WriteEntry \/ LateError
  <2>1. /\ PutEntry /\ result' \in {"ok", "failed"} /\ failures' \in Nat
        /\ interrupts' \in 0 .. MaxInterrupts
    BY <1>6, ConstantsOK DEF WriteEntry, LateError, IInv, TypeOK
  <2> QED
    BY <2>1, PutEntryInv
<1>7. CASE Interrupt
  <2>1. Abandon /\ interrupts' \in 0 .. MaxInterrupts
    BY <1>7, ConstantsOK DEF Interrupt, IInv, TypeOK
  <2> QED
    BY <2>1, AbandonInv
<1>8. CASE UNCHANGED vars
  BY <1>8
  DEF IInv, TypeOK, Control, Isolated, DirectoriesSurvive,
      vars, disk, call, chain, loop, hist
<1> QED
  BY <1>1, <1>2, <1>3, <1>4, <1>5, <1>6, <1>7, <1>8 DEF Next, Step

\* Every reachable state satisfies the invariant.
THEOREM Invariance == Spec => []IInv
<1>1. Init => IInv
  BY InitInv
<1>2. IInv /\ [Next]_vars => IInv'
  BY NextInv
<1> QED
  BY <1>1, <1>2, PTL DEF Spec

\* Type correctness of fat32_write_file_path's state, for every volume.
THEOREM TypeCorrect == Spec => []TypeOK
<1>1. IInv => TypeOK
  BY DEF IInv
<1> QED
  BY <1>1, Invariance, PTL

\* For every volume and every pattern of failures, retries included, the
\* directories' clusters and entries stay as the image had them.
THEOREM DirectoriesAreSafe == Spec => []DirectoriesSurvive
<1>1. IInv => DirectoriesSurvive
  BY DEF IInv
<1> QED
  BY <1>1, Invariance, PTL

-----------------------------------------------------------------------------
(* Chains.  ChainAt is recursive: its values exist, and what a chain of any *)
(* length reaches, is shown by the least number for which it would fail.   *)

LEMMA Minimum ==
  ASSUME NEW T \in SUBSET Nat, T # {}
  PROVE  \E x \in T : \A y \in T : x <= y
<1>1. PICK x \in T : \A y \in T : <<y, x>> \notin OpToRel(<, Nat)
  BY WFMin, NatLessThanWellFounded, Zenon
<1>2. \A y \in T : ~(y < x)
  BY <1>1, Zenon DEF OpToRel
<1> QED
  BY <1>2

IsChain(g, fat, c, n) ==
  g = [k \in 0 .. n |-> IF k = 0 THEN c ELSE IF g[k - 1] \in Cluster THEN fat[g[k - 1]] ELSE 0]

LEMMA ChainExists ==
  ASSUME NEW fat, NEW c, NEW n \in Nat
  PROVE  \E g : IsChain(g, fat, c, n)
<1> DEFINE Is(g, m) == IsChain(g, fat, c, m)
           Bad == {m \in Nat : ~ \E g : Is(g, m)}
<1>1. 0 \notin Bad
  <2> DEFINE g == [k \in 0 .. 0 |-> c]
  <2>1. Is(g, 0)
    BY DEF IsChain
  <2> QED
    BY <2>1
<1>2. ASSUME NEW m \in Nat, m \notin Bad PROVE m + 1 \notin Bad
  <2>1. PICK f : Is(f, m)
    BY <1>2
  <2> DEFINE g == [k \in 0 .. m + 1 |-> IF k = m + 1 THEN (IF f[m] \in Cluster THEN fat[f[m]] ELSE 0) ELSE f[k]]
  <2>2. Is(g, m + 1)
    <3>1. /\ \A k \in 0 .. m : f[k] = IF k = 0 THEN c ELSE IF f[k - 1] \in Cluster THEN fat[f[k - 1]] ELSE 0
          /\ \A k \in 0 .. m : g[k] = f[k]
          /\ g[m + 1] = IF f[m] \in Cluster THEN fat[f[m]] ELSE 0
      BY <2>1 DEF IsChain
    <3>2. g = [k \in 0 .. m + 1 |-> g[k]]
      OBVIOUS
    <3> HIDE DEF g
    <3>3. ASSUME NEW k \in 0 .. m + 1
          PROVE  g[k] = IF k = 0 THEN c ELSE IF g[k - 1] \in Cluster THEN fat[g[k - 1]] ELSE 0
      <4>1. CASE k = m + 1
        <5>1. k # 0 /\ k - 1 = m /\ m \in 0 .. m
          BY <4>1
        <5> QED
          BY <3>1, <4>1, <5>1
      <4>2. CASE k # m + 1
        <5>1. k \in 0 .. m /\ (k # 0 => k - 1 \in 0 .. m)
          BY <4>2
        <5> QED
          BY <3>1, <5>1
      <4> QED
        BY <4>1, <4>2
    <3> QED
      BY <3>2, <3>3 DEF IsChain
  <2> QED
    BY <2>2
<1> HIDE DEF Bad
<1>3. Bad = {}
  <2> SUFFICES ASSUME Bad # {} PROVE FALSE
    OBVIOUS
  <2>0. Bad \in SUBSET Nat
    BY DEF Bad
  <2>1. PICK x \in Bad : \A y \in Bad : x <= y
    BY <2>0, Minimum
  <2>2. x \in Nat /\ x # 0 /\ x - 1 \in Nat /\ x - 1 \notin Bad /\ (x - 1) + 1 = x
    BY <2>0, <2>1, <1>1
  <2> QED
    BY <1>2, <2>1, <2>2
<1>4. \E g : Is(g, n)
  BY <1>3 DEF Bad
<1> QED
  BY <1>4

LEMMA ChainAtStep ==
  /\ \A c : \A n \in Nat : IsChain(ChainAt(c, n), fat1, c, n)
  /\ \A c : \A n \in Nat : IsChain(ChainAt(c, n)', fat1', c, n)
<1>1. ASSUME NEW c, NEW n \in Nat
      PROVE  IsChain(ChainAt(c, n), fat1, c, n)
  <2>1. \E g : IsChain(g, fat1, c, n)
    BY ChainExists
  <2> QED
    BY <2>1, Zenon DEF ChainAt, IsChain
<1>2. ASSUME NEW c, NEW n \in Nat
      PROVE  IsChain(ChainAt(c, n)', fat1', c, n)
  <2>1. \E g : IsChain(g, fat1', c, n)
    BY ChainExists
  <2> QED
    BY <2>1, Zenon DEF ChainAt, IsChain
<1> QED
  BY <1>1, <1>2

\* The values of a chain, one by one.
LEMMA ChainValues ==
  ASSUME NEW g, NEW fat, NEW c, NEW n \in Nat, IsChain(g, fat, c, n)
  PROVE  /\ g = [k \in 0 .. n |-> g[k]] /\ g[0] = c
         /\ \A k \in 1 .. n : g[k] = IF g[k - 1] \in Cluster THEN fat[g[k - 1]] ELSE 0
<1>1. \A k \in 0 .. n : g[k] = IF k = 0 THEN c ELSE IF g[k - 1] \in Cluster THEN fat[g[k - 1]] ELSE 0
  BY DEF IsChain
<1>2. g = [k \in 0 .. n |-> g[k]]
  BY DEF IsChain
<1>3. 0 \in 0 .. n /\ \A k \in 1 .. n : k \in 0 .. n /\ k # 0
  OBVIOUS
<1>4. g[0] = c
  BY <1>1, <1>3
<1>5. \A k \in 1 .. n : g[k] = IF g[k - 1] \in Cluster THEN fat[g[k - 1]] ELSE 0
  BY <1>1, <1>3
<1> QED
  BY <1>2, <1>4, <1>5

\* S is closed under the links of fat, which next has too.
Agree(S, fat, next) == \A x \in S : next[x] = fat[x] /\ (fat[x] \in Cluster => fat[x] \in S)

\* A chain that starts in a closed set stays in it, and is the same in every
\* FAT that has the same entries there.
LEMMA ChainStays ==
  ASSUME NEW S \in SUBSET Cluster, NEW c, c \in Cluster => c \in S, NEW n \in Nat,
         NEW fat, NEW next, NEW g, NEW h, IsChain(g, fat, c, n), IsChain(h, next, c, n), Agree(S, fat, next)
  PROVE  g = h /\ \A k \in 0 .. n : g[k] \in Cluster => g[k] \in S
<1> DEFINE Bad == {k \in 0 .. n : g[k] # h[k] \/ (g[k] \in Cluster /\ g[k] \notin S)}
<1>1. /\ g = [k \in 0 .. n |-> g[k]] /\ g[0] = c
      /\ \A k \in 1 .. n : g[k] = IF g[k - 1] \in Cluster THEN fat[g[k - 1]] ELSE 0
  BY ChainValues
<1>2. /\ h = [k \in 0 .. n |-> h[k]] /\ h[0] = c
      /\ \A k \in 1 .. n : h[k] = IF h[k - 1] \in Cluster THEN next[h[k - 1]] ELSE 0
  BY ChainValues
<1>3. Bad = {}
  <2> SUFFICES ASSUME Bad # {} PROVE FALSE
    OBVIOUS
  <2>1. PICK k \in Bad : \A y \in Bad : k <= y
    <3>1. Bad \in SUBSET Nat
      OBVIOUS
    <3> HIDE DEF Bad
    <3> QED
      BY <3>1, Minimum
  <2>2. k \in 0 .. n /\ k # 0
    BY <1>1, <1>2
  <2>3. k - 1 \in 0 .. n /\ k \in 1 .. n /\ ~(k <= k - 1)
    BY <2>2
  <2>4. g[k - 1] = h[k - 1] /\ (g[k - 1] \in Cluster => g[k - 1] \in S)
    BY <2>1, <2>3
  <2>5. g[k] = h[k] /\ (g[k] \in Cluster => g[k] \in S)
    <3>1. 0 \notin Cluster
      BY DEF Cluster
    <3>2. /\ g[k] = IF g[k - 1] \in Cluster THEN fat[g[k - 1]] ELSE 0
          /\ h[k] = IF g[k - 1] \in Cluster THEN next[g[k - 1]] ELSE 0
      BY <1>1, <1>2, <2>3, <2>4
    <3>3. CASE g[k - 1] \in Cluster
      BY <2>4, <3>2, <3>3 DEF Agree
    <3>4. CASE g[k - 1] \notin Cluster
      BY <3>1, <3>2, <3>4
    <3> QED
      BY <3>3, <3>4
  <2> QED
    BY <2>1, <2>5
<1>4. \A k \in 0 .. n : g[k] = h[k] /\ (g[k] \in Cluster => g[k] \in S)
  BY <1>3
<1> QED
  BY <1>1, <1>2, <1>4

\* A chain along increasing ranks reaches its k-th cluster in k steps.
LEMMA ChainRanks ==
  ASSUME NEW S \in SUBSET Cluster, NEW rank \in [Cluster -> Nat], NEW c \in S, rank[c] = 0, NEW last \in S,
         NEW fat, NEW g, NEW n \in Nat, IsChain(g, fat, c, n),
         \A x \in S : x # last => fat[x] \in S /\ rank[fat[x]] = rank[x] + 1
  PROVE  \A k \in 0 .. n : k <= rank[last] => g[k] \in S /\ rank[g[k]] = k
<1> DEFINE Bad == {k \in 0 .. n : k <= rank[last] /\ ~(g[k] \in S /\ rank[g[k]] = k)}
<1>1. /\ g[0] = c
      /\ \A k \in 1 .. n : g[k] = IF g[k - 1] \in Cluster THEN fat[g[k - 1]] ELSE 0
  BY ChainValues
<1>2. rank[last] \in Nat
  OBVIOUS
<1>3. Bad = {}
  <2> SUFFICES ASSUME Bad # {} PROVE FALSE
    OBVIOUS
  <2>1. PICK k \in Bad : \A y \in Bad : k <= y
    <3>1. Bad \in SUBSET Nat
      OBVIOUS
    <3> HIDE DEF Bad
    <3> QED
      BY <3>1, Minimum
  <2>2. k \in 0 .. n /\ k # 0 /\ k <= rank[last]
    BY <1>1
  <2>3. k - 1 \in 0 .. n /\ k \in 1 .. n /\ ~(k <= k - 1) /\ k - 1 <= rank[last] /\ k - 1 # rank[last]
    BY <1>2, <2>2
  <2>4. g[k - 1] \in S /\ rank[g[k - 1]] = k - 1
    BY <2>1, <2>3
  <2>5. g[k] = fat[g[k - 1]] /\ g[k - 1] # last
    BY <1>1, <2>3, <2>4
  <2>6. g[k] \in S /\ rank[g[k]] = k
    BY <2>2, <2>4, <2>5
  <2> QED
    BY <2>1, <2>6
<1> QED
  BY <1>3

-----------------------------------------------------------------------------
(* The copies of the FAT.                                                  *)

\* Entries that differ and whose mirror write is not pending: each is one
\* that an interruption left behind.
Stale == {c \in Cluster : fat1[c] # fat2[c]} \ {m[1] : m \in mirror}

MirrorInv ==
  /\ NumFats > 1 => Cardinality(Stale) <= interrupts
  /\ \A m \in mirror : fat1[m[1]] = m[2]
  /\ \A m, k \in mirror : m = k
  /\ pc \in {"idle", "entry"} => mirror = {}

LEMMA StaleFinite == IsFiniteSet(Cluster) /\ Stale \subseteq Cluster
BY FS_Interval, ConstantsOK DEF Cluster, Stale

\* Nothing the two copies hold changes, and a step is no interruption.
LEMMA MirrorKept ==
  ASSUME IInv, MirrorInv, UNCHANGED <<fat1, fat2, mirror, interrupts>>, pc' \in {"idle", "entry"} => mirror = {}
  PROVE  MirrorInv'
BY DEF MirrorInv, Stale

\* fat_set2 makes its entry stale only until the mirror write.
LEMMA MirrorSet ==
  ASSUME IInv, MirrorInv, mirror = {}, NEW c \in Cluster, NEW v, SetFat(c, v), UNCHANGED <<fat2, interrupts>>,
         pc' \notin {"idle", "entry"}
  PROVE  MirrorInv'
<1>1. /\ fat1' = [fat1 EXCEPT ![c] = v] /\ fat1 \in [Cluster -> FatValue]
      /\ mirror' = IF NumFats > 1 THEN {<<c, v>>} ELSE {}
  BY DEF SetFat, IInv, TypeOK
<1>2. fat1'[c] = v /\ \A x \in Cluster : x # c => fat1'[x] = fat1[x]
  BY <1>1
<1>3. ASSUME NumFats > 1 PROVE Cardinality(Stale') <= interrupts'
  <2>1. Stale' \subseteq Stale
    BY <1>1, <1>2, <1>3 DEF Stale
  <2>2. Cardinality(Stale') <= Cardinality(Stale) /\ Cardinality(Stale') \in Nat /\ Cardinality(Stale) \in Nat
    BY <2>1, StaleFinite, FS_Subset, FS_CardinalityType
  <2> QED
    BY <1>3, <2>2 DEF MirrorInv, IInv, TypeOK
<1>4. /\ \A m \in mirror' : fat1'[m[1]] = m[2]
      /\ \A m, k \in mirror' : m = k
  BY <1>1, <1>2
<1> QED
  BY <1>3, <1>4 DEF MirrorInv

\* The pending write, done or lost: nothing else becomes stale.
LEMMA MirrorPending ==
  ASSUME IInv, MirrorInv, fat1' = fat1, mirror' = {},
         \/ interrupts' = interrupts /\ \E m \in mirror : fat2' = [fat2 EXCEPT ![m[1]] = m[2]]
         \/ interrupts' = interrupts + 1 /\ fat2' = fat2
  PROVE  MirrorInv'
<1>1. ASSUME NumFats > 1 PROVE Cardinality(Stale') <= interrupts'
  <2>1. fat2 \in [Cluster -> FatValue] /\ mirror \subseteq Cluster \X FatValue /\ interrupts \in Nat
    BY DEF IInv, TypeOK
  <2>2. CASE interrupts' = interrupts /\ \E m \in mirror : fat2' = [fat2 EXCEPT ![m[1]] = m[2]]
    <3>1. PICK m \in mirror : fat2' = [fat2 EXCEPT ![m[1]] = m[2]]
      BY <2>2
    <3>2. fat1[m[1]] = m[2] /\ m[1] \in Cluster
      BY <2>1 DEF MirrorInv
    <3>3. fat2'[m[1]] = m[2] /\ \A x \in Cluster : x # m[1] => fat2'[x] = fat2[x]
      BY <2>1, <3>1, <3>2
    <3>4. Stale' \subseteq Stale
      BY <3>2, <3>3 DEF Stale, MirrorInv
    <3>5. Cardinality(Stale') <= Cardinality(Stale) /\ Cardinality(Stale') \in Nat /\ Cardinality(Stale) \in Nat
      BY <3>4, StaleFinite, FS_Subset, FS_CardinalityType
    <3> QED
      BY <1>1, <2>1, <2>2, <3>5 DEF MirrorInv
  <2>3. CASE interrupts' = interrupts + 1 /\ fat2' = fat2
    <3>1. Cardinality(Stale) <= interrupts /\ Cardinality(Stale) \in Nat /\ IsFiniteSet(Stale)
      BY <1>1, StaleFinite, FS_Subset, FS_CardinalityType DEF MirrorInv
    <3>2. CASE mirror = {}
      <4>1. Stale' = Stale
        BY <2>3, <3>2 DEF Stale
      <4> QED
        BY <2>1, <2>3, <3>1, <4>1
    <3>3. CASE mirror # {}
      <4>1. PICK m : m \in mirror
        BY <3>3
      <4>2. Stale' \subseteq Stale \cup {m[1]}
        BY <2>3, <4>1 DEF Stale, MirrorInv
      <4>3. IsFiniteSet(Stale \cup {m[1]}) /\ Cardinality(Stale \cup {m[1]}) <= Cardinality(Stale) + 1
            /\ Cardinality(Stale \cup {m[1]}) \in Nat
        <5>1. /\ IsFiniteSet(Stale \cup {m[1]})
              /\ Cardinality(Stale \cup {m[1]})
                   = IF m[1] \in Stale THEN Cardinality(Stale) ELSE Cardinality(Stale) + 1
          BY <3>1, FS_AddElement
        <5> QED
          BY <3>1, <5>1
      <4>4. Cardinality(Stale') <= Cardinality(Stale \cup {m[1]}) /\ Cardinality(Stale') \in Nat
        BY <4>2, <4>3, FS_Subset, FS_CardinalityType
      <4> QED
        BY <2>1, <2>3, <3>1, <4>3, <4>4
    <3> QED
      BY <3>2, <3>3
  <2> QED
    BY <2>2, <2>3
<1> QED
  BY <1>1 DEF MirrorInv

LEMMA NextMirror ==
  ASSUME IInv, MirrorInv, [Next]_vars
  PROVE  MirrorInv'
<1>1. CASE Call
  <2>1. UNCHANGED <<fat1, fat2, mirror, interrupts>> /\ pc' = "free"
    BY <1>1 DEF Call, Begin, BeginBlind, Enter, disk
  <2> QED
    BY <2>1, MirrorKept
<1>2. CASE FreeCluster
  <2>1. mirror = {} /\ cur \in Cluster /\ SetFat(cur, 0) /\ UNCHANGED <<fat2, interrupts>> /\ pc' = "free"
    BY <1>2 DEF FreeCluster, hist
  <2> QED
    BY <2>1, MirrorSet
<1>3. CASE AllocCluster /\ prev # 0
  <2>1. mirror = {} /\ prev \in Cluster /\ SetFat(prev, Search) /\ UNCHANGED <<fat2, interrupts>> /\ pc' = "alloc"
    BY <1>3 DEF AllocCluster, hist, IInv, TypeOK
  <2> QED
    BY <2>1, MirrorSet
<1>4. CASE AllocDone
  <2>1. got # 0
    BY <1>4 DEF AllocDone, Need
  <2>2. mirror = {} /\ prev \in Cluster /\ SetFat(prev, EndMark) /\ UNCHANGED <<fat2, interrupts>> /\ pc' = "data"
    BY <1>4, <2>1 DEF AllocDone, hist, IInv, Control
  <2> QED
    BY <2>2, MirrorSet
<1>5. CASE Mirror
  BY <1>5, MirrorPending DEF Mirror, hist
<1>6. CASE Interrupt \/ LateError
  BY <1>6, MirrorPending DEF Interrupt, LateError, PutEntry, Abandon, Reset, disk
<1>7. CASE DiskFull \/ PastEnd \/ ShortChain \/ DirFull
  <2>1. UNCHANGED <<fat1, fat2, interrupts>> /\ mirror = {} /\ mirror' = {}
    BY <1>7 DEF DiskFull, PastEnd, ShortChain, DirFull, Abandon, Reset, disk, MirrorInv
  <2> QED
    BY <2>1, MirrorKept
<1>8. CASE FreeDone \/ (AllocCluster /\ prev = 0) \/ WriteSector \/ NextCluster \/ DataDone \/ WriteEntry
  <2>1. UNCHANGED <<fat1, fat2, interrupts>> /\ mirror = {} /\ mirror' = {}
    BY <1>8 DEF FreeDone, AllocCluster, WriteSector, NextCluster, DataDone, WriteEntry, PutEntry, Reset, disk, hist, MirrorInv
  <2> QED
    BY <2>1, MirrorKept
<1>9. CASE UNCHANGED vars
  BY <1>9, MirrorKept DEF vars, disk, hist, MirrorInv
<1> QED
  BY <1>1, <1>2, <1>3, <1>4, <1>5, <1>6, <1>7, <1>8, <1>9 DEF Next, Step

\* Each interruption leaves at most one entry in which the two copies of the
\* FAT differ (fat_set2 writes both, one after the other), for every volume
\* and whatever is saved again.
THEOREM CopiesAgree == Spec => []MirrorBound
<1>1. Init => MirrorInv
  <2> SUFFICES ASSUME Init PROVE MirrorInv
    OBVIOUS
  <2>1. Stale = {} /\ mirror = {} /\ interrupts = 0
    BY DEF Init, Stale
  <2> QED
    BY <2>1, FS_EmptySet DEF MirrorInv
<1>2. IInv /\ MirrorInv => MirrorBound
  <2> SUFFICES ASSUME IInv, MirrorInv, NumFats > 1
               PROVE  Cardinality({c \in Cluster : fat1[c] # fat2[c]}) <= interrupts + Cardinality(mirror)
    BY DEF MirrorBound
  <2> DEFINE Differ == {c \in Cluster : fat1[c] # fat2[c]}
  <2>1. /\ Cardinality(Stale) <= interrupts /\ Cardinality(Stale) \in Nat /\ IsFiniteSet(Stale)
        /\ interrupts \in Nat
    BY StaleFinite, FS_Subset, FS_CardinalityType DEF MirrorInv, IInv, TypeOK
  <2>2. CASE mirror = {}
    <3>1. Differ = Stale /\ Cardinality(mirror) = 0
      BY <2>2, FS_EmptySet DEF Stale
    <3> QED
      BY <2>1, <3>1
  <2>3. CASE mirror # {}
    <3>1. PICK m : m \in mirror
      BY <2>3
    <3>2. mirror = {m} /\ Cardinality(mirror) = 1
      <4>1. mirror = {m}
        BY <3>1 DEF MirrorInv
      <4>2. Cardinality({m}) = 1
        BY FS_Singleton, Zenon
      <4> QED
        BY <4>1, <4>2
    <3>3. Differ \subseteq Stale \cup {m[1]}
      BY <3>2 DEF Stale
    <3>4. /\ IsFiniteSet(Stale \cup {m[1]})
          /\ Cardinality(Stale \cup {m[1]}) = IF m[1] \in Stale THEN Cardinality(Stale) ELSE Cardinality(Stale) + 1
      BY <2>1, FS_AddElement
    <3>5. Cardinality(Differ) <= Cardinality(Stale \cup {m[1]}) /\ Cardinality(Differ) \in Nat
      BY <3>3, <3>4, FS_Subset, FS_CardinalityType
    <3> QED
      BY <2>1, <3>2, <3>4, <3>5
  <2> QED
    BY <2>2, <2>3
<1> QED
  BY <1>1, <1>2, NextMirror, Invariance, PTL DEF Spec

-----------------------------------------------------------------------------
(* Files.  What follows is about callers that leave a damaged file alone    *)
(* and do not save under a directory's name, and lookups that could read.  *)

Careful ==
  /\ ~RetryDamaged /\ MaxLookupFaults = 0
  /\ \A d \in Dir, i \in Slot : InitDirent[d][i].kind = "dir" => <<d, InitDirent[d][i].name>> \notin Target

NameAt(d, i) == <<d, dirent[d][i].name>>
Live(d, i)   == dirent[d][i].kind \in {"file", "dir"}

\* Directories: one entry to a name, unused entries last; the slot the call
\* has found is the one of its name, and there is none if it has found none.
Listing ==
  /\ \A d \in Dir, i, j \in Slot :
       /\ Live(d, i) /\ Live(d, j) /\ dirent[d][i].name = dirent[d][j].name => i = j
       /\ dirent[d][i].kind = "end" /\ i < j => dirent[d][j].kind = "end"
  /\ \A d \in Dir, i \in Slot : dirent[d][i].kind = "dir" => NameAt(d, i) \notin Target
  /\ has => dirent[target[1]][off].name = target[2]
  /\ ~has => cur = 0
  /\ pc # "idle" /\ ~has => \A i \in Slot : Live(target[1], i) => dirent[target[1]][i].name # target[2]
  /\ pc # "idle" => target \notin damaged

\* An entry a caller may rely on: no failed save damaged its file, and no call
\* is just replacing it.
Sound(d, i) ==
  /\ dirent[d][i].kind = "file"
  /\ NameAt(d, i) \notin damaged /\ ~Replacing(NameAt(d, i))

LEMMA TargetType == TypeOK => target \in File /\ target[1] \in Dir /\ target[2] \in Name /\ target = <<target[1], target[2]>>
BY ConstantsOK DEF TypeOK, File

\* What the lookup returns for a name that is there, and for one that is not.
LookupsFind ==
  \A d \in Dir : /\ \A i \in Slot : Live(d, i) => Lookup(d, dirent[d][i].name) = i
                 /\ \A n : Lookup(d, n) # 0 => /\ Lookup(d, n) \in Slot /\ Live(d, Lookup(d, n))
                                               /\ dirent[d][Lookup(d, n)].name = n

LEMMA LookupFacts == TypeOK /\ Listing => LookupsFind
<1> SUFFICES ASSUME TypeOK, Listing, NEW d \in Dir
             PROVE  /\ \A i \in Slot : Live(d, i) => Lookup(d, dirent[d][i].name) = i
                    /\ \A n : Lookup(d, n) # 0 => /\ Lookup(d, n) \in Slot /\ Live(d, Lookup(d, n))
                                                  /\ dirent[d][Lookup(d, n)].name = n
  BY DEF LookupsFind
<1>1. ASSUME NEW n, Matches(d, n) # {}
      PROVE  Lookup(d, n) \in Matches(d, n)
  <2>1. Matches(d, n) \in SUBSET Nat
    BY ConstantTypes DEF Matches
  <2> QED
    BY <1>1, <2>1, LeastIn DEF Lookup
<1>2. ASSUME NEW i \in Slot, Live(d, i)
      PROVE  Lookup(d, dirent[d][i].name) = i
  <2> DEFINE n == dirent[d][i].name
  <2>1. \A j \in 1 .. i - 1 : dirent[d][j].kind # "end"
    <3> SUFFICES ASSUME NEW j \in 1 .. i - 1, dirent[d][j].kind = "end" PROVE FALSE
      OBVIOUS
    <3>1. j \in Slot /\ j < i
      BY ConstantsOK DEF Slot
    <3> QED
      BY <1>2, <3>1 DEF Listing, Live
  <2>2. i \in Matches(d, n)
    BY <1>2, <2>1 DEF Matches, Live
  <2>3. Lookup(d, n) \in Matches(d, n)
    BY <1>1, <2>2
  <2>4. Lookup(d, n) \in Slot /\ Live(d, Lookup(d, n)) /\ dirent[d][Lookup(d, n)].name = n
    BY <2>3 DEF Matches, Live
  <2> QED
    BY <1>2, <2>4 DEF Listing
<1>3. ASSUME NEW n, Lookup(d, n) # 0
      PROVE  Lookup(d, n) \in Slot /\ Live(d, Lookup(d, n)) /\ dirent[d][Lookup(d, n)].name = n
  <2>1. Matches(d, n) # {}
    BY <1>3 DEF Lookup
  <2>2. Lookup(d, n) \in Matches(d, n)
    BY <1>1, <2>1
  <2> QED
    BY <2>2 DEF Matches, Live
<1> QED
  BY <1>2, <1>3

LEMMA LookupFactsNext == TypeOK' /\ Listing' => LookupsFind'
BY LookupFacts, PTL

\* A call starts with the slot of its file, if there is one.
LEMMA EnterTarget ==
  ASSUME Careful, IInv, Listing, NEW f \in Target, NEW n, Begin(f, n)
  PROVE  /\ f[1] \in Dir /\ f[2] \in Name /\ f = <<f[1], f[2]>> /\ f \notin damaged
         /\ has' => /\ off' = Lookup(f[1], f[2]) /\ off' \in Slot /\ cur' = dirent[f[1]][off'].first
                    /\ dirent[f[1]][off'].kind = "file" /\ dirent[f[1]][off'].name = f[2]
         /\ ~has' => cur' = 0 /\ \A i \in Slot : Live(f[1], i) => dirent[f[1]][i].name # f[2]
<1>1. f[1] \in Dir /\ f[2] \in Name /\ f = <<f[1], f[2]>>
  BY ConstantsOK DEF File
<1>2. /\ has' = (LookupKind(f[1], f[2]) = "file") /\ f \notin damaged
      /\ off' = (IF has' THEN Lookup(f[1], f[2]) ELSE 0)
      /\ cur' = (IF has' THEN dirent[f[1]][Lookup(f[1], f[2])].first ELSE 0)
  BY DEF Begin, Enter, Careful
<1>3. ASSUME has'
      PROVE  /\ off' = Lookup(f[1], f[2]) /\ off' \in Slot /\ cur' = dirent[f[1]][off'].first
             /\ dirent[f[1]][off'].kind = "file" /\ dirent[f[1]][off'].name = f[2]
  <2>1. Lookup(f[1], f[2]) # 0 /\ dirent[f[1]][Lookup(f[1], f[2])].kind = "file"
    BY <1>2, <1>3 DEF LookupKind
  <2>2. Lookup(f[1], f[2]) \in Slot /\ dirent[f[1]][Lookup(f[1], f[2])].name = f[2]
    BY <1>1, <2>1, LookupFacts DEF IInv, LookupsFind
  <2> QED
    BY <1>2, <1>3, <2>1, <2>2
<1>4. ASSUME ~has', NEW i \in Slot, Live(f[1], i), dirent[f[1]][i].name = f[2]
      PROVE  FALSE
  <2>1. Lookup(f[1], f[2]) = i /\ i # 0
    BY <1>1, <1>4, LookupFacts, ConstantTypes DEF IInv, LookupsFind, Slot
  <2>2. dirent[f[1]][i].kind = "dir"
    BY <1>2, <1>4, <2>1 DEF LookupKind, Live
  <2>3. NameAt(f[1], i) = f
    BY <1>1, <1>4 DEF NameAt
  <2> QED
    BY <1>1, <2>2, <2>3 DEF Listing
<1> QED
  BY <1>1, <1>2, <1>3, <1>4

\* No lookup fails to read, so every call begins with Begin.
LEMMA CallBegins ==
  ASSUME Careful, IInv, Call
  PROVE  \E f \in Target, n \in 0 .. MaxSectors : Begin(f, n)
<1>1. ~(lookupFaults < MaxLookupFaults)
  BY DEF Careful, IInv, TypeOK
<1> QED
  BY <1>1 DEF Call, BeginBlind

\* The slot the entry goes to: the file's own, or a free one before which
\* there is no other.
LEMMA CommitSlot ==
  ASSUME IInv, Listing, PutEntry
  PROVE  \E i \in Slot :
           LET d == target[1] IN
           /\ has => i = off
           /\ ~has => dirent[d][i].kind \in {"end", "deleted"} /\ \A j \in Slot : j < i => dirent[d][j].kind # "end"
           /\ dirent'[d][i] = [kind |-> "file", name |-> target[2], first |-> first, size |-> sz]
           /\ \A e \in Dir, j \in Slot : ~(e = d /\ j = i) => dirent'[e][j] = dirent[e][j]
           /\ \A j \in Slot : Live(d, j) /\ dirent[d][j].name = target[2] => j = i
<1> DEFINE d == target[1]
           slot == IF has THEN off ELSE Least(FreeSlots(d))
           entry == [kind |-> "file", name |-> target[2], first |-> first, size |-> sz]
<1>1. d \in Dir
  BY TargetType DEF IInv
<1>2. ~has => /\ slot \in FreeSlots(d) /\ \A j \in FreeSlots(d) : slot <= j
  <2> SUFFICES ASSUME ~has PROVE slot \in FreeSlots(d) /\ \A j \in FreeSlots(d) : slot <= j
    OBVIOUS
  <2>1. FreeSlots(d) \in SUBSET Nat /\ FreeSlots(d) # {}
    BY ConstantTypes DEF PutEntry, FreeSlots
  <2>2. \E i \in FreeSlots(d) : \A j \in FreeSlots(d) : i <= j
    BY <2>1, Minimum
  <2> QED
    BY <2>2 DEF Least
<1>3. slot \in Slot
  BY <1>2 DEF IInv, Control, FreeSlots
<1>4. dirent' = [dirent EXCEPT ![d][slot] = entry] /\ dirent \in [Dir -> [Slot -> Entry]]
  BY DEF PutEntry, IInv, TypeOK
<1>5. dirent'[d][slot] = entry /\ \A e \in Dir, j \in Slot : ~(e = d /\ j = slot) => dirent'[e][j] = dirent[e][j]
  <2> HIDE DEF d, slot, entry
  <2> QED
    BY <1>1, <1>3, <1>4
<1>6. ~has => dirent[d][slot].kind \in {"end", "deleted"} /\ \A j \in Slot : j < slot => dirent[d][j].kind # "end"
  <2> SUFFICES ASSUME ~has, NEW j \in Slot, j < slot, dirent[d][j].kind = "end" PROVE FALSE
    BY <1>2 DEF FreeSlots
  <2>1. j \in FreeSlots(d)
    BY DEF FreeSlots
  <2>2. slot <= j /\ j \in Nat /\ slot \in Nat
    BY <1>2, <1>3, <2>1, ConstantTypes
  <2> HIDE DEF slot
  <2> QED
    BY <2>2
<1>7. \A j \in Slot : Live(d, j) /\ dirent[d][j].name = target[2] => j = slot
  <2>1. CASE has
    <3>1. Live(d, off) /\ dirent[d][off].name = target[2] /\ off \in Slot
      BY <2>1 DEF IInv, Control, Listing, Live
    <3> QED
      BY <1>1, <2>1, <3>1 DEF Listing
  <2>2. CASE ~has
    BY <2>2 DEF Listing, PutEntry
  <2> QED
    BY <2>1, <2>2
<1>8. has => slot = off
  OBVIOUS
<1> HIDE DEF slot
<1> QED
  BY <1>3, <1>5, <1>6, <1>7, <1>8

LEMMA NextListing ==
  ASSUME Careful, IInv, Listing, [Next]_vars
  PROVE  Listing'
<1>1. CASE Call
  <2>1. PICK f \in Target, n \in 0 .. MaxSectors : Begin(f, n)
    BY <1>1, CallBegins
  <2>2. UNCHANGED <<dirent, damaged>> /\ target' = f /\ pc' = "free"
    BY <2>1 DEF Begin, Enter, disk
  <2> QED
    BY <2>1, <2>2, EnterTarget DEF Listing, Live, NameAt
<1>2. CASE PutEntry
  <2> DEFINE d == target[1]
  <2>1. PICK i \in Slot :
           /\ has => i = off
           /\ ~has => dirent[d][i].kind \in {"end", "deleted"} /\ \A j \in Slot : j < i => dirent[d][j].kind # "end"
           /\ dirent'[d][i] = [kind |-> "file", name |-> target[2], first |-> first, size |-> sz]
           /\ \A e \in Dir, j \in Slot : ~(e = d /\ j = i) => dirent'[e][j] = dirent[e][j]
           /\ \A j \in Slot : Live(d, j) /\ dirent[d][j].name = target[2] => j = i
    BY <1>2, CommitSlot
  <2>2. dirent'[d][i].kind = "file" /\ dirent'[d][i].name = target[2] /\ d \in Dir /\ pc' = "idle" /\ has' = FALSE /\ cur' = 0
    BY <1>2, <2>1, TargetType DEF PutEntry, Reset, IInv
  <2>3. ASSUME NEW e \in Dir, NEW j \in Slot, NEW k \in Slot
        PROVE  /\ Live(e, j)' /\ Live(e, k)' /\ dirent'[e][j].name = dirent'[e][k].name => j = k
               /\ dirent'[e][j].kind = "end" /\ j < k => dirent'[e][k].kind = "end"
    <3>1. CASE e # d
      BY <2>1, <3>1 DEF Listing, Live
    <3>2. CASE e = d
      <4>1. ASSUME Live(e, j)', Live(e, k)', dirent'[e][j].name = dirent'[e][k].name PROVE j = k
        <5>1. CASE j = i \/ k = i
          BY <2>1, <2>2, <3>2, <4>1, <5>1 DEF Live
        <5>2. CASE j # i /\ k # i
          BY <2>1, <3>2, <4>1, <5>2 DEF Listing, Live
        <5> QED
          BY <5>1, <5>2
      <4>2. ASSUME dirent'[e][j].kind = "end", j < k PROVE dirent'[e][k].kind = "end"
        <5>1. j # i /\ dirent[d][j].kind = "end"
          BY <2>1, <2>2, <3>2, <4>2
        <5>2. k # i
          <6>1. CASE has
            BY <2>1, <2>2, <4>2, <5>1, <6>1 DEF Listing, IInv, Control
          <6>2. CASE ~has
            BY <2>1, <4>2, <5>1, <6>2
          <6> QED
            BY <6>1, <6>2
        <5> QED
          BY <2>1, <2>2, <3>2, <4>2, <5>1, <5>2 DEF Listing
      <4> QED
        BY <4>1, <4>2
    <3> QED
      BY <3>1, <3>2
  <2>4. ASSUME NEW e \in Dir, NEW j \in Slot, dirent'[e][j].kind = "dir"
        PROVE  NameAt(e, j)' \notin Target
    <3>1. ~(e = d /\ j = i)
      BY <2>2, <2>4
    <3>2. dirent'[e][j] = dirent[e][j]
      BY <2>1, <3>1
    <3> QED
      BY <2>4, <3>2 DEF Listing, NameAt
  <2> HIDE DEF d
  <2> QED
    BY <2>2, <2>3, <2>4 DEF Listing
<1>3. CASE DiskFull \/ PastEnd \/ ShortChain \/ DirFull \/ Interrupt
  <2>1. UNCHANGED dirent /\ pc' = "idle" /\ has' = FALSE /\ cur' = 0
    BY <1>3 DEF DiskFull, PastEnd, ShortChain, DirFull, Interrupt, Abandon, Reset, disk
  <2> QED
    BY <2>1 DEF Listing, Live, NameAt
<1>4. CASE \/ FreeCluster \/ FreeDone \/ AllocCluster \/ AllocDone \/ Mirror
           \/ WriteSector \/ NextCluster \/ DataDone
  <2>1. UNCHANGED <<dirent, damaged, target, has, off>> /\ (pc # "idle" \/ pc' = pc) /\ (has \/ cur' = cur)
    BY <1>4 DEF FreeCluster, FreeDone, AllocCluster, AllocDone, Mirror, WriteSector, NextCluster, DataDone,
                disk, call, chain, hist, Listing, Cluster
  <2> QED
    BY <2>1 DEF Listing, Live, NameAt
<1>5. CASE UNCHANGED vars
  BY <1>5 DEF Listing, Live, NameAt, vars, disk, call, chain, hist
<1> QED
  BY <1>1, <1>2, <1>3, <1>4, <1>5 DEF Next, Step, WriteEntry, LateError

-----------------------------------------------------------------------------
(* Clusters.                                                               *)

Freeing(d, i) == pc = "free" /\ has /\ d = target[1] /\ i = off
Building      == pc \in {"alloc", "data", "entry"}

\* clus[d][i] has the clusters of a sound entry's chain, and those of a chain
\* that is being freed.
Chained(clus) ==
  /\ \A d \in Dir, i \in Slot :
       /\ Sound(d, i) => /\ dirent[d][i].first \in Cluster => dirent[d][i].first \in clus[d][i]
                         /\ \A c \in clus[d][i] : fat1[c] # 0
       /\ Sound(d, i) \/ Freeing(d, i) =>
            \A c \in clus[d][i] :
              /\ c \notin DirClusters
              /\ fat1[c] \in Cluster => fat1[c] \in clus[d][i] /\ fat1[c] # dirent[d][i].first
       /\ \A e \in Dir, j \in Slot :
            (Sound(d, i) \/ Freeing(d, i)) /\ Sound(e, j) /\ ~(d = e /\ i = j)
              => clus[d][i] \cap clus[e][j] = {}
  /\ pc = "free" /\ has /\ cur \in Cluster =>
       cur \in clus[target[1]][off] /\ dirent[target[1]][off].first \in Cluster

\* The clusters the call has taken, in the order of their ranks.
Taken(clus, new, rank) ==
  /\ first \in new /\ prev \in new /\ rank[first] = 0
  /\ \A c \in new : /\ c \notin DirClusters /\ rank[c] <= rank[prev]
                    /\ c # prev => fat1[c] \in new /\ rank[fat1[c]] = rank[c] + 1
  /\ \A c, k \in new : rank[c] = rank[k] => c = k
  /\ \A c \in new, d \in Dir, i \in Slot : Sound(d, i) => c \notin clus[d][i]

Chaining(clus, new, rank) ==
  /\ got = 0 => first = 0 /\ prev = 0
  /\ Building => cur \notin Cluster
  /\ pc \in {"idle", "free"} => got = 0
  /\ Building /\ got # 0 => Taken(clus, new, rank)
  /\ pc = "alloc" /\ got # 0 => fat1[prev] \in {0, prev}
  /\ pc \in {"data", "entry"} => got # 0 /\ fat1[prev] = EndMark

\* The sectors written so far are the content's, in their places.
Filled(new, rank) ==
  /\ pc \in {"idle", "free", "alloc"} => pos = 0 /\ s = 0
  /\ pc = "data" => /\ cl \in new
                    /\ IF pos < sz THEN pos = rank[cl] * SecPerClus + s ELSE sz <= rank[cl] * SecPerClus + s
  /\ pc = "entry" => pos = sz /\ sz <= rank[prev] * SecPerClus + SecPerClus
  /\ pc \in {"data", "entry"} =>
       \A c \in new, j \in 0 .. SecPerClus - 1 :
         rank[c] * SecPerClus + j < pos =>
           c <= LastCluster /\ data[c][j] = <<writes, rank[c] * SecPerClus + j + 1>>

Owned == [Dir -> [Slot -> SUBSET Cluster]]
Fits(clus, new, rank) == Chained(clus) /\ Chaining(clus, new, rank) /\ Filled(new, rank)
Layout == \E clus \in Owned, new \in SUBSET Cluster, rank \in [Cluster -> Nat] : Fits(clus, new, rank)

SInv == IInv /\ Listing /\ Layout

\* An entry stays sound only if it was.
LEMMA SoundKept ==
  ASSUME UNCHANGED <<dirent, target>>, damaged \subseteq damaged',
         Replacing(target) => Replacing(target)' \/ target \in damaged'
  PROVE  \A d \in Dir, i \in Slot : Sound(d, i)' => Sound(d, i)
<1>1. \A d, i : NameAt(d, i)' = NameAt(d, i)
  BY DEF NameAt
<1>2. \A f : Replacing(f) => f = target /\ Replacing(target)
  BY DEF Replacing
<1>3. \A f : f \notin damaged' /\ ~Replacing(f)' => f \notin damaged /\ ~Replacing(f)
  BY <1>2
<1> QED
  BY <1>1, <1>3 DEF Sound

LEMMA SoundSame ==
  ASSUME UNCHANGED <<dirent, damaged, target, has, off, cur>>, (pc # "idle" /\ pc' # "idle") \/ pc' = pc
  PROVE  \A d \in Dir, i \in Slot : Sound(d, i)' => Sound(d, i)
<1>1. Replacing(target)' = Replacing(target)
  BY DEF Replacing, Destroyed
<1> QED
  BY <1>1, SoundKept

LEMMA SoundAbandon ==
  ASSUME Abandon
  PROVE  \A d \in Dir, i \in Slot : Sound(d, i)' => Sound(d, i)
<1>1. UNCHANGED <<dirent, target>> /\ damaged' = IF Destroyed THEN damaged \cup {target} ELSE damaged
  BY DEF Abandon, Reset, disk
<1>2. Replacing(target) => target \in damaged'
  BY <1>1 DEF Replacing
<1> QED
  BY <1>1, <1>2, SoundKept

\* What keeps the chains of entries: their clusters' entries in the FAT stay,
\* but for those of a chain that is freed.
LEMMA ChainedKept ==
  ASSUME NEW clus \in Owned, Chained(clus), UNCHANGED dirent,
         \A d \in Dir, i \in Slot : Sound(d, i)' => Sound(d, i),
         \A d \in Dir, i \in Slot : Freeing(d, i)' => Freeing(d, i) \/ Sound(d, i),
         \A d \in Dir, i \in Slot : Sound(d, i)' => \A c \in clus[d][i] : fat1'[c] = fat1[c],
         \A d \in Dir, i \in Slot : Freeing(d, i)' => \A c \in clus[d][i] : fat1'[c] = fat1[c] \/ fat1'[c] = 0,
         pc' = "free" /\ has' /\ cur' \in Cluster =>
           cur' \in clus[target'[1]][off'] /\ dirent[target'[1]][off'].first \in Cluster
  PROVE  Chained(clus)'
<1>1. ASSUME NEW d \in Dir, NEW i \in Slot
      PROVE  /\ Sound(d, i)' => /\ dirent[d][i].first \in Cluster => dirent[d][i].first \in clus[d][i]
                                /\ \A c \in clus[d][i] : fat1'[c] # 0
             /\ Sound(d, i)' \/ Freeing(d, i)' =>
                  \A c \in clus[d][i] :
                    /\ c \notin DirClusters
                    /\ fat1'[c] \in Cluster => fat1'[c] \in clus[d][i] /\ fat1'[c] # dirent[d][i].first
             /\ \A e \in Dir, j \in Slot :
                  (Sound(d, i)' \/ Freeing(d, i)') /\ Sound(e, j)' /\ ~(d = e /\ i = j)
                    => clus[d][i] \cap clus[e][j] = {}
  <2>1. Sound(d, i)' => /\ dirent[d][i].first \in Cluster => dirent[d][i].first \in clus[d][i]
                        /\ \A c \in clus[d][i] : fat1'[c] # 0
    BY DEF Chained
  <2>2. Sound(d, i)' \/ Freeing(d, i)' =>
          \A c \in clus[d][i] :
            /\ c \notin DirClusters
            /\ fat1'[c] \in Cluster => fat1'[c] \in clus[d][i] /\ fat1'[c] # dirent[d][i].first
    <3>1. Sound(d, i)' \/ Freeing(d, i)' =>
            \A c \in clus[d][i] : /\ c \notin DirClusters
                                  /\ fat1[c] \in Cluster => fat1[c] \in clus[d][i] /\ fat1[c] # dirent[d][i].first
      BY DEF Chained
    <3>2. Sound(d, i)' \/ Freeing(d, i)' => \A c \in clus[d][i] : fat1'[c] = fat1[c] \/ fat1'[c] = 0
      OBVIOUS
    <3> QED
      BY <3>1, <3>2, ConstantTypes
  <2>3. \A e \in Dir, j \in Slot :
          (Sound(d, i)' \/ Freeing(d, i)') /\ Sound(e, j)' /\ ~(d = e /\ i = j)
            => clus[d][i] \cap clus[e][j] = {}
    BY DEF Chained
  <2> QED
    BY <2>1, <2>2, <2>3
<1> QED
  BY <1>1 DEF Chained

\* Calls that are over hold nothing.
LEMMA IdleFits ==
  ASSUME NEW clus, NEW new, NEW rank, pc' \in {"idle", "free"}, got' = 0, first' = 0, prev' = 0, pos' = 0, s' = 0
  PROVE  Chaining(clus, new, rank)' /\ Filled(new, rank)'
BY DEF Chaining, Filled, Building

LEMMA BeginLayout ==
  ASSUME Careful, SInv, NEW f \in Target, NEW n \in 0 .. MaxSectors, Begin(f, n)
  PROVE  Layout'
<1>1. PICK clus \in Owned, new \in SUBSET Cluster, rank \in [Cluster -> Nat] : Fits(clus, new, rank)
  BY DEF SInv, Layout
<1>2. /\ pc = "idle" /\ pc' = "free" /\ target' = f
      /\ UNCHANGED <<fat1, dirent, damaged, got, first, prev, pos, s>>
  BY DEF Begin, Enter, disk, loop
<1>3. /\ f[1] \in Dir /\ f = <<f[1], f[2]>> /\ f \notin damaged
      /\ has' => /\ off' \in Slot /\ cur' = dirent[f[1]][off'].first
                 /\ dirent[f[1]][off'].kind = "file" /\ dirent[f[1]][off'].name = f[2]
  BY EnterTarget DEF SInv
<1>4. \A d \in Dir, i \in Slot : Sound(d, i)' => Sound(d, i)
  <2>1. \A d, i : NameAt(d, i)' = NameAt(d, i) /\ \A g : ~Replacing(g)
    BY <1>2 DEF NameAt, Replacing
  <2> QED
    BY <1>2, <2>1 DEF Sound
<1>5. has' => Sound(f[1], off')
  BY <1>2, <1>3 DEF Sound, NameAt, Replacing
<1>6. Chained(clus)'
  <2>1. \A d \in Dir, i \in Slot : Freeing(d, i)' => Freeing(d, i) \/ Sound(d, i)
    BY <1>2, <1>3, <1>5 DEF Freeing
  <2>2. pc' = "free" /\ has' /\ cur' \in Cluster =>
          cur' \in clus[target'[1]][off'] /\ dirent[target'[1]][off'].first \in Cluster
    BY <1>1, <1>2, <1>3, <1>5 DEF Fits, Chained
  <2> QED
    BY <1>1, <1>2, <1>4, <2>1, <2>2, ChainedKept DEF Fits
<1>7. Chaining(clus, new, rank)' /\ Filled(new, rank)'
  BY <1>1, <1>2, IdleFits DEF Fits, Chaining, Filled
<1> QED
  BY <1>1, <1>6, <1>7 DEF Layout, Fits

LEMMA AbandonLayout ==
  ASSUME SInv, Abandon
  PROVE  Layout'
<1>1. PICK clus \in Owned, new \in SUBSET Cluster, rank \in [Cluster -> Nat] : Fits(clus, new, rank)
  BY DEF SInv, Layout
<1>2. /\ pc' = "idle" /\ UNCHANGED <<fat1, dirent>>
      /\ got' = 0 /\ first' = 0 /\ prev' = 0 /\ pos' = 0 /\ s' = 0
  BY DEF Abandon, Reset, disk
<1>3. Chained(clus)'
  <2>1. \A d \in Dir, i \in Slot : ~Freeing(d, i)'
    BY <1>2 DEF Freeing
  <2> QED
    BY <1>1, <1>2, <2>1, SoundAbandon, ChainedKept DEF Fits
<1>4. Chaining(clus, new, rank)' /\ Filled(new, rank)'
  BY <1>2, IdleFits
<1> QED
  BY <1>1, <1>3, <1>4 DEF Layout, Fits

\* The first cluster freed damages the file for good: the chain does not
\* come back to where it starts.
LEMMA FreeClusterSound ==
  ASSUME SInv, NEW clus \in Owned, Chained(clus), FreeCluster
  PROVE  /\ \A d \in Dir, i \in Slot : Sound(d, i)' => Sound(d, i)
         /\ has => \A d \in Dir, i \in Slot : Freeing(d, i)' => ~Sound(d, i)'
         /\ has => Replacing(target)'
<1>1. /\ pc = "free" /\ pc' = "free" /\ cur \in Cluster /\ cur' = fat1[cur]
      /\ UNCHANGED <<dirent, damaged, target, has, off>>
  BY DEF FreeCluster, SetFat, call, hist
<1>2. has => target[1] \in Dir /\ off \in Slot /\ dirent[target[1]][off].name = target[2]
  BY TargetType DEF SInv, IInv, Control, Listing
<1>3. has => Replacing(target)'
  <2> SUFFICES ASSUME has PROVE Replacing(target)'
    OBVIOUS
  <2>1. cur \in clus[target[1]][off] /\ dirent[target[1]][off].first \in Cluster
    BY <1>1 DEF Chained
  <2>2. fat1[cur] \in Cluster => fat1[cur] # dirent[target[1]][off].first
    BY <1>1, <1>2, <2>1 DEF Chained, Freeing
  <2> QED
    BY <1>1, <2>1, <2>2 DEF Replacing, Destroyed
<1>4. \A d \in Dir, i \in Slot : Sound(d, i)' => Sound(d, i)
  <2>1. Replacing(target) => has
    BY DEF Replacing, Destroyed
  <2> QED
    BY <1>1, <1>3, <2>1, SoundKept
<1>5. has => \A d \in Dir, i \in Slot : Freeing(d, i)' => ~Sound(d, i)'
  <2> SUFFICES ASSUME has, NEW d \in Dir, NEW i \in Slot, Freeing(d, i)' PROVE ~Sound(d, i)'
    OBVIOUS
  <2>1. NameAt(d, i)' = target'
    BY <1>1, <1>2, TargetType DEF Freeing, NameAt, SInv, IInv
  <2> QED
    BY <1>1, <1>3, <2>1 DEF Sound
<1> QED
  BY <1>3, <1>4, <1>5

LEMMA FreeLayout ==
  ASSUME SInv, FreeCluster \/ FreeDone
  PROVE  Layout'
<1>1. PICK clus \in Owned, new \in SUBSET Cluster, rank \in [Cluster -> Nat] : Fits(clus, new, rank)
  BY DEF SInv, Layout
<1>2. CASE FreeCluster
  <2>1. /\ pc = "free" /\ pc' = "free" /\ cur \in Cluster /\ cur' = fat1[cur] /\ fat1' = [fat1 EXCEPT ![cur] = 0]
        /\ UNCHANGED <<dirent, damaged, target, has, off, got, first, prev, pos, s>>
    BY <1>2 DEF FreeCluster, SetFat, call, loop, hist
  <2>2. fat1 \in [Cluster -> FatValue]
    BY DEF SInv, IInv, TypeOK
  <2>3. fat1'[cur] = 0 /\ \A c \in Cluster : c # cur => fat1'[c] = fat1[c]
    BY <2>1, <2>2
  <2>4. /\ \A d \in Dir, i \in Slot : Sound(d, i)' => Sound(d, i)
        /\ has => \A d \in Dir, i \in Slot : Freeing(d, i)' => ~Sound(d, i)'
    BY <1>1, <1>2, FreeClusterSound DEF Fits
  <2>5. has /\ cur \in clus[target[1]][off] /\ dirent[target[1]][off].first \in Cluster /\ target[1] \in Dir /\ off \in Slot
    BY <1>1, <2>1, TargetType DEF Fits, Chained, SInv, IInv, Control, Listing, Cluster
  <2>6. Chained(clus)'
    <3>1. \A d \in Dir, i \in Slot : Freeing(d, i)' => Freeing(d, i)
      BY <2>1 DEF Freeing
    <3>2. \A d \in Dir, i \in Slot : Sound(d, i)' => ~(d = target[1] /\ i = off)
      BY <2>1, <2>4, <2>5 DEF Freeing
    <3>3. \A d \in Dir, i \in Slot : Sound(d, i)' => cur \notin clus[d][i]
      BY <1>1, <2>1, <2>4, <2>5, <3>2 DEF Fits, Chained, Freeing
    <3>4. \A d \in Dir, i \in Slot : \A c \in clus[d][i] : c \in Cluster
      BY DEF Owned
    <3>5. pc' = "free" /\ has' /\ cur' \in Cluster =>
            cur' \in clus[target'[1]][off'] /\ dirent[target'[1]][off'].first \in Cluster
      BY <1>1, <2>1, <2>5 DEF Fits, Chained, Freeing
    <3> QED
      BY <1>1, <2>1, <2>3, <2>4, <3>1, <3>3, <3>4, <3>5, ChainedKept DEF Fits
  <2>7. Chaining(clus, new, rank)' /\ Filled(new, rank)'
    BY <1>1, <2>1, IdleFits DEF Fits, Chaining, Filled
  <2> QED
    BY <1>1, <2>6, <2>7 DEF Layout, Fits
<1>3. CASE FreeDone
  <2>1. /\ pc = "free" /\ pc' = "alloc" /\ cur \notin Cluster
        /\ UNCHANGED <<fat1, dirent, damaged, target, has, off, cur, got, first, prev, pos, s>>
    BY <1>3 DEF FreeDone, disk, call, chain, loop, hist
  <2>2. Chained(clus)'
    <3>1. \A d \in Dir, i \in Slot : ~Freeing(d, i)'
      BY <2>1 DEF Freeing
    <3> QED
      BY <1>1, <2>1, <3>1, SoundSame, ChainedKept DEF Fits
  <2>3. Chaining(clus, new, rank)' /\ Filled(new, rank)'
    BY <1>1, <2>1 DEF Fits, Chaining, Filled, Building
  <2> QED
    BY <1>1, <2>2, <2>3 DEF Layout, Fits
<1> QED
  BY <1>2, <1>3

\* Allocation: a free cluster is in no sound entry's chain, and is among the
\* clusters taken only if it is the last of them.
LEMMA AllocLayout ==
  ASSUME SInv, AllocCluster
  PROVE  Layout'
<1>1. PICK clus \in Owned, new \in SUBSET Cluster, rank \in [Cluster -> Nat] : Fits(clus, new, rank)
  BY DEF SInv, Layout
<1>2. PICK c : c = Search
  OBVIOUS
<1>3. /\ c \in Cluster /\ c \notin DirClusters /\ fat1[c] = 0 /\ c # 0
  BY <1>2, FindFreeOK DEF AllocCluster, Search, SInv, IInv
<1>4. /\ pc = "alloc" /\ pc' = "alloc" /\ prev' = c /\ got' = got + 1 /\ got \in Nat
      /\ first' = (IF first = 0 THEN c ELSE first)
      /\ UNCHANGED <<dirent, damaged, target, has, off, cur, pos, s>>
  BY <1>2 DEF AllocCluster, call, loop, hist, SInv, IInv, TypeOK
<1>5. fat1 \in [Cluster -> FatValue]
  BY DEF SInv, IInv, TypeOK
<1>6. \A d \in Dir, i \in Slot : Sound(d, i)' => Sound(d, i)
  BY <1>4, SoundSame
<1>7. cur \notin Cluster /\ got' # 0 /\ pos = 0 /\ s = 0
  BY <1>1, <1>4 DEF Fits, Chaining, Building, Filled
<1>8. \A d \in Dir, i \in Slot : Sound(d, i) => c \notin clus[d][i]
  BY <1>1, <1>3 DEF Fits, Chained
<1>9. \A d \in Dir, i \in Slot : \A x \in clus[d][i] : x \in Cluster
  BY DEF Owned
<1>10. ASSUME \A d \in Dir, i \in Slot : Sound(d, i)' => \A x \in clus[d][i] : fat1'[x] = fat1[x]
       PROVE  Chained(clus)'
  <2>1. \A d \in Dir, i \in Slot : ~Freeing(d, i)'
    BY <1>4 DEF Freeing
  <2> QED
    BY <1>1, <1>4, <1>6, <1>10, <2>1, ChainedKept DEF Fits
<1>11. ASSUME NEW n2 \in SUBSET Cluster, NEW r2 \in [Cluster -> Nat], Taken(clus, n2, r2)', fat1'[c] \in {0, c},
              \A d \in Dir, i \in Slot : Sound(d, i)' => \A x \in clus[d][i] : fat1'[x] = fat1[x]
       PROVE  Layout'
  <2>1. Chaining(clus, n2, r2)'
    BY <1>4, <1>7, <1>11 DEF Chaining
  <2>2. Filled(n2, r2)'
    BY <1>4, <1>7 DEF Filled
  <2> QED
    BY <1>10, <1>11, <2>1, <2>2 DEF Layout, Fits
<1>12. CASE got = 0
  <2> DEFINE r2 == [x \in Cluster |-> 0]
  <2>1. first = 0 /\ prev = 0
    BY <1>1, <1>12 DEF Fits, Chaining
  <2>2. fat1' = fat1 /\ first' = c
    BY <1>4, <2>1 DEF AllocCluster
  <2>3. r2 \in [Cluster -> Nat] /\ r2[c] = 0
    BY <1>3
  <2>4. Taken(clus, {c}, r2)'
    BY <1>3, <1>4, <1>6, <1>8, <2>2, <2>3 DEF Taken
  <2> HIDE DEF r2
  <2> QED
    BY <1>3, <1>11, <2>2, <2>3, <2>4
<1>13. CASE got # 0
  <2>1. /\ first \in new /\ prev \in new /\ rank[first] = 0
        /\ \A x \in new : /\ x \notin DirClusters /\ rank[x] <= rank[prev]
                          /\ x # prev => fat1[x] \in new /\ rank[fat1[x]] = rank[x] + 1
        /\ \A x, k \in new : rank[x] = rank[k] => x = k
        /\ \A x \in new, d \in Dir, i \in Slot : Sound(d, i) => x \notin clus[d][i]
    BY <1>1, <1>4, <1>13 DEF Fits, Chaining, Building, Taken
  <2>2. prev # 0 /\ first # 0 /\ prev \in Cluster
    BY <2>1, ConstantTypes
  <2>3. fat1' = [fat1 EXCEPT ![prev] = c] /\ first' = first
    BY <1>2, <1>4, <2>2 DEF AllocCluster, SetFat
  <2>4. fat1'[prev] = c /\ \A x \in Cluster : x # prev => fat1'[x] = fat1[x]
    BY <1>5, <2>2, <2>3
  <2>5. \A d \in Dir, i \in Slot : Sound(d, i)' => \A x \in clus[d][i] : fat1'[x] = fat1[x]
    BY <1>6, <1>9, <2>1, <2>4
  <2>6. CASE c \in new
    <3>1. c = prev
      BY <1>3, <2>1, <2>6, ConstantTypes
    <3>2. Taken(clus, new, rank)'
      BY <1>4, <1>6, <2>1, <2>3, <2>4, <3>1 DEF Taken
    <3> QED
      BY <1>11, <2>4, <2>5, <3>1, <3>2
  <2>7. CASE c \notin new
    <3>n. PICK n2 : n2 = new \cup {c}
      OBVIOUS
    <3>r. PICK r2 : r2 = [rank EXCEPT ![c] = rank[prev] + 1]
      OBVIOUS
    <3>1. n2 \in SUBSET Cluster /\ rank[prev] \in Nat /\ r2 \in [Cluster -> Nat]
      BY <1>3, <2>2, <3>n, <3>r
    <3>2. r2[c] = rank[prev] + 1 /\ \A x \in new : r2[x] = rank[x] /\ rank[x] \in Nat
      BY <1>3, <2>7, <3>r
    <3>3. fat1'[c] = 0
      BY <1>3, <2>1, <2>4, <2>7
    <3>4. ASSUME NEW x \in n2
          PROVE  /\ x \notin DirClusters /\ r2[x] <= r2[c]
                 /\ x # c => fat1'[x] \in n2 /\ r2[fat1'[x]] = r2[x] + 1
      <4>1. CASE x = c
        BY <1>3, <3>1, <3>2, <4>1
      <4>2. CASE x # c
        <5>1. x \in new /\ x \in Cluster /\ r2[x] = rank[x] /\ rank[x] <= rank[prev] /\ x \notin DirClusters
          BY <2>1, <3>2, <3>n, <4>2
        <5>2. r2[x] <= r2[c]
          BY <3>1, <3>2, <5>1
        <5>3. CASE x = prev
          BY <2>4, <3>2, <3>n, <5>1, <5>2, <5>3
        <5>4. CASE x # prev
          BY <2>1, <2>4, <3>2, <3>n, <5>1, <5>2, <5>4
        <5> QED
          BY <5>3, <5>4
      <4> QED
        BY <4>1, <4>2
    <3>5. ASSUME NEW x \in n2, NEW k \in n2, r2[x] = r2[k]
          PROVE  x = k
      <4>1. \A y \in new : r2[y] = rank[y] /\ rank[y] \in Nat /\ rank[y] <= rank[prev] /\ r2[y] # r2[c]
        BY <2>1, <3>1, <3>2
      <4> QED
        BY <2>1, <3>5, <3>n, <4>1
    <3>6. \A x \in n2, d \in Dir, i \in Slot : Sound(d, i)' => x \notin clus[d][i]
      BY <1>6, <1>8, <2>1, <3>n
    <3>7. first' \in n2 /\ prev' \in n2 /\ r2[first'] = 0
      BY <1>4, <2>1, <2>3, <3>2, <3>n
    <3>8. Taken(clus, n2, r2)'
      BY <1>4, <3>4, <3>5, <3>6, <3>7 DEF Taken
    <3> QED
      BY <1>11, <2>5, <3>1, <3>3, <3>8
  <2> QED
    BY <2>6, <2>7
<1> QED
  BY <1>12, <1>13

\* The end mark closes the chain of the clusters taken.
LEMMA AllocDoneLayout ==
  ASSUME SInv, AllocDone
  PROVE  Layout'
<1>1. PICK clus \in Owned, new \in SUBSET Cluster, rank \in [Cluster -> Nat] : Fits(clus, new, rank)
  BY DEF SInv, Layout
<1>2. /\ pc = "alloc" /\ pc' = "data" /\ cl' = first /\ got # 0 /\ fat1' = [fat1 EXCEPT ![prev] = EndMark]
      /\ UNCHANGED <<dirent, damaged, target, has, off, cur, first, prev, got, sz, pos, s>>
  BY DEF AllocDone, SetFat, Need, call, chain, hist
<1>3. Taken(clus, new, rank) /\ cur \notin Cluster /\ pos = 0 /\ s = 0
  BY <1>1, <1>2 DEF Fits, Chaining, Filled, Building
<1>4. prev \in Cluster /\ fat1 \in [Cluster -> FatValue]
  BY <1>3 DEF Taken, SInv, IInv, TypeOK
<1>5. fat1'[prev] = EndMark /\ \A x \in Cluster : x # prev => fat1'[x] = fat1[x]
  BY <1>2, <1>4
<1>6. \A d \in Dir, i \in Slot : Sound(d, i)' => Sound(d, i)
  BY <1>2, SoundSame
<1>7. Chained(clus)'
  <2>1. \A d \in Dir, i \in Slot : ~Freeing(d, i)'
    BY <1>2 DEF Freeing
  <2>2. \A d \in Dir, i \in Slot : \A x \in clus[d][i] : x \in Cluster
    BY DEF Owned
  <2>3. \A d \in Dir, i \in Slot : Sound(d, i)' => \A x \in clus[d][i] : fat1'[x] = fat1[x]
    BY <1>3, <1>5, <1>6, <2>2 DEF Taken
  <2> QED
    BY <1>1, <1>2, <1>6, <2>1, <2>3, ChainedKept DEF Fits
<1>8. Taken(clus, new, rank)'
  <2>1. \A x \in new : x \in Cluster
    OBVIOUS
  <2> QED
    BY <1>2, <1>3, <1>5, <1>6, <2>1 DEF Taken
<1>9. Chaining(clus, new, rank)'
  BY <1>2, <1>3, <1>5, <1>8 DEF Chaining
<1>10. Filled(new, rank)'
  <2>1. first \in new /\ rank[first] = 0
    BY <1>3 DEF Taken
  <2>2. SecPerClus \in Nat /\ sz \in Nat /\ 0 * SecPerClus + 0 = 0
    BY ConstantsOK DEF SInv, IInv, TypeOK
  <2>3. \A x \in new, j \in 0 .. SecPerClus - 1 : ~(rank[x] * SecPerClus + j < 0)
    <3> SUFFICES ASSUME NEW x \in new, NEW j \in 0 .. SecPerClus - 1 PROVE ~(rank[x] * SecPerClus + j < 0)
      OBVIOUS
    <3>1. \A a, b \in Nat : a * b \in Nat
      OBVIOUS
    <3>2. rank[x] * SecPerClus \in Nat
      BY <2>2, <3>1
    <3> HIDE DEF Cluster
    <3> QED
      BY <2>2, <3>2
  <2>4. pos' = 0 /\ s' = 0 /\ sz' = sz /\ cl' = first /\ pc' = "data"
    BY <1>2, <1>3
  <2>5. IF pos' < sz' THEN pos' = rank[cl'] * SecPerClus + s' ELSE sz' <= rank[cl'] * SecPerClus + s'
    BY <2>1, <2>2, <2>4
  <2> QED
    BY <2>1, <2>3, <2>4, <2>5 DEF Filled
<1> QED
  BY <1>1, <1>7, <1>9, <1>10 DEF Layout, Fits

\* Steps that change no chain.
LEMMA ChainsSame ==
  ASSUME NEW clus \in Owned, NEW new \in SUBSET Cluster, NEW rank \in [Cluster -> Nat],
         Chained(clus), Chaining(clus, new, rank),
         UNCHANGED <<fat1, dirent, damaged, target, has, off, cur, first, prev, got>>,
         pc' = pc \/ (pc = "data" /\ pc' = "entry")
  PROVE  Chained(clus)' /\ Chaining(clus, new, rank)'
<1>1. \A d \in Dir, i \in Slot : Sound(d, i)' => Sound(d, i)
  <2>1. (pc # "idle" /\ pc' # "idle") \/ pc' = pc
    OBVIOUS
  <2> QED
    BY <2>1, SoundSame
<1>2. \A d \in Dir, i \in Slot : Freeing(d, i)' => Freeing(d, i)
  BY DEF Freeing
<1>3. Chained(clus)'
  <2>1. pc' = "free" /\ has' /\ cur' \in Cluster =>
          cur' \in clus[target'[1]][off'] /\ dirent[target'[1]][off'].first \in Cluster
    BY DEF Chained
  <2> QED
    BY <1>1, <1>2, <2>1, ChainedKept
<1>4. Chaining(clus, new, rank)'
  <2>1. Building' = Building
    BY DEF Building
  <2>2. Taken(clus, new, rank) => Taken(clus, new, rank)'
    BY <1>1 DEF Taken
  <2> QED
    BY <2>1, <2>2 DEF Chaining
<1> QED
  BY <1>3, <1>4

LEMMA TimesMonotone ==
  ASSUME NEW B \in Nat, NEW r \in Nat, NEW q \in Nat, r <= q
  PROVE  r * B \in Nat /\ q * B \in Nat /\ r * B <= q * B
OBVIOUS

LEMMA TimesNext ==
  ASSUME NEW B \in Nat, NEW r \in Nat
  PROVE  (r + 1) * B = r * B + B
OBVIOUS

\* A sector's number in the file says which cluster and sector it is.
LEMMA PlaceUnique ==
  ASSUME NEW B \in Nat \ {0}, NEW r \in Nat, NEW q \in Nat,
         NEW j \in 0 .. B - 1, NEW t \in 0 .. B - 1, r * B + j = q * B + t
  PROVE  r = q /\ j = t
<1>1. r * B \in Nat /\ q * B \in Nat
  BY TimesMonotone
<1>2. ~(r + 1 <= q)
  <2> SUFFICES ASSUME r + 1 <= q PROVE FALSE
    OBVIOUS
  <2>1. (r + 1) * B <= q * B /\ (r + 1) * B = r * B + B
    BY TimesMonotone, TimesNext
  <2> QED
    BY <1>1, <2>1
<1>3. ~(q + 1 <= r)
  <2> SUFFICES ASSUME q + 1 <= r PROVE FALSE
    OBVIOUS
  <2>1. (q + 1) * B <= r * B /\ (q + 1) * B = q * B + B
    BY TimesMonotone, TimesNext
  <2> QED
    BY <1>1, <2>1
<1>4. r = q
  BY <1>2, <1>3
<1> QED
  BY <1>1, <1>4

\* One sector of data goes where the reader will look for it.
LEMMA WriteSectorFilled ==
  ASSUME SInv, NEW clus \in Owned, NEW new \in SUBSET Cluster, NEW rank \in [Cluster -> Nat],
         Fits(clus, new, rank), WriteSector
  PROVE  Filled(new, rank)'
<1> DEFINE B == SecPerClus
           At(c, j) == rank[c] * SecPerClus + j
<1>1. /\ pc = "data" /\ pc' = "data" /\ s < B /\ cl <= LastCluster /\ s' = s + 1
      /\ data' = [data EXCEPT ![cl][s] = IF pos < sz THEN <<writes, pos + 1>> ELSE Zeros]
      /\ pos' = (IF pos < sz THEN pos + 1 ELSE pos)
      /\ UNCHANGED <<cl, sz, writes>>
  BY DEF WriteSector, call, hist
<1>2. /\ B \in Nat \ {0} /\ sz \in Nat /\ pos \in Nat /\ pos <= sz /\ s \in 0 .. B - 1
      /\ data \in [Cluster -> [0 .. B - 1 -> Block]]
  BY <1>1, ConstantsOK DEF SInv, IInv, TypeOK, Control
<1>3. /\ cl \in new /\ IF pos < sz THEN pos = At(cl, s) ELSE sz <= At(cl, s)
      /\ \A c \in new, j \in 0 .. B - 1 :
           At(c, j) < pos => c <= LastCluster /\ data[c][j] = <<writes, At(c, j) + 1>>
  BY <1>1, <1>2 DEF Fits, Filled
<1>4. \A c, k \in new : rank[c] = rank[k] => c = k
  BY <1>1 DEF Fits, Chaining, Taken, Building
<1>5. \A c \in new : rank[c] \in Nat /\ rank[c] * SecPerClus \in Nat
  <2> SUFFICES ASSUME NEW c \in new PROVE rank[c] \in Nat /\ rank[c] * SecPerClus \in Nat
    OBVIOUS
  <2>1. rank[c] \in Nat
    OBVIOUS
  <2> HIDE DEF Cluster
  <2> QED
    BY <1>2, <2>1, TimesMonotone
<1>6. \A c \in new, j \in 0 .. B - 1 : ~(c = cl /\ j = s) => At(c, j) # At(cl, s) /\ data'[c][j] = data[c][j]
  <2> SUFFICES ASSUME NEW c \in new, NEW j \in 0 .. B - 1, ~(c = cl /\ j = s)
               PROVE  At(c, j) # At(cl, s) /\ data'[c][j] = data[c][j]
    OBVIOUS
  <2>1. data'[c][j] = data[c][j]
    BY <1>1, <1>2, <1>3
  <2>2. At(c, j) = At(cl, s) => rank[c] = rank[cl] /\ j = s
    <3> SUFFICES ASSUME At(c, j) = At(cl, s) PROVE rank[c] = rank[cl] /\ j = s
      OBVIOUS
    <3>1. PICK r \in Nat : r = rank[c]
      BY <1>5
    <3>2. PICK q \in Nat : q = rank[cl]
      BY <1>3, <1>5
    <3>3. PICK t \in 0 .. SecPerClus - 1 : t = s
      BY <1>2
    <3>4. r * SecPerClus + j = q * SecPerClus + t /\ SecPerClus \in Nat \ {0} /\ j \in 0 .. SecPerClus - 1
      BY <1>2, <3>1, <3>2, <3>3
    <3>5. r = q /\ j = t
      BY <3>4, PlaceUnique
    <3> QED
      BY <3>1, <3>2, <3>3, <3>5
  <2> QED
    BY <1>3, <1>4, <2>1, <2>2
<1>7. data'[cl][s] = IF pos < sz THEN <<writes, pos + 1>> ELSE Zeros
  <2>1. cl \in Cluster
    BY <1>3
  <2> QED
    BY <1>1, <1>2, <2>1
<1>8. IF pos' < sz' THEN pos' = At(cl, s) + 1 ELSE sz' <= At(cl, s) + 1
  BY <1>1, <1>2, <1>3, <1>5
<1>9. At(cl, s) + 1 = rank[cl'] * SecPerClus + s'
  BY <1>1, <1>2, <1>3, <1>5
<1>10. ASSUME NEW c \in new, NEW j \in 0 .. B - 1, At(c, j) < pos'
       PROVE  c <= LastCluster /\ data'[c][j] = <<writes', At(c, j) + 1>>
  <2>0. At(c, j) \in Nat /\ At(cl, s) \in Nat
    BY <1>2, <1>3, <1>5
  <2> HIDE DEF At, B
  <2>1. CASE c = cl /\ j = s
    <3>1. pos < sz
      BY <1>1, <1>2, <1>3, <1>10, <2>0, <2>1
    <3> QED
      BY <1>1, <1>3, <1>7, <2>1, <3>1
  <2>2. CASE ~(c = cl /\ j = s)
    <3>1. At(c, j) # At(cl, s) /\ data'[c][j] = data[c][j]
      BY <1>6, <2>2
    <3>2. At(c, j) < pos
      BY <1>1, <1>2, <1>3, <1>10, <2>0, <3>1
    <3> QED
      BY <1>1, <1>3, <3>1, <3>2
  <2> QED
    BY <2>1, <2>2
<1>11. pc' = "data" /\ cl' \in new
  BY <1>1, <1>3
<1>12. IF pos' < sz' THEN pos' = rank[cl'] * SecPerClus + s' ELSE sz' <= rank[cl'] * SecPerClus + s'
  <2>1. At(cl, s) + 1 = rank[cl'] * SecPerClus + s'
    BY <1>9
  <2> HIDE DEF At
  <2> QED
    BY <1>8, <2>1, Zenon
<1>13. \A c \in new, j \in 0 .. SecPerClus - 1 :
         rank[c] * SecPerClus + j < pos' =>
           c <= LastCluster /\ data'[c][j] = <<writes', rank[c] * SecPerClus + j + 1>>
  BY <1>10, Zenon DEF At
<1> QED
  BY <1>11, <1>12, <1>13 DEF Filled

LEMMA DataLayout ==
  ASSUME SInv, Mirror \/ WriteSector \/ NextCluster \/ DataDone
  PROVE  Layout'
<1>1. PICK clus \in Owned, new \in SUBSET Cluster, rank \in [Cluster -> Nat] : Fits(clus, new, rank)
  BY DEF SInv, Layout
<1>2. /\ UNCHANGED <<fat1, dirent, damaged, target, has, off, cur, first, prev, got>>
      /\ pc' = pc \/ (pc = "data" /\ pc' = "entry")
  BY DEF Mirror, WriteSector, NextCluster, DataDone, disk, call, chain, hist
<1>3. Chained(clus)' /\ Chaining(clus, new, rank)'
  BY <1>1, <1>2, ChainsSame DEF Fits
<1>4. Filled(new, rank)'
  <2>0. SecPerClus \in Nat /\ sz \in Nat /\ pos \in Nat
    BY ConstantsOK DEF SInv, IInv, TypeOK
  <2>1. CASE Mirror
    <3>1. UNCHANGED <<pc, pos, s, cl, sz, prev, data, writes>>
      BY <2>1 DEF Mirror, call, chain, loop, hist
    <3>2. Filled(new, rank)
      BY <1>1 DEF Fits
    <3> QED
      BY <3>1, <3>2 DEF Filled
  <2>2. CASE WriteSector
    BY <1>1, <2>2, WriteSectorFilled
  <2>3. CASE NextCluster \/ DataDone
    <3>1. /\ pc = "data" /\ s = SecPerClus /\ UNCHANGED <<pos, sz, prev, data, writes>>
      BY <2>3 DEF NextCluster, DataDone, disk, call, chain, loop, hist
    <3>2. /\ cl \in new
          /\ IF pos < sz THEN pos = rank[cl] * SecPerClus + s ELSE sz <= rank[cl] * SecPerClus + s
          /\ \A c \in new, j \in 0 .. SecPerClus - 1 :
               rank[c] * SecPerClus + j < pos =>
                 c <= LastCluster /\ data[c][j] = <<writes, rank[c] * SecPerClus + j + 1>>
      BY <1>1, <3>1 DEF Fits, Filled
    <3>3. Taken(clus, new, rank) /\ fat1[prev] = EndMark /\ EndMark \notin Cluster
      BY <1>1, <3>1, ConstantsOK DEF Fits, Chaining, Building, Cluster, EndMark, EndMin
    <3>4. rank[cl] \in Nat /\ rank[prev] \in Nat /\ rank[cl] <= rank[prev] /\ prev \in new
      <4>1. prev \in new /\ rank[cl] <= rank[prev]
        BY <3>2, <3>3 DEF Taken
      <4> QED
        BY <3>2, <4>1
    <3>5. /\ rank[cl] * SecPerClus \in Nat /\ rank[prev] * SecPerClus \in Nat
          /\ rank[cl] * SecPerClus <= rank[prev] * SecPerClus
          /\ (rank[cl] + 1) * SecPerClus = rank[cl] * SecPerClus + SecPerClus
      BY <2>0, <3>4, TimesMonotone, TimesNext
    <3>6. CASE NextCluster
      <4>1. pc' = "data" /\ pos < sz /\ fat1[cl] \in Cluster /\ cl' = fat1[cl] /\ s' = 0
        BY <3>6 DEF NextCluster
      <4>2. cl' \in new /\ rank[cl'] = rank[cl] + 1
        BY <3>2, <3>3, <4>1 DEF Taken
      <4>3. pos' < sz' /\ pos' = rank[cl'] * SecPerClus + s'
        BY <2>0, <3>1, <3>2, <3>5, <4>1, <4>2
      <4> QED
        BY <3>1, <3>2, <4>1, <4>2, <4>3 DEF Filled
    <3>7. CASE DataDone
      <4>1. pc' = "entry" /\ pos = sz
        BY <3>7 DEF DataDone
      <4>2. sz <= rank[prev] * SecPerClus + SecPerClus
        BY <2>0, <3>1, <3>2, <3>5, <4>1
      <4> QED
        BY <3>1, <3>2, <4>1, <4>2 DEF Filled
    <3> QED
      BY <2>3, <3>6, <3>7
  <2> QED
    BY <2>1, <2>2, <2>3
<1> QED
  BY <1>1, <1>3, <1>4 DEF Layout, Fits

\* The new entry changes no other file's.
LEMMA CommitOthers ==
  ASSUME IInv, Listing, PutEntry
  PROVE  \E d \in Dir, i \in Slot :
           /\ d = target[1] /\ (has => i = off)
           /\ ~has => dirent[d][i].kind \in {"end", "deleted"} /\ \A j \in Slot : j < i => dirent[d][j].kind # "end"
           /\ dirent'[d][i] = [kind |-> "file", name |-> target[2], first |-> first, size |-> sz]
           /\ NameAt(d, i)' = target
           /\ \A e \in Dir, j \in Slot : ~(e = d /\ j = i) =>
                /\ dirent'[e][j] = dirent[e][j]
                /\ Live(e, j) => NameAt(e, j) # target
                /\ Sound(e, j)' => Sound(e, j)
<1>1. PICK d : d = target[1]
  OBVIOUS
<1>2. PICK i \in Slot :
        /\ has => i = off
        /\ ~has => dirent[d][i].kind \in {"end", "deleted"} /\ \A j \in Slot : j < i => dirent[d][j].kind # "end"
        /\ dirent'[d][i] = [kind |-> "file", name |-> target[2], first |-> first, size |-> sz]
        /\ \A e \in Dir, j \in Slot : ~(e = d /\ j = i) => dirent'[e][j] = dirent[e][j]
        /\ \A j \in Slot : Live(d, j) /\ dirent[d][j].name = target[2] => j = i
  BY <1>1, CommitSlot
<1>3. d \in Dir /\ target = <<d, target[2]>>
  BY <1>1, TargetType DEF IInv
<1>4. damaged' = damaged \ {target}
  BY DEF PutEntry
<1>5. ASSUME NEW e \in Dir, NEW j \in Slot, ~(e = d /\ j = i)
      PROVE  /\ dirent'[e][j] = dirent[e][j]
             /\ Live(e, j) => NameAt(e, j) # target
             /\ Sound(e, j)' => Sound(e, j)
  <2>1. dirent'[e][j] = dirent[e][j]
    BY <1>2, <1>5
  <2>2. Live(e, j) => NameAt(e, j) # target
    BY <1>2, <1>3, <1>5 DEF NameAt
  <2>3. Sound(e, j)' => Sound(e, j)
    BY <1>4, <2>1, <2>2 DEF Sound, NameAt, Live, Replacing
  <2> QED
    BY <2>1, <2>2, <2>3
<1>6. dirent'[d][i].name = target[2]
  BY <1>2
<1>7. NameAt(d, i)' = target
  BY <1>3, <1>6 DEF NameAt
<1> QED
  BY <1>1, <1>2, <1>3, <1>5, <1>7

\* The chain built becomes the chain of the entry written.
LEMMA PutEntryLayout ==
  ASSUME SInv, PutEntry
  PROVE  Layout'
<1>1. PICK clus \in Owned, new \in SUBSET Cluster, rank \in [Cluster -> Nat] : Fits(clus, new, rank)
  BY DEF SInv, Layout
<1>2. PICK d \in Dir, i \in Slot :
        /\ dirent'[d][i] = [kind |-> "file", name |-> target[2], first |-> first, size |-> sz]
        /\ \A e \in Dir, j \in Slot : ~(e = d /\ j = i) =>
             dirent'[e][j] = dirent[e][j] /\ (Sound(e, j)' => Sound(e, j))
  BY CommitOthers DEF SInv
<1>3. /\ pc = "entry" /\ pc' = "idle" /\ UNCHANGED fat1
      /\ got' = 0 /\ first' = 0 /\ prev' = 0 /\ pos' = 0 /\ s' = 0
  BY DEF PutEntry, Reset
<1>4. Taken(clus, new, rank) /\ fat1[prev] = EndMark
  BY <1>1, <1>3 DEF Fits, Chaining, Building
<1>5. PICK all : all = [clus EXCEPT ![d][i] = new]
  OBVIOUS
<1>6. all \in Owned /\ all[d][i] = new /\ \A e \in Dir, j \in Slot : ~(e = d /\ j = i) => all[e][j] = clus[e][j]
  BY <1>5 DEF Owned
<1>7. \A e \in Dir, j \in Slot : ~Freeing(e, j)'
  BY <1>3 DEF Freeing
<1>8. /\ first \in new
      /\ \A c \in new : /\ fat1[c] # 0 /\ c \notin DirClusters
                        /\ fat1[c] \in Cluster => fat1[c] \in new /\ fat1[c] # first
  <2>1. EndMark \notin Cluster /\ EndMark # 0 /\ 0 \notin Cluster
    BY ConstantsOK DEF Cluster, EndMark, EndMin
  <2>2. \A c \in new : rank[c] \in Nat
    OBVIOUS
  <2>3. ASSUME NEW c \in new
        PROVE  /\ fat1[c] # 0 /\ c \notin DirClusters
               /\ fat1[c] \in Cluster => fat1[c] \in new /\ fat1[c] # first
    <3>1. CASE c = prev
      BY <1>4, <2>1, <3>1 DEF Taken
    <3>2. CASE c # prev
      <4>1. fat1[c] \in new /\ rank[fat1[c]] = rank[c] + 1 /\ rank[first] = 0 /\ c \notin DirClusters
        BY <1>4, <3>2 DEF Taken
      <4> QED
        BY <2>1, <2>2, <4>1
    <3> QED
      BY <3>1, <3>2
  <2> QED
    BY <1>4, <2>3 DEF Taken
<1>9. \A e \in Dir, j \in Slot : ~(e = d /\ j = i) /\ Sound(e, j)' => new \cap clus[e][j] = {}
  BY <1>2, <1>4 DEF Taken
<1>10. ASSUME NEW e \in Dir, NEW j \in Slot
       PROVE  /\ Sound(e, j)' => /\ dirent'[e][j].first \in Cluster => dirent'[e][j].first \in all[e][j]
                                 /\ \A c \in all[e][j] : fat1'[c] # 0
              /\ Sound(e, j)' \/ Freeing(e, j)' =>
                   \A c \in all[e][j] :
                     /\ c \notin DirClusters
                     /\ fat1'[c] \in Cluster => fat1'[c] \in all[e][j] /\ fat1'[c] # dirent'[e][j].first
              /\ \A a \in Dir, k \in Slot :
                   (Sound(e, j)' \/ Freeing(e, j)') /\ Sound(a, k)' /\ ~(e = a /\ j = k)
                     => all[e][j] \cap all[a][k] = {}
  <2>1. CASE e = d /\ j = i
    <3>1. dirent'[d][i].first = first
      BY <1>2
    <3> QED
      BY <1>3, <1>6, <1>7, <1>8, <1>9, <2>1, <3>1
  <2>2. CASE ~(e = d /\ j = i)
    <3>1. dirent'[e][j] = dirent[e][j] /\ (Sound(e, j)' => Sound(e, j)) /\ all[e][j] = clus[e][j]
      BY <1>2, <1>6, <2>2
    <3>2. Sound(e, j) => /\ dirent[e][j].first \in Cluster => dirent[e][j].first \in clus[e][j]
                         /\ \A c \in clus[e][j] :
                              /\ fat1[c] # 0 /\ c \notin DirClusters
                              /\ fat1[c] \in Cluster => fat1[c] \in clus[e][j] /\ fat1[c] # dirent[e][j].first
      BY <1>1 DEF Fits, Chained
    <3>3. ASSUME NEW a \in Dir, NEW k \in Slot, Sound(e, j)', Sound(a, k)', ~(e = a /\ j = k)
          PROVE  all[e][j] \cap all[a][k] = {}
      <4>1. CASE a = d /\ k = i
        BY <1>6, <1>9, <2>2, <3>1, <3>3, <4>1
      <4>2. CASE ~(a = d /\ k = i)
        BY <1>1, <1>2, <1>6, <3>1, <3>3, <4>2 DEF Fits, Chained
      <4> QED
        BY <4>1, <4>2
    <3> QED
      BY <1>3, <1>7, <3>1, <3>2, <3>3
  <2> QED
    BY <2>1, <2>2
<1>11. Chained(all)'
  BY <1>3, <1>10 DEF Chained
<1>12. Chaining(all, new, rank)' /\ Filled(new, rank)'
  BY <1>3, IdleFits
<1> QED
  BY <1>6, <1>11, <1>12 DEF Layout, Fits

LEMMA NextLayout ==
  ASSUME Careful, SInv, [Next]_vars
  PROVE  Layout'
<1>1. CASE Call
  BY <1>1, CallBegins, BeginLayout DEF SInv
<1>2. CASE FreeCluster \/ FreeDone
  BY <1>2, FreeLayout
<1>3. CASE AllocCluster
  BY <1>3, AllocLayout
<1>4. CASE AllocDone
  BY <1>4, AllocDoneLayout
<1>5. CASE Mirror \/ WriteSector \/ NextCluster \/ DataDone
  BY <1>5, DataLayout
<1>6. CASE PutEntry
  BY <1>6, PutEntryLayout
<1>7. CASE DiskFull \/ PastEnd \/ ShortChain \/ DirFull \/ Interrupt
  BY <1>7, AbandonLayout DEF DiskFull, PastEnd, ShortChain, DirFull, Interrupt
<1>8. CASE UNCHANGED vars
  <2>1. PICK clus \in Owned, new \in SUBSET Cluster, rank \in [Cluster -> Nat] : Fits(clus, new, rank)
    BY DEF SInv, Layout
  <2>2. Chained(clus)' /\ Chaining(clus, new, rank)'
    BY <1>8, <2>1, ChainsSame DEF Fits, vars, disk, call, chain, hist
  <2>3. Filled(new, rank)'
    BY <1>8, <2>1 DEF Fits, Filled, vars, disk, call, chain, loop, hist
  <2> QED
    BY <2>1, <2>2, <2>3 DEF Layout, Fits
<1> QED
  BY <1>1, <1>2, <1>3, <1>4, <1>5, <1>6, <1>7, <1>8 DEF Next, Step, WriteEntry, LateError

-----------------------------------------------------------------------------
(* The image: a file's chain is the least set its links stay in.           *)

IsFile(d, i) == d \in Dir /\ i \in Slot /\ InitDirent[d][i].kind = "file"
Start(d, i)  == InitDirent[d][i].first

Closed(S) == \A y \in S : InitFat[y] \in Cluster => InitFat[y] \in S
Reach(c)  == {x \in Cluster : \A S \in SUBSET Cluster : (c \in Cluster => c \in S) /\ Closed(S) => x \in S}

\* FileChainsOK, slot by slot.
LEMMA StartFacts ==
  ASSUME NEW d \in Dir, NEW i \in Slot, IsFile(d, i), Start(d, i) \in Cluster
  PROVE  /\ InitFat[Start(d, i)] # 0 /\ Start(d, i) \notin DirClusters
         /\ \A c \in Cluster : InitFat[c] # Start(d, i)
         /\ \A e \in Dir, j \in Slot : IsFile(e, j) /\ Start(e, j) = Start(d, i) => e = d /\ j = i
<1> DEFINE Files == {e \in Dir \X Slot : InitDirent[e[1]][e[2]].kind = "file"}
           start(e) == InitDirent[e[1]][e[2]].first
<1>1. \A e \in Files : start(e) \in Cluster =>
        /\ InitFat[start(e)] # 0 /\ \A c \in Cluster : InitFat[c] # start(e)
        /\ \A f \in Files : start(f) = start(e) => f = e
  BY FileChainsOK
<1>2. \A e \in Dir, j \in Slot : IsFile(e, j) => <<e, j>> \in Files /\ start(<<e, j>>) = Start(e, j)
  BY DEF IsFile, Start
<1>3. Start(d, i) \notin DirClusters
  BY ImageOK DEF IsFile, Start
<1>4. <<d, i>> \in Files /\ start(<<d, i>>) = Start(d, i)
  BY <1>2
<1>5. /\ InitFat[Start(d, i)] # 0 /\ \A c \in Cluster : InitFat[c] # Start(d, i)
      /\ \A f \in Files : start(f) = Start(d, i) => f = <<d, i>>
  BY <1>1, <1>4, Zenon
<1>6. \A e \in Dir, j \in Slot : IsFile(e, j) /\ Start(e, j) = Start(d, i) => <<e, j>> = <<d, i>>
  <2> HIDE DEF Files, start
  <2> QED
    BY <1>2, <1>5
<1> QED
  BY <1>3, <1>5, <1>6

LEMMA LinkFacts ==
  \A c, k \in Cluster : InitFat[c] \in Cluster =>
    /\ InitFat[InitFat[c]] # 0 /\ InitFat[c] \notin DirClusters
    /\ InitFat[c] = InitFat[k] => c = k
BY FileChainsOK, ImageOK

LEMMA ReachFacts ==
  ASSUME NEW c
  PROVE  /\ Reach(c) \in SUBSET Cluster /\ Closed(Reach(c)) /\ (c \in Cluster => c \in Reach(c))
         /\ \A S \in SUBSET Cluster : (c \in Cluster => c \in S) /\ Closed(S) => Reach(c) \subseteq S
<1>1. Closed(Reach(c))
  <2> SUFFICES ASSUME NEW y \in Reach(c), InitFat[y] \in Cluster,
                      NEW S \in SUBSET Cluster, c \in Cluster => c \in S, Closed(S)
               PROVE  InitFat[y] \in S
    BY DEF Closed, Reach
  <2>1. y \in S
    BY DEF Reach
  <2> QED
    BY <2>1 DEF Closed
<1> QED
  BY <1>1 DEF Reach

\* Nothing a file's chain does not lead to can lead out of it again.
LEMMA ReachOne ==
  ASSUME NEW k, NEW z \in Cluster, z # k, \A u \in Reach(k) : InitFat[u] # z
  PROVE  z \notin Reach(k)
<1> DEFINE S == Reach(k) \ {z}
<1>1. S \in SUBSET Cluster /\ Closed(S) /\ (k \in Cluster => k \in S)
  BY ReachFacts DEF Closed
<1>2. Reach(k) \subseteq S
  <2> HIDE DEF S
  <2> QED
    BY <1>1, ReachFacts
<1> QED
  BY <1>2

LEMMA ReachDisjoint ==
  ASSUME NEW d \in Dir, NEW i \in Slot, NEW e \in Dir, NEW j \in Slot, IsFile(d, i), IsFile(e, j), ~(d = e /\ i = j)
  PROVE  Reach(Start(d, i)) \cap Reach(Start(e, j)) = {}
<1> DEFINE c == Start(d, i)
           k == Start(e, j)
           S == Reach(c) \ Reach(k)
<1>1. c \in Cluster => c \notin Reach(k)
  <2> SUFFICES ASSUME c \in Cluster PROVE c \notin Reach(k)
    OBVIOUS
  <2>1. c # k /\ \A u \in Cluster : InitFat[u] # c
    BY StartFacts
  <2>2. \A u \in Reach(k) : u \in Cluster
    BY ReachFacts
  <2> HIDE DEF c, k
  <2> QED
    BY <2>1, <2>2, ReachOne
<1>2. Closed(S)
  <2> SUFFICES ASSUME NEW y \in S, InitFat[y] \in Cluster PROVE InitFat[y] \in S
    BY DEF Closed
  <2>1. y \in Cluster /\ y \notin Reach(k) /\ InitFat[y] \in Reach(c)
    BY ReachFacts DEF Closed
  <2>2. InitFat[y] # k
    <3>1. k \in Cluster => \A u \in Cluster : InitFat[u] # k
      BY StartFacts
    <3> QED
      BY <2>1, <3>1
  <2>3. \A u \in Reach(k) : InitFat[u] # InitFat[y]
    <3>1. \A u \in Reach(k) : u \in Cluster
      BY ReachFacts
    <3> QED
      BY <2>1, <3>1, LinkFacts
  <2> HIDE DEF c, k
  <2>4. InitFat[y] \notin Reach(k)
    BY <2>2, <2>3, ReachOne
  <2> QED
    BY <2>1, <2>4
<1>3. S \in SUBSET Cluster /\ (c \in Cluster => c \in S)
  BY <1>1, ReachFacts
<1>4. Reach(c) \subseteq S
  <2> HIDE DEF c, k, S
  <2> QED
    BY <1>2, <1>3, ReachFacts
<1> QED
  BY <1>4

\* A file's chain has no free cluster, no directory's, and never comes back
\* to its start.
LEMMA ReachSound ==
  ASSUME NEW d \in Dir, NEW i \in Slot, IsFile(d, i)
  PROVE  \A x \in Reach(Start(d, i)) :
           /\ InitFat[x] # 0 /\ x \notin DirClusters
           /\ InitFat[x] \in Cluster => InitFat[x] \in Reach(Start(d, i)) /\ InitFat[x] # Start(d, i)
<1> DEFINE c == Start(d, i)
           S == {x \in Cluster : InitFat[x] # 0 /\ x \notin DirClusters}
<1>1. Closed(S)
  BY LinkFacts DEF Closed
<1>2. c \in Cluster => c \in S
  BY StartFacts
<1>3. Reach(c) \subseteq S
  <2>1. S \in SUBSET Cluster
    OBVIOUS
  <2> HIDE DEF c, S
  <2> QED
    BY <1>1, <1>2, <2>1, ReachFacts
<1>4. \A x \in Reach(c) : x \in Cluster /\ (InitFat[x] \in Cluster => InitFat[x] \in Reach(c))
  BY ReachFacts DEF Closed
<1>5. c \in Cluster => \A x \in Cluster : InitFat[x] # c
  BY StartFacts
<1> QED
  BY <1>3, <1>4, <1>5

LEMMA InitLayout == Careful /\ Init => Listing /\ Layout
<1> SUFFICES ASSUME Careful, Init PROVE Listing /\ Layout
  OBVIOUS
<1>1. /\ fat1 = InitFat /\ dirent = InitDirent /\ pc = "idle" /\ has = FALSE /\ cur = 0
      /\ got = 0 /\ first = 0 /\ prev = 0 /\ s = 0 /\ pos = 0 /\ damaged = {}
  BY DEF Init
<1>2. Listing
  <2>1. ASSUME NEW d \in Dir, NEW i \in Slot, NEW j \in Slot
        PROVE  /\ Live(d, i) /\ Live(d, j) /\ dirent[d][i].name = dirent[d][j].name => i = j
               /\ dirent[d][i].kind = "end" /\ i < j => dirent[d][j].kind = "end"
    BY <1>1, FileChainsOK DEF Live
  <2>2. ASSUME NEW d \in Dir, NEW i \in Slot, dirent[d][i].kind = "dir"
        PROVE  NameAt(d, i) \notin Target
    BY <1>1, <2>2 DEF NameAt, Careful
  <2> QED
    BY <1>1, <2>1, <2>2 DEF Listing
<1>3. Layout
  <2> DEFINE clus == [d \in Dir |-> [i \in Slot |-> Reach(Start(d, i))]]
             rank == [x \in Cluster |-> 0]
  <2>1. \A d \in Dir, i \in Slot : clus[d][i] = Reach(Start(d, i)) /\ Reach(Start(d, i)) \in SUBSET Cluster
    BY ReachFacts
  <2>2. clus \in Owned /\ rank \in [Cluster -> Nat]
    BY ReachFacts DEF Owned
  <2>3. \A d \in Dir, i \in Slot : (Sound(d, i) => IsFile(d, i)) /\ dirent[d][i].first = Start(d, i) /\ ~Freeing(d, i)
    BY <1>1 DEF Sound, IsFile, Start, Freeing
  <2>4. Chained(clus)
    <3> HIDE DEF clus
    <3>1. ASSUME NEW d \in Dir, NEW i \in Slot
          PROVE  /\ Sound(d, i) => /\ dirent[d][i].first \in Cluster => dirent[d][i].first \in clus[d][i]
                                   /\ \A c \in clus[d][i] : fat1[c] # 0
                 /\ Sound(d, i) \/ Freeing(d, i) =>
                      \A c \in clus[d][i] :
                        /\ c \notin DirClusters
                        /\ fat1[c] \in Cluster => fat1[c] \in clus[d][i] /\ fat1[c] # dirent[d][i].first
                 /\ \A e \in Dir, j \in Slot :
                      (Sound(d, i) \/ Freeing(d, i)) /\ Sound(e, j) /\ ~(d = e /\ i = j)
                        => clus[d][i] \cap clus[e][j] = {}
      <4>1. Start(d, i) \in Cluster => Start(d, i) \in Reach(Start(d, i))
        BY ReachFacts
      <4>2. IsFile(d, i) =>
              \A x \in Reach(Start(d, i)) :
                /\ InitFat[x] # 0 /\ x \notin DirClusters
                /\ InitFat[x] \in Cluster => InitFat[x] \in Reach(Start(d, i)) /\ InitFat[x] # Start(d, i)
        BY ReachSound
      <4>3. ASSUME NEW e \in Dir, NEW j \in Slot, Sound(d, i), Sound(e, j), ~(d = e /\ i = j)
            PROVE  clus[d][i] \cap clus[e][j] = {}
        BY <2>1, <2>3, <4>3, ReachDisjoint
      <4> QED
        BY <1>1, <2>1, <2>3, <4>1, <4>2, <4>3
    <3> QED
      BY <1>1, <3>1 DEF Chained
  <2>5. Chaining(clus, {}, rank) /\ Filled({}, rank)
    BY <1>1 DEF Chaining, Filled, Building
  <2> HIDE DEF clus, rank
  <2> QED
    BY <2>2, <2>4, <2>5 DEF Layout, Fits
<1> QED
  BY <1>2, <1>3

LEMMA NextSInv == Careful /\ SInv /\ [Next]_vars => SInv'
BY NextInv, NextListing, NextLayout DEF SInv

LEMMA Safe == Careful => (Spec => []SInv)
<1> SUFFICES ASSUME Careful PROVE Spec => []SInv
  OBVIOUS
<1>1. Init => SInv
  BY InitInv, InitLayout DEF SInv
<1>2. SInv /\ [Next]_vars => SInv'
  BY NextSInv
<1> QED
  BY <1>1, <1>2, PTL DEF Spec

\* An intact file's entry is sound.
LEMMA IntactSound ==
  ASSUME SInv, NEW f \in Intact
  PROVE  /\ f[1] \in Dir /\ Lookup(f[1], f[2]) \in Slot
         /\ Sound(f[1], Lookup(f[1], f[2])) /\ NameAt(f[1], Lookup(f[1], f[2])) = f
<1> DEFINE i == Lookup(f[1], f[2])
<1>1. /\ f[1] \in Dir /\ f[2] \in Name /\ f = <<f[1], f[2]>>
      /\ ReadFile(f) # {} /\ f \notin damaged /\ ~Replacing(f)
  BY DEF Intact, File
<1>2. i # 0 /\ dirent[f[1]][i].kind = "file"
  BY <1>1 DEF ReadFile
<1>3. i \in Slot /\ dirent[f[1]][i].name = f[2]
  BY <1>1, <1>2, LookupFacts DEF SInv, IInv, LookupsFind
<1>4. NameAt(f[1], i) = f
  BY <1>1, <1>3 DEF NameAt
<1> QED
  BY <1>1, <1>2, <1>3, <1>4 DEF Sound

\* A sound entry's chain stays within its clusters.
LEMMA ChainInside ==
  ASSUME NEW clus \in Owned, Chained(clus), NEW d \in Dir, NEW i \in Slot, Sound(d, i)
  PROVE  Chain(dirent[d][i].first) \subseteq clus[d][i]
<1> DEFINE c == dirent[d][i].first
           S == clus[d][i]
           g == ChainAt(c, Entries)
<1>1. S \in SUBSET Cluster /\ (c \in Cluster => c \in S) /\ \A x \in S : fat1[x] \in Cluster => fat1[x] \in S
  BY DEF Owned, Chained
<1>2. IsChain(g, fat1, c, Entries) /\ Entries \in Nat
  BY ChainAtStep, ConstantsOK
<1>3. \A k \in 0 .. Entries : g[k] \in Cluster => g[k] \in S
  <2> HIDE DEF c, S, g
  <2>1. PICK fat, at : fat = fat1 /\ at = g
    OBVIOUS
  <2>2. IsChain(at, fat, c, Entries) /\ Agree(S, fat1, fat)
    BY <1>1, <1>2, <2>1 DEF Agree
  <2>3. g = at /\ \A k \in 0 .. Entries : g[k] \in Cluster => g[k] \in S
    BY <1>1, <1>2, <2>2, ChainStays
  <2> QED
    BY <2>3
<1> QED
  BY <1>3 DEF Chain

\* For every volume and every pattern of failures, as long as a file that a
\* failed save damaged is left alone: no two intact files share a cluster,
\* none has a directory's, and none of a file's clusters is free for the next
\* allocation round of fat32_write_file_path to take.
THEOREM FilesKeepTheirOwn == Careful => (Spec => []NoCrossLink)
<1>1. SInv => NoCrossLink
  <2> SUFFICES ASSUME SInv PROVE NoCrossLink
    OBVIOUS
  <2>1. PICK clus \in Owned : Chained(clus)
    BY DEF SInv, Layout, Fits
  <2>2. ASSUME NEW f \in Intact
        PROVE  /\ f[1] \in Dir /\ Lookup(f[1], f[2]) \in Slot
               /\ Sound(f[1], Lookup(f[1], f[2])) /\ NameAt(f[1], Lookup(f[1], f[2])) = f
               /\ ChainOf(f) \subseteq clus[f[1]][Lookup(f[1], f[2])]
    BY <2>1, <2>2, IntactSound, ChainInside DEF ChainOf
  <2>3. ASSUME NEW f \in Intact
        PROVE  \A c \in ChainOf(f) : fat1[c] # 0 /\ c \notin DirClusters
    <3>1. \A c \in clus[f[1]][Lookup(f[1], f[2])] : fat1[c] # 0 /\ c \notin DirClusters
      BY <2>1, <2>2 DEF Chained
    <3> QED
      BY <2>2, <3>1
  <2>4. ASSUME NEW f \in Intact, NEW g \in Intact \ {f}
        PROVE  ChainOf(f) \cap ChainOf(g) = {}
    <3>1. ~(f[1] = g[1] /\ Lookup(f[1], f[2]) = Lookup(g[1], g[2]))
      BY <2>2
    <3>2. clus[f[1]][Lookup(f[1], f[2])] \cap clus[g[1]][Lookup(g[1], g[2])] = {}
      BY <2>1, <2>2, <3>1 DEF Chained
    <3> QED
      BY <2>2, <3>2
  <2> QED
    BY <2>3, <2>4 DEF NoCrossLink
<1> QED
  BY <1>1, Safe, PTL

-----------------------------------------------------------------------------
(* Reading.                                                                *)

\* ReadFile, with the entry, its chain and the sectors as parameters.
Home(g, n)         == [k \in 1 .. n |-> g[(k - 1) \div SecPerClus]]
Sectors(dt, h, n)  == [k \in 1 .. n |-> dt[h[k]][(k - 1) % SecPerClus]]
ReadAt(ok, g, n, dt) ==
  IF ok /\ \A k \in 1 .. n : Home(g, n)[k] \in 2 .. LastCluster THEN {Sectors(dt, Home(g, n), n)} ELSE {}
Legible(f) == /\ Lookup(f[1], f[2]) # 0 /\ dirent[f[1]][Lookup(f[1], f[2])].kind = "file"
              /\ Reachable(f[1])
ChainOfSize(e) == ChainAt(e.first, e.size)
EntryOf(f)     == dirent[f[1]][Lookup(f[1], f[2])]

Unfolded == \A f : ReadFile(f) = ReadAt(Legible(f), ChainOfSize(EntryOf(f)), EntryOf(f).size, data)

LEMMA ReadUnfold == Unfolded
BY Zenon DEF Unfolded, ReadFile, ReadAt, Legible, ChainOfSize, EntryOf, Home, Sectors

LEMMA ReadUnfoldNext == Unfolded'
BY ReadUnfold, PTL

LEMMA DivMod ==
  ASSUME NEW B \in Nat \ {0}, NEW a \in Nat
  PROVE  /\ a \div B \in Nat /\ a % B \in 0 .. B - 1
         /\ a = (a \div B) * B + (a % B) /\ a \div B <= a
<1>1. a \div B \in Nat /\ a % B \in 0 .. B - 1 /\ a = B * (a \div B) + (a % B)
  OBVIOUS
<1>2. PICK q \in Nat : q = a \div B
  BY <1>1
<1>3. PICK t \in 0 .. B - 1 : t = a % B
  BY <1>1
<1>4. B * q = q * B /\ q <= B * q /\ B * q \in Nat
  OBVIOUS
<1>5. a = q * B + t /\ q <= a
  BY <1>1, <1>2, <1>3, <1>4
<1> QED
  BY <1>2, <1>3, <1>5

\* A file's content depends on its entry, its chain and their sectors only.
LEMMA ReadSame ==
  ASSUME NEW clus \in Owned, Chained(clus), TypeOK, NEW f, f[1] \in Dir, Lookup(f[1], f[2]) \in {0} \cup Slot,
         Lookup(f[1], f[2])' = Lookup(f[1], f[2]), Reachable(f[1])' = Reachable(f[1]),
         Lookup(f[1], f[2]) # 0 => EntryOf(f)' = EntryOf(f),
         Legible(f) => /\ Sound(f[1], Lookup(f[1], f[2]))
                       /\ \A c \in clus[f[1]][Lookup(f[1], f[2])] : fat1'[c] = fat1[c] /\ data'[c] = data[c]
  PROVE  ReadFile(f)' = ReadFile(f)
<1> DEFINE i == Lookup(f[1], f[2])
           S == clus[f[1]][i]
<1>1. Legible(f)' = Legible(f)
  BY DEF Legible, EntryOf
<1>2. CASE ~Legible(f)
  <2>1. ReadFile(f) = {} /\ ReadFile(f)' = {}
    BY <1>1, <1>2, ReadUnfold, ReadUnfoldNext DEF Unfolded, ReadAt
  <2> QED
    BY <2>1
<1>3. CASE Legible(f)
  <2>1. i \in Slot /\ i # 0 /\ Sound(f[1], i) /\ EntryOf(f) = dirent[f[1]][i]
    BY <1>3 DEF Legible, EntryOf
  <2>2. PICK e \in Entry : e = EntryOf(f) /\ e = EntryOf(f)'
    BY <2>1 DEF TypeOK
  <2>3. PICK n \in Nat : n = e.size
    BY <2>2, ConstantsOK DEF Entry
  <2>4. PICK g : g = ChainAt(e.first, n)
    OBVIOUS
  <2>5. PICK h : h = ChainAt(e.first, n)'
    OBVIOUS
  <2>6. IsChain(g, fat1, e.first, n) /\ IsChain(h, fat1', e.first, n)
    BY <2>4, <2>5, ChainAtStep
  <2>7. S \in SUBSET Cluster /\ (e.first \in Cluster => e.first \in S) /\ \A x \in S : fat1[x] \in Cluster => fat1[x] \in S
    <3>1. S \in SUBSET Cluster
      BY <2>1 DEF Owned
    <3>2. PICK d \in Dir, j \in Slot : d = f[1] /\ j = i
      BY <2>1
    <3>3. Sound(d, j) /\ e = dirent[d][j] /\ S = clus[d][j]
      BY <2>1, <2>2, <3>2
    <3>4. (dirent[d][j].first \in Cluster => dirent[d][j].first \in clus[d][j])
          /\ \A x \in clus[d][j] : fat1[x] \in Cluster => fat1[x] \in clus[d][j]
      BY <3>3 DEF Chained
    <3> QED
      BY <3>1, <3>3, <3>4
  <2>8. \A c \in S : fat1'[c] = fat1[c] /\ data'[c] = data[c]
    BY <1>3
  <2>9. g = h /\ \A k \in 0 .. n : g[k] \in Cluster => g[k] \in S
    <3>1. \A x \in S : fat1'[x] = fat1[x] /\ (fat1[x] \in Cluster => fat1[x] \in S)
      BY <2>7, <2>8
    <3>2. PICK U, c, fat, fatNext : U = S /\ c = e.first /\ fat = fat1 /\ fatNext = fat1'
      OBVIOUS
    <3> HIDE DEF S
    <3>3. /\ U \in SUBSET Cluster /\ (c \in Cluster => c \in U)
          /\ IsChain(g, fat, c, n) /\ IsChain(h, fatNext, c, n)
          /\ Agree(U, fat, fatNext)
      BY <2>6, <2>7, <3>1, <3>2 DEF Agree
    <3>4. g = h /\ \A k \in 0 .. n : g[k] \in Cluster => g[k] \in U
      BY <3>3, ChainStays
    <3> QED
      BY <3>2, <3>4
  <2>10. ReadFile(f) = ReadAt(TRUE, g, n, data) /\ ReadFile(f)' = ReadAt(TRUE, g, n, data')
    <3>1. ChainOfSize(EntryOf(f)) = g /\ EntryOf(f).size = n
      BY <2>2, <2>3, <2>4 DEF ChainOfSize
    <3>2. ChainOfSize(EntryOf(f))' = g /\ EntryOf(f)'.size = n
      BY <2>2, <2>3, <2>5, <2>9 DEF ChainOfSize
    <3>3. ReadFile(f) = ReadAt(Legible(f), ChainOfSize(EntryOf(f)), EntryOf(f).size, data)
      BY ReadUnfold DEF Unfolded
    <3>4. ReadFile(f)' = ReadAt(Legible(f)', ChainOfSize(EntryOf(f))', EntryOf(f)'.size, data')
      BY ReadUnfoldNext DEF Unfolded, ReadAt
    <3> QED
      BY <1>1, <1>3, <3>1, <3>2, <3>3, <3>4 DEF ReadAt
  <2>11. ASSUME \A k \in 1 .. n : Home(g, n)[k] \in 2 .. LastCluster
         PROVE  Sectors(data, Home(g, n), n) = Sectors(data', Home(g, n), n)
    <3>1. ASSUME NEW k \in 1 .. n
          PROVE  data[Home(g, n)[k]] = data'[Home(g, n)[k]]
      <4>1. (k - 1) \div SecPerClus \in 0 .. n
        <5>1. k - 1 \in Nat /\ k - 1 <= n /\ SecPerClus \in Nat \ {0}
          BY ConstantsOK
        <5>2. PICK a \in Nat : a = k - 1
          BY <5>1
        <5>3. a \div SecPerClus \in Nat /\ a \div SecPerClus <= a
          BY <5>1, DivMod
        <5> QED
          BY <5>1, <5>2, <5>3
      <4>2. Home(g, n)[k] = g[(k - 1) \div SecPerClus] /\ Home(g, n)[k] \in Cluster
        BY <2>11, ConstantsOK DEF Home, Cluster
      <4>3. Home(g, n)[k] \in S
        BY <2>9, <4>1, <4>2
      <4> QED
        BY <2>8, <4>3
    <3> QED
      BY <3>1 DEF Sectors
  <2> QED
    BY <2>10, <2>11 DEF ReadAt
<1> QED
  BY <1>2, <1>3

-----------------------------------------------------------------------------
(* What a step leaves of the files.                                        *)

\* The steps that write the entry, whatever they report.
Puts == WriteEntry \/ LateError

\* A file is whole unless a failed save damaged it or a call is replacing it.
Whole(f) == f \notin damaged /\ ~Replacing(f)

\* The chains of sound entries, and the sectors in them, stay.
Keeps(clus) ==
  \A d \in Dir, i \in Slot :
    Sound(d, i)' => Sound(d, i) /\ \A c \in clus[d][i] : fat1'[c] = fat1[c] /\ data'[c] = data[c]

LEMMA NextKeeps ==
  ASSUME Careful, SInv, NEW clus \in Owned, NEW new \in SUBSET Cluster, NEW rank \in [Cluster -> Nat],
         Fits(clus, new, rank), [Next]_vars, ~Puts
  PROVE  UNCHANGED dirent /\ (\A f : Whole(f)' => Whole(f)) /\ Keeps(clus)
<1>1. \A d \in Dir, i \in Slot : \A x \in clus[d][i] : x \in Cluster
  BY DEF Owned
<1>2. fat1 \in [Cluster -> FatValue] /\ data \in [Cluster -> [0 .. SecPerClus - 1 -> Block]]
  BY DEF SInv, IInv, TypeOK
<1>3. ASSUME UNCHANGED dirent, \A f : Whole(f)' => Whole(f)
      PROVE  \A d \in Dir, i \in Slot : Sound(d, i)' => Sound(d, i)
  <2>1. \A d, i : NameAt(d, i)' = NameAt(d, i)
    BY <1>3 DEF NameAt
  <2> QED
    BY <1>3, <2>1 DEF Sound, Whole
<1>4. ASSUME UNCHANGED <<damaged, target, has, off, cur, dirent>>, (pc # "idle" /\ pc' # "idle") \/ pc' = pc
      PROVE  \A f : Whole(f)' => Whole(f)
  BY <1>4 DEF Whole, Replacing, Destroyed
<1>5. CASE Call
  <2>1. PICK f \in Target, n \in 0 .. MaxSectors : Begin(f, n)
    BY <1>5, CallBegins DEF SInv
  <2>2. UNCHANGED <<fat1, data, dirent, damaged>> /\ pc = "idle"
    BY <2>1 DEF Begin, Enter, disk
  <2>3. \A g : Whole(g)' => Whole(g)
    BY <2>2 DEF Whole, Replacing
  <2> QED
    BY <1>3, <2>2, <2>3 DEF Keeps
<1>6. CASE FreeCluster
  <2>1. /\ pc = "free" /\ cur \in Cluster /\ fat1' = [fat1 EXCEPT ![cur] = 0]
        /\ UNCHANGED <<data, dirent, damaged, target, has, off>>
    BY <1>6 DEF FreeCluster, SetFat, call, hist
  <2>2. has /\ cur \in clus[target[1]][off] /\ target[1] \in Dir /\ off \in Slot
    BY <2>1, TargetType DEF Fits, Chained, SInv, IInv, Control, Listing, Cluster
  <2>3. /\ \A d \in Dir, i \in Slot : Sound(d, i)' => Sound(d, i)
        /\ \A d \in Dir, i \in Slot : Freeing(d, i)' => ~Sound(d, i)'
        /\ Replacing(target)'
    BY <1>6, <2>2, FreeClusterSound DEF Fits
  <2>4. \A f : Whole(f)' => Whole(f)
    BY <2>1, <2>3 DEF Whole, Replacing
  <2>5. \A d \in Dir, i \in Slot : Sound(d, i)' => cur \notin clus[d][i]
    <3>1. \A d \in Dir, i \in Slot : Sound(d, i)' => ~(d = target[1] /\ i = off)
      BY <1>6, <2>1, <2>2, <2>3 DEF Freeing, FreeCluster
    <3> QED
      BY <2>1, <2>2, <2>3, <3>1 DEF Fits, Chained, Freeing
  <2>6. \A c \in Cluster : c # cur => fat1'[c] = fat1[c]
    BY <1>2, <2>1
  <2> QED
    BY <1>1, <2>1, <2>3, <2>4, <2>5, <2>6 DEF Keeps
<1>7. CASE AllocCluster \/ AllocDone
  <2>1. /\ pc = "alloc" /\ pc' # "idle" /\ UNCHANGED <<data, dirent, damaged, target, has, off, cur>>
        /\ fat1' # fat1 => prev # 0 /\ \A c \in Cluster : c # prev => fat1'[c] = fat1[c]
    <3>1. CASE AllocCluster
      BY <1>2, <3>1 DEF AllocCluster, SetFat, call, hist
    <3>2. CASE AllocDone
      <4>1. got # 0
        BY <3>2 DEF AllocDone, Need
      <4>2. prev # 0
        BY <4>1, ConstantTypes DEF SInv, IInv, Control
      <4> QED
        BY <1>2, <3>2, <4>2 DEF AllocDone, SetFat, call, chain, hist
    <3> QED
      BY <1>7, <3>1, <3>2
  <2>2. \A f : Whole(f)' => Whole(f)
    BY <1>4, <2>1
  <2>3. prev # 0 => \A d \in Dir, i \in Slot : Sound(d, i) => prev \notin clus[d][i]
    BY <2>1 DEF Fits, Chaining, Building, Taken
  <2> QED
    BY <1>1, <1>3, <2>1, <2>2, <2>3 DEF Keeps
<1>8. CASE WriteSector
  <2>1. /\ pc = "data" /\ pc' = "data" /\ UNCHANGED <<fat1, dirent, damaged, target, has, off, cur>>
        /\ \A c \in Cluster : c # cl => data'[c] = data[c]
    BY <1>2, <1>8 DEF WriteSector, call, chain, hist
  <2>2. \A d \in Dir, i \in Slot : Sound(d, i) => cl \notin clus[d][i]
    BY <2>1 DEF Fits, Chaining, Filled, Building, Taken
  <2>3. \A f : Whole(f)' => Whole(f)
    BY <1>4, <2>1
  <2> QED
    BY <1>1, <1>3, <2>1, <2>2, <2>3 DEF Keeps
<1>9. CASE DiskFull \/ PastEnd \/ ShortChain \/ DirFull \/ Interrupt
  <2>1. Abandon
    BY <1>9 DEF DiskFull, PastEnd, ShortChain, DirFull, Interrupt
  <2>2. /\ UNCHANGED <<fat1, data, dirent, target>>
        /\ damaged' = IF Destroyed THEN damaged \cup {target} ELSE damaged
    BY <2>1 DEF Abandon, Reset, disk
  <2>3. \A f : Whole(f)' => Whole(f)
    BY <2>2 DEF Whole, Replacing
  <2> QED
    BY <1>3, <2>2, <2>3 DEF Keeps
<1>10. CASE FreeDone \/ Mirror \/ NextCluster \/ DataDone \/ UNCHANGED vars
  <2>1. /\ UNCHANGED <<fat1, data, dirent, damaged, target, has, off, cur>>
        /\ (pc # "idle" /\ pc' # "idle") \/ pc' = pc
    BY <1>10 DEF FreeDone, Mirror, NextCluster, DataDone, vars, disk, call, chain, hist
  <2>2. \A f : Whole(f)' => Whole(f)
    BY <1>4, <2>1
  <2> QED
    BY <1>3, <2>1, <2>2 DEF Keeps
<1> QED
  BY <1>5, <1>6, <1>7, <1>8, <1>9, <1>10 DEF Next, Step, Puts

\* After the commit, lookups of other names find what they found.
LEMMA CommitLookups ==
  ASSUME Careful, SInv, SInv', PutEntry, NEW f \in File, f # target
  PROVE  /\ Lookup(f[1], f[2])' = Lookup(f[1], f[2])
         /\ Lookup(f[1], f[2]) # 0 => dirent'[f[1]][Lookup(f[1], f[2])] = dirent[f[1]][Lookup(f[1], f[2])]
<1>1. PICK d \in Dir, i \in Slot :
        /\ d = target[1] /\ (has => i = off)
        /\ ~has => dirent[d][i].kind \in {"end", "deleted"} /\ \A j \in Slot : j < i => dirent[d][j].kind # "end"
        /\ dirent'[d][i] = [kind |-> "file", name |-> target[2], first |-> first, size |-> sz]
        /\ NameAt(d, i)' = target
        /\ \A e \in Dir, j \in Slot : ~(e = d /\ j = i) =>
             /\ dirent'[e][j] = dirent[e][j]
             /\ Live(e, j) => NameAt(e, j) # target
             /\ Sound(e, j)' => Sound(e, j)
  BY CommitOthers DEF SInv
<1>2. /\ f[1] \in Dir /\ f = <<f[1], f[2]>> /\ target = <<target[1], target[2]>>
  BY TargetType DEF File, SInv, IInv
<1>3. LookupsFind /\ LookupsFind'
  BY LookupFacts, LookupFactsNext DEF SInv, IInv
<1>4. PICK old : old = Lookup(f[1], f[2])
  OBVIOUS
<1>5. PICK now : now = Lookup(f[1], f[2])'
  OBVIOUS
<1>6. /\ old # 0 => old \in Slot /\ Live(f[1], old) /\ dirent[f[1]][old].name = f[2]
      /\ \A j \in Slot : Live(f[1], j) /\ dirent[f[1]][j].name = f[2] => old = j
  BY <1>2, <1>3, <1>4 DEF LookupsFind
<1>7. /\ now # 0 => now \in Slot /\ Live(f[1], now)' /\ dirent'[f[1]][now].name = f[2]
      /\ \A j \in Slot : Live(f[1], j)' /\ dirent'[f[1]][j].name = f[2] => now = j
  BY <1>2, <1>3, <1>5 DEF LookupsFind
<1>8. has => dirent[d][i].name = target[2]
  BY <1>1 DEF SInv, Listing
<1>9. old # 0 => /\ dirent'[f[1]][old] = dirent[f[1]][old] /\ now = old
  <2> SUFFICES ASSUME old # 0 PROVE dirent'[f[1]][old] = dirent[f[1]][old] /\ now = old
    OBVIOUS
  <2>1. ~(f[1] = d /\ old = i)
    BY <1>1, <1>2, <1>6, <1>8 DEF Live
  <2>2. dirent'[f[1]][old] = dirent[f[1]][old]
    BY <1>1, <1>2, <1>6, <2>1
  <2> QED
    BY <1>6, <1>7, <2>2 DEF Live
<1>10. old = 0 => now = 0
  <2> SUFFICES ASSUME old = 0, now # 0 PROVE FALSE
    OBVIOUS
  <2>1. ~(f[1] = d /\ now = i)
    BY <1>1, <1>2, <1>7
  <2>2. dirent'[f[1]][now] = dirent[f[1]][now]
    BY <1>1, <1>2, <1>7, <2>1
  <2>3. old = now
    BY <1>6, <1>7, <2>2 DEF Live
  <2> QED
    BY <2>3
<1> QED
  BY <1>4, <1>5, <1>9, <1>10

\* Paths resolve as before: no call writes a directory's entry.
LEMMA CommitReachable ==
  ASSUME Careful, SInv, SInv', PutEntry, NEW d \in Dir
  PROVE  Reachable(d)' = Reachable(d)
<1>1. PICK f \in File : f = <<Root, DirName[d]>>
  BY ConstantsOK DEF File
<1>2. CASE f # target
  <2>1. /\ Lookup(f[1], f[2])' = Lookup(f[1], f[2])
        /\ Lookup(f[1], f[2]) # 0 => dirent'[f[1]][Lookup(f[1], f[2])] = dirent[f[1]][Lookup(f[1], f[2])]
    BY <1>2, CommitLookups
  <2>2. f[1] = Root /\ f[2] = DirName[d]
    BY <1>1
  <2>3. /\ Lookup(Root, DirName[d])' = Lookup(Root, DirName[d])
        /\ Lookup(Root, DirName[d]) # 0
             => dirent'[Root][Lookup(Root, DirName[d])] = dirent[Root][Lookup(Root, DirName[d])]
    BY <2>1, <2>2
  <2> QED
    BY <2>3 DEF Reachable, LookupKind
<1>3. CASE f = target
  <2>1. LookupKind(Root, DirName[d]) # "dir"
    <3> SUFFICES ASSUME LookupKind(Root, DirName[d]) = "dir" PROVE FALSE
      OBVIOUS
    <3>1. PICK i : i = Lookup(Root, DirName[d])
      OBVIOUS
    <3>2. i # 0 /\ dirent[Root][i].kind = "dir"
      BY <3>1 DEF LookupKind
    <3>3. i \in Slot /\ dirent[Root][i].name = DirName[d]
      BY <3>1, <3>2, LookupFacts, ConstantsOK DEF SInv, IInv, LookupsFind
    <3>4. NameAt(Root, i) = target
      BY <1>1, <1>3, <3>3 DEF NameAt
    <3> QED
      BY <3>2, <3>3, <3>4, ConstantsOK DEF SInv, Listing, IInv, TypeOK
  <2>2. LookupKind(Root, DirName[d])' # "dir"
    <3> SUFFICES ASSUME LookupKind(Root, DirName[d])' = "dir" PROVE FALSE
      OBVIOUS
    <3>1. PICK i : i = Lookup(Root, DirName[d])'
      OBVIOUS
    <3>2. i # 0 /\ dirent'[Root][i].kind = "dir"
      BY <3>1 DEF LookupKind
    <3>3. i \in Slot /\ dirent'[Root][i].name = DirName[d]
      BY <3>1, <3>2, LookupFactsNext, ConstantsOK DEF SInv, IInv, LookupsFind
    <3>4. NameAt(Root, i)' = target /\ target' = target
      BY <1>1, <1>3, <3>3 DEF NameAt, PutEntry, Reset
    <3> QED
      BY <3>2, <3>3, <3>4, ConstantsOK DEF SInv, Listing, IInv, TypeOK
  <2> QED
    BY <2>1, <2>2 DEF Reachable
<1> QED
  BY <1>2, <1>3

\* A file that is whole after a step, and was not just written, was whole
\* before and reads as it did.
LEMMA ReadStays ==
  ASSUME Careful, SInv, SInv', [Next]_vars, NEW f \in File, Whole(f)', Puts => f # target
  PROVE  Whole(f) /\ ReadFile(f)' = ReadFile(f)
<1>1. PICK clus \in Owned, new \in SUBSET Cluster, rank \in [Cluster -> Nat] : Fits(clus, new, rank)
  BY DEF SInv, Layout
<1>2. f[1] \in Dir /\ f[2] \in Name /\ f = <<f[1], f[2]>> /\ TypeOK /\ Chained(clus)
  BY <1>1 DEF File, SInv, IInv, Fits
<1>3. PICK i : i = Lookup(f[1], f[2])
  OBVIOUS
<1>4. i # 0 => i \in Slot /\ NameAt(f[1], i) = f
  BY <1>2, <1>3, LookupFacts DEF SInv, IInv, LookupsFind, NameAt
<1>5. ASSUME Lookup(f[1], f[2])' = i, i # 0 => dirent'[f[1]][i] = dirent[f[1]][i],
             Reachable(f[1])' = Reachable(f[1]),
             i # 0 /\ dirent[f[1]][i].kind = "file" =>
               Sound(f[1], i) /\ \A c \in clus[f[1]][i] : fat1'[c] = fat1[c] /\ data'[c] = data[c]
      PROVE  ReadFile(f)' = ReadFile(f)
  <2>1. i # 0 => EntryOf(f)' = EntryOf(f)
    BY <1>3, <1>5 DEF EntryOf
  <2>2. Legible(f) => /\ Sound(f[1], Lookup(f[1], f[2]))
                      /\ \A c \in clus[f[1]][Lookup(f[1], f[2])] : fat1'[c] = fat1[c] /\ data'[c] = data[c]
    BY <1>3, <1>5 DEF Legible
  <2>3. Lookup(f[1], f[2]) \in {0} \cup Slot
    BY <1>3, <1>4
  <2> QED
    BY <1>2, <1>3, <1>5, <2>1, <2>2, <2>3, ReadSame
<1>6. CASE ~Puts
  <2>1. UNCHANGED dirent /\ (\A g : Whole(g)' => Whole(g)) /\ Keeps(clus)
    BY <1>1, <1>6, NextKeeps
  <2>2. Lookup(f[1], f[2])' = i /\ Reachable(f[1])' = Reachable(f[1])
    BY <1>3, <2>1 DEF Lookup, Matches, Reachable, LookupKind
  <2>3. i # 0 /\ dirent[f[1]][i].kind = "file" => Sound(f[1], i)'
    <3>1. NameAt(f[1], i)' = NameAt(f[1], i)
      BY <2>1 DEF NameAt
    <3> QED
      BY <1>4, <2>1, <3>1 DEF Sound, Whole
  <2>4. i # 0 /\ dirent[f[1]][i].kind = "file" =>
          Sound(f[1], i) /\ \A c \in clus[f[1]][i] : fat1'[c] = fat1[c] /\ data'[c] = data[c]
    BY <1>2, <1>4, <2>1, <2>3 DEF Keeps
  <2> QED
    BY <1>5, <2>1, <2>2, <2>4
<1>7. CASE Puts
  <2>0. PutEntry
    BY <1>7 DEF Puts, WriteEntry, LateError
  <2>1. /\ Lookup(f[1], f[2])' = i /\ (i # 0 => dirent'[f[1]][i] = dirent[f[1]][i])
        /\ Reachable(f[1])' = Reachable(f[1])
    BY <1>2, <1>3, <1>7, <2>0, CommitLookups, CommitReachable
  <2>2. UNCHANGED <<fat1, data>> /\ damaged' = damaged \ {target}
    BY <2>0 DEF PutEntry
  <2>3. Whole(f)
    BY <1>7, <2>2 DEF Whole, Replacing
  <2>4. i # 0 /\ dirent[f[1]][i].kind = "file" => Sound(f[1], i)
    BY <1>4, <2>3 DEF Sound, Whole
  <2> QED
    BY <1>5, <2>1, <2>2, <2>3, <2>4
<1> QED
  BY <1>6, <1>7

\* The file just written reads back what the caller passed: the k-th sector
\* is found in the cluster of rank (k - 1) \div SecPerClus.
LEMMA ReadBack ==
  ASSUME Careful, SInv, SInv', PutEntry, Reachable(target[1])
  PROVE  ReadFile(target)' = {NewContent(writes, sz)}
<1>1. PICK clus \in Owned, new \in SUBSET Cluster, rank \in [Cluster -> Nat] : Fits(clus, new, rank)
  BY DEF SInv, Layout
<1>2. PICK d \in Dir, i \in Slot :
        /\ d = target[1]
        /\ dirent'[d][i] = [kind |-> "file", name |-> target[2], first |-> first, size |-> sz]
  BY CommitOthers DEF SInv
<1>3. /\ pc = "entry" /\ UNCHANGED <<fat1, data, target>>
  BY DEF PutEntry, Reset
<1>4. Taken(clus, new, rank)
  BY <1>1, <1>3 DEF Fits, Chaining, Building
<1>5. PICK n \in Nat : n = sz
  BY ConstantsOK DEF SInv, IInv, TypeOK
<1>6. PICK start, last, w : start = first /\ last = prev /\ w = writes
  OBVIOUS
<1>7. /\ start \in new /\ last \in new /\ rank[start] = 0
      /\ \A x \in new : x # last => fat1[x] \in new /\ rank[fat1[x]] = rank[x] + 1
      /\ n <= rank[last] * SecPerClus + SecPerClus
      /\ \A c \in new, j \in 0 .. SecPerClus - 1 :
           rank[c] * SecPerClus + j < n =>
             c <= LastCluster /\ data[c][j] = <<w, rank[c] * SecPerClus + j + 1>>
  <2>1. pos = sz /\ sz <= rank[prev] * SecPerClus + SecPerClus
        /\ \A c \in new, j \in 0 .. SecPerClus - 1 :
             rank[c] * SecPerClus + j < pos =>
               c <= LastCluster /\ data[c][j] = <<writes, rank[c] * SecPerClus + j + 1>>
    BY <1>1, <1>3 DEF Fits, Filled
  <2> QED
    BY <1>4, <1>5, <1>6, <2>1 DEF Taken
<1>8. /\ Lookup(d, target[2])' = i /\ i # 0
  <2>1. PICK nm : nm = target[2]
    OBVIOUS
  <2>2. Live(d, i)' /\ dirent'[d][i].name = nm
    BY <1>2, <2>1 DEF Live
  <2>3. Lookup(d, nm)' = i
    BY <2>2, LookupFactsNext DEF SInv, IInv, LookupsFind
  <2> QED
    BY <1>3, <2>1, <2>3 DEF Slot
<1>9. Legible(target)' /\ EntryOf(target)' = [kind |-> "file", name |-> target[2], first |-> first, size |-> sz]
  <2>1. Lookup(target[1], target[2])' = i
    BY <1>2, <1>3, <1>8
  <2>2. Reachable(target[1])'
    <3>1. Reachable(d) /\ Reachable(d)' = Reachable(d)
      BY <1>2, CommitReachable
    <3> QED
      BY <1>2, <1>3, <3>1
  <2> QED
    BY <1>2, <1>3, <1>8, <2>1, <2>2 DEF Legible, EntryOf
<1>10. PICK g : g = ChainAt(start, n)'
  OBVIOUS
<1>11. IsChain(g, fat1, start, n)
  BY <1>3, <1>10, ChainAtStep
<1>12. \A k \in 0 .. n : k <= rank[last] => g[k] \in new /\ rank[g[k]] = k
  BY <1>7, <1>11, ChainRanks
<1>13. ReadFile(target)' = ReadAt(TRUE, g, n, data)
  <2>1. EntryOf(target)'.first = start /\ EntryOf(target)'.size = n
    BY <1>5, <1>6, <1>9
  <2>2. ChainOfSize(EntryOf(target))' = g
    BY <1>10, <2>1 DEF ChainOfSize
  <2>3. ReadFile(target)' = ReadAt(Legible(target)', ChainOfSize(EntryOf(target))', EntryOf(target)'.size, data')
    BY ReadUnfoldNext DEF Unfolded, ReadAt
  <2> QED
    BY <1>3, <1>9, <2>1, <2>2, <2>3
<1>14. ASSUME NEW k \in 1 .. n
       PROVE  /\ Home(g, n)[k] \in 2 .. LastCluster
              /\ data[Home(g, n)[k]][(k - 1) % SecPerClus] = <<w, k>>
  <2>1. PICK B \in Nat \ {0} : B = SecPerClus
    BY ConstantsOK
  <2>2. PICK a \in Nat : a = k - 1
    OBVIOUS
  <2>3. PICK q \in Nat, t \in 0 .. B - 1 : q = a \div B /\ t = a % B /\ a = q * B + t /\ q <= a
    BY <2>1, <2>2, DivMod
  <2>4. PICK r \in Nat : r = rank[last]
    BY <1>7
  <2>5. q <= r
    <3> SUFFICES ASSUME r + 1 <= q PROVE FALSE
      OBVIOUS
    <3>1. r * B \in Nat /\ q * B \in Nat /\ (r + 1) * B = r * B + B /\ (r + 1) * B <= q * B
      BY TimesMonotone, TimesNext
    <3>2. n <= r * B + B /\ a < n
      BY <1>7, <2>1, <2>2, <2>4
    <3> QED
      BY <2>3, <3>1, <3>2
  <2>6. PICK c \in new : c = g[q] /\ rank[c] = q
    BY <1>12, <2>2, <2>3, <2>4, <2>5
  <2>7. rank[c] * SecPerClus + t = a /\ a < n
    BY <2>1, <2>2, <2>3, <2>6
  <2>8. c <= LastCluster /\ data[c][t] = <<w, a + 1>>
    BY <1>7, <2>1, <2>6, <2>7
  <2>9. Home(g, n)[k] = c /\ (k - 1) % SecPerClus = t /\ a + 1 = k
    BY <2>1, <2>2, <2>3, <2>6 DEF Home
  <2>10. c \in 2 .. LastCluster
    BY <2>8, ConstantsOK DEF Cluster
  <2> QED
    BY <2>8, <2>9, <2>10
<1>15. Sectors(data, Home(g, n), n) = NewContent(w, n)
  BY <1>14 DEF Sectors, NewContent
<1> QED
  BY <1>5, <1>6, <1>13, <1>14, <1>15 DEF ReadAt

-----------------------------------------------------------------------------
(* What was saved can be read.                                             *)

\* The content of the last save that returned 0 is still there, unless a
\* failed or unfinished save has given its clusters back.
Kept ==
  /\ saved = [f \in File |-> saved[f]]
  /\ \A f \in File : saved[f] # {} => f \notin damaged /\ (~Replacing(f) => ReadFile(f) = saved[f])
  /\ pc # "idle" => Reachable(target[1])

KInv == SInv /\ Kept

\* What the step that writes the entry may report.
LEMMA PutOutcome ==
  ASSUME Puts
  PROVE  /\ PutEntry
         /\ \/ result' = "ok" /\ saved' = [saved EXCEPT ![target] = {NewContent(writes, sz)}] /\ UNCHANGED failures
            \/ result' = "failed" /\ saved' = [saved EXCEPT ![target] = {}] /\ failures' = failures + 1
BY DEF Puts, WriteEntry, LateError

LEMMA NextKept ==
  ASSUME Careful, KInv, [Next]_vars
  PROVE  KInv'
<1>1. SInv /\ SInv' /\ Kept /\ target \in File
  BY NextSInv, TargetType DEF KInv, SInv, IInv
<1>2. ASSUME NEW f \in File, Whole(f)', Puts => f # target
      PROVE  Whole(f) /\ ReadFile(f)' = ReadFile(f)
  BY <1>1, <1>2, ReadStays
<1>3. pc' # "idle" => Reachable(target[1])'
  <2>1. CASE Call
    <3>1. PICK f \in Target, n \in 0 .. MaxSectors : Begin(f, n)
      BY <1>1, <2>1, CallBegins DEF SInv
    <3>2. UNCHANGED dirent /\ target' = f /\ Reachable(f[1])
      BY <3>1 DEF Begin, Enter, disk
    <3> QED
      BY <3>2 DEF Reachable, LookupKind, Lookup, Matches
  <2>2. CASE Puts \/ DiskFull \/ PastEnd \/ ShortChain \/ DirFull \/ Interrupt
    BY <2>2 DEF Puts, WriteEntry, LateError, PutEntry, DiskFull, PastEnd, ShortChain, DirFull, Interrupt, Abandon, Reset
  <2>3. CASE \/ FreeCluster \/ FreeDone \/ AllocCluster \/ AllocDone \/ Mirror
             \/ WriteSector \/ NextCluster \/ DataDone \/ UNCHANGED vars
    <3>1. UNCHANGED <<dirent, target>> /\ (pc' # "idle" => pc # "idle")
      BY <2>3 DEF FreeCluster, FreeDone, AllocCluster, AllocDone, Mirror, WriteSector, NextCluster, DataDone,
                  vars, disk, call
    <3> QED
      BY <1>1, <3>1 DEF Kept, Reachable, LookupKind, Lookup, Matches
  <2> QED
    BY <2>1, <2>2, <2>3 DEF Next, Step, Puts
<1>4. CASE Puts
  <2>0. PutEntry
    BY <1>4, PutOutcome
  <2>1. PICK now \in {{}, {NewContent(writes, sz)}} : saved' = [saved EXCEPT ![target] = now]
    BY <1>1, <1>4, PutOutcome
  <2>10. damaged' = damaged \ {target} /\ pc = "entry" /\ pc' = "idle"
    BY <2>0 DEF PutEntry, Reset
  <2>2. saved' = [f \in File |-> saved'[f]]
    BY <1>1, <2>1 DEF Kept
  <2>3. ASSUME NEW f \in File, saved'[f] # {}
        PROVE  f \notin damaged' /\ (~Replacing(f)' => ReadFile(f)' = saved'[f])
    <3>1. CASE f = target
      <4>1. saved'[f] = {NewContent(writes, sz)} /\ f \notin damaged'
        BY <1>1, <2>1, <2>3, <2>10, <3>1 DEF Kept
      <4>2. ReadFile(target)' = {NewContent(writes, sz)} /\ target' = target
        BY <1>1, <2>0, <2>10, ReadBack DEF Kept, PutEntry, Reset
      <4>3. ReadFile(f)' = {NewContent(writes, sz)}
        BY <3>1, <4>2, Zenon
      <4> QED
        BY <4>1, <4>3
    <3>2. CASE f # target
      <4>1. saved'[f] = saved[f]
        BY <1>1, <2>1, <3>2 DEF Kept
      <4>2. f \notin damaged /\ ~Replacing(f) /\ ReadFile(f) = saved[f]
        BY <1>1, <2>3, <3>2, <4>1 DEF Kept, Replacing
      <4>3. ~Replacing(f)' => Whole(f)'
        BY <2>10, <4>2 DEF Whole
      <4> QED
        BY <1>2, <2>10, <3>2, <4>1, <4>2, <4>3
    <3> QED
      BY <3>1, <3>2
  <2> QED
    BY <1>1, <1>3, <2>2, <2>3 DEF KInv, Kept
<1>5. CASE ~Puts
  <2>1. /\ saved' = [f \in File |-> saved'[f]]
        /\ \A f \in File : saved'[f] # {} => saved'[f] = saved[f] /\ (f \notin damaged => f \notin damaged')
    <3>1. CASE Abandon
      BY <1>1, <3>1 DEF Abandon, Kept
    <3>2. CASE ~Abandon
      <4>1. UNCHANGED <<saved, damaged>>
        BY <1>5, <3>2
        DEF Next, Step, Puts, Call, Begin, BeginBlind, Enter, FreeCluster, FreeDone, AllocCluster, AllocDone, Mirror,
            WriteSector, NextCluster, DataDone, DiskFull, PastEnd, ShortChain, DirFull, Interrupt, vars, hist
      <4> QED
        BY <1>1, <4>1 DEF Kept
    <3> QED
      BY <3>1, <3>2
  <2>2. ASSUME NEW f \in File, saved'[f] # {}
        PROVE  f \notin damaged' /\ (~Replacing(f)' => ReadFile(f)' = saved'[f])
    <3>1. saved'[f] = saved[f] /\ f \notin damaged'
      BY <1>1, <2>1, <2>2 DEF Kept
    <3>2. ASSUME ~Replacing(f)'
          PROVE  ReadFile(f)' = saved'[f]
      <4>1. Whole(f)'
        BY <3>1, <3>2 DEF Whole
      <4>2. Whole(f) /\ ReadFile(f)' = ReadFile(f)
        BY <1>2, <1>5, <4>1
      <4> QED
        BY <1>1, <2>2, <3>1, <4>2 DEF Kept, Whole
    <3> QED
      BY <3>1, <3>2
  <2> QED
    BY <1>1, <1>3, <2>1, <2>2 DEF KInv, Kept
<1> QED
  BY <1>4, <1>5

LEMMA InitKept == Careful /\ Init => KInv
<1> SUFFICES ASSUME Careful, Init PROVE KInv
  OBVIOUS
<1>1. SInv
  BY InitInv, InitLayout DEF SInv
<1>2. saved = [f \in File |-> ReadFile(f)] /\ damaged = {} /\ pc = "idle"
  BY DEF Init
<1>3. \A f \in File : saved[f] = ReadFile(f)
  BY <1>2, Zenon
<1>4. saved = [f \in File |-> saved[f]]
  BY <1>2, <1>3, Zenon
<1> QED
  BY <1>1, <1>2, <1>3, <1>4 DEF KInv, Kept

LEMMA KeptAlways == Careful => (Spec => []KInv)
<1> SUFFICES ASSUME Careful PROVE Spec => []KInv
  OBVIOUS
<1>1. Init => KInv
  BY InitKept
<1>2. KInv /\ [Next]_vars => KInv'
  BY NextKept
<1> QED
  BY <1>1, <1>2, PTL DEF Spec

\* For every volume, every bound and every pattern of full disks, full
\* directories, I/O errors and power losses, as long as damaged files are left
\* alone: what fat32_write_file_path reported as saved reads back.
THEOREM SavesAreRead == Careful => (Spec => []SavedReadable)
<1>1. KInv => SavedReadable
  BY DEF KInv, Kept, SavedReadable
<1> QED
  BY <1>1, KeptAlways, PTL

-----------------------------------------------------------------------------
(* fat32_write_file_path implements FileStore.                             *)

StoreNow == [f \in File |-> IF f \in damaged \/ Replacing(f) THEN {} ELSE ReadFile(f)]
JobNow   == IF pc = "idle" THEN {} ELSE {<<target, NewContent(writes, sz)>>}

LEMMA StartsAsStore == Init => Store!Init
<1> SUFFICES ASSUME Init PROVE Store!Init
  OBVIOUS
<1>1. JobNow = {} /\ result = "none"
  BY DEF Init, JobNow
<1>2. DOMAIN StoreNow = File
  BY DEF StoreNow
<1>3. \A f \in File : \A b, c \in StoreNow[f] : b = c
  <2> SUFFICES ASSUME NEW f \in File, NEW b \in StoreNow[f], NEW c \in StoreNow[f] PROVE b = c
    OBVIOUS
  <2>1. StoreNow[f] = {} \/ StoreNow[f] = ReadFile(f)
    BY DEF StoreNow
  <2>2. b \in ReadFile(f) /\ c \in ReadFile(f)
    BY <2>1
  <2> QED
    BY <2>2, ReadUnfold DEF Unfolded, ReadAt
<1> QED
  BY <1>1, <1>2, <1>3 DEF Store!Init, StoreNow, JobNow

\* Steps of the call that the store does not see.
LEMMA StoreStays ==
  ASSUME \A f \in File : Whole(f)' = Whole(f) /\ (Whole(f)' => ReadFile(f)' = ReadFile(f))
  PROVE  StoreNow' = StoreNow
<1>1. ASSUME NEW f \in File
      PROVE  (IF f \in damaged' \/ Replacing(f)' THEN {} ELSE ReadFile(f)')
               = IF f \in damaged \/ Replacing(f) THEN {} ELSE ReadFile(f)
  BY DEF Whole
<1> QED
  BY <1>1 DEF StoreNow

LEMMA StoreChanges ==
  ASSUME NEW t \in File, NEW v, (IF t \in damaged' \/ Replacing(t)' THEN {} ELSE ReadFile(t)') = v,
         \A f \in File : f # t => Whole(f)' = Whole(f) /\ (Whole(f)' => ReadFile(f)' = ReadFile(f))
  PROVE  StoreNow' = [StoreNow EXCEPT ![t] = v]
<1>1. ASSUME NEW f \in File
      PROVE  (IF f \in damaged' \/ Replacing(f)' THEN {} ELSE ReadFile(f)')
               = IF f = t THEN v ELSE IF f \in damaged \/ Replacing(f) THEN {} ELSE ReadFile(f)
  BY DEF Whole
<1>2. [StoreNow EXCEPT ![t] = v] = [f \in File |-> IF f = t THEN v ELSE StoreNow[f]]
  BY DEF StoreNow
<1>3. \A f \in File : StoreNow[f] = IF f \in damaged \/ Replacing(f) THEN {} ELSE ReadFile(f)
  BY DEF StoreNow
<1> QED
  BY <1>1, <1>2, <1>3 DEF StoreNow

\* The steps of the store, in terms of the call's state.
LEMMA StoreSteps ==
  ASSUME NEW f \in File, NEW c
  PROVE  /\ /\ JobNow = {} /\ JobNow' = {<<f, c>>} /\ StoreNow' = StoreNow /\ result' = result
            /\ \E w \in 1 .. MaxWrites, n \in 0 .. MaxSectors : c = NewContent(w, n)
            => Store!Next
         /\ /\ JobNow = {<<f, c>>} /\ JobNow' = JobNow /\ result' = result
            /\ StoreNow' = [StoreNow EXCEPT ![f] = {}]
            => Store!Next
         /\ /\ JobNow = {<<f, c>>} /\ JobNow' = {} /\ result' = "ok"
            /\ StoreNow' = [StoreNow EXCEPT ![f] = {c}]
            => Store!Next
         /\ /\ JobNow = {<<f, c>>} /\ JobNow' = {} /\ result' = "failed"
            /\ StoreNow' = StoreNow \/ StoreNow' = [StoreNow EXCEPT ![f] = {c}]
            => Store!Next
         /\ JobNow' = JobNow /\ result' = result /\ StoreNow' = StoreNow => UNCHANGED Store!vars
<1> DEFINE j == <<f, c>>
<1>1. j[1] = f /\ j[2] = c
  OBVIOUS
<1>2. ASSUME JobNow = {}, JobNow' = {j}, StoreNow' = StoreNow, result' = result,
             \E w \in 1 .. MaxWrites, n \in 0 .. MaxSectors : c = NewContent(w, n)
      PROVE  Store!Next
  <2>1. Store!Start(f, c)
    BY <1>2 DEF Store!Start, StoreNow, JobNow
  <2>2. c \in {NewContent(w, n) : w \in 1 .. MaxWrites, n \in 0 .. MaxSectors}
    BY <1>2
  <2> QED
    BY <2>1, <2>2 DEF Store!Next
<1>3. ASSUME JobNow = {j}, Store!Drop(j) \/ Store!Commit(j) \/ Store!Fail(j)
      PROVE  Store!Next
  <2>1. j \in JobNow
    BY <1>3
  <2> QED
    BY <1>3, <2>1 DEF Store!Next, JobNow
<1> HIDE DEF j
<1>4. JobNow = {j} /\ JobNow' = JobNow /\ result' = result /\ StoreNow' = [StoreNow EXCEPT ![f] = {}] => Store!Drop(j)
  BY <1>1 DEF Store!Drop, StoreNow, JobNow
<1>5. JobNow = {j} /\ JobNow' = {} /\ result' = "ok" /\ StoreNow' = [StoreNow EXCEPT ![f] = {c}] => Store!Commit(j)
  BY <1>1 DEF Store!Commit, StoreNow, JobNow
<1>6. JobNow = {j} /\ JobNow' = {} /\ result' = "failed"
      /\ (StoreNow' = StoreNow \/ StoreNow' = [StoreNow EXCEPT ![f] = {c}])
        => Store!Fail(j)
  BY <1>1 DEF Store!Fail, StoreNow, JobNow
<1>7. JobNow' = JobNow /\ result' = result /\ StoreNow' = StoreNow => UNCHANGED Store!vars
  BY DEF Store!vars, StoreNow, JobNow
<1> QED
  BY <1>2, <1>3, <1>4, <1>5, <1>6, <1>7 DEF j

LEMMA NextStore ==
  ASSUME Careful, KInv, KInv', [Next]_vars
  PROVE  [Store!Next]_(Store!vars)
<1>1. SInv /\ SInv' /\ Kept /\ target \in File
  BY TargetType DEF KInv, SInv, IInv
<1>2. ASSUME NEW f \in File, Whole(f)', Puts => f # target
      PROVE  Whole(f) /\ ReadFile(f)' = ReadFile(f)
  BY <1>1, <1>2, ReadStays
<1>3. PICK t \in File, c \in {NewContent(writes, sz)} : t = target /\ c = NewContent(writes, sz)
  BY <1>1
<1>4. pc # "idle" => JobNow = {<<t, c>>}
  BY <1>3 DEF JobNow
<1>5. CASE Call
  <2>1. PICK f \in Target, n \in 0 .. MaxSectors : Begin(f, n)
    BY <1>1, <1>5, CallBegins DEF SInv
  <2>2. /\ pc = "idle" /\ pc' = "free" /\ target' = f /\ sz' = n /\ writes' = writes + 1 /\ writes < MaxWrites
        /\ UNCHANGED <<dirent, damaged, result>> /\ f \in File
    BY <2>1, ConstantsOK DEF Begin, Enter, disk
  <2>3. ~Destroyed'
    BY <1>1, <2>1, <2>2, EnterTarget DEF SInv, Destroyed
  <2>4. \A g \in File : Whole(g)' = Whole(g) /\ (Whole(g)' => ReadFile(g)' = ReadFile(g))
    <3>1. ~Puts
      BY <2>2 DEF Puts, WriteEntry, LateError, PutEntry
    <3> QED
      BY <1>2, <2>2, <2>3, <3>1 DEF Whole, Replacing
  <2>5. StoreNow' = StoreNow
    BY <2>4, StoreStays
  <2>6. PICK w \in 1 .. MaxWrites : w = writes'
    BY <1>1, <2>2, ConstantsOK DEF SInv, IInv, TypeOK
  <2>7. JobNow = {} /\ JobNow' = {<<f, NewContent(w, n)>>}
    BY <2>2, <2>6 DEF JobNow
  <2> QED
    BY <2>2, <2>5, <2>7, StoreSteps
<1>6. CASE FreeCluster
  <2>1. /\ pc = "free" /\ pc' = "free" /\ cur \in Cluster /\ UNCHANGED <<damaged, target, sz, writes, result>>
    BY <1>6 DEF FreeCluster, call, hist
  <2>2. has
    BY <1>1, <2>1 DEF SInv, Listing, Cluster
  <2>3. Replacing(target)'
    <3>1. PICK clus \in Owned : Chained(clus)
      BY <1>1 DEF SInv, Layout, Fits
    <3> QED
      BY <1>1, <1>6, <2>2, <3>1, FreeClusterSound
  <2>4. \A f \in File : f # t => Whole(f)' = Whole(f) /\ (Whole(f)' => ReadFile(f)' = ReadFile(f))
    <3>1. ~Puts
      BY <2>1 DEF Puts, WriteEntry, LateError, PutEntry
    <3> QED
      BY <1>2, <1>3, <2>1, <3>1 DEF Whole, Replacing
  <2>5. Replacing(t)'
    BY <1>3, <2>1, <2>3 DEF Replacing
  <2>6. StoreNow' = [StoreNow EXCEPT ![t] = {}]
    BY <2>4, <2>5, StoreChanges
  <2>7. JobNow = {<<t, c>>} /\ JobNow' = JobNow
    BY <1>4, <2>1 DEF JobNow
  <2> QED
    BY <2>1, <2>6, <2>7, StoreSteps
<1>7. CASE \/ FreeDone \/ AllocCluster \/ AllocDone \/ Mirror \/ WriteSector \/ NextCluster \/ DataDone
           \/ UNCHANGED vars
  <2>1. /\ UNCHANGED <<dirent, damaged, target, has, off, cur, sz, writes, result>>
        /\ (pc # "idle" /\ pc' # "idle") \/ pc' = pc
        /\ ~Puts
    <3>1. UNCHANGED <<dirent, damaged, target, has, off, cur, sz, writes, result>>
          /\ ((pc # "idle" /\ pc' # "idle") \/ pc' = pc)
      BY <1>7 DEF FreeDone, AllocCluster, AllocDone, Mirror, WriteSector, NextCluster, DataDone,
                  vars, disk, call, chain, hist
    <3>2. Puts => pc = "entry" /\ pc' = "idle"
      BY DEF Puts, WriteEntry, LateError, PutEntry, Reset
    <3> QED
      BY <3>1, <3>2
  <2>2. \A f \in File : Whole(f)' = Whole(f) /\ (Whole(f)' => ReadFile(f)' = ReadFile(f))
    BY <1>2, <2>1 DEF Whole, Replacing, Destroyed
  <2>3. StoreNow' = StoreNow
    BY <2>2, StoreStays
  <2>4. JobNow' = JobNow
    BY <2>1 DEF JobNow
  <2> QED
    BY <2>1, <2>3, <2>4, StoreSteps
<1>8. CASE (DiskFull \/ PastEnd \/ ShortChain \/ DirFull \/ Interrupt) /\ ~Puts
  <2>1. Abandon /\ pc # "idle"
    BY <1>8 DEF DiskFull, PastEnd, ShortChain, DirFull, Interrupt
  <2>2. /\ pc' = "idle" /\ result' = "failed" /\ target' = target
        /\ damaged' = IF Destroyed THEN damaged \cup {target} ELSE damaged
    BY <2>1 DEF Abandon, Reset
  <2>4. \A f \in File : Whole(f)' = Whole(f) /\ (Whole(f)' => ReadFile(f)' = ReadFile(f))
    BY <1>2, <1>8, <2>1, <2>2 DEF Whole, Replacing
  <2>5. StoreNow' = StoreNow
    BY <2>4, StoreStays
  <2>6. JobNow = {<<t, c>>} /\ JobNow' = {}
    BY <1>4, <2>1, <2>2 DEF JobNow
  <2> QED
    BY <2>2, <2>5, <2>6, StoreSteps
<1>9. CASE Puts
  <2>0. /\ PutEntry
        /\ result' = "ok" \/ result' = "failed"
    BY <1>9, PutOutcome
  <2>1. /\ pc = "entry" /\ pc' = "idle" /\ target' = target
        /\ damaged' = damaged \ {target}
    BY <2>0 DEF PutEntry, Reset
  <2>2. ReadFile(target)' = {NewContent(writes, sz)}
    BY <1>1, <2>0, <2>1, ReadBack DEF Kept
  <2>3. ReadFile(t)' = {c}
    BY <1>3, <2>1, <2>2, Zenon
  <2>4. t \notin damaged' /\ ~Replacing(t)'
    BY <1>3, <2>1 DEF Replacing
  <2>5. \A f \in File : f # t => Whole(f)' = Whole(f) /\ (Whole(f)' => ReadFile(f)' = ReadFile(f))
    BY <1>2, <1>3, <2>1 DEF Whole, Replacing
  <2>6. StoreNow' = [StoreNow EXCEPT ![t] = {c}]
    BY <2>3, <2>4, <2>5, StoreChanges
  <2>7. JobNow = {<<t, c>>} /\ JobNow' = {}
    BY <1>4, <2>1 DEF JobNow
  <2> QED
    BY <2>0, <2>6, <2>7, StoreSteps
<1> QED
  BY <1>5, <1>6, <1>7, <1>8, <1>9 DEF Next, Step, Puts

\* Under the same condition a save that returns 0 has delivered its content, one
\* that fails leaves the old content, none, or the whole of the new one (its
\* last write was reported as failed but reached the disk), and no save touches
\* another file than its own.
THEOREM ImplementsStore == Careful => (Spec => ImplementsFileStore)
<1> SUFFICES ASSUME Careful PROVE Spec => ImplementsFileStore
  OBVIOUS
<1>1. Spec => []KInv
  BY KeptAlways
<1>2. KInv /\ KInv' /\ [Next]_vars => [Store!Next]_(Store!vars)
  BY NextStore
<1> QED
  BY <1>1, <1>2, StartsAsStore, PTL DEF Spec, ImplementsFileStore, Store!Spec
-----------------------------------------------------------------------------
(* No cluster is lost.  Where an allocated cluster belongs is said exactly: *)
(* it lies on a chain, the least set that its links stay in.               *)

ClosedIn(fat, S) == \A y \in S : fat[y] \in Cluster => fat[y] \in S
Leads(fat, c) == {x \in Cluster : \A S \in SUBSET Cluster : (c \in Cluster => c \in S) /\ ClosedIn(fat, S) => x \in S}

LEMMA LeadsFacts ==
  ASSUME NEW fat, NEW c
  PROVE  /\ Leads(fat, c) \in SUBSET Cluster /\ ClosedIn(fat, Leads(fat, c)) /\ (c \in Cluster => c \in Leads(fat, c))
         /\ \A S \in SUBSET Cluster : (c \in Cluster => c \in S) /\ ClosedIn(fat, S) => Leads(fat, c) \subseteq S
         /\ c \notin Cluster => Leads(fat, c) = {}
<1>1. ClosedIn(fat, Leads(fat, c))
  <2> SUFFICES ASSUME NEW y \in Leads(fat, c), fat[y] \in Cluster,
                      NEW S \in SUBSET Cluster, c \in Cluster => c \in S, ClosedIn(fat, S)
               PROVE  fat[y] \in S
    BY DEF ClosedIn, Leads
  <2>1. y \in S
    BY DEF Leads
  <2> QED
    BY <2>1 DEF ClosedIn
<1>2. \A S \in SUBSET Cluster : (c \in Cluster => c \in S) /\ ClosedIn(fat, S) => Leads(fat, c) \subseteq S
  BY DEF Leads
<1>3. c \notin Cluster => Leads(fat, c) = {}
  <2>1. {} \in SUBSET Cluster /\ ClosedIn(fat, {})
    BY DEF ClosedIn
  <2> QED
    BY <1>2, <2>1
<1> QED
  BY <1>1, <1>2, <1>3 DEF Leads

\* A chain grows when its end, or a cluster that leads to itself, is linked on.
LEMMA LeadsMore ==
  ASSUME NEW fat, NEW next, NEW c, NEW p, fat[p] \in Cluster => fat[p] = p,
         \A x \in Cluster : x # p => next[x] = fat[x]
  PROVE  Leads(fat, c) \subseteq Leads(next, c)
<1>1. ClosedIn(fat, Leads(next, c))
  <2>1. \A y \in Leads(next, c) : y \in Cluster /\ (next[y] \in Cluster => next[y] \in Leads(next, c))
    BY LeadsFacts DEF ClosedIn
  <2> QED
    BY <2>1 DEF ClosedIn
<1> QED
  BY <1>1, LeadsFacts

\* A chain stays when the entries changed lie outside a set it stays in.
LEMMA LeadsApart ==
  ASSUME NEW fat, NEW next, NEW c, NEW S \in SUBSET Cluster, c \in Cluster => c \in S, ClosedIn(fat, S),
         \A x \in S : next[x] = fat[x]
  PROVE  Leads(fat, c) \subseteq Leads(next, c)
<1> DEFINE T == S \cap Leads(next, c)
<1>1. T \in SUBSET Cluster /\ (c \in Cluster => c \in T)
  BY LeadsFacts
<1>2. ClosedIn(fat, T)
  <2>1. \A y \in Leads(next, c) : next[y] \in Cluster => next[y] \in Leads(next, c)
    BY LeadsFacts DEF ClosedIn
  <2> QED
    BY <2>1 DEF ClosedIn
<1>3. Leads(fat, c) \subseteq T
  <2> HIDE DEF T
  <2> QED
    BY <1>1, <1>2, LeadsFacts
<1> QED
  BY <1>3

\* What is left of a chain when its first cluster is freed.
LEMMA LeadsOn ==
  ASSUME NEW fat, NEW next, NEW c, NEW x \in Leads(fat, c), x # c,
         \A y \in Cluster : y # c => next[y] = fat[y]
  PROVE  x \in Leads(next, fat[c])
<1> DEFINE T == (Leads(next, fat[c]) \cup {c}) \cap Cluster
<1>1. T \in SUBSET Cluster /\ (c \in Cluster => c \in T)
  OBVIOUS
<1>2. ClosedIn(fat, T)
  <2> SUFFICES ASSUME NEW y \in T, fat[y] \in Cluster PROVE fat[y] \in Leads(next, fat[c])
    BY DEF ClosedIn
  <2>1. CASE y = c
    BY <2>1, LeadsFacts
  <2>2. CASE y # c
    <3>1. next[y] = fat[y] /\ y \in Leads(next, fat[c])
      BY <2>2
    <3> QED
      BY <3>1, LeadsFacts DEF ClosedIn
  <2> QED
    BY <2>1, <2>2
<1>3. Leads(fat, c) \subseteq T
  <2> HIDE DEF T
  <2> QED
    BY <1>1, <1>2, LeadsFacts
<1> QED
  BY <1>3

\* A chain of more clusters than there are comes back to one of them: from
\* there on it repeats itself.
LEMMA ChainRepeats ==
  ASSUME NEW g, NEW fat, NEW c, NEW n \in Nat, IsChain(g, fat, c, n), g[n] \in Cluster, Entries <= n
  PROVE  \E i \in 0 .. n - 1, j \in 1 .. n : i < j /\ g[i] = g[j]
<1>1. \A k \in 1 .. n : g[k] = IF g[k - 1] \in Cluster THEN fat[g[k - 1]] ELSE 0
  BY ChainValues
<1>2. \A k \in 0 .. n : g[k] \in Cluster
  <2> DEFINE Bad == {m \in 0 .. n : g[n - m] \notin Cluster}
  <2>1. Bad = {}
    <3> SUFFICES ASSUME Bad # {} PROVE FALSE
      OBVIOUS
    <3>1. PICK m \in Bad : \A y \in Bad : m <= y
      <4>1. Bad \in SUBSET Nat
        OBVIOUS
      <4> HIDE DEF Bad
      <4> QED
        BY <4>1, Minimum
    <3>2. m # 0 /\ m \in 1 .. n
      OBVIOUS
    <3>3. m - 1 \in 0 .. n /\ ~(m <= m - 1) /\ n - (m - 1) \in 1 .. n /\ (n - (m - 1)) - 1 = n - m
      BY <3>2
    <3>4. g[n - (m - 1)] \in Cluster
      BY <3>1, <3>3
    <3>5. g[n - (m - 1)] = 0
      BY <1>1, <3>1, <3>3
    <3> QED
      BY <3>4, <3>5 DEF Cluster
  <2>2. ASSUME NEW k \in 0 .. n PROVE g[k] \in Cluster
    <3>1. n - k \in 0 .. n /\ n - (n - k) = k
      OBVIOUS
    <3> QED
      BY <2>1, <3>1
  <2> QED
    BY <2>2
<1> DEFINE f == [k \in 0 .. n |-> g[k]]
<1>3. f \in [0 .. n -> Cluster]
  BY <1>2
<1>4. IsFiniteSet(0 .. n) /\ Cardinality(0 .. n) = n + 1
  BY FS_Interval
<1>5. IsFiniteSet(Cluster) /\ Cardinality(Cluster) <= n
  <2>1. /\ IsFiniteSet(Cluster)
        /\ Cardinality(Cluster) = IF 2 > Entries - 1 THEN 0 ELSE (Entries - 1) - 2 + 1
    BY ConstantsOK, FS_Interval DEF Cluster
  <2> QED
    BY <2>1, ConstantsOK
<1>6. PICK x, y \in 0 .. n : x # y /\ f[x] = f[y]
  <2>1. Cardinality(Cluster) < Cardinality(0 .. n)
    BY <1>4, <1>5, FS_CardinalityType
  <2> HIDE DEF f
  <2> QED
    BY <1>3, <1>4, <1>5, <2>1, FS_PigeonHole
<1>7. g[x] = g[y]
  BY <1>6
<1>8. CASE x < y
  <2>1. x \in 0 .. n - 1 /\ y \in 1 .. n
    BY <1>8
  <2> QED
    BY <1>7, <1>8, <2>1
<1>9. CASE y < x
  <2>1. y \in 0 .. n - 1 /\ x \in 1 .. n
    BY <1>9
  <2> QED
    BY <1>7, <1>9, <2>1
<1> QED
  BY <1>6, <1>8, <1>9

\* Chain has every cluster the start leads to.
LEMMA ChainLeads ==
  ASSUME NEW c
  PROVE  Leads(fat1, c) \subseteq Chain(c)
<1> PICK n \in Nat : n = Entries
  BY ConstantsOK
<1> PICK g : g = ChainAt(c, Entries)
  OBVIOUS
<1> PICK fat : fat = fat1
  OBVIOUS
<1>1. IsChain(g, fat, c, n)
  BY ChainAtStep
<1>2. /\ g[0] = c
      /\ \A k \in 1 .. n : g[k] = IF g[k - 1] \in Cluster THEN fat[g[k - 1]] ELSE 0
  BY <1>1, ChainValues
<1>3. Chain(c) = {g[k] : k \in 0 .. n} \cap Cluster
  BY DEF Chain
<1>4. ASSUME NEW k \in 0 .. n, g[k] \in Cluster, fat[g[k]] \in Cluster
      PROVE  \E l \in 0 .. n : g[l] = fat[g[k]]
  <2>1. CASE k < n
    <3>1. k + 1 \in 1 .. n /\ k + 1 \in 0 .. n /\ (k + 1) - 1 = k
      BY <2>1
    <3> QED
      BY <1>2, <1>4, <3>1
  <2>2. CASE k = n
    <3>1. PICK i \in 0 .. n - 1, j \in 1 .. n : i < j /\ g[i] = g[j]
      BY <1>1, <1>4, <2>2, ChainRepeats
    <3> DEFINE Bad == {m \in 0 .. n - j : g[i + m] # g[j + m]}
    <3>2. Bad = {}
      <4> SUFFICES ASSUME Bad # {} PROVE FALSE
        OBVIOUS
      <4>1. PICK m \in Bad : \A y \in Bad : m <= y
        <5>1. Bad \in SUBSET Nat
          OBVIOUS
        <5> HIDE DEF Bad
        <5> QED
          BY <5>1, Minimum
      <4>2. m # 0 /\ m \in 1 .. n - j
        BY <3>1
      <4>3. m - 1 \in 0 .. n - j /\ ~(m <= m - 1) /\ i + m \in 1 .. n /\ j + m \in 1 .. n
            /\ (i + m) - 1 = i + (m - 1) /\ (j + m) - 1 = j + (m - 1)
        BY <3>1, <4>2
      <4>4. g[i + (m - 1)] = g[j + (m - 1)]
        BY <4>1, <4>3
      <4>5. g[i + m] = g[j + m]
        BY <1>2, <4>3, <4>4
      <4> QED
        BY <4>1, <4>5
    <3>3. n - j \in 0 .. n - j /\ j + (n - j) = n
      OBVIOUS
    <3>4. g[i + (n - j)] = g[n]
      BY <3>2, <3>3
    <3>5. (i + (n - j)) + 1 \in 1 .. n /\ (i + (n - j)) + 1 \in 0 .. n /\ ((i + (n - j)) + 1) - 1 = i + (n - j)
      BY <3>1
    <3>6. g[(i + (n - j)) + 1] = fat[g[n]]
      BY <1>2, <1>4, <2>2, <3>4, <3>5
    <3> QED
      BY <2>2, <3>5, <3>6
  <2> QED
    BY <2>1, <2>2
<1>5. ClosedIn(fat, Chain(c))
  BY <1>3, <1>4 DEF ClosedIn
<1>6. Chain(c) \in SUBSET Cluster /\ (c \in Cluster => c \in Chain(c))
  BY <1>2, <1>3
<1> QED
  BY <1>5, <1>6, LeadsFacts

\* And no other.
LEMMA LeadsChain ==
  ASSUME NEW c
  PROVE  Chain(c) \subseteq Leads(fat1, c)
<1> DEFINE S == Leads(fat1, c)
           g == ChainAt(c, Entries)
<1>1. S \in SUBSET Cluster /\ (c \in Cluster => c \in S) /\ Agree(S, fat1, fat1)
  BY LeadsFacts DEF ClosedIn, Agree
<1>2. IsChain(g, fat1, c, Entries) /\ Entries \in Nat
  BY ChainAtStep, ConstantsOK
<1>3. \A k \in 0 .. Entries : g[k] \in Cluster => g[k] \in S
  <2> HIDE DEF S, g
  <2> QED
    BY <1>1, <1>2, ChainStays
<1> QED
  BY <1>3 DEF Chain

\* An allocated cluster is in a file that reads back, in what is left of the
\* chain that is being freed, or in the chain that is being built.
InFile(x) == \E d \in Dir, i \in Slot :
               Sound(d, i) /\ saved[NameAt(d, i)] # {} /\ x \in Leads(fat1, dirent[d][i].first)
InOld(x)  == pc = "free" /\ x \in Leads(fat1, cur)
InNew(x)  == Building /\ got # 0 /\ x \in Leads(fat1, first)
Used(x)   == InFile(x) \/ InOld(x) \/ InNew(x)

AllUsed ==
  failures = 0 =>
    /\ \A x \in Cluster \ DirClusters : fat1[x] # 0 => Used(x)
    /\ Building /\ got # 0 => prev \in Leads(fat1, first)

\* The chain of a sound entry does not leave the entry's clusters.
LEMMA LeadsInside ==
  ASSUME NEW clus \in Owned, Chained(clus), NEW d \in Dir, NEW i \in Slot, Sound(d, i)
  PROVE  /\ clus[d][i] \in SUBSET Cluster /\ ClosedIn(fat1, clus[d][i])
         /\ dirent[d][i].first \in Cluster => dirent[d][i].first \in clus[d][i]
         /\ Leads(fat1, dirent[d][i].first) \subseteq clus[d][i]
<1>1. /\ clus[d][i] \in SUBSET Cluster /\ (dirent[d][i].first \in Cluster => dirent[d][i].first \in clus[d][i])
      /\ \A x \in clus[d][i] : fat1[x] \in Cluster => fat1[x] \in clus[d][i]
  BY DEF Owned, Chained
<1>2. ClosedIn(fat1, clus[d][i])
  BY <1>1 DEF ClosedIn
<1> QED
  BY <1>1, <1>2, LeadsFacts

\* A file stays where it is: no step of a call for another file touches its
\* entry or a cluster of its chain.
LEMMA InFileStays ==
  ASSUME NEW x, NEW d \in Dir, NEW i \in Slot, Sound(d, i), saved[NameAt(d, i)] # {},
         x \in Leads(fat1, dirent[d][i].first),
         NEW clus \in Owned, Chained(clus), \A c \in clus[d][i] : fat1'[c] = fat1[c],
         Sound(d, i)', UNCHANGED <<dirent, saved>>
  PROVE  InFile(x)'
<1>1. x \in Leads(fat1', dirent[d][i].first)
  BY LeadsInside, LeadsApart
<1>2. NameAt(d, i)' = NameAt(d, i)
  BY DEF NameAt
<1> QED
  BY <1>1, <1>2 DEF InFile

\* Steps that change neither the FAT nor a directory, and do not end the call.
LEMMA UsedSame ==
  ASSUME AllUsed, UNCHANGED <<fat1, dirent, damaged, saved, failures, target, has, off, cur, first, prev, got>>,
         pc' = pc \/ (pc \in {"data"} /\ pc' = "entry")
  PROVE  AllUsed'
<1>1. (pc # "idle" /\ pc' # "idle") \/ pc' = pc
  OBVIOUS
<1>2. \A d \in Dir, i \in Slot : Sound(d, i) => Sound(d, i)' /\ NameAt(d, i)' = NameAt(d, i)
  BY <1>1 DEF Sound, NameAt, Replacing, Destroyed
<1>3. \A x : Used(x) => Used(x)'
  BY <1>2 DEF Used, InFile, InOld, InNew, Building
<1>4. (Building /\ got # 0)' => Building /\ got # 0
  BY DEF Building
<1> QED
  BY <1>3, <1>4 DEF AllUsed

\* A call that fails says so.
LEMMA AbandonUsed ==
  ASSUME IInv, Abandon
  PROVE  AllUsed'
<1>1. failures' # 0
  BY DEF Abandon, IInv, TypeOK
<1> QED
  BY <1>1 DEF AllUsed

LEMMA BeginUsed ==
  ASSUME Careful, SInv, AllUsed, NEW f \in Target, NEW n \in 0 .. MaxSectors, Begin(f, n)
  PROVE  AllUsed'
<1>1. /\ pc = "idle" /\ pc' = "free" /\ target' = f
      /\ UNCHANGED <<fat1, dirent, damaged, saved, failures>>
  BY DEF Begin, Enter, disk
<1>2. /\ f[1] \in Dir /\ f = <<f[1], f[2]>>
      /\ has' => cur' = dirent[f[1]][off'].first
  BY EnterTarget DEF SInv
<1>3. ~Destroyed'
  BY <1>1, <1>2 DEF Destroyed
<1>4. \A d \in Dir, i \in Slot : Sound(d, i) => Sound(d, i)' /\ NameAt(d, i)' = NameAt(d, i)
  BY <1>1, <1>3 DEF Sound, NameAt, Replacing
<1>5. \A x : Used(x) => InFile(x)'
  BY <1>1, <1>4 DEF Used, InFile, InOld, InNew, Building
<1> QED
  BY <1>1, <1>5 DEF AllUsed, Used, Building

LEMMA FreeUsed ==
  ASSUME SInv, AllUsed, FreeCluster \/ FreeDone
  PROVE  AllUsed'
<1>1. PICK clus \in Owned : Chained(clus)
  BY DEF SInv, Layout, Fits
<1>2. CASE FreeCluster
  <2>1. /\ pc = "free" /\ pc' = "free" /\ cur \in Cluster /\ cur' = fat1[cur] /\ fat1' = [fat1 EXCEPT ![cur] = 0]
        /\ UNCHANGED <<dirent, damaged, saved, failures, target, has, off>>
    BY <1>2 DEF FreeCluster, SetFat, call, hist
  <2>2. fat1 \in [Cluster -> FatValue]
    BY DEF SInv, IInv, TypeOK
  <2>3. fat1'[cur] = 0 /\ \A c \in Cluster : c # cur => fat1'[c] = fat1[c]
    BY <2>1, <2>2
  <2>4. /\ has /\ target[1] \in Dir /\ off \in Slot /\ cur \in clus[target[1]][off]
        /\ NameAt(target[1], off) = target
    BY <1>1, <2>1, TargetType DEF Chained, SInv, IInv, Control, Listing, Cluster, NameAt
  <2>5. ASSUME NEW x \in Cluster, fat1'[x] # 0, x \in Leads(fat1, cur)
        PROVE  InOld(x)'
    <3>1. x # cur
      BY <2>3, <2>5
    <3>2. x \in Leads(fat1', fat1[cur])
      BY <2>3, <2>5, <3>1, LeadsOn
    <3> QED
      BY <2>1, <3>2 DEF InOld
  <2>6. ASSUME NEW x \in Cluster, fat1'[x] # 0, InFile(x)
        PROVE  Used(x)'
    <3>1. PICK d \in Dir, i \in Slot :
            Sound(d, i) /\ saved[NameAt(d, i)] # {} /\ x \in Leads(fat1, dirent[d][i].first)
      BY <2>6 DEF InFile
    <3>2. CASE d = target[1] /\ i = off
      <4>1. cur = dirent[d][i].first
        BY <2>1, <2>4, <3>1, <3>2 DEF Sound, Replacing, Destroyed
      <4> QED
        BY <2>5, <2>6, <3>1, <4>1 DEF Used
    <3>3. CASE ~(d = target[1] /\ i = off)
      <4>1. Freeing(target[1], off)
        BY <2>1, <2>4 DEF Freeing
      <4>2. cur \notin clus[d][i]
        BY <1>1, <2>4, <3>1, <3>3, <4>1 DEF Chained
      <4>3. \A c \in clus[d][i] : fat1'[c] = fat1[c]
        BY <2>3, <4>2 DEF Owned
      <4>4. NameAt(d, i) # target
        <5>1. Live(target[1], off) /\ Live(d, i) /\ dirent[target[1]][off].name = target[2]
          BY <2>4, <3>1 DEF SInv, IInv, Control, Live, Sound, Listing
        <5>2. NameAt(d, i) = target => d = target[1] /\ dirent[d][i].name = target[2]
          BY DEF NameAt
        <5>3. \A j, k \in Slot : Live(d, j) /\ Live(d, k) /\ dirent[d][j].name = dirent[d][k].name => j = k
          BY DEF SInv, Listing
        <5> QED
          BY <2>4, <3>3, <5>1, <5>2, <5>3
      <4>5. Sound(d, i)'
        BY <2>1, <3>1, <4>4 DEF Sound, NameAt, Replacing
      <4> QED
        BY <1>1, <2>1, <3>1, <4>3, <4>5, InFileStays DEF Used
    <3> QED
      BY <3>2, <3>3
  <2>7. ASSUME failures = 0, NEW x \in Cluster \ DirClusters, fat1'[x] # 0
        PROVE  Used(x)'
    <3>1. fat1[x] # 0 \/ x = cur
      BY <2>3, <2>7
    <3>2. Used(x) \/ x \in Leads(fat1, cur)
      BY <2>1, <2>7, <3>1, LeadsFacts DEF AllUsed
    <3>3. Used(x) => InFile(x) \/ x \in Leads(fat1, cur)
      BY <2>1 DEF Used, InOld, InNew, Building
    <3> QED
      BY <2>5, <2>6, <2>7, <3>2, <3>3 DEF Used
  <2> QED
    BY <2>1, <2>7 DEF AllUsed, Building
<1>3. CASE FreeDone
  <2>1. /\ pc = "free" /\ pc' = "alloc" /\ cur \notin Cluster
        /\ UNCHANGED <<fat1, dirent, damaged, saved, failures, target, has, off, cur, first, prev, got>>
    BY <1>3 DEF FreeDone, disk, call, chain, hist
  <2>2. \A d \in Dir, i \in Slot : Sound(d, i) => Sound(d, i)' /\ NameAt(d, i)' = NameAt(d, i)
    BY <2>1 DEF Sound, NameAt, Replacing, Destroyed
  <2>3. \A x : Used(x) => InFile(x)'
    <3>1. \A x : ~InOld(x) /\ ~InNew(x)
      BY <2>1, LeadsFacts DEF InOld, InNew, Building
    <3> QED
      BY <2>1, <2>2, <3>1 DEF Used, InFile
  <2>4. got = 0
    BY <2>1 DEF SInv, Layout, Fits, Chaining
  <2> QED
    BY <2>1, <2>3, <2>4 DEF AllUsed, Used
<1> QED
  BY <1>2, <1>3

\* The last cluster taken is linked to a free one, or marked as the end: the
\* chain built so far keeps its clusters, and no entry's chain has them.
LEMMA LinkUsed ==
  ASSUME SInv, AllUsed, pc = "alloc", got # 0, NEW v \in FatValue, fat1' = [fat1 EXCEPT ![prev] = v],
         pc' \in {"alloc", "data"}, got' # 0, first' = first, prev' = prev \/ (prev' = v /\ v \in Cluster),
         UNCHANGED <<dirent, damaged, saved, failures, target, has, off, cur>>
  PROVE  AllUsed'
<1>1. PICK clus \in Owned, new \in SUBSET Cluster, rank \in [Cluster -> Nat] : Fits(clus, new, rank)
  BY DEF SInv, Layout
<1>2. Taken(clus, new, rank) /\ fat1[prev] \in {0, prev} /\ prev \in Cluster /\ Chained(clus)
  <2>1. Taken(clus, new, rank) /\ fat1[prev] \in {0, prev} /\ Chained(clus)
    BY <1>1 DEF Fits, Chaining, Building
  <2> QED
    BY <2>1 DEF Taken
<1>3. fat1 \in [Cluster -> FatValue]
  BY DEF SInv, IInv, TypeOK
<1>4. fat1'[prev] = v /\ \A c \in Cluster : c # prev => fat1'[c] = fat1[c]
  BY <1>2, <1>3
<1>5. Leads(fat1, first) \subseteq Leads(fat1', first)
  <2>1. fat1[prev] \in Cluster => fat1[prev] = prev
    BY <1>2 DEF Cluster
  <2> QED
    BY <1>4, <2>1, LeadsMore
<1>6. \A d \in Dir, i \in Slot : Sound(d, i) => Sound(d, i)'
  BY DEF Sound, NameAt, Replacing, Destroyed
<1>7. ASSUME NEW x, InFile(x) PROVE InFile(x)'
  <2>1. PICK d \in Dir, i \in Slot :
          Sound(d, i) /\ saved[NameAt(d, i)] # {} /\ x \in Leads(fat1, dirent[d][i].first)
    BY <1>7 DEF InFile
  <2>2. prev \notin clus[d][i]
    BY <1>2, <2>1 DEF Taken
  <2>3. \A c \in clus[d][i] : fat1'[c] = fat1[c]
    BY <1>4, <2>2 DEF Owned
  <2> QED
    BY <1>2, <1>6, <2>1, <2>3, InFileStays
<1>8. failures = 0 => prev \in Leads(fat1, first)
  BY DEF AllUsed, Building
<1>9. ASSUME failures = 0, NEW x \in Cluster \ DirClusters, fat1'[x] # 0
      PROVE  Used(x)'
  <2>1. x = prev \/ Used(x)
    BY <1>4, <1>9 DEF AllUsed
  <2>2. ~InOld(x)
    BY DEF InOld
  <2>3. x = prev \/ InNew(x) => InNew(x)'
    BY <1>5, <1>8, <1>9 DEF InNew, Building
  <2> QED
    BY <1>7, <2>1, <2>2, <2>3 DEF Used
<1>10. failures = 0 => prev' \in Leads(fat1', first')
  <2> SUFFICES ASSUME failures = 0 PROVE prev' \in Leads(fat1', first)
    OBVIOUS
  <2>1. prev \in Leads(fat1', first)
    BY <1>5, <1>8
  <2>2. v \in Cluster => v \in Leads(fat1', first)
    <3>1. ClosedIn(fat1', Leads(fat1', first))
      BY LeadsFacts
    <3> QED
      BY <1>4, <2>1, <3>1 DEF ClosedIn
  <2> QED
    BY <2>1, <2>2
<1> QED
  BY <1>9, <1>10 DEF AllUsed

LEMMA AllocUsed ==
  ASSUME SInv, AllUsed, AllocCluster \/ AllocDone
  PROVE  AllUsed'
<1>1. got \in Nat /\ (got = 0 => first = 0 /\ prev = 0)
  <2>1. got = 0 => first = 0 /\ prev = 0
    BY DEF SInv, Layout, Fits, Chaining
  <2> QED
    BY <2>1 DEF SInv, IInv, TypeOK
<1>2. got # 0 => prev # 0 /\ first # 0
  BY ConstantTypes DEF SInv, IInv, Control
<1>3. CASE AllocCluster
  <2>1. PICK c : c = Search
    OBVIOUS
  <2>2. c \in Cluster /\ c \in FatValue
    <3>1. c \in Cluster
      BY <1>3, <2>1, FindFreeOK DEF AllocCluster, Search, SInv, IInv
    <3> QED
      BY <3>1 DEF Cluster, FatValue
  <2>3. /\ pc = "alloc" /\ pc' = "alloc" /\ prev' = c /\ got' = got + 1 /\ got' # 0
        /\ first' = (IF first = 0 THEN c ELSE first)
        /\ UNCHANGED <<dirent, damaged, saved, failures, target, has, off, cur>>
    BY <1>1, <1>3, <2>1 DEF AllocCluster, call, hist
  <2>4. CASE got = 0
    <3>1. fat1' = fat1 /\ first' = c
      BY <1>1, <1>3, <2>3, <2>4 DEF AllocCluster
    <3>2. \A d \in Dir, i \in Slot : Sound(d, i) => Sound(d, i)' /\ NameAt(d, i)' = NameAt(d, i)
      BY <2>3 DEF Sound, NameAt, Replacing, Destroyed
    <3>3. \A x : Used(x) => InFile(x)'
      BY <2>3, <2>4, <3>1, <3>2 DEF Used, InFile, InOld, InNew
    <3>4. c \in Leads(fat1', c)
      BY <2>2, LeadsFacts
    <3> QED
      BY <2>3, <3>1, <3>3, <3>4 DEF AllUsed, Used
  <2>5. CASE got # 0
    <3>1. fat1' = [fat1 EXCEPT ![prev] = c] /\ first' = first
      BY <1>2, <1>3, <2>1, <2>3, <2>5 DEF AllocCluster, SetFat
    <3> QED
      BY <2>2, <2>3, <2>5, <3>1, LinkUsed
  <2> QED
    BY <2>4, <2>5
<1>4. CASE AllocDone
  <2>1. /\ pc = "alloc" /\ pc' = "data" /\ got # 0 /\ fat1' = [fat1 EXCEPT ![prev] = EndMark]
        /\ UNCHANGED <<dirent, damaged, saved, failures, target, has, off, cur, first, prev, got>>
    BY <1>4 DEF AllocDone, SetFat, Need, call, chain, hist
  <2>2. EndMark \in FatValue
    BY DEF EndMark, EndMin, FatValue
  <2> QED
    BY <2>1, <2>2, LinkUsed
<1> QED
  BY <1>3, <1>4

\* The entry takes the new chain over.  The one it replaces is free by then.
LEMMA WriteEntryUsed ==
  ASSUME KInv, AllUsed, WriteEntry
  PROVE  AllUsed'
<1>0. SInv
  BY DEF KInv
<1>1. PICK i \in Slot :
        LET d == target[1] IN
        /\ has => i = off
        /\ ~has => dirent[d][i].kind \in {"end", "deleted"} /\ \A j \in Slot : j < i => dirent[d][j].kind # "end"
        /\ dirent'[d][i] = [kind |-> "file", name |-> target[2], first |-> first, size |-> sz]
        /\ \A e \in Dir, j \in Slot : ~(e = d /\ j = i) => dirent'[e][j] = dirent[e][j]
        /\ \A j \in Slot : Live(d, j) /\ dirent[d][j].name = target[2] => j = i
  BY <1>0, CommitSlot DEF SInv, WriteEntry
<1>2. target[1] \in Dir /\ target \in File /\ target = <<target[1], target[2]>>
  BY <1>0, TargetType DEF SInv, IInv
<1>3. /\ pc = "entry" /\ pc' = "idle" /\ damaged' = damaged \ {target}
      /\ saved' = [saved EXCEPT ![target] = {NewContent(writes, sz)}]
      /\ UNCHANGED <<fat1, failures>>
  BY DEF WriteEntry, PutEntry, Reset
<1>4. saved'[target] # {} /\ \A f \in File : f # target => saved'[f] = saved[f]
  BY <1>2, <1>3 DEF KInv, Kept
<1>5. cur \notin Cluster
  BY <1>0, <1>3 DEF SInv, Layout, Fits, Chaining, Building
<1>6. NameAt(target[1], i)' = target /\ Sound(target[1], i)'
  <2>1. NameAt(target[1], i)' = target
    <3>1. NameAt(target[1], i)' = <<target'[1], dirent'[target'[1]][i].name>>
      BY DEF NameAt
    <3>2. target' = target
      BY DEF WriteEntry, PutEntry, Reset
    <3> QED
      BY <1>1, <1>2, <3>1, <3>2
  <2> QED
    BY <1>1, <1>3, <2>1 DEF Sound, Replacing, WriteEntry, PutEntry, Reset
<1>7. ASSUME NEW x, InNew(x) PROVE InFile(x)'
  <2>1. x \in Leads(fat1', dirent'[target[1]][i].first)
    BY <1>1, <1>3, <1>7 DEF InNew
  <2> QED
    BY <1>2, <1>4, <1>6, <2>1 DEF InFile, WriteEntry, PutEntry, Reset
<1>8. ASSUME NEW x, InFile(x) PROVE InFile(x)'
  <2>1. PICK d \in Dir, j \in Slot :
          Sound(d, j) /\ saved[NameAt(d, j)] # {} /\ x \in Leads(fat1, dirent[d][j].first)
    BY <1>8 DEF InFile
  <2>2. ~(d = target[1] /\ j = i)
    <3> SUFFICES ASSUME d = target[1], j = i PROVE FALSE
      OBVIOUS
    <3>1. has
      BY <1>1, <2>1 DEF Sound
    <3>2. NameAt(d, j) = target
      BY <1>0, <1>1, <1>2, <3>1 DEF NameAt, SInv, Listing
    <3>3. cur = dirent[d][j].first
      BY <1>1, <1>3, <2>1, <3>1, <3>2 DEF Sound, Replacing, Destroyed
    <3> QED
      BY <1>5, <2>1, <3>3, LeadsFacts
  <2>3. dirent'[d][j] = dirent[d][j] /\ NameAt(d, j)' = NameAt(d, j)
    <3>1. dirent'[d][j] = dirent[d][j]
      BY <1>1, <2>2
    <3> QED
      BY <3>1 DEF NameAt
  <2>4. NameAt(d, j) \in File
    BY <1>0 DEF NameAt, File, SInv, IInv, TypeOK, Entry
  <2>5. saved'[NameAt(d, j)] # {} /\ Sound(d, j)'
    BY <1>3, <1>4, <2>1, <2>3, <2>4 DEF Sound, Replacing
  <2> QED
    BY <1>3, <2>1, <2>3, <2>5 DEF InFile
<1>9. \A x : Used(x) => Used(x)'
  <2>1. \A x : ~InOld(x)
    BY <1>3 DEF InOld
  <2> QED
    BY <1>7, <1>8, <2>1 DEF Used
<1> QED
  BY <1>3, <1>9 DEF AllUsed, Building

LEMMA NextUsed ==
  ASSUME Careful, KInv, AllUsed, [Next]_vars
  PROVE  AllUsed'
<1>0. SInv /\ IInv
  BY DEF KInv, SInv
<1>1. CASE Call
  <2>1. PICK f \in Target, n \in 0 .. MaxSectors : Begin(f, n)
    BY <1>0, <1>1, CallBegins
  <2> QED
    BY <1>0, <2>1, BeginUsed
<1>2. CASE FreeCluster \/ FreeDone
  BY <1>0, <1>2, FreeUsed
<1>3. CASE AllocCluster \/ AllocDone
  BY <1>0, <1>3, AllocUsed
<1>4. CASE WriteEntry
  BY <1>4, WriteEntryUsed
<1>7. CASE LateError
  BY <1>0, <1>7 DEF LateError, AllUsed, IInv, TypeOK
<1>5. CASE DiskFull \/ PastEnd \/ ShortChain \/ DirFull \/ Interrupt
  <2>1. Abandon
    BY <1>5 DEF DiskFull, PastEnd, ShortChain, DirFull, Interrupt
  <2> QED
    BY <1>0, <2>1, AbandonUsed
<1>6. CASE Mirror \/ WriteSector \/ NextCluster \/ DataDone \/ UNCHANGED vars
  <2>1. /\ UNCHANGED <<fat1, dirent, damaged, saved, failures, target, has, off, cur, first, prev, got>>
        /\ pc' = pc \/ (pc \in {"data"} /\ pc' = "entry")
    BY <1>6 DEF Mirror, WriteSector, NextCluster, DataDone, vars, disk, call, chain, hist
  <2> QED
    BY <2>1, UsedSame
<1> QED
  BY <1>1, <1>2, <1>3, <1>4, <1>5, <1>6, <1>7 DEF Next, Step

-----------------------------------------------------------------------------

\* What NoLeak says, of one cluster.
LEMMA NoLeakMeans ==
  ASSUME SInv, NoCrossLink, pc = "idle", failures = 0
  PROVE  NoLeak <=> \A x \in Cluster \ DirClusters : fat1[x] # 0 => \E f \in Intact : x \in ChainOf(f)
<1> DEFINE Holders(x) == {f \in Intact : x \in ChainOf(f)}
           chainOf == [f \in Intact |-> ChainOf(f)]
<1>1. \A f \in Intact : chainOf[f] = ChainOf(f)
  OBVIOUS
<1>2. \A x : {f \in Intact : x \in chainOf[f]} = Holders(x)
  BY <1>1
<1>3. NoLeak <=> \A x \in Cluster \ DirClusters : Cardinality(Holders(x)) = IF fat1[x] = 0 THEN 0 ELSE 1
  <2>1. NoLeak <=> \A x \in Cluster \ DirClusters :
          Cardinality({f \in Intact : x \in chainOf[f]}) = IF fat1[x] = 0 THEN 0 ELSE 1
    BY DEF NoLeak
  <2> HIDE DEF chainOf, Holders
  <2> QED
    BY <1>2, <2>1
<1>4. ASSUME NEW x \in Cluster \ DirClusters
      PROVE  Cardinality(Holders(x)) = (IF fat1[x] = 0 THEN 0 ELSE 1)
               <=> (fat1[x] # 0 => \E f \in Intact : x \in ChainOf(f))
  <2>1. \A f, g \in Holders(x) : f = g
    BY <1>1 DEF NoCrossLink
  <2>2. \A f \in Holders(x) : fat1[x] # 0
    BY <1>1 DEF NoCrossLink
  <2>3. CASE Holders(x) = {}
    <3>1. Cardinality(Holders(x)) = 0
      BY <2>3, FS_EmptySet
    <3> QED
      BY <2>3, <3>1
  <2>4. CASE Holders(x) # {}
    <3>1. PICK f : f \in Holders(x)
      BY <2>4
    <3>2. Holders(x) = {f}
      BY <2>1, <3>1
    <3>3. Cardinality({f}) = 1
      BY FS_Singleton, Zenon
    <3>4. Cardinality(Holders(x)) = 1 /\ fat1[x] # 0
      BY <2>2, <3>1, <3>2, <3>3
    <3> QED
      BY <3>1, <3>4
  <2> QED
    BY <2>3, <2>4
<1> HIDE DEF Holders
<1> QED
  BY <1>3, <1>4

LEMMA InitUsed ==
  ASSUME Careful, Init, NoLeak, NoCrossLink
  PROVE  AllUsed
<1>1. SInv /\ pc = "idle" /\ failures = 0
  BY InitInv, InitLayout DEF SInv, Init
<1>2. saved = [f \in File |-> ReadFile(f)]
  BY DEF Init
<1>3. ASSUME NEW x \in Cluster \ DirClusters, fat1[x] # 0
      PROVE  InFile(x)
  <2>1. PICK f \in Intact : x \in ChainOf(f)
    BY <1>1, <1>3, NoLeakMeans
  <2> DEFINE i == Lookup(f[1], f[2])
             c == dirent[f[1]][i].first
  <2>2. f[1] \in Dir /\ i \in Slot /\ Sound(f[1], i) /\ NameAt(f[1], i) = f
    BY <1>1, IntactSound
  <2>3. saved[f] # {}
    BY <1>2, Zenon DEF Intact
  <2>4. x \in Leads(fat1, c)
    BY <2>1, LeadsChain DEF ChainOf
  <2> HIDE DEF i, c
  <2>5. saved[NameAt(f[1], i)] # {}
    BY <2>2, <2>3
  <2>6. x \in Leads(fat1, dirent[f[1]][i].first)
    BY <2>4 DEF c
  <2> QED
    BY <2>2, <2>5, <2>6 DEF InFile
<1> QED
  BY <1>1, <1>3 DEF AllUsed, Used, Building

\* For every volume: if the image has no cluster that is allocated and in no
\* file, then as long as no call has failed there is none later, however often
\* files are replaced by longer and shorter ones: fat32_write_file_path gives
\* the whole old chain back and puts every cluster it takes into the new one.
THEOREM NothingLeaks == Careful => (Spec /\ NoLeak => []NoLeak)
<1> SUFFICES ASSUME Careful PROVE Spec /\ NoLeak => []NoLeak
  OBVIOUS
<1>1. Init /\ NoLeak /\ NoCrossLink => AllUsed
  BY InitUsed
<1>2. KInv /\ AllUsed /\ [Next]_vars => AllUsed'
  BY NextUsed
<1>3. KInv /\ AllUsed /\ NoCrossLink => NoLeak
  <2> SUFFICES ASSUME KInv, AllUsed, NoCrossLink, pc = "idle", failures = 0 PROVE NoLeak
    BY DEF NoLeak
  <2>1. SInv
    BY DEF KInv
  <2>2. ASSUME NEW x \in Cluster \ DirClusters, fat1[x] # 0
        PROVE  \E f \in Intact : x \in ChainOf(f)
    <3>1. InFile(x)
      BY <2>2 DEF AllUsed, Used, InOld, InNew, Building
    <3>2. PICK d \in Dir, i \in Slot :
            Sound(d, i) /\ saved[NameAt(d, i)] # {} /\ x \in Leads(fat1, dirent[d][i].first)
      BY <3>1 DEF InFile
    <3>3. PICK f : f = NameAt(d, i)
      OBVIOUS
    <3>4. f \in File /\ f[1] = d /\ f[2] = dirent[d][i].name
      BY <2>1, <3>3 DEF NameAt, File, SInv, IInv, TypeOK, Entry
    <3>5. f \notin damaged /\ ~Replacing(f) /\ ReadFile(f) # {}
      BY <3>2, <3>3, <3>4 DEF Sound, KInv, Kept
    <3>6. Lookup(f[1], f[2]) = i
      BY <2>1, <3>2, <3>4, LookupFacts DEF SInv, IInv, LookupsFind, Sound, Live
    <3>7. x \in ChainOf(f)
      BY <3>2, <3>4, <3>6, ChainLeads DEF ChainOf
    <3> QED
      BY <3>4, <3>5, <3>7 DEF Intact
  <2> QED
    BY <2>1, <2>2, NoLeakMeans
<1>4. Spec => []KInv /\ []NoCrossLink
  BY KeptAlways, FilesKeepTheirOwn, PTL
<1> QED
  BY <1>1, <1>2, <1>3, <1>4, PTL DEF Spec
=============================================================================
