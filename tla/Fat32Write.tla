----------------------------- MODULE Fat32Write -----------------------------
(***************************************************************************)
(* fat32_write_file_path (src/FS/fat32_path.c), the one path by which the  *)
(* system changes its disk: the write_file call of programs ends here, and *)
(* with it the editor's save.  Every disk write is a step of its own,      *)
(* because the machine can lose power, and the ATA driver can report an    *)
(* error, between any two of them.  The FAT is kept per entry, a file's    *)
(* data per sector, and a directory per slot; bytes inside a sector, and   *)
(* the 8.3 form of a name, are abstracted.                                 *)
(*                                                                         *)
(* Sizes count sectors: the code pads the last, partly used sector with    *)
(* zeros, so a length matters only through the sectors it fills.           *)
(***************************************************************************)
EXTENDS Integers, Sequences, FiniteSets

CONSTANTS
  Dir,              \* directories, each one cluster long
  Root,             \* the root directory
  Name,             \* 8.3 names
  DirName,          \* Dir -> Name, the name of Root's entry for it (Root's is not used)
  DirClus,          \* Dir -> the cluster that holds it
  NumSlots,         \* directory entries in a directory cluster
  Entries,          \* fat_sz * bytes_per_sec / 4: FAT entries 0 .. Entries-1
  LastCluster,      \* last cluster the partition really has sectors for
  SecPerClus,       \* sectors per cluster
  NumFats,          \* copies of the FAT
  MaxSectors,       \* longest content a caller passes
  Target,           \* files that are saved: a set of <<directory, name>>
  InitFat,          \* the FAT of the image the disk starts with
  InitDirent,       \* and its directories
  MaxWrites,        \* bound: calls of fat32_write_file_path
  MaxInterrupts,    \* bound: I/O errors and power losses
  MaxLookupFaults,  \* bound: read errors swallowed by the lookup
  RetryDamaged      \* whether a file a failed save damaged is saved again

Cluster  == 2 .. Entries - 1
Slot     == 1 .. NumSlots
File     == Dir \X Name
EndMin   == 268435448                      \* 0x0FFFFFF8
EndMark  == 268435455                      \* 0x0FFFFFFF
FatValue == (0 .. Entries - 1) \cup (EndMin .. EndMark)
Entry    == [kind  : {"end", "deleted", "file", "dir"}, name : Name,
             first : {0} \cup Cluster, size : 0 .. MaxSectors]

DirClusters == {DirClus[d] : d \in Dir}

\* A sector's content: <<0, i>> is what the image holds in sector i, <<w, k>>
\* the k-th sector of the w-th saved content, Zeros a sector of zeros.
Zeros == <<0, -1>>
Block == ((0 .. MaxWrites) \X Int)
NewContent(w, n) == [k \in 1 .. n |-> <<w, k>>]
InitData == [c \in Cluster |-> [s \in 0 .. SecPerClus - 1 |-> <<0, c * SecPerClus + s>>]]

ASSUME ConstantsOK ==
  /\ Entries \in Nat /\ Entries < EndMin
  /\ LastCluster \in Cluster
  /\ SecPerClus \in Nat \ {0} /\ NumSlots \in Nat /\ NumFats \in {1, 2}
  /\ MaxSectors \in Nat /\ MaxWrites \in Nat
  /\ MaxInterrupts \in Nat /\ MaxLookupFaults \in Nat
  /\ RetryDamaged \in BOOLEAN
  /\ Root \in Dir /\ DirName \in [Dir -> Name] /\ DirClus \in [Dir -> Cluster]
  /\ Target \subseteq File

\* The image mformat and mcopy leave: directories and files have chains of
\* their own, and nothing points into a directory but its own entry.
ASSUME ImageOK ==
  /\ InitFat \in [Cluster -> FatValue]
  /\ InitDirent \in [Dir -> [Slot -> Entry]]
  /\ \A c \in DirClusters : InitFat[c] >= EndMin
  /\ \A c \in Cluster : InitFat[c] \notin DirClusters
  /\ \A d \in Dir, i \in Slot :
       InitDirent[d][i].kind = "file" =>
         /\ InitDirent[d][i].first \notin DirClusters
         /\ InitDirent[d][i].size > 0 => InitDirent[d][i].first # 0

\* Its files: names are used once in a directory and its unused entries come
\* last; no two chains meet, none runs into another's start or a free entry.
ASSUME FileChainsOK ==
  LET Files == {e \in Dir \X Slot : InitDirent[e[1]][e[2]].kind = "file"}
      start(e) == InitDirent[e[1]][e[2]].first
  IN
  /\ \A d \in Dir, i, j \in Slot :
       /\ InitDirent[d][i].kind = "end" /\ i < j => InitDirent[d][j].kind = "end"
       /\ /\ {InitDirent[d][i].kind, InitDirent[d][j].kind} \subseteq {"file", "dir"}
          /\ InitDirent[d][i].name = InitDirent[d][j].name
          => i = j
  /\ \A c, k \in Cluster : InitFat[c] \in Cluster =>
       InitFat[InitFat[c]] # 0 /\ (InitFat[c] = InitFat[k] => c = k)
  /\ \A e \in Files : start(e) \in Cluster =>
       /\ InitFat[start(e)] # 0 /\ \A c \in Cluster : InitFat[c] # start(e)
       /\ \A f \in Files : start(f) = start(e) => f = e

VARIABLES
  fat1, fat2,        \* the two copies of the FAT
  dirent,            \* directory slots
  data,              \* sectors of every cluster
  pc,                \* where the call is: idle, free, alloc, data, entry
  target, sz,        \* its path and length
  has, off,          \* whether the lookup found a file, and in which slot
  cur,               \* next cluster of the old chain to free
  first, prev, got,  \* first and last cluster allocated, and how many
  cl, s, pos,        \* cluster, sector in it, and sectors of data written
  mirror,            \* {<<c, v>>}: fat_set2 has set FAT1 and not yet FAT2
  result,            \* what the last call returned
  \* history variables, read by the properties only
  saved,             \* File -> the content it must read, {} when a failed save leaves that open
  damaged,           \* files whose old chain a failed save gave back
  failures,          \* calls that returned -1 or never returned
  writes, interrupts, lookupFaults

disk  == <<fat1, fat2, dirent, data>>
call  == <<target, sz, has, off>>
chain == <<cur, first, prev, got>>
loop  == <<cl, s, pos>>
hist  == <<saved, damaged, failures, writes, interrupts, lookupFaults>>
vars  == <<disk, pc, call, chain, loop, mirror, result, hist>>

-----------------------------------------------------------------------------
(* Lookups and the reader. *)

\* find_in_dir11: the first live entry of that name before the end mark.
Matches(d, n) ==
  {i \in Slot : /\ dirent[d][i].kind \in {"file", "dir"}
                /\ dirent[d][i].name = n
                /\ \A j \in 1 .. i - 1 : dirent[d][j].kind # "end"}
Least(S) == CHOOSE i \in S : \A j \in S : i <= j
Lookup(d, n) == LET m == Matches(d, n) IN IF m = {} THEN 0 ELSE Least(m)
LookupKind(d, n) == LET i == Lookup(d, n) IN IF i = 0 THEN "none" ELSE dirent[d][i].kind

\* walk_path and parent_dir_for: a path through d resolves.
Reachable(d) ==
  \/ d = Root
  \/ /\ LookupKind(Root, DirName[d]) = "dir"
     /\ dirent[Root][Lookup(Root, DirName[d])].first = DirClus[d]

\* The k-th cluster of the chain that starts at c; 0 once it has ended.
ChainAt(c, n) ==
  LET at[k \in 0 .. n] == IF k = 0 THEN c
                          ELSE IF at[k - 1] \in Cluster THEN fat1[at[k - 1]] ELSE 0
  IN  at

\* fat32_read_stream_path: {} when it returns -1, {content} otherwise.
ReadFile(f) ==
  LET i    == Lookup(f[1], f[2])
      e    == dirent[f[1]][i]
      at   == ChainAt(e.first, e.size)
      home == [k \in 1 .. e.size |-> at[(k - 1) \div SecPerClus]]
  IN  IF /\ i # 0 /\ e.kind = "file" /\ Reachable(f[1])
         /\ \A k \in 1 .. e.size : home[k] \in 2 .. LastCluster
      THEN {[k \in 1 .. e.size |-> data[home[k]][(k - 1) % SecPerClus]]}
      ELSE {}

\* Mutant: takes the ends of other chains for free entries.
FindFree_TakesEnds(start) ==
  LET free == {c \in Cluster : fat1[c] = 0 \/ fat1[c] >= EndMin}
  IN  IF free = {} THEN 0 ELSE Least(free)

\* find_free_cluster: the first free entry from start on, 0 for none.
FindFree(start) ==
  LET from == IF start \in Cluster THEN start ELSE 2
      free == {c \in Cluster : c >= from /\ fat1[c] = 0}
  IN  IF free = {} THEN 0 ELSE Least(free)

\* dir_find_free_slot_chain
FreeSlots(d) == {i \in Slot : dirent[d][i].kind \in {"end", "deleted"}}

\* Mutant: off by one in the test of num_fats.
SetFat_NoMirror(c, v) ==
  /\ fat1' = [fat1 EXCEPT ![c] = v]
  /\ mirror' = IF NumFats > 2 THEN {<<c, v>>} ELSE {}

\* fat_set2, up to and including the write of FAT1.
SetFat(c, v) ==
  /\ fat1' = [fat1 EXCEPT ![c] = v]
  /\ mirror' = IF NumFats > 1 THEN {<<c, v>>} ELSE {}

Need == LET n == (sz + SecPerClus - 1) \div SecPerClus IN IF n = 0 THEN 1 ELSE n

-----------------------------------------------------------------------------
(* The call returns -1, or never returns: what is on the disk stays there. *)

\* The call has given back part of the chain its target's entry still names.
Destroyed == has /\ cur # dirent[target[1]][off].first
Replacing(f) == pc # "idle" /\ target = f /\ Destroyed

Reset ==
  /\ pc' = "idle" /\ mirror' = {}
  /\ has' = FALSE /\ off' = 0 /\ cur' = 0 /\ first' = 0 /\ prev' = 0 /\ got' = 0
  /\ cl' = 0 /\ s' = 0 /\ pos' = 0
  /\ UNCHANGED <<target, sz>>

Abandon ==
  /\ Reset
  /\ result' = "failed"
  /\ damaged' = IF Destroyed THEN damaged \cup {target} ELSE damaged
  /\ saved' = IF Destroyed THEN [saved EXCEPT ![target] = {}] ELSE saved
  /\ failures' = failures + 1
  /\ UNCHANGED <<disk, writes, lookupFaults>>

-----------------------------------------------------------------------------
(* The call, one disk write at a time. *)

\* Entry, up to the branch on `has'.  A lookup that fails to read a sector
\* returns -1 like one that finds nothing.
Enter(f, n, found, faults) ==
  /\ pc = "idle" /\ writes < MaxWrites
  /\ Reachable(f[1])
  /\ f \notin damaged \/ RetryDamaged
  /\ writes' = writes + 1
  /\ lookupFaults' = lookupFaults + faults
  /\ target' = f /\ sz' = n
  /\ has' = found
  /\ off' = IF found THEN Lookup(f[1], f[2]) ELSE 0
  /\ cur' = IF found THEN dirent[f[1]][Lookup(f[1], f[2])].first ELSE 0
  /\ pc' = "free"
  /\ UNCHANGED <<disk, first, prev, got, loop, mirror, result, saved, damaged, failures, interrupts>>

\* Mutant: the lookup's result is not checked for a directory.
Begin_AnyEntry(f, n) == Enter(f, n, LookupKind(f[1], f[2]) # "none", 0)

Begin(f, n) == Enter(f, n, LookupKind(f[1], f[2]) = "file", 0)

BeginBlind(f, n) == lookupFaults < MaxLookupFaults /\ Enter(f, n, FALSE, 1)

\* Mutant: frees the first cluster of the old chain only.
FreeCluster_FirstOnly ==
  /\ pc = "free" /\ mirror = {} /\ cur \in Cluster
  /\ SetFat(cur, 0)
  /\ cur' = 0
  /\ UNCHANGED <<fat2, dirent, data, pc, call, first, prev, got, loop, result, hist>>

FreeCluster ==
  /\ pc = "free" /\ mirror = {} /\ cur \in Cluster
  /\ SetFat(cur, 0)
  /\ cur' = fat1[cur]
  /\ UNCHANGED <<fat2, dirent, data, pc, call, first, prev, got, loop, result, hist>>

FreeDone ==
  /\ pc = "free" /\ mirror = {} /\ cur \notin Cluster
  /\ pc' = "alloc"
  /\ UNCHANGED <<disk, call, chain, loop, mirror, result, hist>>

\* The search of one allocation round; a cluster stays marked free until the
\* next round links it.
Search == FindFree(IF prev # 0 THEN prev + 1 ELSE 2)

\* Mutant: searches again when the search comes back with prev itself.
AllocCluster_SkipsSelf ==
  /\ pc = "alloc" /\ mirror = {} /\ got < Need /\ Search \notin {0, prev}
  /\ first' = IF first = 0 THEN Search ELSE first
  /\ prev' = Search
  /\ got' = got + 1
  /\ IF prev # 0 THEN SetFat(prev, Search) ELSE UNCHANGED <<fat1, mirror>>
  /\ UNCHANGED <<fat2, dirent, data, pc, call, cur, loop, result, hist>>

AllocCluster ==
  /\ pc = "alloc" /\ mirror = {} /\ got < Need /\ Search # 0
  /\ first' = IF first = 0 THEN Search ELSE first
  /\ prev' = Search
  /\ got' = got + 1
  /\ IF prev # 0 THEN SetFat(prev, Search) ELSE UNCHANGED <<fat1, mirror>>
  /\ UNCHANGED <<fat2, dirent, data, pc, call, cur, loop, result, hist>>

DiskFull ==
  /\ pc = "alloc" /\ mirror = {} /\ got < Need /\ Search = 0
  /\ Abandon /\ UNCHANGED interrupts

\* Mutant: the last cluster is not marked as the end of its chain.
AllocDone_NoEndMark ==
  /\ pc = "alloc" /\ mirror = {} /\ got = Need
  /\ pc' = "data" /\ cl' = first
  /\ UNCHANGED <<disk, call, chain, s, pos, mirror, result, hist>>

AllocDone ==
  /\ pc = "alloc" /\ mirror = {} /\ got = Need
  /\ SetFat(prev, EndMark)
  /\ pc' = "data" /\ cl' = first
  /\ UNCHANGED <<fat2, dirent, data, call, chain, s, pos, result, hist>>

Mirror ==
  /\ mirror # {}
  /\ \E m \in mirror : fat2' = [fat2 EXCEPT ![m[1]] = m[2]]
  /\ mirror' = {}
  /\ UNCHANGED <<fat1, dirent, data, pc, call, chain, loop, result, hist>>

\* One sector: the caller's data while there is some, zeros after it.
WriteSector ==
  /\ pc = "data" /\ mirror = {} /\ s < SecPerClus /\ cl <= LastCluster
  /\ data' = [data EXCEPT ![cl][s] = IF pos < sz THEN <<writes, pos + 1>> ELSE Zeros]
  /\ pos' = IF pos < sz THEN pos + 1 ELSE pos
  /\ s' = s + 1
  /\ UNCHANGED <<fat1, fat2, dirent, pc, call, chain, cl, mirror, result, hist>>

\* The FAT has entries past the last real cluster; the drive rejects them.
PastEnd ==
  /\ pc = "data" /\ mirror = {} /\ s < SecPerClus /\ cl > LastCluster
  /\ Abandon /\ UNCHANGED interrupts

NextCluster ==
  /\ pc = "data" /\ mirror = {} /\ s = SecPerClus /\ pos < sz
  /\ fat1[cl] \in Cluster
  /\ cl' = fat1[cl] /\ s' = 0
  /\ UNCHANGED <<disk, pc, call, chain, pos, mirror, result, hist>>

\* Mutant: a chain that is too short ends the loop instead of the call.
ShortChain_Breaks ==
  /\ pc = "data" /\ mirror = {} /\ s = SecPerClus /\ pos < sz
  /\ fat1[cl] \notin Cluster
  /\ pc' = "entry"
  /\ UNCHANGED <<disk, call, chain, loop, mirror, result, hist>>

ShortChain ==
  /\ pc = "data" /\ mirror = {} /\ s = SecPerClus /\ pos < sz
  /\ fat1[cl] \notin Cluster
  /\ Abandon /\ UNCHANGED interrupts

DataDone ==
  /\ pc = "data" /\ mirror = {} /\ s = SecPerClus /\ pos = sz
  /\ pc' = "entry"
  /\ UNCHANGED <<disk, call, chain, loop, mirror, result, hist>>

\* The directory entry is written last, into the slot the lookup found or
\* into the first free one.
PutEntry ==
  LET d    == target[1]
      slot == IF has THEN off ELSE Least(FreeSlots(d))
  IN
  /\ pc = "entry"
  /\ has \/ FreeSlots(d) # {}
  /\ dirent' = [dirent EXCEPT ![d][slot] =
       [kind |-> "file", name |-> target[2], first |-> first, size |-> sz]]
  /\ Reset
  /\ damaged' = damaged \ {target}
  /\ UNCHANGED <<fat1, fat2, data, writes, lookupFaults>>

\* The call returns 0.
WriteEntry ==
  /\ PutEntry
  /\ result' = "ok"
  /\ saved' = [saved EXCEPT ![target] = {NewContent(writes, sz)}]
  /\ UNCHANGED <<failures, interrupts>>

\* ata_write reports an error or a time-out, or the power fails, although the
\* entry's sector has reached the disk.
LateError ==
  /\ interrupts < MaxInterrupts
  /\ interrupts' = interrupts + 1
  /\ PutEntry
  /\ result' = "failed"
  /\ saved' = [saved EXCEPT ![target] = {}]
  /\ failures' = failures + 1

DirFull ==
  /\ pc = "entry" /\ ~has /\ FreeSlots(target[1]) = {}
  /\ Abandon /\ UNCHANGED interrupts

\* A disk access fails, or the power does: no later write happens.  A write
\* that is reported as failed may have reached the disk all the same; such a
\* step is that write's own action and then this one, but for the last write
\* of all, see LateError.
Interrupt ==
  /\ pc # "idle" /\ interrupts < MaxInterrupts
  /\ interrupts' = interrupts + 1
  /\ Abandon

Step ==
  \/ FreeCluster \/ FreeDone \/ AllocCluster \/ DiskFull \/ AllocDone \/ Mirror
  \/ WriteSector \/ PastEnd \/ NextCluster \/ ShortChain \/ DataDone
  \/ WriteEntry \/ DirFull

Init ==
  /\ fat1 = InitFat /\ fat2 = InitFat
  /\ dirent = InitDirent
  /\ data = InitData
  /\ pc = "idle" /\ target \in Target /\ sz = 0 /\ has = FALSE /\ off = 0
  /\ cur = 0 /\ first = 0 /\ prev = 0 /\ got = 0
  /\ cl = 0 /\ s = 0 /\ pos = 0 /\ mirror = {} /\ result = "none"
  /\ saved = [f \in File |-> ReadFile(f)]
  /\ damaged = {} /\ failures = 0 /\ writes = 0 /\ interrupts = 0 /\ lookupFaults = 0

Call == \E f \in Target, n \in 0 .. MaxSectors : Begin(f, n) \/ BeginBlind(f, n)

Next == Call \/ Step \/ Interrupt \/ LateError

Spec == Init /\ [][Next]_vars

\* The call runs in the shell's only thread of control: nothing but its own
\* return ends it, so it keeps taking steps.
FairSpec == Spec /\ WF_vars(Step)

-----------------------------------------------------------------------------
(* Properties. *)

TypeOK ==
  /\ fat1 \in [Cluster -> FatValue] /\ fat2 \in [Cluster -> FatValue]
  /\ dirent \in [Dir -> [Slot -> Entry]]
  /\ data \in [Cluster -> [0 .. SecPerClus - 1 -> Block]]
  /\ pc \in {"idle", "free", "alloc", "data", "entry"}
  /\ target \in Target /\ sz \in 0 .. MaxSectors
  /\ has \in BOOLEAN /\ off \in {0} \cup Slot
  /\ cur \in FatValue
  /\ first \in {0} \cup Cluster /\ prev \in {0} \cup Cluster /\ got \in Nat
  /\ cl \in {0} \cup Cluster /\ s \in 0 .. SecPerClus /\ pos \in 0 .. MaxSectors
  /\ mirror \in SUBSET (Cluster \X FatValue)
  /\ result \in {"none", "ok", "failed"}
  /\ damaged \subseteq Target
  /\ failures \in Nat /\ writes \in 0 .. MaxWrites
  /\ interrupts \in 0 .. MaxInterrupts /\ lookupFaults \in 0 .. MaxLookupFaults

\* A file whose last save returned 0 reads back what was saved, whatever
\* happens to the saves of other files: full disk, full directory, I/O error,
\* power loss.  Only the call that replaces it may take it away.
SavedReadable ==
  \A f \in File : saved[f] # {} /\ ~Replacing(f) => ReadFile(f) = saved[f]

\* The clusters of an entry's chain, and the files whose entries are sound.
Chain(c) == LET at == ChainAt(c, Entries) IN {at[k] : k \in 0 .. Entries} \cap Cluster
Intact   == {f \in File : ReadFile(f) # {} /\ f \notin damaged /\ ~Replacing(f)}
ChainOf(f) == Chain(dirent[f[1]][Lookup(f[1], f[2])].first)

\* No cluster belongs to two intact files or to a file and a directory, and
\* none of a file's clusters is free for the next save to take.
NoCrossLink ==
  LET chainOf == [f \in Intact |-> ChainOf(f)]
  IN  \A f \in Intact :
        /\ \A c \in chainOf[f] : fat1[c] # 0 /\ c \notin DirClusters
        /\ \A g \in Intact \ {f} : chainOf[f] \cap chainOf[g] = {}

\* While no call has failed, every allocated cluster is a directory's or in
\* exactly one file's chain: replacing a file gives all its clusters back.
NoLeak ==
  pc = "idle" /\ failures = 0 =>
    LET chainOf == [f \in Intact |-> ChainOf(f)]
    IN  \A c \in Cluster \ DirClusters :
          Cardinality({f \in Intact : c \in chainOf[f]}) = IF fat1[c] = 0 THEN 0 ELSE 1

\* The copies of the FAT differ in at most one entry per interruption, plus
\* the one whose mirror write is pending.
MirrorBound ==
  NumFats > 1 =>
    Cardinality({c \in Cluster : fat1[c] # fat2[c]}) <= interrupts + Cardinality(mirror)

\* Whatever fails, and whatever damaged file is saved again, a directory's
\* cluster stays allocated and untouched, and so does its entry.
DirectoriesSurvive ==
  /\ \A c \in DirClusters : fat1[c] = InitFat[c] /\ data[c] = InitData[c]
  /\ \A d \in Dir, i \in Slot :
       InitDirent[d][i].kind = "dir" => dirent[d][i] = InitDirent[d][i]

\* Every call returns, even over chains that earlier failures have left
\* short, shared or looping.
EveryWriteReturns == pc # "idle" ~> pc = "idle"

\* The call implements FileStore while no damaged file is saved again: new
\* content when it returns 0; the old, none, or all of the new when it fails.
Store == INSTANCE FileStore WITH
  Content <- {NewContent(w, n) : w \in 1 .. MaxWrites, n \in 0 .. MaxSectors},
  store   <- [f \in File |-> IF f \in damaged \/ Replacing(f) THEN {} ELSE ReadFile(f)],
  job     <- IF pc = "idle" THEN {} ELSE {<<target, NewContent(writes, sz)>>}
ImplementsFileStore == Store!Spec
=============================================================================
