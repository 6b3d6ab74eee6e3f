------------------------------ MODULE Ramdisk -------------------------------
(***************************************************************************)
(* The initial RAM disk, FS/tarfs.c: a table of nodes linked into a tree,  *)
(* with the names and the written contents in two areas that only grow.    *)
(* It is filled from the tar image at boot, then read, written and walked  *)
(* by the calls of vfs.h.                                                  *)
(*                                                                         *)
(* A path is a sequence of components; names are model values of a given   *)
(* length.  A node whose name found no room has a null name, and the first *)
(* search that comes to it stops the machine, as does a full table.        *)
(***************************************************************************)
EXTENDS Integers, Sequences, FiniteSets, SequencesExt

CONSTANTS
  Name, NameLen,     \* names, and their lengths in bytes
  Dot, Up,           \* the components "." and ".."
  MaxNodes,          \* MAX_NODES
  NameBytes,         \* NAMEBUF_SZ
  ArenaSize, Align,  \* sizeof data_arena, and the rounding of its blocks
  Image,             \* tar images: sequences of [path, dir, size]
  WritePath,         \* paths a caller writes: [abs, path, slash], slash when one ends the path
  DirPath,           \* paths a caller changes to: [abs, path]
  MaxSize, MaxWrites \* bounds: longest content written, and calls of vfs_write_at

V_DIR  == "dir"
V_FILE == "file"
Null   == 0
NoName == "null"

ASSUME RamdiskConstantsOK ==
  /\ NameLen \in [Name -> Nat]
  /\ MaxNodes \in Nat \ {0} /\ NameBytes \in Nat \ {0} /\ ArenaSize \in Nat
  /\ Align \in Nat \ {0} /\ MaxSize \in Nat /\ MaxWrites \in Nat
  /\ {Dot, Up} \subseteq Name /\ NoName \notin Name
  /\ Image \subseteq Seq([path : Seq(Name) \ {<<>>}, dir : BOOLEAN, size : Nat])
  /\ WritePath \subseteq [abs : BOOLEAN, path : Seq(Name) \ {<<>>}, slash : BOOLEAN]
  /\ DirPath \subseteq [abs : BOOLEAN, path : Seq(Name)]

VARIABLES
  nodes,             \* the nodes in use: [type, name, parent, sibling, child, data, size]
  name_off,          \* bytes of namebuf in use
  arena, data_off,   \* data_arena, and its bytes in use
  cwd,               \* the current directory
  image, at,         \* the image, and how many of its entries are mounted
  writes,            \* calls of vfs_write_at
  fault,             \* the machine has stopped
  call               \* history: the last call that changes files, and how it ended

vars == <<nodes, name_off, arena, data_off, cwd, image, at, writes, fault, call>>

root == 1

Node(t, n) == [type |-> t, name |-> n, parent |-> Null, sibling |-> Null, child |-> Null,
               data |-> 0, size |-> 0]

-----------------------------------------------------------------------------
(* Searches and walks, on a table of nodes; -1 stands for a search that    *)
(* stops the machine.                                                      *)

\* find_child.
Find(t, d, n) ==
  LET from[c \in 0 .. Len(t)] ==
        IF c = Null THEN Null
        ELSE IF t[c].name = NoName THEN -1
        ELSE IF t[c].name = n THEN c
        ELSE from[t[c].sibling]
  IN  from[t[d].child]

\* vfs_lookup: every component is a name.
walk(t, p) ==
  LET to[k \in 0 .. Len(p)] ==
        IF k = 0 THEN root
        ELSE IF to[k - 1] <= 0 THEN to[k - 1] ELSE Find(t, to[k - 1], p[k])
  IN  to[Len(p)]

\* walk_from: "." and ".." as usual; there is nothing above the root.
walk_from(t, start, p) ==
  LET to[k \in 0 .. Len(p)] ==
        IF k = 0 THEN start
        ELSE IF to[k - 1] <= 0 \/ p[k] = Dot THEN to[k - 1]
        ELSE IF p[k] = Up
             THEN IF t[to[k - 1]].parent # Null THEN t[to[k - 1]].parent ELSE to[k - 1]
        ELSE Find(t, to[k - 1], p[k])
  IN  to[Len(p)]

\* The names from the root down to a node, following the parents.
PathOf(t, i) ==
  LET up[n \in 0 .. Len(t)] ==
        IF n = Null THEN <<>>
        ELSE IF t[n].parent = Null THEN <<>>
        ELSE Append(up[t[n].parent], t[n].name)
  IN  up[i]

-----------------------------------------------------------------------------
(* New nodes.  A state of the tree is [t, off, cur, bad].                  *)

\* Mutant: the new node takes the place of the list it should head.
Add_DropsSiblings(s, n, type) ==
  IF Len(s.t) >= MaxNodes THEN [s EXCEPT !.bad = TRUE]
  ELSE LET fits == s.off + NameLen[n] + 1 <= NameBytes
           new  == Len(s.t) + 1
           node == [Node(type, IF fits THEN n ELSE NoName) EXCEPT !.parent = s.cur]
       IN  [t   |-> Append([s.t EXCEPT ![s.cur].child = new], node),
            off |-> IF fits THEN s.off + NameLen[n] + 1 ELSE s.off,
            cur |-> new, bad |-> FALSE]

\* add_child(cur, new_node(n, type)), and on to the new node.
Add(s, n, type) ==
  IF Len(s.t) >= MaxNodes THEN [s EXCEPT !.bad = TRUE]
  ELSE LET fits == s.off + NameLen[n] + 1 <= NameBytes
           new  == Len(s.t) + 1
           node == [Node(type, IF fits THEN n ELSE NoName) EXCEPT
                      !.parent = s.cur, !.sibling = s.t[s.cur].child]
       IN  [t   |-> Append([s.t EXCEPT ![s.cur].child = new], node),
            off |-> IF fits THEN s.off + NameLen[n] + 1 ELSE s.off,
            cur |-> new, bad |-> FALSE]

\* Mutant: a name is added without a search for it.
Ensure_Always(s, n, type) == IF s.bad THEN s ELSE Add(s, n, type)

\* The child n of cur, made when it is not there.
Ensure(s, n, type) ==
  IF s.bad THEN s
  ELSE LET c == Find(s.t, s.cur, n) IN
       IF c = -1 THEN [s EXCEPT !.bad = TRUE]
       ELSE IF c = Null THEN Add(s, n, type)
       ELSE [s EXCEPT !.cur = c]

Here(d) == [t |-> nodes, off |-> name_off, cur |-> d, bad |-> FALSE]

\* ensure_path and the loop of vfs_write_at: "." is passed over, ".." is a name
\* (as the last component of a path, "." is one too).
EnsureDirs(s, p) ==
  LET made[k \in 0 .. Len(p)] ==
        IF k = 0 THEN s
        ELSE IF p[k] = Dot THEN made[k - 1] ELSE Ensure(made[k - 1], p[k], V_DIR)
  IN  made[Len(p)]

\* The last component's node, under the directories of the others.
EnsureLast(s, p, type) == Ensure(EnsureDirs(s, Front(p)), Last(p), type)

\* The path that components name below a directory: "." is passed over, but as
\* the last component of a file's path it is a name.
Below(d, p) ==
  LET to[k \in 0 .. Len(p)] ==
        IF k = 0 THEN PathOf(nodes, d)
        ELSE IF p[k] = Dot THEN to[k - 1] ELSE Append(to[k - 1], p[k])
  IN  to[Len(p)]

Target(d, p) == Append(Below(d, Front(p)), Last(p))

\* The n bytes of a content: the number of its write, or of its entry in the
\* image below zero, with their places.
Bytes(w, n) == [k \in 1 .. n |-> <<w, k>>]

\* What call keeps of a call: what was asked for, and how it ended.
Called(op, path, content, end) ==
  call' = [op |-> op, path |-> path, content |-> content, end |-> end, no |-> at' + writes']

Stop == fault' = TRUE /\ UNCHANGED <<nodes, name_off, arena, data_off, cwd, image>>

-----------------------------------------------------------------------------
(* The calls. *)

\* vfs_init, and the image that is about to be mounted.
Init ==
  /\ nodes = <<Node(V_DIR, NoName)>> /\ name_off = 1
  /\ arena = [a \in 0 .. ArenaSize - 1 |-> <<>>] /\ data_off = 0
  /\ cwd = root /\ image \in Image /\ at = 0 /\ writes = 0 /\ fault = FALSE
  /\ call = [op |-> "none", path |-> <<>>, content |-> <<>>, end |-> "done", no |-> 0]

\* vfs_mount_tar, one entry.
MountEntry ==
  /\ ~fault /\ at < Len(image)
  /\ at' = at + 1 /\ UNCHANGED writes
  /\ LET e == image[at + 1]
         s == EnsureLast(Here(root), e.path, IF e.dir THEN V_DIR ELSE V_FILE)
     IN  /\ IF s.bad THEN Stop
            ELSE
              /\ nodes' = IF e.dir THEN s.t
                          ELSE [s.t EXCEPT ![s.cur].data = -(at + 1), ![s.cur].size = e.size]
              /\ name_off' = s.off
              /\ UNCHANGED <<arena, data_off, cwd, image, fault>>
         /\ Called(IF e.dir THEN "mount dir" ELSE "mount", Target(root, e.path),
                   IF e.dir THEN <<>> ELSE Bytes(-(at + 1), e.size),
                   IF s.bad THEN "stopped" ELSE "done")

\* Where arena_alloc would put n bytes, and whether they fit.
Block     == ((data_off + Align - 1) \div Align) * Align

\* Mutant: only the start of the block is compared with the end.
Fits_StartOnly(n) == Block <= ArenaSize

Fits(n)   == Block + n <= ArenaSize

\* vfs_write_at(base, path): the nodes are made first, the room is looked for
\* afterwards, and a directory of that name becomes a file.  A path that ends
\* in a slash is refused, once its directories are made.
vfs_write_at(w, n) ==
  /\ ~fault /\ at = Len(image) /\ writes < MaxWrites
  /\ writes' = writes + 1 /\ UNCHANGED at
  /\ LET base == IF w.abs THEN root ELSE cwd
         here == Here(base)
         s    == IF w.slash THEN EnsureDirs(here, w.path) ELSE EnsureLast(here, w.path, V_FILE)
     IN  /\ IF s.bad THEN Stop
            ELSE
              /\ name_off' = s.off
              /\ IF w.slash \/ ~Fits(n) THEN nodes' = s.t /\ UNCHANGED <<arena, data_off>>
                 ELSE /\ data_off' = Block + n
                      /\ arena' = [a \in DOMAIN arena |->
                           IF a \in Block .. Block + n - 1
                           THEN Bytes(writes + 1, n)[a - Block + 1] ELSE arena[a]]
                      /\ nodes' = [s.t EXCEPT ![s.cur].type = V_FILE, ![s.cur].data = Block,
                                             ![s.cur].size = n]
              /\ UNCHANGED <<cwd, image, fault>>
         /\ Called(IF w.slash THEN "write/" ELSE "write",
                   IF w.slash THEN Below(base, w.path) ELSE Target(base, w.path),
                   Bytes(writes + 1, n),
                   IF s.bad THEN "stopped" ELSE IF w.slash \/ ~Fits(n) THEN "failed" ELSE "done")

vfs_chdir(d) ==
  /\ ~fault /\ at = Len(image)
  /\ LET n == walk_from(nodes, IF d.abs THEN root ELSE cwd, d.path) IN
     IF n = -1 THEN Stop
     ELSE /\ cwd' = IF n # Null /\ nodes[n].type = V_DIR THEN n ELSE cwd
          /\ UNCHANGED <<nodes, name_off, arena, data_off, image, fault>>
  /\ UNCHANGED <<at, writes, call>>

Next ==
  \/ MountEntry
  \/ \E w \in WritePath, n \in 0 .. MaxSize : vfs_write_at(w, n)
  \/ \E d \in DirPath : vfs_chdir(d)

Spec == Init /\ [][Next]_vars

-----------------------------------------------------------------------------
(* Properties. *)

TypeOK ==
  /\ Len(nodes) \in 1 .. MaxNodes /\ name_off \in 0 .. NameBytes /\ data_off \in 0 .. ArenaSize
  /\ \A i \in 1 .. Len(nodes) :
       /\ nodes[i].type \in {V_DIR, V_FILE} /\ nodes[i].name \in Name \cup {NoName}
       /\ {nodes[i].parent, nodes[i].sibling, nodes[i].child} \subseteq 0 .. Len(nodes)
       /\ nodes[i].data >= 0 => nodes[i].data + nodes[i].size <= ArenaSize
  /\ cwd \in 1 .. Len(nodes) /\ at \in 0 .. Len(image) /\ writes \in 0 .. MaxWrites /\ fault \in BOOLEAN
  /\ call.end \in {"done", "failed", "stopped"} /\ call.no = at + writes

\* The children of a node, along its list.
Children(t, d) ==
  LET from[c \in 0 .. Len(t)] == IF c = Null THEN <<>> ELSE <<c>> \o from[t[c].sibling]
  IN  from[t[d].child]

\* The links make a tree: every node but the root is once in the list of its
\* parent and in no other list, no two nodes of a list have one name, and the
\* path that the parents spell leads down to the node again.  The path of the
\* current directory, which vfs_chdir reached through dots and which a write may
\* have turned into a file, leads to it for walk_from too: none of its names is
\* "." or "..", although a write makes nodes of these names.
LinksMakeTree ==
  /\ \A d \in 1 .. Len(nodes) :
       /\ ToSet(Children(nodes, d)) = {c \in 1 .. Len(nodes) : nodes[c].parent = d}
       /\ Cardinality({nodes[c].name : c \in ToSet(Children(nodes, d))}) = Len(Children(nodes, d))
       /\ walk(nodes, PathOf(nodes, d)) = d
  /\ walk_from(nodes, root, PathOf(nodes, cwd)) = cwd

\* What vfs_read returns for a node.
ContentOf(a, n) ==
  IF n.data < 0 THEN Bytes(n.data, n.size) ELSE [k \in 1 .. n.size |-> a[n.data + k - 1]]

\* What the paths of a table lead to: a directory, or a file and its content.
TreeOf(t, a) ==
  LET here == {p \in {PathOf(t, i) : i \in 1 .. Len(t)} : walk(t, p) > 0}
  IN  [p \in here |-> LET n == t[walk(t, p)]
                      IN  IF n.type = V_DIR THEN {} ELSE {ContentOf(a, n)}]

\* As vfs_read sees it, the table of nodes is a map from paths to contents.  The
\* entry or the write that a call names, from the root or from the current
\* directory, is at its path with its content when the call returns 0; a failed
\* write says so; nothing else changes; and the machine stops only if the
\* table has fewer nodes than the tree would then have paths.
Tree == INSTANCE FileTree WITH tree <- TreeOf(nodes, arena)
ImplementsFileTree == Tree!Spec
=============================================================================
