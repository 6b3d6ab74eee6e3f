------------------------------ MODULE FileTree ------------------------------
(***************************************************************************)
(* What a tree of files promises: a map from paths to directories and      *)
(* contents, and the calls that change it.  A call that succeeds stores    *)
(* what it was given at the path it was given, makes the directories on    *)
(* the way, and changes nothing else.  A write that fails says so; it may  *)
(* have made the directories, and an empty file where there was nothing.   *)
(* The machine stops only when the tree would outgrow its MaxNodes nodes.  *)
(***************************************************************************)
EXTENDS Naturals, Sequences, FiniteSets

CONSTANT MaxNodes

Dir == {}              \* what a directory holds; a file holds {its content}

VARIABLES
  tree,                \* function on the paths that exist
  call                 \* the last call: [op, path, content, end, no]

tvars == <<tree, call>>

Init == tree = [p \in {<<>>} |-> Dir] /\ call.end = "done" /\ call.no = 0

\* A path, and the directories on the way to it.
Way(p) == {SubSeq(p, 1, k) : k \in 0 .. Len(p)}

\* The tree with p, and with the directories on the way to it.
With(p, v) ==
  [q \in DOMAIN tree \cup Way(p) |->
     IF q = p THEN v ELSE IF q \in DOMAIN tree THEN tree[q] ELSE Dir]

\* What is there stays as it is.
MakeDir(p)  == tree' = With(p, IF p \in DOMAIN tree THEN tree[p] ELSE Dir)
MakeFile(p) == tree' = With(p, IF p \in DOMAIN tree THEN tree[p] ELSE {<<>>})

Store(p, v) == tree' = With(p, {v})

\* An entry of the image leaves a directory of its name a directory.
Mount(p, v) == tree' = With(p, IF p \in DOMAIN tree /\ tree[p] = Dir THEN Dir ELSE {v})

Done ==
  /\ call'.end = "done"
  /\ \/ call'.op = "mount dir" /\ MakeDir(call'.path)
     \/ call'.op = "mount" /\ Mount(call'.path, call'.content)
     \/ call'.op = "write" /\ Store(call'.path, call'.content)

\* A path that ends in a slash names no file.
Failed ==
  /\ call'.end = "failed"
  /\ \/ call'.op = "write" /\ MakeFile(call'.path)
     \/ call'.op = "write/" /\ MakeDir(call'.path)

Stopped ==
  /\ call'.end = "stopped" /\ UNCHANGED tree
  /\ Cardinality(DOMAIN tree \cup Way(call'.path)) > MaxNodes

Next ==
  /\ call.end # "stopped" /\ call'.no = call.no + 1
  /\ Done \/ Failed \/ Stopped

Spec == Init /\ [][Next]_tvars
=============================================================================
