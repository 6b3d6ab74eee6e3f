---------------------------- MODULE RamdiskProofs ----------------------------
(***************************************************************************)
(* For every table, name area, arena, image and caller: the links that     *)
(* add_child makes are a tree, the paths in it lead down again, and what   *)
(* vfs_read sees of it is FileTree.                                        *)
(***************************************************************************)
EXTENDS Ramdisk, FiniteSetTheorems, SequenceTheorems, NaturalsInduction, WellFoundedInduction, TLAPS

-----------------------------------------------------------------------------
(* Induction and recursion along links that lead to smaller numbers. *)

LEMMA Minimum ==
  ASSUME NEW T \in SUBSET Nat, T # {}
  PROVE  \E x \in T : \A y \in T : x <= y
<1>1. PICK x \in T : \A y \in T : <<y, x>> \notin OpToRel(<, Nat)
  BY WFMin, NatLessThanWellFounded, Zenon
<1>2. \A y \in T : ~(y < x)
  BY <1>1, Zenon DEF OpToRel
<1> QED
  BY <1>2

LEMMA Descend ==
  ASSUME NEW n \in Nat, NEW T,
         \A k \in 0 .. n : (\A j \in 0 .. n : j < k => j \in T) => k \in T
  PROVE  \A k \in 0 .. n : k \in T
<1> DEFINE Bad == {k \in 0 .. n : k \notin T}
<1> SUFFICES ASSUME Bad # {} PROVE FALSE
  OBVIOUS
<1>1. Bad \in SUBSET Nat
  OBVIOUS
<1>2. PICK x \in Bad : \A y \in Bad : x <= y
  BY <1>1, Minimum
<1>3. \A j \in 0 .. n : j < x => j \in T
  BY <1>2
<1> QED
  BY <1>2, <1>3

\* g is a at 0, and elsewhere a step from where next leads.
Runs(g, a, next, step, n) ==
  g[0] = a /\ \A k \in 1 .. n : g[k] = step[<<g[next[k]], k>>]

LEMMA Recursion ==
  ASSUME NEW A, NEW a \in A, NEW n \in Nat, NEW next, NEW step,
         \A k \in 1 .. n : next[k] \in 0 .. k - 1,
         \A x \in A : \A k \in 1 .. n : step[<<x, k>>] \in A
  PROVE  \E g \in [0 .. n -> A] : Runs(g, a, next, step, n)
<1> DEFINE T == {m \in 0 .. n : \E g \in [0 .. m -> A] : Runs(g, a, next, step, m)}
<1>1. ASSUME NEW m \in 0 .. n, \A j \in 0 .. n : j < m => j \in T PROVE m \in T
  <2>1. CASE m = 0
    <3> DEFINE g == [k \in 0 .. 0 |-> a]
    <3>1. g \in [0 .. 0 -> A] /\ Runs(g, a, next, step, 0)
      BY DEF Runs
    <3> QED
      BY <2>1, <3>1
  <2>2. CASE m # 0
    <3>1. m - 1 \in 0 .. n /\ m - 1 < m /\ m \in 1 .. n
      BY <2>2
    <3>2. PICK f \in [0 .. m - 1 -> A] : Runs(f, a, next, step, m - 1)
      BY <1>1, <3>1
    <3>3. next[m] \in 0 .. m - 1 /\ f[next[m]] \in A
      BY <3>1
    <3>4. PICK z \in A : z = step[<<f[next[m]], m>>]
      BY <3>1, <3>3
    <3> DEFINE g == [k \in 0 .. m |-> IF k = m THEN z ELSE f[k]]
    <3>5. g \in [0 .. m -> A]
      BY <3>1
    <3>6. g[m] = z /\ (\A k \in 0 .. m - 1 : g[k] = f[k]) /\ 0 \in 0 .. m - 1
      BY <3>1
    <3> HIDE DEF g
    <3>7. ASSUME NEW k \in 1 .. m PROVE g[k] = step[<<g[next[k]], k>>]
      <4>1. CASE k = m
        BY <3>3, <3>4, <3>6, <4>1
      <4>2. CASE k # m
        <5>1. k \in 1 .. m - 1 /\ k \in 1 .. n /\ k \in 0 .. m - 1
          BY <3>1, <4>2
        <5>2. next[k] \in 0 .. k - 1
          BY <5>1
        <5>3. next[k] \in 0 .. m - 1
          BY <5>1, <5>2
        <5>4. f[k] = step[<<f[next[k]], k>>]
          BY <3>2, <5>1 DEF Runs
        <5> QED
          BY <3>6, <5>1, <5>3, <5>4
      <4> QED
        BY <4>1, <4>2
    <3>8. Runs(g, a, next, step, m)
      BY <3>2, <3>6, <3>7 DEF Runs
    <3> QED
      BY <3>1, <3>5, <3>8
  <2> QED
    BY <2>1, <2>2
<1> HIDE DEF T
<1>2. \A k \in 0 .. n : k \in T
  BY <1>1, Descend
<1>3. n \in T
  BY <1>2
<1> QED
  BY <1>3 DEF T

LEMMA ConstantsGiven ==
  /\ NameLen \in [Name -> Nat] /\ MaxNodes \in Nat \ {0} /\ NameBytes \in Nat \ {0} /\ ArenaSize \in Nat
  /\ Align \in Nat \ {0} /\ MaxSize \in Nat /\ MaxWrites \in Nat
  /\ Dot \in Name /\ Up \in Name /\ NoName \notin Name
BY RamdiskConstantsOK

-----------------------------------------------------------------------------
(* Tables of nodes.  A new node has the highest number and heads its list,  *)
(* so a list leads from its newest node to ever older ones.                 *)

NodeRec == [type : {V_DIR, V_FILE}, name : Name \cup {NoName},
            parent : Nat, sibling : Nat, child : Nat, data : Int, size : Nat]

Ids(t) == 1 .. Len(t)

\* c is the newest child of d among the first m nodes, or Null.
Newest(t, d, m, c) ==
  /\ c = Null \/ (c \in 1 .. m /\ t[c].parent = d)
  /\ \A j \in 1 .. m : t[j].parent = d => j <= c

Heads(t)    == \A d \in Ids(t) : t[d].child \in 0 .. Len(t) /\ Newest(t, d, Len(t), t[d].child)
Siblings(t) == \A i \in Ids(t) : t[i].sibling \in 0 .. i - 1
                                 /\ Newest(t, t[i].parent, i - 1, t[i].sibling)
Parents(t)  == t[root].parent = Null /\ \A i \in Ids(t) : i # root => t[i].parent \in 1 .. i - 1

\* No two children of a node have one name.
Distinct(t) ==
  \A i, j \in Ids(t) :
    t[i].parent = t[j].parent /\ t[i].name = t[j].name /\ t[i].name # NoName => i = j

Linked(t) == /\ t \in Seq(NodeRec) /\ Len(t) \in Nat \ {0}
             /\ Heads(t) /\ Siblings(t) /\ Parents(t) /\ Distinct(t)

LEMMA NodeTypes ==
  ASSUME NEW t, Linked(t), NEW i \in Ids(t)
  PROVE  /\ t[i] \in NodeRec /\ i \in Nat /\ i \in 1 .. Len(t) /\ i # 0
         /\ t[i].type \in {V_DIR, V_FILE} /\ t[i].name \in Name \cup {NoName}
         /\ t[i].parent \in 0 .. i - 1 /\ t[i].sibling \in 0 .. i - 1 /\ t[i].child \in 0 .. Len(t)
         /\ t[i].data \in Int /\ t[i].size \in Nat
<1>1. t[i] \in NodeRec /\ i \in Nat /\ i # 0
  BY DEF Linked, Ids
<1>2. t[i].parent \in 0 .. i - 1
  BY DEF Linked, Parents, Ids, root, Null
<1> QED
  BY <1>1, <1>2 DEF Linked, Heads, Siblings, Ids, NodeRec

LEMMA RootThere ==
  ASSUME NEW t, Linked(t)
  PROVE  root \in Ids(t) /\ Len(t) \in Nat \ {0} /\ Len(t) \in Ids(t) /\ Null \notin Ids(t)
BY DEF Linked, Ids, root, Null

-----------------------------------------------------------------------------
(* find_child: the child of that name, if all children before it are named. *)

FindStep(t, n, c, rest) ==
  IF t[c].name = NoName THEN -1 ELSE IF t[c].name = n THEN c ELSE rest

IsFind(g, t, n) ==
  g = [c \in 0 .. Len(t) |->
         IF c = Null THEN Null
         ELSE IF t[c].name = NoName THEN -1
         ELSE IF t[c].name = n THEN c
         ELSE g[t[c].sibling]]

LEMMA FindRuns ==
  ASSUME NEW t, Linked(t), NEW n
  PROVE  \E g : IsFind(g, t, n)
<1> DEFINE N    == Len(t)
           next == [k \in 1 .. N |-> t[k].sibling]
           step == [x \in Int \X (1 .. N) |-> FindStep(t, n, x[2], x[1])]
<1>1. N \in Nat /\ Null \in Int /\ Null = 0
  BY RootThere DEF Null
<1>2. \A k \in 1 .. N : next[k] \in 0 .. k - 1 /\ next[k] = t[k].sibling
  BY NodeTypes DEF Ids
<1>3. \A x \in Int : \A k \in 1 .. N : step[<<x, k>>] = FindStep(t, n, k, x)
  OBVIOUS
<1> HIDE DEF step, next
<1>4. \A x \in Int : \A k \in 1 .. N : step[<<x, k>>] \in Int
  <2> SUFFICES ASSUME NEW x \in Int, NEW k \in 1 .. N PROVE FindStep(t, n, k, x) \in Int
    BY <1>3
  <2>1. k \in Int
    BY <1>1
  <2>2. FindStep(t, n, k, x) \in {-1, k, x}
    BY Zenon DEF FindStep
  <2> QED
    BY <2>1, <2>2
<1>5. PICK g \in [0 .. N -> Int] : Runs(g, Null, next, step, N)
  BY <1>1, <1>2, <1>4, Recursion
<1>6. ASSUME NEW c \in 0 .. N
      PROVE  g[c] = IF c = Null THEN Null
                    ELSE IF t[c].name = NoName THEN -1
                    ELSE IF t[c].name = n THEN c
                    ELSE g[t[c].sibling]
  <2>1. CASE c = 0
    BY <1>1, <1>5, <2>1 DEF Runs
  <2>2. CASE c # 0
    <3>1. c \in 1 .. N /\ c # Null
      BY <1>1, <2>2
    <3>2. g[c] = step[<<g[t[c].sibling], c>>] /\ t[c].sibling \in 0 .. c - 1
      BY <1>2, <1>5, <3>1 DEF Runs
    <3>3. g[t[c].sibling] \in Int
      BY <1>1, <3>1, <3>2
    <3> QED
      BY <1>3, <3>1, <3>2, <3>3 DEF FindStep
  <2> QED
    BY <2>1, <2>2
<1>7. g = [c \in 0 .. N |-> g[c]]
  OBVIOUS
<1>8. IsFind(g, t, n)
  BY <1>6, <1>7 DEF IsFind
<1> QED
  BY <1>8

\* What the search returns when it has come to a child c of d.
FoundFrom(t, d, n, c, r) ==
  /\ r \in {-1, Null} \cup 1 .. c
  /\ r \in 1 .. c => t[r].parent = d /\ t[r].name = n
  /\ r = Null => \A j \in 1 .. c : t[j].parent = d => t[j].name # n
  /\ r = -1 => \E j \in 1 .. c : t[j].parent = d /\ t[j].name = NoName

Found(t, d, n, r) == FoundFrom(t, d, n, Len(t), r)

LEMMA FindResult ==
  ASSUME NEW t, Linked(t), NEW d \in Ids(t), NEW n \in Name
  PROVE  Found(t, d, n, Find(t, d, n))
<1>1. \E g : IsFind(g, t, n) /\ Find(t, d, n) = g[t[d].child]
  <2>1. IsFind(CHOOSE g : IsFind(g, t, n), t, n)
    BY FindRuns
  <2>2. Find(t, d, n) = (CHOOSE g : IsFind(g, t, n))[t[d].child]
    BY DEF Find, IsFind
  <2> QED
    BY <2>1, <2>2
<1>2. PICK g : IsFind(g, t, n) /\ Find(t, d, n) = g[t[d].child]
  BY <1>1
<1>3. PICK N \in Nat : N = Len(t)
  BY RootThere
<1> DEFINE T == {c \in Nat : c = 0 \/ t[c].parent = d => FoundFrom(t, d, n, c, g[c])}
<1>4. ASSUME NEW c \in 0 .. N, \A j \in 0 .. N : j < c => j \in T PROVE c \in T
  <2>1. CASE c = 0
    <3>1. g[c] = Null
      BY <1>2, <1>3, <2>1 DEF IsFind, Null
    <3>2. FoundFrom(t, d, n, c, g[c])
      BY <2>1, <3>1 DEF FoundFrom, Null
    <3> QED
      BY <3>2
  <2>2. CASE c # 0 /\ t[c].parent = d
    <3>1. c \in Ids(t) /\ c \in 1 .. N /\ c \in Nat /\ c # Null
      BY <1>3, <2>2 DEF Ids, Null
    <3>2. PICK s \in 0 .. c - 1 : s = t[c].sibling
      BY <3>1, NodeTypes
    <3>3. /\ s = 0 \/ t[s].parent = d
          /\ \A j \in 1 .. c - 1 : t[j].parent = d => j <= s
      BY <2>2, <3>1, <3>2 DEF Linked, Siblings, Newest, Null
    <3>4. s \in 0 .. N /\ s < c /\ s \in Nat
      BY <3>1, <3>2
    <3>5. FoundFrom(t, d, n, s, g[s])
      BY <1>4, <3>3, <3>4
    <3>6. g[c] = FindStep(t, n, c, g[s])
      BY <1>2, <1>3, <3>1, <3>2 DEF IsFind, FindStep
    <3>7. CASE t[c].name = NoName
      <4>1. g[c] = -1 /\ n # NoName
        BY <3>6, <3>7, ConstantsGiven DEF FindStep
      <4> QED
        BY <2>2, <3>1, <3>7, <4>1 DEF FoundFrom, Null
    <3>8. CASE t[c].name # NoName /\ t[c].name = n
      <4>1. g[c] = c
        BY <3>6, <3>8 DEF FindStep
      <4> QED
        BY <2>2, <3>1, <3>8, <4>1 DEF FoundFrom, Null
    <3>9. CASE t[c].name # NoName /\ t[c].name # n
      <4>1. PICK r : r = g[s] /\ g[c] = r /\ FoundFrom(t, d, n, s, r)
        BY <3>5, <3>6, <3>9 DEF FindStep
      <4>2. r \in {-1, Null} \cup 1 .. c /\ (r \in 1 .. c => r \in 1 .. s)
        BY <3>1, <3>2, <4>1 DEF FoundFrom, Null
      <4>3. \A j \in 1 .. c : t[j].parent = d => j = c \/ j \in 1 .. s
        BY <3>1, <3>2, <3>3
      <4>4. \A j \in 1 .. s : j \in 1 .. c
        BY <3>1, <3>2
      <4>5. FoundFrom(t, d, n, c, r)
        BY <3>9, <4>1, <4>2, <4>3, <4>4 DEF FoundFrom
      <4> QED
        BY <3>1, <4>1, <4>5
    <3> QED
      BY <3>7, <3>8, <3>9
  <2> QED
    BY <2>1, <2>2
<1> HIDE DEF T
<1>5. \A c \in 0 .. N : c \in T
  BY <1>4, Descend
<1>6. PICK c \in 0 .. N : /\ c = t[d].child /\ (c = 0 \/ t[c].parent = d)
                          /\ \A j \in 1 .. N : t[j].parent = d => j <= c
  BY <1>3 DEF Linked, Heads, Newest, Null, Ids
<1>7. FoundFrom(t, d, n, c, g[c])
  BY <1>5, <1>6 DEF T
<1>8. PICK r : r = g[c] /\ r = Find(t, d, n) /\ FoundFrom(t, d, n, c, r)
  BY <1>2, <1>6, <1>7
<1>9. r \in {-1, Null} \cup 1 .. N /\ (r \in 1 .. N => r \in 1 .. c)
  BY <1>6, <1>8 DEF FoundFrom, Null
<1>10. (\A j \in 1 .. N : t[j].parent = d => j \in 1 .. c) /\ (\A j \in 1 .. c : j \in 1 .. N)
  BY <1>6
<1>11. FoundFrom(t, d, n, N, r)
  BY <1>8, <1>9, <1>10 DEF FoundFrom
<1> QED
  BY <1>3, <1>8, <1>11 DEF Found

\* Among named nodes, the search finds exactly the child of that name.
Named(t) == \A i \in Ids(t) : i # root => t[i].name \in Name

LEMMA FindChild ==
  ASSUME NEW t, Linked(t), Named(t), NEW c \in Ids(t), c # root
  PROVE  t[c].parent \in Ids(t) /\ t[c].name \in Name /\ Find(t, t[c].parent, t[c].name) = c
<1>1. PICK d \in Ids(t) : d = t[c].parent
  BY RootThere DEF Linked, Parents, Ids
<1>2. PICK n \in Name : n = t[c].name
  BY DEF Named
<1>3. PICK r : r = Find(t, d, n) /\ Found(t, d, n, r)
  BY FindResult
<1>4. r # Null
  BY <1>1, <1>2, <1>3 DEF Found, FoundFrom, Ids
<1>5. r # -1
  <2>1. ASSUME NEW j \in Ids(t), t[j].parent = d PROVE t[j].name # NoName
    <3>1. d # Null
      BY <1>1, RootThere
    <3>2. j # root
      BY <2>1, <3>1 DEF Linked, Parents
    <3> QED
      BY <3>2, ConstantsGiven DEF Named
  <2> QED
    BY <1>3, <2>1 DEF Found, FoundFrom, Ids
<1>6. r \in Ids(t) /\ t[r].parent = d /\ t[r].name = n
  BY <1>3, <1>4, <1>5 DEF Found, FoundFrom, Ids
<1>7. n # NoName
  BY ConstantsGiven
<1>8. r = c
  BY <1>1, <1>2, <1>6, <1>7 DEF Linked, Distinct
<1> QED
  BY <1>1, <1>2, <1>3, <1>8

-----------------------------------------------------------------------------
(* Paths up and walks down. *)

IsUp(g, t) ==
  g = [n \in 0 .. Len(t) |->
         IF n = Null THEN <<>>
         ELSE IF t[n].parent = Null THEN <<>>
         ELSE Append(g[t[n].parent], t[n].name)]

LEMMA UpRuns ==
  ASSUME NEW t, Linked(t)
  PROVE  \E g \in [0 .. Len(t) -> Seq(Name \cup {NoName})] : IsUp(g, t)
<1> DEFINE A    == Seq(Name \cup {NoName})
           N    == Len(t)
           next == [k \in 1 .. N |-> t[k].parent]
           step == [x \in A \X (1 .. N) |->
                      IF t[x[2]].parent = Null THEN <<>> ELSE Append(x[1], t[x[2]].name)]
<1>1. N \in Nat /\ <<>> \in A /\ Null = 0
  BY RootThere, EmptySeq DEF Null
<1>2. \A k \in 1 .. N : next[k] \in 0 .. k - 1 /\ next[k] = t[k].parent
  BY NodeTypes DEF Ids
<1>3. \A x \in A : \A k \in 1 .. N :
        step[<<x, k>>] = IF t[k].parent = Null THEN <<>> ELSE Append(x, t[k].name)
  OBVIOUS
<1> HIDE DEF step, next
<1>4. \A x \in A : \A k \in 1 .. N : step[<<x, k>>] \in A
  <2> SUFFICES ASSUME NEW x \in A, NEW k \in 1 .. N PROVE step[<<x, k>>] \in A
    OBVIOUS
  <2>1. t[k].name \in Name \cup {NoName}
    BY NodeTypes DEF Ids
  <2>2. Append(x, t[k].name) \in A
    BY <2>1, AppendProperties
  <2> QED
    BY <1>1, <1>3, <2>2
<1>5. PICK g \in [0 .. N -> A] : Runs(g, <<>>, next, step, N)
  BY <1>1, <1>2, <1>4, Recursion
<1>6. ASSUME NEW c \in 0 .. N
      PROVE  g[c] = IF c = Null THEN <<>>
                    ELSE IF t[c].parent = Null THEN <<>>
                    ELSE Append(g[t[c].parent], t[c].name)
  <2>1. CASE c = 0
    BY <1>1, <1>5, <2>1 DEF Runs
  <2>2. CASE c # 0
    <3>1. c \in 1 .. N /\ c # Null
      BY <1>1, <2>2
    <3>2. g[c] = step[<<g[t[c].parent], c>>] /\ t[c].parent \in 0 .. c - 1
      BY <1>2, <1>5, <3>1 DEF Runs
    <3>3. g[t[c].parent] \in A
      BY <1>1, <3>1, <3>2
    <3> QED
      BY <1>3, <3>1, <3>2, <3>3
  <2> QED
    BY <2>1, <2>2
<1>7. g = [c \in 0 .. N |-> g[c]]
  OBVIOUS
<1>8. IsUp(g, t)
  BY <1>6, <1>7 DEF IsUp
<1> QED
  BY <1>5, <1>8

LEMMA UpAgrees ==
  ASSUME NEW t, Linked(t), NEW g, IsUp(g, t), NEW h, IsUp(h, t)
  PROVE  \A i \in 0 .. Len(t) : g[i] = h[i]
<1> DEFINE T == {i \in Nat : g[i] = h[i]}
<1>1. PICK N \in Nat : N = Len(t)
  BY RootThere
<1>2. ASSUME NEW i \in 0 .. N, \A j \in 0 .. N : j < i => j \in T PROVE i \in T
  <2>1. CASE i = 0
    BY <1>1, <2>1 DEF IsUp, Null
  <2>2. CASE i # 0
    <3>1. i \in Ids(t) /\ i # Null
      BY <1>1, <2>2 DEF Ids, Null
    <3>2. PICK d \in 0 .. i - 1 : d = t[i].parent
      BY <3>1, NodeTypes
    <3>3. g[d] = h[d]
      BY <1>2, <3>2
    <3>4. g[i] = (IF d = Null THEN <<>> ELSE Append(g[d], t[i].name))
      BY <1>1, <3>1, <3>2, Zenon DEF IsUp
    <3>5. h[i] = (IF d = Null THEN <<>> ELSE Append(h[d], t[i].name))
      BY <1>1, <3>1, <3>2, Zenon DEF IsUp
    <3>6. g[i] = h[i]
      BY <3>3, <3>4, <3>5, Zenon
    <3> QED
      BY <3>6
  <2> QED
    BY <2>1, <2>2
<1> HIDE DEF T
<1>3. \A i \in 0 .. N : i \in T
  BY <1>2, Descend
<1> QED
  BY <1>1, <1>3 DEF T

LEMMA PathRuns ==
  ASSUME NEW t, Linked(t)
  PROVE  \E g \in [0 .. Len(t) -> Seq(Name \cup {NoName})] :
           IsUp(g, t) /\ \A i \in Ids(t) : PathOf(t, i) = g[i]
<1>1. PICK g \in [0 .. Len(t) -> Seq(Name \cup {NoName})] : IsUp(g, t)
  BY UpRuns
<1> DEFINE h == CHOOSE h : IsUp(h, t)
<1>2. IsUp(h, t)
  BY <1>1
<1>3. \A i : PathOf(t, i) = h[i]
  BY DEF PathOf, IsUp
<1> HIDE DEF h
<1>4. \A i \in 0 .. Len(t) : h[i] = g[i]
  BY <1>1, <1>2, UpAgrees
<1>5. \A i \in Ids(t) : i \in 0 .. Len(t)
  BY RootThere DEF Ids
<1> QED
  BY <1>1, <1>3, <1>4, <1>5

\* A node's path is its parent's and its name.
LEMMA PathSteps ==
  ASSUME NEW t, Linked(t)
  PROVE  /\ PathOf(t, root) = <<>>
         /\ \A i \in Ids(t) : PathOf(t, i) \in Seq(Name \cup {NoName})
         /\ \A i \in Ids(t) : i # root =>
              t[i].parent \in Ids(t) /\ PathOf(t, i) = Append(PathOf(t, t[i].parent), t[i].name)
<1>1. PICK g \in [0 .. Len(t) -> Seq(Name \cup {NoName})] :
        IsUp(g, t) /\ \A i \in Ids(t) : PathOf(t, i) = g[i]
  BY PathRuns
<1>2. \A i \in Ids(t) : i \in 0 .. Len(t) /\ i # Null
  BY RootThere DEF Ids, Null
<1>3. g[root] = <<>>
  BY <1>1, <1>2, RootThere DEF IsUp, Linked, Parents
<1>4. ASSUME NEW i \in Ids(t), i # root
      PROVE  t[i].parent \in Ids(t) /\ g[i] = Append(g[t[i].parent], t[i].name)
  <2>1. t[i].parent \in Ids(t) /\ t[i].parent # Null
    BY <1>4, RootThere DEF Linked, Parents, Ids, Null
  <2> QED
    BY <1>1, <1>2, <2>1 DEF IsUp
<1> QED
  BY <1>1, <1>2, <1>3, <1>4, RootThere

Spots(t) == {-1, Null} \cup Ids(t)

LEMMA FindSpot ==
  ASSUME NEW t, Linked(t), NEW d \in Ids(t), NEW n \in Name
  PROVE  Find(t, d, n) \in Spots(t)
BY FindResult DEF Found, FoundFrom, Spots, Ids

LEMMA SpotCases ==
  ASSUME NEW t, Linked(t), NEW x \in Spots(t)
  PROVE  x \in Int /\ (x <= 0 <=> x \notin Ids(t)) /\ (x \in Ids(t) \/ x \in {-1, Null})
BY RootThere DEF Spots, Ids, Null

IsWalk(g, t, p) ==
  g = [k \in 0 .. Len(p) |->
         IF k = 0 THEN root
         ELSE IF g[k - 1] <= 0 THEN g[k - 1] ELSE Find(t, g[k - 1], p[k])]

LEMMA WalkRuns ==
  ASSUME NEW t, Linked(t), NEW p \in Seq(Name)
  PROVE  \E g \in [0 .. Len(p) -> Spots(t)] : IsWalk(g, t, p)
<1> DEFINE A    == Spots(t)
           N    == Len(p)
           next == [k \in 1 .. N |-> k - 1]
           step == [x \in A \X (1 .. N) |-> IF x[1] <= 0 THEN x[1] ELSE Find(t, x[1], p[x[2]])]
<1>1. N \in Nat /\ root \in A
  BY RootThere DEF Spots
<1>2. \A k \in 1 .. N : next[k] \in 0 .. k - 1 /\ next[k] = k - 1
  BY <1>1
<1>3. \A x \in A : \A k \in 1 .. N : step[<<x, k>>] = IF x <= 0 THEN x ELSE Find(t, x, p[k])
  OBVIOUS
<1> HIDE DEF step, next
<1>4. \A x \in A : \A k \in 1 .. N : step[<<x, k>>] \in A
  <2> SUFFICES ASSUME NEW x \in A, NEW k \in 1 .. N PROVE step[<<x, k>>] \in A
    OBVIOUS
  <2>1. CASE x <= 0
    BY <1>3, <2>1
  <2>2. CASE ~(x <= 0)
    <3>1. x \in Ids(t)
      BY <2>2, SpotCases
    <3>2. Find(t, x, p[k]) \in A
      BY <3>1, FindSpot
    <3> QED
      BY <1>3, <2>2, <3>2
  <2> QED
    BY <2>1, <2>2
<1> HIDE DEF A
<1>5. PICK g \in [0 .. N -> A] : Runs(g, root, next, step, N)
  BY <1>1, <1>2, <1>4, Recursion
<1>6. ASSUME NEW k \in 0 .. N
      PROVE  g[k] = IF k = 0 THEN root
                    ELSE IF g[k - 1] <= 0 THEN g[k - 1] ELSE Find(t, g[k - 1], p[k])
  <2>1. CASE k = 0
    BY <1>1, <1>5, <2>1 DEF Runs
  <2>2. CASE k # 0
    <3>1. k \in 1 .. N /\ k - 1 \in 0 .. N
      BY <1>1, <2>2
    <3>2. g[k] = step[<<g[k - 1], k>>] /\ g[k - 1] \in A
      BY <1>2, <1>5, <3>1 DEF Runs
    <3> QED
      BY <1>3, <2>2, <3>1, <3>2
  <2> QED
    BY <2>1, <2>2
<1>7. g = [k \in 0 .. N |-> g[k]]
  OBVIOUS
<1>8. IsWalk(g, t, p)
  BY <1>6, <1>7 DEF IsWalk
<1> QED
  BY <1>5, <1>8 DEF A

LEMMA WalkIs ==
  ASSUME NEW t, Linked(t), NEW p \in Seq(Name)
  PROVE  \E g : IsWalk(g, t, p) /\ walk(t, p) = g[Len(p)]
<1>1. IsWalk(CHOOSE g : IsWalk(g, t, p), t, p)
  BY WalkRuns
<1>2. walk(t, p) = (CHOOSE g : IsWalk(g, t, p))[Len(p)]
  BY DEF walk, IsWalk
<1> QED
  BY <1>1, <1>2

\* A walk takes one component after the other.
LEMMA WalkSteps ==
  ASSUME NEW t, Linked(t)
  PROVE  /\ walk(t, <<>>) = root
         /\ \A p \in Seq(Name) : \A n \in Name :
              walk(t, Append(p, n)) = IF walk(t, p) <= 0 THEN walk(t, p) ELSE Find(t, walk(t, p), n)
<1>1. walk(t, <<>>) = root
  <2>1. <<>> \in Seq(Name) /\ Len(<<>>) = 0
    BY EmptySeq
  <2>2. PICK g : IsWalk(g, t, <<>>) /\ walk(t, <<>>) = g[0]
    BY <2>1, WalkIs
  <2> QED
    BY <2>1, <2>2 DEF IsWalk
<1>2. ASSUME NEW p \in Seq(Name), NEW n \in Name
      PROVE  walk(t, Append(p, n)) = IF walk(t, p) <= 0 THEN walk(t, p) ELSE Find(t, walk(t, p), n)
  <2>1. PICK N \in Nat, q \in Seq(Name) :
          /\ N = Len(p) /\ q = Append(p, n) /\ Len(q) = N + 1 /\ q[N + 1] = n
          /\ \A k \in 1 .. N : q[k] = p[k]
    <3>1. /\ Append(p, n) \in Seq(Name) /\ Len(Append(p, n)) = Len(p) + 1 /\ Len(p) \in Nat
          /\ \A k \in 1 .. Len(p) : Append(p, n)[k] = p[k]
          /\ Append(p, n)[Len(p) + 1] = n
      BY AppendProperties, LenProperties
    <3> QED
      BY <3>1
  <2>2. PICK g : IsWalk(g, t, p) /\ walk(t, p) = g[N]
    BY <2>1, WalkIs
  <2>3. PICK h : IsWalk(h, t, q) /\ walk(t, q) = h[N + 1]
    BY <2>1, WalkIs
  <2> DEFINE T == {k \in Nat : g[k] = h[k]}
  <2>4. ASSUME NEW k \in 0 .. N, \A j \in 0 .. N : j < k => j \in T PROVE k \in T
    <3>1. CASE k = 0
      BY <2>1, <2>2, <2>3, <3>1 DEF IsWalk
    <3>2. CASE k # 0
      <4>1. k - 1 \in 0 .. N /\ k - 1 < k /\ k \in 1 .. N /\ k \in 0 .. N + 1
        BY <3>2
      <4>2. g[k - 1] = h[k - 1] /\ q[k] = p[k]
        BY <2>1, <2>4, <4>1
      <4>3. g[k] = IF g[k - 1] <= 0 THEN g[k - 1] ELSE Find(t, g[k - 1], p[k])
        BY <2>1, <2>2, <3>2 DEF IsWalk
      <4>4. h[k] = IF h[k - 1] <= 0 THEN h[k - 1] ELSE Find(t, h[k - 1], q[k])
        BY <2>1, <2>3, <3>2, <4>1 DEF IsWalk
      <4> QED
        BY <4>2, <4>3, <4>4
    <3> QED
      BY <3>1, <3>2
  <2> HIDE DEF T
  <2>5. N \in T
    <3>1. \A k \in 0 .. N : k \in T
      BY <2>4, Descend
    <3> QED
      BY <2>1, <3>1
  <2>6. g[N] = h[N]
    BY <2>5 DEF T
  <2>7. N + 1 \in 0 .. N + 1 /\ N + 1 # 0 /\ (N + 1) - 1 = N
    BY <2>1
  <2>8. h[N + 1] = IF h[N] <= 0 THEN h[N] ELSE Find(t, h[N], q[N + 1])
    BY <2>1, <2>3, <2>7 DEF IsWalk
  <2> QED
    BY <2>1, <2>2, <2>3, <2>6, <2>8
<1> QED
  BY <1>1, <1>2

\* The paths of named nodes lead down to them again.
LEMMA PathsLead ==
  ASSUME NEW t, Linked(t), Named(t)
  PROVE  \A i \in Ids(t) : PathOf(t, i) \in Seq(Name) /\ walk(t, PathOf(t, i)) = i
<1> DEFINE T == {i \in Nat : i # 0 => PathOf(t, i) \in Seq(Name) /\ walk(t, PathOf(t, i)) = i}
<1>1. PICK N \in Nat : N = Len(t)
  BY RootThere
<1>2. ASSUME NEW i \in 0 .. N, \A j \in 0 .. N : j < i => j \in T PROVE i \in T
  <2>1. CASE i = 0
    BY <2>1
  <2>2. CASE i = root
    <3>1. PathOf(t, root) \in Seq(Name) /\ walk(t, PathOf(t, root)) = root
      BY PathSteps, WalkSteps, EmptySeq
    <3> QED
      BY <2>2, <3>1
  <2>3. CASE i # 0 /\ i # root
    <3>1. i \in Ids(t) /\ i \in Nat
      BY <1>1, <2>3 DEF Ids
    <3>2. PICK d \in Ids(t), n \in Name : d = t[i].parent /\ n = t[i].name /\ Find(t, d, n) = i
      BY <2>3, <3>1, FindChild
    <3>3. d < i /\ d \in 0 .. N /\ d # 0
      BY <1>1, <2>3, <3>1, <3>2 DEF Linked, Parents, Ids
    <3>4. PICK p \in Seq(Name) : p = PathOf(t, d) /\ walk(t, p) = d
      BY <1>2, <3>3
    <3>5. PathOf(t, i) = Append(p, n)
      BY <2>3, <3>1, <3>2, <3>4, PathSteps
    <3>6. walk(t, Append(p, n)) = Find(t, d, n)
      BY <3>3, <3>4, WalkSteps
    <3>7. Append(p, n) \in Seq(Name)
      BY AppendProperties
    <3> QED
      BY <3>1, <3>2, <3>5, <3>6, <3>7
  <2> QED
    BY <2>1, <2>2, <2>3
<1> HIDE DEF T
<1>3. \A i \in 0 .. N : i \in T
  BY <1>2, Descend
<1>4. \A i \in Ids(t) : i \in 0 .. N /\ i # 0
  BY <1>1 DEF Ids
<1> QED
  BY <1>3, <1>4 DEF T

-----------------------------------------------------------------------------
(* Walks with dots, and where the current directory can be. *)

FromStep(t, x, n) ==
  IF x <= 0 \/ n = Dot THEN x
  ELSE IF n = Up THEN IF t[x].parent # Null THEN t[x].parent ELSE x
  ELSE Find(t, x, n)

IsFrom(g, t, start, p) ==
  g = [k \in 0 .. Len(p) |->
         IF k = 0 THEN start
         ELSE IF g[k - 1] <= 0 \/ p[k] = Dot THEN g[k - 1]
         ELSE IF p[k] = Up
              THEN IF t[g[k - 1]].parent # Null THEN t[g[k - 1]].parent ELSE g[k - 1]
         ELSE Find(t, g[k - 1], p[k])]

LEMMA FromSpot ==
  ASSUME NEW t, Linked(t), NEW x \in Spots(t), NEW n \in Name
  PROVE  FromStep(t, x, n) \in Spots(t)
<1>1. CASE x <= 0 \/ n = Dot
  BY <1>1 DEF FromStep
<1>2. CASE ~(x <= 0 \/ n = Dot)
  <2>1. x \in Ids(t)
    BY <1>2, SpotCases
  <2>2. Find(t, x, n) \in Spots(t)
    BY <2>1, FindSpot
  <2>3. t[x].parent # Null => t[x].parent \in Spots(t)
    BY <2>1, RootThere DEF Linked, Parents, Spots, Ids
  <2> QED
    BY <1>2, <2>2, <2>3 DEF FromStep
<1> QED
  BY <1>1, <1>2

LEMMA FromRuns ==
  ASSUME NEW t, Linked(t), NEW start \in Ids(t), NEW p \in Seq(Name)
  PROVE  \E g \in [0 .. Len(p) -> Spots(t)] : IsFrom(g, t, start, p)
<1> DEFINE A    == Spots(t)
           N    == Len(p)
           next == [k \in 1 .. N |-> k - 1]
           step == [x \in A \X (1 .. N) |-> FromStep(t, x[1], p[x[2]])]
<1>1. N \in Nat /\ start \in A
  BY DEF Spots
<1>2. \A k \in 1 .. N : next[k] \in 0 .. k - 1 /\ next[k] = k - 1
  BY <1>1
<1>3. \A x \in A : \A k \in 1 .. N : step[<<x, k>>] = FromStep(t, x, p[k])
  OBVIOUS
<1> HIDE DEF step, next
<1>4. \A x \in A : \A k \in 1 .. N : step[<<x, k>>] \in A
  <2> SUFFICES ASSUME NEW x \in A, NEW k \in 1 .. N PROVE step[<<x, k>>] \in A
    OBVIOUS
  <2>1. p[k] \in Name
    OBVIOUS
  <2>2. FromStep(t, x, p[k]) \in Spots(t)
    BY <2>1, FromSpot
  <2> QED
    BY <1>3, <2>2
<1> HIDE DEF A
<1>5. PICK g \in [0 .. N -> A] : Runs(g, start, next, step, N)
  BY <1>1, <1>2, <1>4, Recursion
<1>6. ASSUME NEW k \in 0 .. N
      PROVE  g[k] = IF k = 0 THEN start
                    ELSE IF g[k - 1] <= 0 \/ p[k] = Dot THEN g[k - 1]
                    ELSE IF p[k] = Up
                         THEN IF t[g[k - 1]].parent # Null THEN t[g[k - 1]].parent ELSE g[k - 1]
                    ELSE Find(t, g[k - 1], p[k])
  <2>1. CASE k = 0
    BY <1>1, <1>5, <2>1 DEF Runs
  <2>2. CASE k # 0
    <3>1. k \in 1 .. N /\ k - 1 \in 0 .. N
      BY <1>1, <2>2
    <3>2. g[k] = step[<<g[k - 1], k>>] /\ g[k - 1] \in A
      BY <1>2, <1>5, <3>1 DEF Runs
    <3>3. g[k] = FromStep(t, g[k - 1], p[k])
      BY <1>3, <3>1, <3>2
    <3> QED
      BY <2>2, <3>3, Zenon DEF FromStep
  <2> QED
    BY <2>1, <2>2
<1>7. g = [k \in 0 .. N |-> g[k]]
  OBVIOUS
<1>8. IsFrom(g, t, start, p)
  BY <1>6, <1>7 DEF IsFrom
<1> QED
  BY <1>5, <1>8 DEF A

LEMMA FromIs ==
  ASSUME NEW t, Linked(t), NEW start \in Ids(t), NEW p \in Seq(Name)
  PROVE  \E g : /\ walk_from(t, start, p) = g[Len(p)]
                /\ g[0] = start
                /\ \A k \in 1 .. Len(p) : g[k] = FromStep(t, g[k - 1], p[k])
<1> DEFINE g == CHOOSE g : IsFrom(g, t, start, p)
<1>1. IsFrom(g, t, start, p)
  BY FromRuns
<1>2. walk_from(t, start, p) = g[Len(p)]
  BY DEF walk_from, IsFrom
<1> HIDE DEF g
<1>3. Len(p) \in Nat
  OBVIOUS
<1>4. g[0] = start
  BY <1>1, <1>3 DEF IsFrom
<1>5. ASSUME NEW k \in 1 .. Len(p) PROVE g[k] = FromStep(t, g[k - 1], p[k])
  <2>1. k \in 0 .. Len(p) /\ k # 0
    BY <1>3
  <2> QED
    BY <1>1, <2>1, Zenon DEF IsFrom, FromStep
<1> QED
  BY <1>2, <1>4, <1>5

LEMMA FromSteps ==
  ASSUME NEW t, Linked(t), NEW start \in Ids(t)
  PROVE  /\ walk_from(t, start, <<>>) = start
         /\ \A p \in Seq(Name) : \A n \in Name :
              walk_from(t, start, Append(p, n)) = FromStep(t, walk_from(t, start, p), n)
<1>1. walk_from(t, start, <<>>) = start
  <2>1. PICK e \in Seq(Name) : e = <<>> /\ Len(e) = 0
    BY EmptySeq
  <2>2. PICK g : walk_from(t, start, e) = g[Len(e)] /\ g[0] = start
    BY FromIs
  <2> QED
    BY <2>1, <2>2
<1>2. ASSUME NEW p \in Seq(Name), NEW n \in Name
      PROVE  walk_from(t, start, Append(p, n)) = FromStep(t, walk_from(t, start, p), n)
  <2>1. PICK N \in Nat, q \in Seq(Name) :
          /\ N = Len(p) /\ q = Append(p, n) /\ Len(q) = N + 1 /\ q[N + 1] = n
          /\ \A k \in 1 .. N : q[k] = p[k]
    <3>1. /\ Append(p, n) \in Seq(Name) /\ Len(Append(p, n)) = Len(p) + 1 /\ Len(p) \in Nat
          /\ \A k \in 1 .. Len(p) : Append(p, n)[k] = p[k]
          /\ Append(p, n)[Len(p) + 1] = n
      BY AppendProperties, LenProperties
    <3> QED
      BY <3>1
  <2>2. PICK g : /\ walk_from(t, start, p) = g[N] /\ g[0] = start
                 /\ \A k \in 1 .. N : g[k] = FromStep(t, g[k - 1], p[k])
    BY <2>1, FromIs
  <2>3. PICK h : /\ walk_from(t, start, q) = h[N + 1] /\ h[0] = start
                 /\ \A k \in 1 .. N + 1 : h[k] = FromStep(t, h[k - 1], q[k])
    <3>1. PICK M \in Nat : M = N + 1 /\ M = Len(q)
      BY <2>1
    <3>2. \E h : /\ walk_from(t, start, q) = h[Len(q)] /\ h[0] = start
                 /\ \A k \in 1 .. Len(q) : h[k] = FromStep(t, h[k - 1], q[k])
      BY FromIs
    <3>3. \E h : /\ walk_from(t, start, q) = h[M] /\ h[0] = start
                 /\ \A k \in 1 .. M : h[k] = FromStep(t, h[k - 1], q[k])
      BY <3>1, <3>2
    <3> QED
      BY <3>1, <3>3
  <2> DEFINE T == {k \in Nat : g[k] = h[k]}
  <2>4. ASSUME NEW k \in 0 .. N, \A j \in 0 .. N : j < k => j \in T PROVE k \in T
    <3>1. CASE k = 0
      BY <2>2, <2>3, <3>1
    <3>2. CASE k # 0
      <4>1. k - 1 \in 0 .. N /\ k - 1 < k /\ k \in 1 .. N /\ k \in 1 .. N + 1
        BY <3>2
      <4>2. g[k - 1] = h[k - 1] /\ q[k] = p[k]
        BY <2>1, <2>4, <4>1
      <4>3. g[k] = FromStep(t, g[k - 1], p[k]) /\ h[k] = FromStep(t, h[k - 1], q[k])
        BY <2>2, <2>3, <4>1
      <4> QED
        BY <4>2, <4>3
    <3> QED
      BY <3>1, <3>2
  <2> HIDE DEF T
  <2>5. \A k \in 0 .. N : k \in T
    BY <2>4, Descend
  <2>6. g[N] = h[N]
    BY <2>1, <2>5 DEF T
  <2>7. N + 1 \in 1 .. N + 1 /\ (N + 1) - 1 = N
    BY <2>1
  <2>8. h[N + 1] = FromStep(t, h[N], q[N + 1])
    BY <2>3, <2>7
  <2> QED
    BY <2>1, <2>2, <2>3, <2>6, <2>8
<1> QED
  BY <1>1, <1>2

\* No directory on the way to i is called "." or "..".
Proper(t, i) == \A k \in 1 .. Len(PathOf(t, i)) : PathOf(t, i)[k] \notin {Dot, Up}

LEMMA RootProper ==
  ASSUME NEW t, Linked(t)
  PROVE  Proper(t, root)
BY PathSteps, EmptySeq DEF Proper

\* A node is proper if its parent is and its name is no dot.
LEMMA ProperSteps ==
  ASSUME NEW t, Linked(t), NEW i \in Ids(t), i # root
  PROVE  /\ t[i].parent \in Ids(t)
         /\ Proper(t, i) <=> Proper(t, t[i].parent) /\ t[i].name \notin {Dot, Up}
<1>1. PICK d \in Ids(t) : d = t[i].parent
  BY PathSteps
<1>2. PICK n \in Name \cup {NoName} : n = t[i].name
  BY NodeTypes
<1>3. PICK p \in Seq(Name \cup {NoName}) : p = PathOf(t, d) /\ PathOf(t, i) = Append(p, n)
  BY <1>1, <1>2, PathSteps
<1>4. PICK N \in Nat, q \in Seq(Name \cup {NoName}) :
        /\ N = Len(p) /\ q = Append(p, n) /\ Len(q) = N + 1 /\ q[N + 1] = n
        /\ \A k \in 1 .. N : q[k] = p[k]
  <2>1. /\ Append(p, n) \in Seq(Name \cup {NoName}) /\ Len(Append(p, n)) = Len(p) + 1
        /\ Len(p) \in Nat /\ \A k \in 1 .. Len(p) : Append(p, n)[k] = p[k]
        /\ Append(p, n)[Len(p) + 1] = n
    BY AppendProperties, LenProperties
  <2> QED
    BY <2>1
<1>5. \A k \in 1 .. N + 1 : k \in 1 .. N \/ k = N + 1
  OBVIOUS
<1>6. N + 1 \in 1 .. N + 1 /\ \A k \in 1 .. N : k \in 1 .. N + 1
  OBVIOUS
<1> QED
  BY <1>1, <1>2, <1>3, <1>4, <1>5, <1>6 DEF Proper

\* A walk from a proper node stays among proper nodes.
LEMMA FromProper ==
  ASSUME NEW t, Linked(t), NEW start \in Ids(t), Proper(t, start), NEW p \in Seq(Name)
  PROVE  /\ walk_from(t, start, p) \in Spots(t)
         /\ walk_from(t, start, p) \in Ids(t) => Proper(t, walk_from(t, start, p))
<1>1. PICK g : /\ walk_from(t, start, p) = g[Len(p)]
               /\ g[0] = start
               /\ \A k \in 1 .. Len(p) : g[k] = FromStep(t, g[k - 1], p[k])
  BY FromIs
<1>2. PICK N \in Nat : N = Len(p) /\ \A k \in 1 .. N : p[k] \in Name
  OBVIOUS
<1> DEFINE T == {k \in Nat : g[k] \in Spots(t) /\ (g[k] \in Ids(t) => Proper(t, g[k]))}
<1>3. ASSUME NEW k \in 0 .. N, \A j \in 0 .. N : j < k => j \in T PROVE k \in T
  <2>1. CASE k = 0
    BY <1>1, <2>1 DEF Spots
  <2>2. CASE k # 0
    <3>1. k - 1 \in 0 .. N /\ k - 1 < k /\ k \in 1 .. N
      BY <2>2
    <3>2. PICK x \in Spots(t), n \in Name :
            x = g[k - 1] /\ n = p[k] /\ (x \in Ids(t) => Proper(t, x)) /\ g[k] = FromStep(t, x, n)
      BY <1>1, <1>2, <1>3, <3>1
    <3>3. FromStep(t, x, n) \in Spots(t)
      BY FromSpot
    <3>4. ASSUME FromStep(t, x, n) \in Ids(t) PROVE Proper(t, FromStep(t, x, n))
      <4>1. CASE x <= 0 \/ n = Dot
        BY <3>2, <3>4, <4>1 DEF FromStep
      <4>2. CASE ~(x <= 0) /\ n = Up /\ n # Dot
        <5>1. x \in Ids(t) /\ Proper(t, x)
          BY <3>2, <4>2, SpotCases
        <5>2. CASE t[x].parent # Null
          <6>1. x # root /\ FromStep(t, x, n) = t[x].parent
            BY <4>2, <5>2 DEF FromStep, Linked, Parents
          <6> QED
            BY <5>1, <6>1, ProperSteps
        <5>3. CASE t[x].parent = Null
          BY <4>2, <5>1, <5>3 DEF FromStep
        <5> QED
          BY <5>2, <5>3
      <4>3. CASE ~(x <= 0) /\ n # Up /\ n # Dot
        <5>1. x \in Ids(t) /\ Proper(t, x)
          BY <3>2, <4>3, SpotCases
        <5>2. PICK c : c = Find(t, x, n) /\ c = FromStep(t, x, n) /\ Found(t, x, n, c)
          BY <4>3, <5>1, FindResult DEF FromStep
        <5>3. c \in Ids(t) /\ t[c].parent = x /\ t[c].name = n
          BY <3>4, <5>2 DEF Found, FoundFrom, Ids
        <5>4. c # root
          BY <5>1, <5>3, RootThere DEF Linked, Parents
        <5> QED
          BY <4>3, <5>1, <5>2, <5>3, <5>4, ProperSteps
      <4> QED
        BY <4>1, <4>2, <4>3
    <3> QED
      BY <3>2, <3>3, <3>4
  <2> QED
    BY <2>1, <2>2
<1> HIDE DEF T
<1>4. \A k \in 0 .. N : k \in T
  BY <1>3, Descend
<1>5. N \in T
  BY <1>2, <1>4
<1> QED
  BY <1>1, <1>2, <1>5 DEF T

\* The path of a proper node leads to it for walk_from too.
LEMMA CwdLeads ==
  ASSUME NEW t, Linked(t), Named(t)
  PROVE  \A i \in Ids(t) : Proper(t, i) => walk_from(t, root, PathOf(t, i)) = i
<1> DEFINE T == {i \in Nat : i # 0 /\ Proper(t, i) => walk_from(t, root, PathOf(t, i)) = i}
<1>1. PICK N \in Nat : N = Len(t)
  BY RootThere
<1>2. ASSUME NEW i \in 0 .. N, \A j \in 0 .. N : j < i => j \in T PROVE i \in T
  <2>1. CASE i = 0
    BY <2>1
  <2>2. CASE i = root
    <3>1. walk_from(t, root, PathOf(t, root)) = root
      BY PathSteps, FromSteps, RootThere
    <3> QED
      BY <2>2, <3>1
  <2>3. CASE i # 0 /\ i # root /\ Proper(t, i)
    <3>1. i \in Ids(t) /\ i \in Nat
      BY <1>1, <2>3 DEF Ids
    <3>2. PICK d \in Ids(t), n \in Name : d = t[i].parent /\ n = t[i].name /\ Find(t, d, n) = i
      BY <2>3, <3>1, FindChild
    <3>3. d < i /\ d \in 0 .. N /\ d # 0 /\ d \in Nat /\ ~(d <= 0)
      BY <1>1, <2>3, <3>1, <3>2 DEF Linked, Parents, Ids
    <3>4. Proper(t, d) /\ n \notin {Dot, Up}
      BY <2>3, <3>1, <3>2, ProperSteps
    <3>5. walk_from(t, root, PathOf(t, d)) = d
      BY <1>2, <3>3, <3>4
    <3>6. PICK p \in Seq(Name) : p = PathOf(t, d) /\ PathOf(t, i) = Append(p, n)
      BY <2>3, <3>1, <3>2, PathSteps, PathsLead
    <3>7. walk_from(t, root, Append(p, n)) = FromStep(t, d, n)
      BY <3>5, <3>6, FromSteps, RootThere
    <3>8. FromStep(t, d, n) = Find(t, d, n)
      BY <3>3, <3>4 DEF FromStep
    <3> QED
      BY <3>1, <3>2, <3>6, <3>7, <3>8
  <2>4. CASE ~Proper(t, i)
    BY <2>4
  <2> QED
    BY <2>1, <2>2, <2>3, <2>4
<1> HIDE DEF T
<1>3. \A i \in 0 .. N : i \in T
  BY <1>2, Descend
<1>4. \A i \in Ids(t) : i \in 0 .. N /\ i # 0
  BY <1>1 DEF Ids
<1> QED
  BY <1>3, <1>4 DEF T

-----------------------------------------------------------------------------
(* The list of a node's children. *)

IsList(g, t) == g = [c \in 0 .. Len(t) |-> IF c = Null THEN <<>> ELSE <<c>> \o g[t[c].sibling]]

LEMMA ListRuns ==
  ASSUME NEW t, Linked(t)
  PROVE  \E g \in [0 .. Len(t) -> Seq(Ids(t))] : IsList(g, t)
<1> DEFINE A    == Seq(Ids(t))
           N    == Len(t)
           next == [k \in 1 .. N |-> t[k].sibling]
           step == [x \in A \X (1 .. N) |-> <<x[2]>> \o x[1]]
<1>1. N \in Nat /\ <<>> \in A /\ Null = 0
  BY RootThere, EmptySeq DEF Null
<1>2. \A k \in 1 .. N : next[k] \in 0 .. k - 1 /\ next[k] = t[k].sibling
  BY NodeTypes DEF Ids
<1>3. \A x \in A : \A k \in 1 .. N : step[<<x, k>>] = <<k>> \o x
  OBVIOUS
<1> HIDE DEF step, next
<1>4. \A x \in A : \A k \in 1 .. N : step[<<x, k>>] \in A
  <2> SUFFICES ASSUME NEW x \in A, NEW k \in 1 .. N PROVE <<k>> \o x \in A
    BY <1>3
  <2>1. <<k>> \in Seq(Ids(t))
    BY DEF Ids
  <2> QED
    BY <2>1, ConcatProperties
<1>5. PICK g \in [0 .. N -> A] : Runs(g, <<>>, next, step, N)
  BY <1>1, <1>2, <1>4, Recursion
<1>6. ASSUME NEW c \in 0 .. N
      PROVE  g[c] = IF c = Null THEN <<>> ELSE <<c>> \o g[t[c].sibling]
  <2>1. CASE c = 0
    BY <1>1, <1>5, <2>1 DEF Runs
  <2>2. CASE c # 0
    <3>1. c \in 1 .. N /\ c # Null
      BY <1>1, <2>2
    <3>2. g[c] = step[<<g[t[c].sibling], c>>] /\ t[c].sibling \in 0 .. c - 1
      BY <1>2, <1>5, <3>1 DEF Runs
    <3>3. g[t[c].sibling] \in A
      BY <1>1, <3>1, <3>2
    <3> QED
      BY <1>3, <3>1, <3>2, <3>3
  <2> QED
    BY <2>1, <2>2
<1>7. g = [c \in 0 .. N |-> g[c]]
  OBVIOUS
<1>8. IsList(g, t)
  BY <1>6, <1>7 DEF IsList
<1> QED
  BY <1>5, <1>8

LEMMA ListIs ==
  ASSUME NEW t, Linked(t), NEW d \in Ids(t)
  PROVE  \E g : IsList(g, t) /\ Children(t, d) = g[t[d].child]
<1>1. IsList(CHOOSE g : IsList(g, t), t)
  BY ListRuns
<1>2. Children(t, d) = (CHOOSE g : IsList(g, t))[t[d].child]
  BY DEF Children, IsList
<1> QED
  BY <1>1, <1>2

\* A list that has come to c holds the children of d up to c, each once, and
\* they have as many names.
ListFrom(t, d, c, s) ==
  /\ s \in Seq(Ids(t))
  /\ ToSet(s) = {j \in 1 .. c : t[j].parent = d}
  /\ IsFiniteSet({t[j].name : j \in ToSet(s)})
  /\ Cardinality({t[j].name : j \in ToSet(s)}) = Len(s)

LEMMA ChildrenComplete ==
  ASSUME NEW t, Linked(t), Named(t), NEW d \in Ids(t)
  PROVE  ListFrom(t, d, Len(t), Children(t, d))
<1>1. PICK g : IsList(g, t) /\ Children(t, d) = g[t[d].child]
  BY ListIs
<1>2. PICK N \in Nat : N = Len(t)
  BY RootThere
<1> DEFINE T == {c \in Nat : c = 0 \/ t[c].parent = d => ListFrom(t, d, c, g[c])}
<1>3. ASSUME NEW c \in 0 .. N, \A j \in 0 .. N : j < c => j \in T PROVE c \in T
  <2>1. CASE c = 0
    <3>1. g[c] = <<>>
      BY <1>1, <1>2, <2>1 DEF IsList, Null
    <3>2. <<>> \in Seq(Ids(t)) /\ Len(<<>>) = 0 /\ ToSet(<<>>) = {}
      BY EmptySeq DEF ToSet
    <3>3. {t[j].name : j \in {}} = {}
      OBVIOUS
    <3>4. {j \in 1 .. 0 : t[j].parent = d} = {}
      OBVIOUS
    <3>5. ListFrom(t, d, 0, <<>>)
      BY <3>2, <3>3, <3>4, FS_EmptySet DEF ListFrom
    <3> QED
      BY <2>1, <3>1, <3>5
  <2>2. CASE c # 0 /\ t[c].parent = d
    <3>1. c \in Ids(t) /\ c \in 1 .. N /\ c \in Nat /\ c # Null
      BY <1>2, <2>2 DEF Ids, Null
    <3>2. PICK s \in 0 .. c - 1 : s = t[c].sibling
      BY <3>1, NodeTypes
    <3>3. /\ s = 0 \/ t[s].parent = d
          /\ \A j \in 1 .. c - 1 : t[j].parent = d => j <= s
      BY <2>2, <3>1, <3>2 DEF Linked, Siblings, Newest, Null
    <3>4. s \in 0 .. N /\ s < c /\ s \in Nat
      BY <3>1, <3>2
    <3>5. PICK u : u = g[s] /\ ListFrom(t, d, s, u)
      BY <1>3, <3>3, <3>4
    <3>6. g[c] = <<c>> \o u
      BY <1>1, <1>2, <3>1, <3>2, <3>5 DEF IsList
    <3>7. <<c>> \in Seq(Ids(t)) /\ Len(<<c>>) = 1 /\ <<c>>[1] = c
      BY <3>1
    <3>8. PICK v \in Seq(Ids(t)), L \in Nat :
            /\ v = <<c>> \o u /\ L = Len(u) /\ Len(v) = L + 1 /\ v[1] = c
            /\ \A i \in 1 .. L : v[i + 1] = u[i]
      <4>1. u \in Seq(Ids(t)) /\ Len(u) \in Nat
        BY <3>5 DEF ListFrom
      <4>2. /\ <<c>> \o u \in Seq(Ids(t)) /\ Len(<<c>> \o u) = 1 + Len(u)
            /\ \A i \in 1 .. 1 + Len(u) : (<<c>> \o u)[i] = IF i <= 1 THEN <<c>>[i] ELSE u[i - 1]
        BY <3>7, <4>1, ConcatProperties
      <4>3. (<<c>> \o u)[1] = c /\ Len(<<c>> \o u) = Len(u) + 1
        BY <3>7, <4>1, <4>2
      <4>4. ASSUME NEW i \in 1 .. Len(u) PROVE (<<c>> \o u)[i + 1] = u[i]
        <5>1. i + 1 \in 1 .. 1 + Len(u) /\ ~(i + 1 <= 1) /\ (i + 1) - 1 = i
          BY <4>1
        <5> QED
          BY <4>2, <5>1
      <4> QED
        BY <4>1, <4>2, <4>3, <4>4
    <3>9. ToSet(v) = ToSet(u) \cup {c}
      <4>1. u \in Seq(Ids(t))
        BY <3>5 DEF ListFrom
      <4>2. DOMAIN v = 1 .. L + 1 /\ DOMAIN u = 1 .. L
        BY <3>8, <4>1
      <4>3. ASSUME NEW i \in 1 .. L + 1 PROVE v[i] \in ToSet(u) \cup {c}
        <5>1. CASE i = 1
          BY <3>8, <5>1
        <5>2. CASE i # 1
          <6>1. i - 1 \in 1 .. L /\ (i - 1) + 1 = i
            BY <5>2
          <6>2. v[i] = u[i - 1]
            BY <3>8, <6>1
          <6> QED
            BY <4>2, <6>1, <6>2 DEF ToSet
        <5> QED
          BY <5>1, <5>2
      <4>4. \A i \in 1 .. L : i + 1 \in 1 .. L + 1
        OBVIOUS
      <4>5. \A i \in 1 .. L : u[i] \in ToSet(v)
        BY <3>8, <4>2, <4>4 DEF ToSet
      <4>6. c \in ToSet(v)
        <5>1. 1 \in 1 .. L + 1
          OBVIOUS
        <5> QED
          BY <3>8, <4>2, <5>1 DEF ToSet
      <4> QED
        BY <4>2, <4>3, <4>5, <4>6 DEF ToSet
    <3>10. {j \in 1 .. c : t[j].parent = d} = {j \in 1 .. s : t[j].parent = d} \cup {c}
      BY <2>2, <3>1, <3>2, <3>3
    <3>11. ToSet(v) = {j \in 1 .. c : t[j].parent = d}
      BY <3>5, <3>9, <3>10 DEF ListFrom
    <3> DEFINE old == {t[j].name : j \in ToSet(u)}
    <3>12. {t[j].name : j \in ToSet(v)} = old \cup {t[c].name}
      BY <3>9
    <3>13. t[c].name \notin old
      <4>1. SUFFICES ASSUME NEW j \in ToSet(u), t[j].name = t[c].name PROVE FALSE
        OBVIOUS
      <4>2. j \in 1 .. s /\ t[j].parent = d
        BY <3>5 DEF ListFrom
      <4>3. j \in Ids(t) /\ j # c
        BY <1>2, <3>1, <3>2, <4>2 DEF Ids
      <4>4. c # root
        BY <2>2, RootThere DEF Linked, Parents
      <4>5. t[c].name # NoName
        BY <3>1, <4>4, ConstantsGiven DEF Named
      <4> QED
        BY <2>2, <3>1, <4>1, <4>2, <4>3, <4>5 DEF Linked, Distinct
    <3>14. IsFiniteSet(old) /\ Cardinality(old) = L
      BY <3>5, <3>8 DEF ListFrom
    <3> HIDE DEF old
    <3>15. IsFiniteSet(old \cup {t[c].name}) /\ Cardinality(old \cup {t[c].name}) = L + 1
      BY <3>13, <3>14, FS_AddElement
    <3>16. ListFrom(t, d, c, v)
      BY <3>8, <3>11, <3>12, <3>15 DEF ListFrom
    <3> QED
      BY <3>1, <3>6, <3>8, <3>16
  <2>3. CASE c # 0 /\ t[c].parent # d
    BY <2>3
  <2> QED
    BY <2>1, <2>2, <2>3
<1> HIDE DEF T
<1>4. \A c \in 0 .. N : c \in T
  BY <1>3, Descend
<1>5. PICK c \in 0 .. N : /\ c = t[d].child /\ (c = 0 \/ t[c].parent = d)
                          /\ \A j \in 1 .. N : t[j].parent = d => j <= c
  BY <1>2 DEF Linked, Heads, Newest, Null, Ids
<1>6. ListFrom(t, d, c, g[c])
  BY <1>4, <1>5 DEF T
<1>7. {j \in 1 .. c : t[j].parent = d} = {j \in 1 .. N : t[j].parent = d}
  BY <1>5
<1> QED
  BY <1>1, <1>2, <1>5, <1>6, <1>7 DEF ListFrom

-----------------------------------------------------------------------------
(* A new node at the head of its parent's list. *)

\* u is t with a child of d called n.
Added(t, u, d, n, type) ==
  /\ u \in Seq(NodeRec) /\ Len(u) = Len(t) + 1
  /\ \A i \in 1 .. Len(t) :
       /\ u[i].type = t[i].type /\ u[i].name = t[i].name /\ u[i].parent = t[i].parent
       /\ u[i].sibling = t[i].sibling /\ u[i].data = t[i].data /\ u[i].size = t[i].size
       /\ u[i].child = IF i = d THEN Len(t) + 1 ELSE t[i].child
  /\ u[Len(t) + 1].type = type /\ u[Len(t) + 1].name = n /\ u[Len(t) + 1].parent = d
  /\ u[Len(t) + 1].sibling = t[d].child /\ u[Len(t) + 1].child = Null
  /\ u[Len(t) + 1].data = 0 /\ u[Len(t) + 1].size = 0

LEMMA AddedIs ==
  ASSUME NEW t, Linked(t), NEW d \in Ids(t), NEW n \in Name \cup {NoName}, NEW type \in {V_DIR, V_FILE}
  PROVE  Added(t, Append([t EXCEPT ![d].child = Len(t) + 1],
                         [Node(type, n) EXCEPT !.parent = d, !.sibling = t[d].child]), d, n, type)
<1> DEFINE new  == Len(t) + 1
           e    == [t[d] EXCEPT !.child = new]
           v    == [t EXCEPT ![d] = e]
           node == [Node(type, n) EXCEPT !.parent = d, !.sibling = t[d].child]
<1>1. t \in Seq(NodeRec) /\ d \in 1 .. Len(t) /\ Len(t) \in Nat /\ d \in Nat
  BY RootThere DEF Linked, Ids
<1>2. e \in NodeRec /\ t[d].child \in Nat
  <2>1. t[d] \in NodeRec /\ new \in Nat
    BY <1>1
  <2> HIDE DEF new
  <2> QED
    BY <2>1 DEF NodeRec
<1>3. node \in NodeRec
  <2>1. PICK s \in Nat : s = t[d].child
    BY <1>2
  <2>2. PICK x \in NodeRec : x = Node(type, n)
    <3>1. Node(type, n) \in NodeRec
      BY DEF Node, NodeRec, Null
    <3> QED
      BY <3>1
  <2>3. PICK y \in NodeRec : y = [x EXCEPT !.parent = d]
    BY <1>1 DEF NodeRec
  <2>4. [y EXCEPT !.sibling = s] \in NodeRec
    BY DEF NodeRec
  <2> QED
    BY <2>1, <2>2, <2>3, <2>4
<1>4. /\ v \in Seq(NodeRec) /\ Len(v) = Len(t)
      /\ \A j \in 1 .. Len(t) : v[j] = IF j = d THEN e ELSE t[j]
  BY <1>1, <1>2, ExceptSeq
<1>5. /\ e.type = t[d].type /\ e.name = t[d].name /\ e.parent = t[d].parent
      /\ e.sibling = t[d].sibling /\ e.data = t[d].data /\ e.size = t[d].size /\ e.child = new
  BY <1>1 DEF NodeRec
<1>6. /\ node.type = type /\ node.name = n /\ node.parent = d /\ node.sibling = t[d].child
      /\ node.child = Null /\ node.data = 0 /\ node.size = 0
  BY DEF Node
<1> HIDE DEF e, node, v
<1>7. /\ Append(v, node) \in Seq(NodeRec) /\ Len(Append(v, node)) = Len(t) + 1
      /\ \A j \in 1 .. Len(t) : Append(v, node)[j] = v[j]
      /\ Append(v, node)[Len(t) + 1] = node
  BY <1>3, <1>4, AppendProperties
<1>8. Append(v, node) = Append([t EXCEPT ![d].child = new],
                         [Node(type, n) EXCEPT !.parent = d, !.sibling = t[d].child])
  BY DEF v, e, node
<1>9. PICK u : u = Append(v, node) /\ u[Len(t) + 1] = node /\ u \in Seq(NodeRec) /\ Len(u) = Len(t) + 1
  BY <1>7
<1>10. ASSUME NEW i \in 1 .. Len(t)
       PROVE /\ u[i].type = t[i].type /\ u[i].name = t[i].name /\ u[i].parent = t[i].parent
             /\ u[i].sibling = t[i].sibling /\ u[i].data = t[i].data /\ u[i].size = t[i].size
             /\ u[i].child = IF i = d THEN Len(t) + 1 ELSE t[i].child
  <2>1. u[i] = IF i = d THEN e ELSE t[i]
    BY <1>4, <1>7, <1>9
  <2> QED
    BY <1>5, <2>1
<1>11. Added(t, u, d, n, type)
  BY <1>6, <1>9, <1>10 DEF Added
<1> QED
  BY <1>8, <1>9, <1>11

\* The links stay what they were made: the new node is the newest of its list.
LEMMA AddedLinked ==
  ASSUME NEW t, Linked(t), NEW d \in Ids(t), NEW u, NEW n, NEW type, Added(t, u, d, n, type),
         \A i \in Ids(t) : t[i].parent = d => t[i].name # n \/ n = NoName
  PROVE  Linked(u)
<1>1. PICK L \in Nat : L = Len(t) /\ L # 0 /\ Len(u) = L + 1
  BY RootThere DEF Added
<1>2. d \in 1 .. L
  BY <1>1 DEF Ids
<1>3. u \in Seq(NodeRec) /\ Len(u) \in Nat \ {0}
  BY <1>1 DEF Added
<1>4. \A i \in 1 .. L + 1 : i \in 1 .. L \/ i = L + 1
  OBVIOUS
<1>5. /\ \A i \in 1 .. L :
           /\ u[i].name = t[i].name /\ u[i].parent = t[i].parent /\ u[i].sibling = t[i].sibling
           /\ u[i].child = IF i = d THEN L + 1 ELSE t[i].child
      /\ u[L + 1].name = n /\ u[L + 1].parent = d /\ u[L + 1].sibling = t[d].child
      /\ u[L + 1].child = Null
  BY <1>1 DEF Added
<1>6. /\ \A i \in 1 .. L : t[i].child \in 0 .. L /\ Newest(t, i, L, t[i].child)
      /\ \A i \in 1 .. L : t[i].sibling \in 0 .. i - 1 /\ Newest(t, t[i].parent, i - 1, t[i].sibling)
      /\ t[root].parent = Null /\ \A i \in 1 .. L : i # root => t[i].parent \in 1 .. i - 1
  BY <1>1 DEF Linked, Heads, Siblings, Parents, Ids
<1>7. \A i \in 1 .. L : t[i].parent \in 0 .. L
  BY <1>1, NodeTypes DEF Ids
<1>8. Heads(u)
  <2>1. SUFFICES ASSUME NEW i \in 1 .. L + 1
                 PROVE  u[i].child \in 0 .. L + 1 /\ Newest(u, i, L + 1, u[i].child)
    BY <1>1 DEF Heads, Ids
  <2>2. CASE i = L + 1
    <3>1. \A j \in 1 .. L + 1 : u[j].parent # L + 1
      BY <1>2, <1>4, <1>5, <1>7
    <3> QED
      BY <1>5, <2>2, <3>1 DEF Newest, Null
  <2>3. CASE i = d
    BY <1>2, <1>5, <2>3 DEF Newest
  <2>4. CASE i \in 1 .. L /\ i # d
    <3>1. PICK c \in 0 .. L : c = t[i].child /\ u[i].child = c /\ Newest(t, i, L, c)
      BY <1>5, <1>6, <2>4
    <3>2. Newest(u, i, L + 1, c)
      BY <1>4, <1>5, <2>4, <3>1 DEF Newest, Null
    <3> QED
      BY <3>1, <3>2
  <2> QED
    BY <1>4, <2>2, <2>3, <2>4
<1>9. Siblings(u)
  <2>1. SUFFICES ASSUME NEW i \in 1 .. L + 1
                 PROVE  u[i].sibling \in 0 .. i - 1 /\ Newest(u, u[i].parent, i - 1, u[i].sibling)
    BY <1>1 DEF Siblings, Ids
  <2>2. CASE i = L + 1
    <3>1. PICK c \in 0 .. L : c = t[d].child /\ u[i].sibling = c /\ Newest(t, d, L, c)
      BY <1>2, <1>5, <1>6, <2>2
    <3>2. Newest(u, d, L, c)
      BY <1>5, <3>1 DEF Newest, Null
    <3> QED
      BY <1>5, <2>2, <3>1, <3>2
  <2>3. CASE i \in 1 .. L
    <3>1. PICK c \in 0 .. i - 1 : c = t[i].sibling /\ u[i].sibling = c /\ Newest(t, t[i].parent, i - 1, c)
      BY <1>5, <1>6, <2>3
    <3>2. \A j \in 1 .. i - 1 : j \in 1 .. L
      BY <2>3
    <3>3. Newest(u, u[i].parent, i - 1, c)
      BY <1>5, <2>3, <3>1, <3>2 DEF Newest, Null
    <3> QED
      BY <3>1, <3>3
  <2> QED
    BY <1>4, <2>2, <2>3
<1>10. Parents(u)
  <2>1. root \in 1 .. L
    BY <1>1 DEF root
  <2>2. ASSUME NEW i \in 1 .. L + 1, i # root PROVE u[i].parent \in 1 .. i - 1
    BY <1>2, <1>4, <1>5, <1>6, <2>2
  <2> QED
    BY <1>1, <1>5, <1>6, <2>1, <2>2 DEF Parents, Ids
<1>11. Distinct(u)
  <2>1. SUFFICES ASSUME NEW i \in 1 .. L + 1, NEW j \in 1 .. L + 1,
                        u[i].parent = u[j].parent, u[i].name = u[j].name, u[i].name # NoName
                 PROVE  i = j
    BY <1>1 DEF Distinct, Ids
  <2>2. CASE i \in 1 .. L /\ j \in 1 .. L
    BY <1>1, <1>5, <2>1, <2>2 DEF Linked, Distinct, Ids
  <2>3. CASE i \in 1 .. L /\ j = L + 1
    BY <1>1, <1>5, <2>1, <2>3 DEF Ids
  <2>4. CASE i = L + 1 /\ j \in 1 .. L
    BY <1>1, <1>5, <2>1, <2>4 DEF Ids
  <2> QED
    BY <1>4, <2>2, <2>3, <2>4
<1> QED
  BY <1>3, <1>8, <1>9, <1>10, <1>11 DEF Linked

-----------------------------------------------------------------------------
(* What a larger table keeps of a smaller one. *)

Extends(t, u) ==
  /\ Len(t) <= Len(u)
  /\ \A i \in Ids(t) : /\ u[i].type = t[i].type /\ u[i].name = t[i].name /\ u[i].parent = t[i].parent
                       /\ u[i].data = t[i].data /\ u[i].size = t[i].size

SameNames(t, u) ==
  /\ Len(t) <= Len(u)
  /\ \A i \in Ids(t) : u[i].name = t[i].name /\ u[i].parent = t[i].parent

LEMMA PathKept ==
  ASSUME NEW t, Linked(t), NEW u, Linked(u), SameNames(t, u)
  PROVE  \A i \in Ids(t) : i \in Ids(u) /\ PathOf(u, i) = PathOf(t, i)
<1> DEFINE T == {i \in Nat : i # 0 => PathOf(u, i) = PathOf(t, i)}
<1>1. PICK N \in Nat : N = Len(t)
  BY RootThere
<1>2. \A i \in 1 .. N : i \in Ids(t) /\ i \in Ids(u) /\ u[i].name = t[i].name /\ u[i].parent = t[i].parent
  BY <1>1, RootThere DEF SameNames, Ids
<1>3. ASSUME NEW i \in 0 .. N, \A j \in 0 .. N : j < i => j \in T PROVE i \in T
  <2>1. CASE i = 0
    BY <2>1
  <2>2. CASE i = root
    BY <2>2, PathSteps
  <2>3. CASE i # 0 /\ i # root
    <3>1. i \in 1 .. N
      BY <2>3
    <3>2. PICK d \in 1 .. i - 1 : d = t[i].parent
      BY <1>2, <2>3, <3>1 DEF Linked, Parents
    <3>3. PathOf(u, d) = PathOf(t, d)
      BY <1>3, <3>2
    <3>4. PathOf(t, i) = Append(PathOf(t, d), t[i].name)
      BY <1>2, <2>3, <3>1, <3>2, PathSteps
    <3>5. PathOf(u, i) = Append(PathOf(u, d), u[i].name)
      BY <1>2, <2>3, <3>1, <3>2, PathSteps
    <3> QED
      BY <1>2, <3>1, <3>3, <3>4, <3>5
  <2> QED
    BY <2>1, <2>2, <2>3
<1> HIDE DEF T
<1>4. \A i \in 0 .. N : i \in T
  BY <1>3, Descend
<1>5. \A i \in Ids(t) : i \in 1 .. N /\ i \in 0 .. N /\ i # 0
  BY <1>1 DEF Ids
<1> QED
  BY <1>2, <1>4, <1>5 DEF T

-----------------------------------------------------------------------------
(* How the tree grows under Ensure: along one path, and nowhere else. *)

\* p is on the way to q.
OnWay(p, q) == \E k \in 0 .. Len(q) : p = SubSeq(q, 1, k)

LEMMA OnWaySelf ==
  ASSUME NEW S, NEW q \in Seq(S)
  PROVE  OnWay(q, q)
BY SubSeqFull DEF OnWay

LEMMA SubSeqAppend ==
  ASSUME NEW S, NEW q \in Seq(S), NEW x \in S, NEW k \in 0 .. Len(q)
  PROVE  SubSeq(Append(q, x), 1, k) = SubSeq(q, 1, k)
<1>1. PICK N \in Nat, r \in Seq(S) :
        N = Len(q) /\ r = Append(q, x) /\ Len(r) = N + 1 /\ \A i \in 1 .. N : r[i] = q[i]
  <2>1. /\ Append(q, x) \in Seq(S) /\ Len(Append(q, x)) = Len(q) + 1 /\ Len(q) \in Nat
        /\ \A i \in 1 .. Len(q) : Append(q, x)[i] = q[i]
    BY AppendProperties, LenProperties
  <2> QED
    BY <2>1
<1>2. k \in Nat /\ k <= N
  BY <1>1
<1>3. \A i \in 1 .. k : i \in 1 .. N /\ q[i] \in S /\ r[i] \in S
  BY <1>1, <1>2
<1>4. /\ SubSeq(q, 1, k) \in Seq(S) /\ Len(SubSeq(q, 1, k)) = (IF 1 <= k THEN k - 1 + 1 ELSE 0)
      /\ \A i \in 1 .. k - 1 + 1 : SubSeq(q, 1, k)[i] = q[1 + i - 1]
  BY <1>2, <1>3, SubSeqProperties
<1>5. /\ SubSeq(r, 1, k) \in Seq(S) /\ Len(SubSeq(r, 1, k)) = (IF 1 <= k THEN k - 1 + 1 ELSE 0)
      /\ \A i \in 1 .. k - 1 + 1 : SubSeq(r, 1, k)[i] = r[1 + i - 1]
  BY <1>2, <1>3, SubSeqProperties
<1>6. Len(SubSeq(q, 1, k)) = k /\ Len(SubSeq(r, 1, k)) = k
  BY <1>2, <1>4, <1>5
<1>7. \A i \in 1 .. k : SubSeq(q, 1, k)[i] = SubSeq(r, 1, k)[i]
  <2>1. \A i \in 1 .. k : i \in 1 .. k - 1 + 1 /\ 1 + i - 1 = i
    BY <1>2
  <2>2. \A i \in 1 .. k : SubSeq(q, 1, k)[i] = q[i] /\ SubSeq(r, 1, k)[i] = r[i]
    BY <1>4, <1>5, <2>1
  <2> QED
    BY <1>1, <1>3, <2>2
<1> QED
  BY <1>1, <1>4, <1>5, <1>6, <1>7, SeqEqual

LEMMA OnWayOn ==
  ASSUME NEW S, NEW p, NEW q \in Seq(S), NEW x \in S, OnWay(p, q)
  PROVE  OnWay(p, Append(q, x))
<1>1. PICK k \in 0 .. Len(q) : p = SubSeq(q, 1, k)
  BY DEF OnWay
<1>2. Len(Append(q, x)) = Len(q) + 1 /\ Len(q) \in Nat
  BY AppendProperties, LenProperties
<1>3. SubSeq(Append(q, x), 1, k) = p
  BY <1>1, SubSeqAppend
<1> QED
  BY <1>1, <1>2, <1>3 DEF OnWay

LEMMA OnWayShorter ==
  ASSUME NEW S, NEW p, NEW q \in Seq(S), OnWay(p, q)
  PROVE  Len(p) <= Len(q)
<1>1. PICK k \in 0 .. Len(q) : p = SubSeq(q, 1, k)
  BY DEF OnWay
<1>2. \A i \in 1 .. k : q[i] \in S
  BY <1>1
<1>3. k \in Int /\ 1 \in Int /\ Len(q) \in Nat
  BY <1>1
<1>4. Len(SubSeq(q, 1, k)) = IF 1 <= k THEN k - 1 + 1 ELSE 0
  BY <1>2, <1>3, SubSeqProperties
<1> QED
  BY <1>1, <1>3, <1>4

LEMMA TimesGrows ==
  ASSUME NEW a \in Nat, NEW b \in Nat, NEW w \in Nat, a <= b
  PROVE  a * w <= b * w /\ (a + 1) * w = a * w + w /\ a * w \in Nat
<1>1. PICK c \in Nat : b = a + c
  <2>1. b - a \in Nat /\ b = a + (b - a)
    OBVIOUS
  <2> QED
    BY <2>1
<1>2. b * w = a * w + c * w /\ c * w \in Nat /\ a * w \in Nat
  BY <1>1
<1> QED
  BY <1>2

-----------------------------------------------------------------------------

StateRec == [t : Seq(NodeRec), off : Nat, cur : Nat, bad : BOOLEAN]

State(s) == /\ s \in StateRec /\ Linked(s.t) /\ Len(s.t) <= MaxNodes
            /\ s.off <= NameBytes /\ s.cur \in Ids(s.t)

\* As many names as there are nodes have room.
EnoughNames == \E w \in Nat : MaxNodes * w <= NameBytes /\ \A n \in Name : NameLen[n] < w

Widest == CHOOSE w \in Nat : MaxNodes * w <= NameBytes /\ \A n \in Name : NameLen[n] < w

Roomy(t, off) == Named(t) /\ off <= Len(t) * Widest

\* r is s, and on the way to its current node new directories; the current
\* node, if it is new, is of the given type.
Grew(s, r, type) ==
  /\ State(r) /\ Extends(s.t, r.t)
  /\ EnoughNames /\ Roomy(s.t, s.off) => Roomy(r.t, r.off)
  /\ \A i \in Ids(r.t) \ Ids(s.t) :
       /\ r.t[i].type = IF i = r.cur THEN type ELSE V_DIR
       /\ r.t[i].data = 0 /\ r.t[i].size = 0
       /\ OnWay(PathOf(r.t, i), PathOf(r.t, r.cur))

LEMMA GrewSelf ==
  ASSUME NEW s, State(s)
  PROVE  Grew(s, s, V_DIR)
BY RootThere DEF Grew, State, Extends

LEMMA AddIs ==
  ASSUME NEW s, State(s), s.bad = FALSE, NEW n \in Name, NEW type \in {V_DIR, V_FILE},
         NEW r, r = Add(s, n, type)
  PROVE  /\ r \in StateRec
         /\ ~r.bad =>
              /\ Len(s.t) < MaxNodes /\ r.cur = Len(s.t) + 1
              /\ \/ Added(s.t, r.t, s.cur, n, type)
                    /\ r.off = s.off + NameLen[n] + 1 /\ r.off <= NameBytes
                 \/ Added(s.t, r.t, s.cur, NoName, type)
                    /\ r.off = s.off /\ ~(s.off + NameLen[n] + 1 <= NameBytes)
<1>1. PICK L \in Nat, d \in Nat, off \in Nat, t \in Seq(NodeRec) :
        t = s.t /\ L = Len(t) /\ d = s.cur /\ off = s.off /\ d \in Ids(t) /\ Linked(t)
  BY RootThere DEF State, StateRec
<1>2. PICK w \in Nat : w = NameLen[n]
  BY ConstantsGiven
<1>3. CASE L >= MaxNodes
  <2>1. r = [s EXCEPT !.bad = TRUE]
    BY <1>1, <1>3 DEF Add
  <2> QED
    BY <1>1, <1>3, <2>1 DEF State, StateRec
<1>4. CASE ~(L >= MaxNodes)
  <2>1. PICK m \in Name \cup {NoName} : m = IF off + w + 1 <= NameBytes THEN n ELSE NoName
    OBVIOUS
  <2>2. PICK o \in Nat : o = IF off + w + 1 <= NameBytes THEN off + w + 1 ELSE off
    OBVIOUS
  <2>3. PICK u : u = Append([t EXCEPT ![d].child = Len(t) + 1],
                         [Node(type, m) EXCEPT !.parent = d, !.sibling = t[d].child])
    OBVIOUS
  <2>4. Added(t, u, d, m, type)
    BY <1>1, <2>3, AddedIs
  <2>5. r = [t |-> u, off |-> o, cur |-> L + 1, bad |-> FALSE]
    BY <1>1, <1>2, <1>4, <2>1, <2>2, <2>3, Zenon DEF Add
  <2>6. u \in Seq(NodeRec) /\ L + 1 \in Nat
    BY <2>4 DEF Added
  <2>7. r.t = u /\ r.off = o /\ r.cur = L + 1 /\ r.bad = FALSE /\ r \in StateRec
    BY <2>5, <2>6 DEF StateRec
  <2>8. Len(s.t) < MaxNodes
    BY <1>1, <1>4, ConstantsGiven
  <2>9. CASE off + w + 1 <= NameBytes
    BY <1>1, <1>2, <2>1, <2>2, <2>4, <2>7, <2>8, <2>9
  <2>10. CASE ~(off + w + 1 <= NameBytes)
    BY <1>1, <1>2, <2>1, <2>2, <2>4, <2>7, <2>8, <2>10
  <2> QED
    BY <2>9, <2>10
<1> QED
  BY <1>3, <1>4

LEMMA WidestIs ==
  ASSUME EnoughNames
  PROVE  Widest \in Nat /\ MaxNodes * Widest <= NameBytes /\ \A n \in Name : NameLen[n] < Widest
BY DEF EnoughNames, Widest

\* While there is room for the widest name in every node, each name finds room.
LEMMA RoomyAdd ==
  ASSUME EnoughNames, NEW s, State(s), s.bad = FALSE, NEW n \in Name, NEW type \in {V_DIR, V_FILE},
         NEW r, r = Add(s, n, type), ~r.bad, Roomy(s.t, s.off)
  PROVE  Roomy(r.t, r.off) /\ Added(s.t, r.t, s.cur, n, type)
<1>1. PICK L \in Nat, off \in Nat, w \in Nat, W \in Nat :
        L = Len(s.t) /\ off = s.off /\ w = NameLen[n] /\ W = Widest
  BY RootThere, ConstantsGiven, WidestIs DEF State, StateRec
<1>2. off <= L * W /\ w < W /\ L + 1 <= MaxNodes /\ MaxNodes * W <= NameBytes
  <2>1. L < MaxNodes
    BY <1>1, AddIs
  <2> QED
    BY <1>1, <2>1, WidestIs, ConstantsGiven DEF Roomy
<1>3. (L + 1) * W = L * W + W /\ (L + 1) * W <= MaxNodes * W /\ L * W \in Nat /\ MaxNodes * W \in Nat
  BY <1>2, TimesGrows, ConstantsGiven
<1>4. off + w + 1 <= (L + 1) * W /\ (L + 1) * W <= NameBytes
  BY <1>2, <1>3, ConstantsGiven
<1>5. off + w + 1 <= NameBytes
  BY <1>2, <1>3, <1>4, ConstantsGiven
<1>6. Added(s.t, r.t, s.cur, n, type) /\ r.off = off + w + 1
  BY <1>1, <1>5, AddIs
<1>7. Len(r.t) = L + 1
  BY <1>1, <1>6 DEF Added
<1>8. Named(r.t)
  <2>1. ASSUME NEW i \in 1 .. L + 1, i # root PROVE r.t[i].name \in Name
    <3>1. CASE i = L + 1
      BY <1>1, <1>6, <3>1 DEF Added
    <3>2. CASE i # L + 1
      <4>1. i \in 1 .. L
        BY <3>2
      <4> QED
        BY <1>1, <1>6, <2>1, <4>1 DEF Added, Roomy, Named, Ids
    <3> QED
      BY <3>1, <3>2
  <2> QED
    BY <1>7, <2>1 DEF Named, Ids
<1> QED
  BY <1>1, <1>4, <1>6, <1>7, <1>8 DEF Roomy

\* One component more.
LEMMA EnsureGrows ==
  ASSUME NEW s0, State(s0), NEW s, Grew(s0, s, V_DIR), s.bad = FALSE,
         NEW n \in Name, NEW type \in {V_DIR, V_FILE}, NEW r, r = Ensure(s, n, type)
  PROVE  /\ r \in StateRec
         /\ ~r.bad => Grew(s0, r, type)
<1>1. State(s) /\ s \in StateRec /\ Linked(s.t) /\ s.cur \in Ids(s.t)
  BY DEF Grew, State
<1>2. PICK c : c = Find(s.t, s.cur, n) /\ Found(s.t, s.cur, n, c)
  BY <1>1, FindResult
<1>3. CASE c = -1
  <2>1. r = [s EXCEPT !.bad = TRUE]
    BY <1>2, <1>3 DEF Ensure
  <2> QED
    BY <1>1, <2>1 DEF StateRec
<1>4. CASE c # -1 /\ c # Null
  <2>1. r = [s EXCEPT !.cur = c]
    BY <1>2, <1>4, Zenon DEF Ensure
  <2>2. c \in Ids(s.t) /\ s.t[c].parent = s.cur
    BY <1>2, <1>4 DEF Found, FoundFrom, Ids
  <2>3. c \in Nat /\ c # root
    BY <1>1, <2>2, RootThere DEF Linked, Parents, Ids
  <2>4. r.t = s.t /\ r.off = s.off /\ r.cur = c /\ r.bad = FALSE /\ r \in StateRec
    BY <1>1, <2>1, <2>3 DEF StateRec
  <2>5. State(r)
    BY <1>1, <2>2, <2>4 DEF State
  <2>6. PathOf(s.t, c) = Append(PathOf(s.t, s.cur), s.t[c].name)
    BY <1>1, <2>2, <2>3, PathSteps
  <2>7. PathOf(s.t, s.cur) \in Seq(Name \cup {NoName}) /\ s.t[c].name \in Name \cup {NoName}
    BY <1>1, <2>2, PathSteps, NodeTypes
  <2>8. ASSUME NEW i \in Ids(r.t) \ Ids(s0.t)
        PROVE  /\ r.t[i].type = IF i = r.cur THEN type ELSE V_DIR
               /\ r.t[i].data = 0 /\ r.t[i].size = 0
               /\ OnWay(PathOf(r.t, i), PathOf(r.t, r.cur))
    <3>1. /\ s.t[i].type = V_DIR /\ s.t[i].data = 0 /\ s.t[i].size = 0
          /\ OnWay(PathOf(s.t, i), PathOf(s.t, s.cur))
      BY <2>4 DEF Grew
    <3>2. OnWay(PathOf(s.t, i), PathOf(s.t, c))
      BY <2>6, <2>7, <3>1, OnWayOn
    <3>3. i # c
      <4>1. PICK p \in Seq(Name \cup {NoName}) : p = PathOf(s.t, s.cur)
        BY <2>7
      <4>2. PathOf(s.t, c) = Append(p, s.t[c].name)
        BY <2>6, <4>1
      <4>3. Len(PathOf(s.t, c)) = Len(p) + 1 /\ Len(p) \in Nat
        BY <2>7, <4>2, AppendProperties, LenProperties
      <4>4. Len(PathOf(s.t, i)) <= Len(p)
        BY <3>1, <4>1, OnWayShorter
      <4> QED
        BY <4>3, <4>4
    <3> QED
      BY <2>4, <3>1, <3>2, <3>3
  <2>9. Extends(s0.t, r.t) /\ (EnoughNames /\ Roomy(s0.t, s0.off) => Roomy(r.t, r.off))
    BY <2>4 DEF Grew
  <2> QED
    BY <2>3, <2>4, <2>5, <2>8, <2>9 DEF Grew
<1>5. CASE c = Null
  <2>1. r = Add(s, n, type)
    BY <1>2, <1>5 DEF Ensure, Null
  <2>2. r \in StateRec
    BY <1>1, <2>1, AddIs
  <2> SUFFICES ASSUME ~r.bad PROVE Grew(s0, r, type)
    BY <2>2
  <2>3. PICK m \in {n, NoName} : Added(s.t, r.t, s.cur, m, type)
    BY <1>1, <2>1, AddIs
  <2>4. r.cur = Len(s.t) + 1 /\ r.off <= NameBytes /\ Len(s.t) < MaxNodes
    <3>1. s.off <= NameBytes
      BY <1>1 DEF State
    <3>2. /\ r.cur = Len(s.t) + 1 /\ Len(s.t) < MaxNodes
          /\ (r.off = s.off + NameLen[n] + 1 /\ r.off <= NameBytes) \/ r.off = s.off
      BY <1>1, <2>1, AddIs
    <3> QED
      BY <3>1, <3>2
  <2>5. \A i \in Ids(s.t) : s.t[i].parent = s.cur => s.t[i].name # m \/ m = NoName
    BY <1>2, <1>5, <2>3 DEF Found, FoundFrom, Ids
  <2>6. Linked(r.t)
    BY <1>1, <2>3, <2>5, AddedLinked
  <2>7. PICK L \in Nat : L = Len(s.t) /\ L # 0 /\ Len(r.t) = L + 1
    BY <1>1, <2>3, RootThere DEF Added
  <2>8. State(r)
    BY <2>2, <2>4, <2>6, <2>7, ConstantsGiven DEF State, Ids
  <2>9. Extends(s.t, r.t) /\ SameNames(s.t, r.t)
    BY <2>3, <2>7 DEF Extends, SameNames, Added, Ids
  <2>10. Extends(s0.t, r.t)
    <3>1. Extends(s0.t, s.t)
      BY DEF Grew
    <3>2. Len(s0.t) \in Nat /\ \A i \in Ids(s0.t) : i \in Ids(s.t)
      BY <2>7, <3>1, RootThere DEF State, Extends, Ids
    <3> QED
      BY <2>7, <2>9, <3>1, <3>2 DEF Extends
  <2>11. EnoughNames /\ Roomy(s0.t, s0.off) => Roomy(r.t, r.off)
    BY <1>1, <2>1, RoomyAdd DEF Grew
  <2>12. \A i \in Ids(s.t) : PathOf(r.t, i) = PathOf(s.t, i)
    BY <1>1, <2>6, <2>9, PathKept
  <2>13. /\ r.cur \in Ids(r.t) /\ r.cur # root /\ r.t[r.cur].parent = s.cur /\ r.t[r.cur].name = m
         /\ r.t[r.cur].type = type /\ r.t[r.cur].data = 0 /\ r.t[r.cur].size = 0
    BY <2>3, <2>4, <2>7 DEF Added, Ids, root
  <2>14. PathOf(r.t, r.cur) = Append(PathOf(s.t, s.cur), m)
    BY <1>1, <2>6, <2>12, <2>13, PathSteps
  <2>15. /\ PathOf(s.t, s.cur) \in Seq(Name \cup {NoName}) /\ m \in Name \cup {NoName}
         /\ PathOf(r.t, r.cur) \in Seq(Name \cup {NoName})
    BY <1>1, <2>3, <2>6, <2>13, PathSteps
  <2>16. ASSUME NEW i \in Ids(r.t) \ Ids(s0.t)
         PROVE  /\ r.t[i].type = IF i = r.cur THEN type ELSE V_DIR
                /\ r.t[i].data = 0 /\ r.t[i].size = 0
                /\ OnWay(PathOf(r.t, i), PathOf(r.t, r.cur))
    <3>1. CASE i = r.cur
      BY <2>13, <2>15, <3>1, OnWaySelf
    <3>2. CASE i # r.cur
      <4>1. i \in Ids(s.t) \ Ids(s0.t)
        BY <2>4, <2>7, <3>2 DEF Ids
      <4>2. /\ s.t[i].type = V_DIR /\ s.t[i].data = 0 /\ s.t[i].size = 0
            /\ OnWay(PathOf(s.t, i), PathOf(s.t, s.cur))
        BY <4>1 DEF Grew
      <4>3. OnWay(PathOf(s.t, i), PathOf(r.t, r.cur))
        BY <2>14, <2>15, <4>2, OnWayOn
      <4> QED
        BY <2>9, <2>12, <3>2, <4>1, <4>2, <4>3 DEF Extends
    <3> QED
      BY <3>1, <3>2
  <2> QED
    BY <2>8, <2>10, <2>11, <2>13, <2>16 DEF Grew
<1> QED
  BY <1>3, <1>4, <1>5

DirStep(s, n) == IF n = Dot THEN s ELSE Ensure(s, n, V_DIR)

IsMade(g, s, p) ==
  g = [k \in 0 .. Len(p) |->
         IF k = 0 THEN s
         ELSE IF p[k] = Dot THEN g[k - 1] ELSE Ensure(g[k - 1], p[k], V_DIR)]

\* The records that the loop goes through.
Steady == {s \in StateRec : ~s.bad => State(s)}

LEMMA DirStepSteady ==
  ASSUME NEW s \in Steady, NEW n \in Name
  PROVE  DirStep(s, n) \in Steady
<1>1. CASE n = Dot
  BY <1>1 DEF DirStep
<1>2. CASE n # Dot /\ s.bad
  BY <1>2 DEF DirStep, Ensure
<1>3. CASE n # Dot /\ ~s.bad
  <2>1. State(s) /\ s.bad = FALSE
    BY <1>3 DEF Steady, StateRec
  <2>2. PICK r : r = Ensure(s, n, V_DIR) /\ r = DirStep(s, n)
    BY <1>3 DEF DirStep
  <2>3. r \in StateRec /\ (~r.bad => Grew(s, r, V_DIR))
    BY <2>1, <2>2, GrewSelf, EnsureGrows
  <2> QED
    BY <2>2, <2>3 DEF Grew, Steady
<1> QED
  BY <1>1, <1>2, <1>3

LEMMA MadeRuns ==
  ASSUME NEW s \in Steady, NEW p \in Seq(Name)
  PROVE  \E g \in [0 .. Len(p) -> Steady] : IsMade(g, s, p)
<1> DEFINE A    == Steady
           N    == Len(p)
           next == [k \in 1 .. N |-> k - 1]
           step == [x \in A \X (1 .. N) |-> DirStep(x[1], p[x[2]])]
<1>1. N \in Nat /\ s \in A
  OBVIOUS
<1>2. \A k \in 1 .. N : next[k] \in 0 .. k - 1 /\ next[k] = k - 1
  BY <1>1
<1>3. \A x \in A : \A k \in 1 .. N : step[<<x, k>>] = DirStep(x, p[k])
  OBVIOUS
<1> HIDE DEF step, next
<1>4. \A x \in A : \A k \in 1 .. N : step[<<x, k>>] \in A
  <2> SUFFICES ASSUME NEW x \in A, NEW k \in 1 .. N PROVE step[<<x, k>>] \in A
    OBVIOUS
  <2>1. p[k] \in Name
    OBVIOUS
  <2>2. DirStep(x, p[k]) \in A
    BY <2>1, DirStepSteady
  <2> QED
    BY <1>3, <2>2
<1> HIDE DEF A
<1>5. PICK g \in [0 .. N -> A] : Runs(g, s, next, step, N)
  BY <1>1, <1>2, <1>4, Recursion
<1>6. ASSUME NEW k \in 0 .. N
      PROVE  g[k] = IF k = 0 THEN s
                    ELSE IF p[k] = Dot THEN g[k - 1] ELSE Ensure(g[k - 1], p[k], V_DIR)
  <2>1. CASE k = 0
    BY <1>1, <1>5, <2>1 DEF Runs
  <2>2. CASE k # 0
    <3>1. k \in 1 .. N /\ k - 1 \in 0 .. N
      BY <1>1, <2>2
    <3>2. g[k] = step[<<g[k - 1], k>>] /\ g[k - 1] \in A
      BY <1>2, <1>5, <3>1 DEF Runs
    <3>3. g[k] = DirStep(g[k - 1], p[k])
      BY <1>3, <3>1, <3>2
    <3> QED
      BY <2>2, <3>3, Zenon DEF DirStep
  <2> QED
    BY <2>1, <2>2
<1>7. g = [k \in 0 .. N |-> g[k]]
  OBVIOUS
<1>8. IsMade(g, s, p)
  BY <1>6, <1>7 DEF IsMade
<1> QED
  BY <1>5, <1>8 DEF A

LEMMA MadeIs ==
  ASSUME NEW s \in Steady, NEW p \in Seq(Name)
  PROVE  \E g : /\ EnsureDirs(s, p) = g[Len(p)]
                /\ g[0] = s
                /\ \A k \in 1 .. Len(p) : g[k] = DirStep(g[k - 1], p[k])
<1> DEFINE g == CHOOSE g : IsMade(g, s, p)
<1>1. IsMade(g, s, p)
  BY MadeRuns
<1>2. EnsureDirs(s, p) = g[Len(p)]
  BY DEF EnsureDirs, IsMade
<1> HIDE DEF g
<1>3. Len(p) \in Nat
  OBVIOUS
<1>4. g[0] = s
  BY <1>1, <1>3 DEF IsMade
<1>5. ASSUME NEW k \in 1 .. Len(p) PROVE g[k] = DirStep(g[k - 1], p[k])
  <2>1. k \in 0 .. Len(p) /\ k # 0
    BY <1>3
  <2> QED
    BY <1>1, <2>1, Zenon DEF IsMade, DirStep
<1> QED
  BY <1>2, <1>4, <1>5

\* The directories of a path, if the machine is still running then.
LEMMA DirsGrow ==
  ASSUME NEW s, State(s), s.bad = FALSE, NEW p \in Seq(Name), NEW r, r = EnsureDirs(s, p)
  PROVE  r \in StateRec /\ (~r.bad => Grew(s, r, V_DIR))
<1>1. s \in Steady
  BY DEF Steady, State
<1>2. PICK g : /\ r = g[Len(p)] /\ g[0] = s
               /\ \A k \in 1 .. Len(p) : g[k] = DirStep(g[k - 1], p[k])
  BY <1>1, MadeIs
<1>3. PICK N \in Nat : N = Len(p) /\ \A k \in 1 .. N : p[k] \in Name
  OBVIOUS
<1> DEFINE T == {k \in Nat : g[k] \in StateRec /\ (~g[k].bad => Grew(s, g[k], V_DIR))}
<1>4. ASSUME NEW k \in 0 .. N, \A j \in 0 .. N : j < k => j \in T PROVE k \in T
  <2>1. CASE k = 0
    BY <1>2, <2>1, GrewSelf DEF State
  <2>2. CASE k # 0
    <3>1. k - 1 \in 0 .. N /\ k - 1 < k /\ k \in 1 .. N
      BY <2>2
    <3>2. PICK x \in StateRec, n \in Name : /\ x = g[k - 1] /\ n = p[k] /\ (~x.bad => Grew(s, x, V_DIR))
                                         /\ g[k] = DirStep(x, n)
      BY <1>2, <1>3, <1>4, <3>1
    <3>3. CASE n = Dot \/ x.bad
      BY <3>2, <3>3 DEF DirStep, Ensure
    <3>4. CASE n # Dot /\ ~x.bad
      <4>1. x.bad = FALSE
        BY <3>4 DEF StateRec
      <4>2. PICK y : y = Ensure(x, n, V_DIR) /\ y = g[k]
        BY <3>2, <3>4 DEF DirStep
      <4>3. y \in StateRec /\ (~y.bad => Grew(s, y, V_DIR))
        BY <3>2, <3>4, <4>1, <4>2, EnsureGrows
      <4> QED
        BY <4>2, <4>3
    <3> QED
      BY <3>3, <3>4
  <2> QED
    BY <2>1, <2>2
<1> HIDE DEF T
<1>5. \A k \in 0 .. N : k \in T
  BY <1>4, Descend
<1>6. N \in T
  BY <1>5
<1> QED
  BY <1>2, <1>3, <1>6 DEF T

LEMMA FrontLast ==
  ASSUME NEW p \in Seq(Name), p # <<>>
  PROVE  Front(p) \in Seq(Name) /\ Last(p) \in Name
<1>1. PICK L \in Nat : L = Len(p) /\ L # 0 /\ \A i \in 1 .. L : p[i] \in Name
  BY EmptySeq
<1>2. p[L] \in Name
  BY <1>1
<1>3. SubSeq(p, 1, L - 1) \in Seq(Name)
  <2>1. \A i \in 1 .. L - 1 : p[i] \in Name
    BY <1>1
  <2>2. 1 \in Int /\ L - 1 \in Int
    BY <1>1
  <2> QED
    BY <2>1, <2>2, SubSeqProperties
<1> QED
  BY <1>1, <1>2, <1>3 DEF Front, Last

\* A whole path.
LEMMA LastGrows ==
  ASSUME NEW s, State(s), s.bad = FALSE, NEW p \in Seq(Name), p # <<>>,
         NEW type \in {V_DIR, V_FILE}, NEW r, r = EnsureLast(s, p, type)
  PROVE  r \in StateRec /\ (~r.bad => Grew(s, r, type))
<1>1. Front(p) \in Seq(Name) /\ Last(p) \in Name
  BY FrontLast
<1>2. PICK x : x = EnsureDirs(s, Front(p)) /\ r = Ensure(x, Last(p), type)
  BY DEF EnsureLast
<1>3. x \in StateRec /\ (~x.bad => Grew(s, x, V_DIR))
  BY <1>1, <1>2, DirsGrow
<1>4. CASE x.bad
  BY <1>2, <1>3, <1>4 DEF Ensure
<1>5. CASE ~x.bad
  <2>1. x.bad = FALSE
    BY <1>3, <1>5 DEF StateRec
  <2> QED
    BY <1>1, <1>2, <1>3, <2>1, EnsureGrows
<1> QED
  BY <1>4, <1>5

-----------------------------------------------------------------------------
(* Where a call arrives, and when the table is full. *)

PathsOf(t) == {PathOf(t, i) : i \in Ids(t)}
WayTo(q)   == {SubSeq(q, 1, k) : k \in 0 .. Len(q)}

\* More paths than the table has nodes, when q and those on the way join it.
Overfull(t, q) == Cardinality(PathsOf(t) \cup WayTo(q)) > MaxNodes

LEMMA PathCount ==
  ASSUME NEW t, Linked(t), Named(t)
  PROVE  IsFiniteSet(PathsOf(t)) /\ Cardinality(PathsOf(t)) = Len(t)
<1> DEFINE f == [i \in Ids(t) |-> PathOf(t, i)]
<1>1. Len(t) \in Nat /\ IsFiniteSet(Ids(t)) /\ Cardinality(Ids(t)) = Len(t)
  <2>1. PICK N \in Nat : N = Len(t) /\ Ids(t) = 1 .. N
    BY RootThere DEF Ids
  <2>2. IsFiniteSet(1 .. N) /\ Cardinality(1 .. N) = IF 1 > N THEN 0 ELSE N - 1 + 1
    BY FS_Interval
  <2> QED
    BY <2>1, <2>2
<1>2. \A i, j \in Ids(t) : PathOf(t, i) = PathOf(t, j) => i = j
  BY PathsLead
<1>3. f \in Injection(Ids(t), PathsOf(t)) /\ f \in Surjection(Ids(t), PathsOf(t))
  BY <1>2 DEF PathsOf, Injection, IsInjective, Surjection
<1> HIDE DEF f
<1> QED
  BY <1>1, <1>3, FS_Surjection

LEMMA WayFinite ==
  ASSUME NEW S, NEW q \in Seq(S)
  PROVE  IsFiniteSet(WayTo(q))
<1> DEFINE f == [k \in 0 .. Len(q) |-> SubSeq(q, 1, k)]
<1>1. Len(q) \in Nat /\ IsFiniteSet(0 .. Len(q))
  BY FS_Interval
<1>2. f \in Surjection(0 .. Len(q), WayTo(q))
  BY DEF WayTo, Surjection
<1> HIDE DEF f
<1> QED
  BY <1>1, <1>2, FS_Surjection

\* A longer path needs no fewer nodes.
LEMMA OverfullOn ==
  ASSUME NEW t, Linked(t), Named(t), NEW q \in Seq(Name), NEW n \in Name, Overfull(t, q)
  PROVE  Overfull(t, Append(q, n))
<1>1. PICK r \in Seq(Name) : r = Append(q, n)
  BY AppendProperties
<1>2. WayTo(q) \subseteq WayTo(r)
  <2>1. ASSUME NEW p, OnWay(p, q) PROVE OnWay(p, r)
    BY <1>1, <2>1, OnWayOn
  <2> QED
    BY <2>1 DEF OnWay, WayTo
<1>3. PICK A, B : /\ A = PathsOf(t) \cup WayTo(q) /\ B = PathsOf(t) \cup WayTo(r) /\ A \in SUBSET B
                  /\ IsFiniteSet(A) /\ IsFiniteSet(B)
  <2>1. IsFiniteSet(PathsOf(t)) /\ IsFiniteSet(WayTo(q)) /\ IsFiniteSet(WayTo(r))
    BY PathCount, WayFinite
  <2>2. IsFiniteSet(PathsOf(t) \cup WayTo(q)) /\ IsFiniteSet(PathsOf(t) \cup WayTo(r))
    BY <2>1, FS_Union
  <2> QED
    BY <1>2, <2>2
<1>4. Cardinality(A) <= Cardinality(B) /\ Cardinality(A) \in Nat /\ Cardinality(B) \in Nat
  BY <1>3, FS_Subset, FS_CardinalityType
<1>5. Cardinality(A) > MaxNodes
  BY <1>3 DEF Overfull
<1>6. Cardinality(B) > MaxNodes
  BY <1>4, <1>5, ConstantsGiven
<1> QED
  BY <1>1, <1>3, <1>6 DEF Overfull

\* A full table and a name that is not in it.
LEMMA FullTable ==
  ASSUME NEW t, Linked(t), Named(t), NEW u, Linked(u), Named(u), SameNames(t, u), Len(u) >= MaxNodes,
         NEW d \in Ids(u), NEW n \in Name, Find(u, d, n) = Null, NEW q \in Seq(Name), q = PathOf(u, d),
         \A i \in Ids(u) \ Ids(t) : OnWay(PathOf(u, i), q)
  PROVE  Overfull(t, Append(q, n))
<1>1. PICK r \in Seq(Name) : r = Append(q, n)
  BY AppendProperties
<1>2. r \notin PathsOf(u)
  <2>1. walk(u, q) = d /\ ~(d <= 0)
    BY PathsLead DEF Ids
  <2>2. walk(u, r) = Null
    BY <1>1, <2>1, WalkSteps
  <2> QED
    BY <2>2, PathsLead, RootThere DEF PathsOf
<1>3. PICK A : /\ A = PathsOf(u) \cup {r} /\ IsFiniteSet(A) /\ Cardinality(A) = Len(u) + 1
  <2>1. IsFiniteSet(PathsOf(u)) /\ Cardinality(PathsOf(u)) = Len(u)
    BY PathCount
  <2>2. /\ IsFiniteSet(PathsOf(u) \cup {r})
        /\ Cardinality(PathsOf(u) \cup {r})
             = IF r \in PathsOf(u) THEN Cardinality(PathsOf(u)) ELSE Cardinality(PathsOf(u)) + 1
    BY <2>1, FS_AddElement
  <2> QED
    BY <1>2, <2>1, <2>2
<1>4. PICK B : B = PathsOf(t) \cup WayTo(r) /\ IsFiniteSet(B)
  <2>1. IsFiniteSet(PathsOf(t)) /\ IsFiniteSet(WayTo(r))
    BY PathCount, WayFinite
  <2> QED
    BY <2>1, FS_Union
<1>5. A \in SUBSET B
  <2>1. ASSUME NEW i \in Ids(u) PROVE PathOf(u, i) \in B
    <3>1. CASE i \in Ids(t)
      BY <1>4, <3>1, PathKept DEF PathsOf
    <3>2. CASE i \notin Ids(t)
      <4>1. OnWay(PathOf(u, i), r)
        BY <1>1, <3>2, OnWayOn
      <4> QED
        BY <1>4, <4>1 DEF OnWay, WayTo
    <3> QED
      BY <3>1, <3>2
  <2>2. r \in B
    BY <1>4, OnWaySelf DEF OnWay, WayTo
  <2> QED
    BY <1>3, <2>1, <2>2 DEF PathsOf
<1>6. Cardinality(A) <= Cardinality(B) /\ Cardinality(B) \in Nat /\ Len(u) \in Nat
  BY <1>4, <1>5, FS_Subset, FS_CardinalityType, RootThere
<1>7. Cardinality(B) > MaxNodes
  BY <1>3, <1>6, ConstantsGiven
<1> QED
  BY <1>1, <1>4, <1>7 DEF Overfull

\* s is where q leads, or the table has no room for the way to q.
Reached(s0, s, q, type) ==
  /\ s \in StateRec /\ q \in Seq(Name)
  /\ ~s.bad => Grew(s0, s, type) /\ PathOf(s.t, s.cur) = q
  /\ s.bad => Overfull(s0.t, q)

LEMMA ReachedSelf ==
  ASSUME NEW s, State(s), s.bad = FALSE, Named(s.t)
  PROVE  Reached(s, s, PathOf(s.t, s.cur), V_DIR)
BY GrewSelf, PathsLead DEF Reached, State

\* One component more.
LEMMA EnsureReaches ==
  ASSUME EnoughNames, NEW s0, State(s0), Roomy(s0.t, s0.off), NEW s, NEW q, Reached(s0, s, q, V_DIR),
         NEW n \in Name, NEW type \in {V_DIR, V_FILE}, NEW r, r = Ensure(s, n, type)
  PROVE  Reached(s0, r, Append(q, n), type)
<1>1. q \in Seq(Name) /\ Append(q, n) \in Seq(Name) /\ Linked(s0.t) /\ Named(s0.t)
  BY AppendProperties DEF Reached, State, Roomy
<1>2. CASE s.bad
  <2>1. r = s /\ Overfull(s0.t, Append(q, n))
    BY <1>1, <1>2, OverfullOn DEF Ensure, Reached
  <2> QED
    BY <1>1, <1>2, <2>1 DEF Reached
<1>3. CASE ~s.bad
  <2>1. /\ s.bad = FALSE /\ Grew(s0, s, V_DIR) /\ PathOf(s.t, s.cur) = q
        /\ State(s) /\ Linked(s.t) /\ s.cur \in Ids(s.t) /\ Roomy(s.t, s.off) /\ Named(s.t)
    BY <1>3 DEF Reached, StateRec, Grew, State, Roomy
  <2>2. r \in StateRec /\ (~r.bad => Grew(s0, r, type))
    BY <2>1, EnsureGrows
  <2>3. PICK c : c = Find(s.t, s.cur, n) /\ Found(s.t, s.cur, n, c)
    BY <2>1, FindResult
  <2>4. c # -1
    <3>1. ASSUME NEW j \in Ids(s.t), s.t[j].parent = s.cur PROVE s.t[j].name # NoName
      <4>1. s.cur # Null
        BY <2>1, RootThere
      <4>2. j # root
        BY <2>1, <3>1, <4>1 DEF Linked, Parents
      <4> QED
        BY <2>1, <4>2, ConstantsGiven DEF Named
    <3> QED
      BY <2>3, <3>1 DEF Found, FoundFrom, Ids
  <2>5. CASE c # Null
    <3>1. r = [s EXCEPT !.cur = c]
      BY <2>1, <2>3, <2>4, <2>5, Zenon DEF Ensure
    <3>2. c \in Ids(s.t) /\ s.t[c].parent = s.cur /\ s.t[c].name = n
      BY <2>3, <2>4, <2>5 DEF Found, FoundFrom, Ids
    <3>3. c # root
      BY <2>1, <3>2, RootThere DEF Linked, Parents
    <3>4. r.t = s.t /\ r.cur = c /\ r.bad = FALSE
      BY <2>1, <3>1 DEF State, StateRec
    <3>5. PathOf(s.t, c) = Append(q, n)
      BY <2>1, <3>2, <3>3, PathSteps
    <3> QED
      BY <1>1, <2>2, <3>4, <3>5 DEF Reached
  <2>6. CASE c = Null
    <3>1. r = Add(s, n, type)
      BY <2>1, <2>3, <2>6 DEF Ensure, Null
    <3>2. CASE r.bad
      <4>1. Len(s.t) >= MaxNodes
        <5>1. SUFFICES ASSUME ~(Len(s.t) >= MaxNodes) PROVE FALSE
          OBVIOUS
        <5>2. r.bad = FALSE
          BY <3>1, <5>1 DEF Add
        <5> QED
          BY <3>2, <5>2
      <4>2. SameNames(s0.t, s.t) /\ \A i \in Ids(s.t) \ Ids(s0.t) : OnWay(PathOf(s.t, i), q)
        BY <2>1 DEF Grew, Extends, SameNames
      <4>3. Overfull(s0.t, Append(q, n))
        BY <1>1, <2>1, <2>3, <2>6, <4>1, <4>2, FullTable
      <4> QED
        BY <1>1, <2>2, <3>2, <4>3 DEF Reached
    <3>3. CASE ~r.bad
      <4>1. Added(s.t, r.t, s.cur, n, type) /\ r.cur = Len(s.t) + 1
        BY <2>1, <3>1, <3>3, RoomyAdd, AddIs
      <4>2. Linked(r.t) /\ r.cur \in Ids(r.t)
        BY <2>2, <3>3 DEF Grew, State
      <4>3. PICK L \in Nat : L = Len(s.t) /\ L # 0 /\ Len(r.t) = L + 1
        BY <2>1, <4>1, RootThere DEF Added
      <4>4. SameNames(s.t, r.t)
        BY <4>1, <4>3 DEF SameNames, Added, Ids
      <4>5. PathOf(r.t, s.cur) = q
        BY <2>1, <4>2, <4>4, PathKept
      <4>6. r.cur # root /\ r.t[r.cur].parent = s.cur /\ r.t[r.cur].name = n
        BY <4>1, <4>3 DEF Added, root
      <4>7. PathOf(r.t, r.cur) = Append(q, n)
        BY <4>2, <4>5, <4>6, PathSteps
      <4> QED
        BY <1>1, <2>2, <3>3, <4>7 DEF Reached
    <3> QED
      BY <3>2, <3>3
  <2> QED
    BY <2>5, <2>6
<1> QED
  BY <1>2, <1>3

NameStep(q, n) == IF n = Dot THEN q ELSE Append(q, n)

IsBelow(g, d, p) ==
  g = [k \in 0 .. Len(p) |->
         IF k = 0 THEN PathOf(nodes, d)
         ELSE IF p[k] = Dot THEN g[k - 1] ELSE Append(g[k - 1], p[k])]

LEMMA BelowRuns ==
  ASSUME NEW d, PathOf(nodes, d) \in Seq(Name), NEW p \in Seq(Name)
  PROVE  \E g \in [0 .. Len(p) -> Seq(Name)] : IsBelow(g, d, p)
<1> DEFINE A    == Seq(Name)
           N    == Len(p)
           next == [k \in 1 .. N |-> k - 1]
           step == [x \in A \X (1 .. N) |-> NameStep(x[1], p[x[2]])]
<1>1. PICK a \in A : N \in Nat /\ a = PathOf(nodes, d)
  OBVIOUS
<1>2. \A k \in 1 .. N : next[k] \in 0 .. k - 1 /\ next[k] = k - 1
  BY <1>1
<1>3. \A x \in A : \A k \in 1 .. N : step[<<x, k>>] = NameStep(x, p[k])
  OBVIOUS
<1> HIDE DEF step, next
<1>4. \A x \in A : \A k \in 1 .. N : step[<<x, k>>] \in A
  <2> SUFFICES ASSUME NEW x \in A, NEW k \in 1 .. N PROVE step[<<x, k>>] \in A
    OBVIOUS
  <2>1. p[k] \in Name
    OBVIOUS
  <2>2. Append(x, p[k]) \in A
    BY <2>1, AppendProperties
  <2> QED
    BY <1>3, <2>2 DEF NameStep
<1> HIDE DEF A
<1>5. PICK g \in [0 .. N -> A] : Runs(g, a, next, step, N)
  BY <1>1, <1>2, <1>4, Recursion
<1>6. ASSUME NEW k \in 0 .. N
      PROVE  g[k] = IF k = 0 THEN PathOf(nodes, d)
                    ELSE IF p[k] = Dot THEN g[k - 1] ELSE Append(g[k - 1], p[k])
  <2>1. CASE k = 0
    BY <1>1, <1>5, <2>1 DEF Runs
  <2>2. CASE k # 0
    <3>1. k \in 1 .. N /\ k - 1 \in 0 .. N
      BY <1>1, <2>2
    <3>2. g[k] = step[<<g[k - 1], k>>] /\ g[k - 1] \in A
      BY <1>2, <1>5, <3>1 DEF Runs
    <3>3. g[k] = NameStep(g[k - 1], p[k])
      BY <1>3, <3>1, <3>2
    <3> QED
      BY <2>2, <3>3, Zenon DEF NameStep
  <2> QED
    BY <2>1, <2>2
<1>7. g = [k \in 0 .. N |-> g[k]]
  OBVIOUS
<1>8. IsBelow(g, d, p)
  BY <1>6, <1>7 DEF IsBelow
<1> QED
  BY <1>5, <1>8 DEF A

LEMMA BelowIs ==
  ASSUME NEW d, PathOf(nodes, d) \in Seq(Name), NEW p \in Seq(Name)
  PROVE  \E g : /\ Below(d, p) = g[Len(p)]
                /\ g[0] = PathOf(nodes, d)
                /\ \A k \in 1 .. Len(p) : g[k] = NameStep(g[k - 1], p[k])
<1> DEFINE g == CHOOSE g : IsBelow(g, d, p)
<1>1. IsBelow(g, d, p)
  BY BelowRuns
<1>2. Below(d, p) = g[Len(p)]
  BY DEF Below, IsBelow
<1> HIDE DEF g
<1>3. Len(p) \in Nat
  OBVIOUS
<1>4. g[0] = PathOf(nodes, d)
  BY <1>1, <1>3 DEF IsBelow
<1>5. ASSUME NEW k \in 1 .. Len(p) PROVE g[k] = NameStep(g[k - 1], p[k])
  <2>1. k \in 0 .. Len(p) /\ k # 0
    BY <1>3
  <2> QED
    BY <1>1, <2>1, Zenon DEF IsBelow, NameStep
<1> QED
  BY <1>2, <1>4, <1>5

\* The directories of a path lead where its components name.
LEMMA DirsReach ==
  ASSUME EnoughNames, NEW s0, State(s0), s0.bad = FALSE, s0.t = nodes, Roomy(s0.t, s0.off),
         NEW p \in Seq(Name), NEW r, r = EnsureDirs(s0, p)
  PROVE  Reached(s0, r, Below(s0.cur, p), V_DIR)
<1>1. /\ s0 \in Steady /\ Named(s0.t) /\ PathOf(nodes, s0.cur) \in Seq(Name)
      /\ Reached(s0, s0, PathOf(nodes, s0.cur), V_DIR)
  BY ReachedSelf, PathsLead DEF Steady, State, Roomy
<1>2. PICK g : /\ r = g[Len(p)] /\ g[0] = s0
               /\ \A k \in 1 .. Len(p) : g[k] = DirStep(g[k - 1], p[k])
  BY <1>1, MadeIs
<1>3. PICK h : /\ Below(s0.cur, p) = h[Len(p)] /\ h[0] = PathOf(nodes, s0.cur)
               /\ \A k \in 1 .. Len(p) : h[k] = NameStep(h[k - 1], p[k])
  BY <1>1, BelowIs
<1>4. PICK N \in Nat : N = Len(p) /\ \A k \in 1 .. N : p[k] \in Name
  OBVIOUS
<1> DEFINE T == {k \in Nat : Reached(s0, g[k], h[k], V_DIR)}
<1>5. ASSUME NEW k \in 0 .. N, \A j \in 0 .. N : j < k => j \in T PROVE k \in T
  <2>1. CASE k = 0
    BY <1>1, <1>2, <1>3, <2>1
  <2>2. CASE k # 0
    <3>1. k - 1 \in 0 .. N /\ k - 1 < k /\ k \in 1 .. N
      BY <2>2
    <3>2. PICK x, q : x = g[k - 1] /\ q = h[k - 1] /\ Reached(s0, x, q, V_DIR)
      BY <1>5, <3>1
    <3>3. PICK n \in Name : n = p[k] /\ g[k] = DirStep(x, n) /\ h[k] = NameStep(q, n)
      BY <1>2, <1>3, <1>4, <3>1, <3>2
    <3>4. CASE n = Dot
      BY <3>2, <3>3, <3>4 DEF DirStep, NameStep
    <3>5. CASE n # Dot
      <4>1. PICK y : y = Ensure(x, n, V_DIR) /\ y = g[k] /\ h[k] = Append(q, n)
        BY <3>3, <3>5 DEF DirStep, NameStep
      <4>2. Reached(s0, y, Append(q, n), V_DIR)
        BY <3>2, <4>1, EnsureReaches
      <4>3. Reached(s0, g[k], h[k], V_DIR) /\ k \in Nat
        BY <4>1, <4>2
      <4> QED
        BY <4>3
    <3> QED
      BY <3>4, <3>5
  <2> QED
    BY <2>1, <2>2
<1> HIDE DEF T
<1>6. \A k \in 0 .. N : k \in T
  BY <1>5, Descend
<1>7. N \in T
  BY <1>6
<1> QED
  BY <1>2, <1>3, <1>4, <1>7 DEF T

LEMMA LastReach ==
  ASSUME EnoughNames, NEW s0, State(s0), s0.bad = FALSE, s0.t = nodes, Roomy(s0.t, s0.off),
         NEW p \in Seq(Name), p # <<>>, NEW type \in {V_DIR, V_FILE}, NEW r, r = EnsureLast(s0, p, type)
  PROVE  Reached(s0, r, Target(s0.cur, p), type)
<1>1. Front(p) \in Seq(Name) /\ Last(p) \in Name
  BY FrontLast
<1>2. PICK x : x = EnsureDirs(s0, Front(p)) /\ r = Ensure(x, Last(p), type)
  BY DEF EnsureLast
<1>3. PICK q : q = Below(s0.cur, Front(p)) /\ Target(s0.cur, p) = Append(q, Last(p))
  BY DEF Target
<1>4. Reached(s0, x, q, V_DIR)
  BY <1>1, <1>2, <1>3, DirsReach
<1> QED
  BY <1>1, <1>2, <1>3, <1>4, EnsureReaches

-----------------------------------------------------------------------------
(* The invariant. *)

Stored(t, end) == \A i \in Ids(t) : t[i].data >= 0 => t[i].data + t[i].size <= end

\* What call says of the calls so far.
Recorded == /\ call.end \in {"done", "failed", "stopped"} /\ call.no = at + writes
            /\ call.end = "stopped" => fault

Inv ==
  /\ Linked(nodes) /\ Len(nodes) <= MaxNodes /\ cwd \in Ids(nodes) /\ Proper(nodes, cwd)
  /\ name_off \in 0 .. NameBytes /\ (EnoughNames => Roomy(nodes, name_off))
  /\ data_off \in 0 .. ArenaSize /\ DOMAIN arena = 0 .. ArenaSize - 1 /\ Stored(nodes, data_off)
  /\ image \in Image /\ at \in 0 .. Len(image) /\ writes \in 0 .. MaxWrites /\ fault \in BOOLEAN
  /\ Recorded

LEMMA InvTypes ==
  ASSUME Inv
  PROVE  TypeOK
<1>1. ASSUME NEW i \in 1 .. Len(nodes)
      PROVE  /\ nodes[i].type \in {V_DIR, V_FILE} /\ nodes[i].name \in Name \cup {NoName}
             /\ {nodes[i].parent, nodes[i].sibling, nodes[i].child} \subseteq 0 .. Len(nodes)
             /\ nodes[i].data >= 0 => nodes[i].data + nodes[i].size <= ArenaSize
  <2>1. i \in Ids(nodes) /\ Linked(nodes) /\ Len(nodes) \in Nat
    BY RootThere DEF Inv, Ids
  <2>2. /\ nodes[i].type \in {V_DIR, V_FILE} /\ nodes[i].name \in Name \cup {NoName}
        /\ nodes[i].parent \in 0 .. i - 1 /\ nodes[i].sibling \in 0 .. i - 1
        /\ nodes[i].child \in 0 .. Len(nodes) /\ nodes[i].data \in Int /\ nodes[i].size \in Nat
    BY <2>1, NodeTypes
  <2>3. nodes[i].data >= 0 => nodes[i].data + nodes[i].size <= data_off
    BY <2>1 DEF Inv, Stored
  <2>4. data_off \in 0 .. ArenaSize
    BY DEF Inv
  <2> QED
    BY <2>1, <2>2, <2>3, <2>4, ConstantsGiven
<1>2. Len(nodes) \in 1 .. MaxNodes
  BY RootThere, ConstantsGiven DEF Inv
<1> QED
  BY <1>1, <1>2 DEF Inv, Recorded, TypeOK, Ids

\* The one node of the beginning.
LEMMA InitInv ==
  ASSUME Init
  PROVE  Inv
<1> DEFINE t == <<Node(V_DIR, NoName)>>
<1>1. /\ nodes = t /\ Len(t) = 1 /\ t[1] = Node(V_DIR, NoName)
  BY DEF Init
<1>2. Node(V_DIR, NoName) \in NodeRec
  BY DEF Node, NodeRec, Null
<1>3. /\ t[1].type = V_DIR /\ t[1].parent = 0 /\ t[1].sibling = 0 /\ t[1].child = 0 /\ t[1].data = 0
      /\ t[1].size = 0
  BY <1>1 DEF Node, Null
<1>4. t \in Seq(NodeRec)
  BY <1>2
<1> HIDE DEF t
<1>5. Ids(t) = {1}
  BY <1>1 DEF Ids
<1>6. Linked(t)
  <2>1. Heads(t)
    BY <1>1, <1>3, <1>5 DEF Heads, Newest, Null
  <2>2. Siblings(t)
    BY <1>1, <1>3, <1>5 DEF Siblings, Newest, Null
  <2>3. Parents(t) /\ Distinct(t)
    BY <1>1, <1>3, <1>5 DEF Parents, Distinct, Null, root
  <2> QED
    BY <1>1, <1>4, <2>1, <2>2, <2>3 DEF Linked
<1>7. cwd \in Ids(t) /\ Proper(t, cwd)
  BY <1>5, <1>6, RootProper DEF Init, root
<1>8. Stored(t, data_off)
  BY <1>3, <1>5 DEF Stored, Init
<1>9. EnoughNames => Roomy(t, name_off)
  <2>1. SUFFICES ASSUME EnoughNames PROVE Roomy(t, 1)
    BY DEF Init
  <2>2. Widest \in Nat /\ NameLen[Dot] < Widest /\ NameLen[Dot] \in Nat
    BY <2>1, WidestIs, ConstantsGiven
  <2>3. 1 <= 1 * Widest
    BY <2>2
  <2>4. Named(t)
    BY <1>5 DEF Named, root
  <2> QED
    BY <1>1, <2>3, <2>4 DEF Roomy
<1>10. /\ Len(t) <= MaxNodes /\ name_off \in 0 .. NameBytes /\ data_off \in 0 .. ArenaSize
       /\ DOMAIN arena = 0 .. ArenaSize - 1 /\ writes \in 0 .. MaxWrites /\ fault \in BOOLEAN
  <2>1. /\ name_off = 1 /\ data_off = 0 /\ writes = 0 /\ fault = FALSE
        /\ arena = [a \in 0 .. ArenaSize - 1 |-> <<>>]
    BY DEF Init
  <2>2. DOMAIN arena = 0 .. ArenaSize - 1
    BY <2>1
  <2>3. name_off = 1 /\ data_off = 0 /\ writes = 0 /\ fault = FALSE
    BY <2>1
  <2>4. 1 <= MaxNodes /\ 1 \in 0 .. NameBytes /\ 0 \in 0 .. ArenaSize /\ 0 \in 0 .. MaxWrites
    BY ConstantsGiven
  <2> QED
    BY <1>1, <2>2, <2>3, <2>4, Zenon
<1>11. image \in Image /\ at \in 0 .. Len(image)
  <2>1. image \in Image /\ at = 0
    BY DEF Init
  <2>2. Len(image) \in Nat
    BY <2>1, RamdiskConstantsOK
  <2> QED
    BY <2>1, <2>2
<1>12. Recorded
  BY DEF Init, Recorded
<1> QED
  BY <1>1, <1>6, <1>7, <1>8, <1>9, <1>10, <1>11, <1>12 DEF Inv

-----------------------------------------------------------------------------
(* Content for a node. *)

\* u is t, with a type, a place and a size for the node c.
Marked(t, u, c, type, data, size) ==
  /\ u \in Seq(NodeRec) /\ Len(u) = Len(t)
  /\ \A i \in Ids(t) :
       /\ u[i].name = t[i].name /\ u[i].parent = t[i].parent /\ u[i].sibling = t[i].sibling
       /\ u[i].child = t[i].child
       /\ u[i].type = IF i = c THEN type ELSE t[i].type
       /\ u[i].data = IF i = c THEN data ELSE t[i].data
       /\ u[i].size = IF i = c THEN size ELSE t[i].size

LEMMA MarkedKeeps ==
  ASSUME NEW t, Linked(t), NEW u, NEW c, NEW type, NEW data, NEW size, Marked(t, u, c, type, data, size)
  PROVE  Linked(u) /\ SameNames(t, u) /\ Ids(u) = Ids(t) /\ Len(u) = Len(t) /\ (Named(t) => Named(u))
<1>1. Ids(u) = Ids(t) /\ Len(t) \in Nat \ {0} /\ Len(u) = Len(t)
  BY RootThere DEF Marked, Ids
<1>2. \A i \in Ids(t) : /\ u[i].name = t[i].name /\ u[i].parent = t[i].parent
                        /\ u[i].sibling = t[i].sibling /\ u[i].child = t[i].child
  BY DEF Marked
<1>3. \A m \in 0 .. Len(t) : \A i \in 1 .. m : i \in Ids(t)
  BY <1>1 DEF Ids
<1>4. ASSUME NEW d, NEW m \in 0 .. Len(t), NEW x \in 0 .. m, Newest(t, d, m, x) PROVE Newest(u, d, m, x)
  BY <1>2, <1>3, <1>4 DEF Newest
<1>5. Heads(u)
  <2>1. SUFFICES ASSUME NEW d \in Ids(t)
                 PROVE  u[d].child \in 0 .. Len(t) /\ Newest(u, d, Len(t), u[d].child)
    BY <1>1 DEF Heads
  <2>2. t[d].child \in 0 .. Len(t) /\ Newest(t, d, Len(t), t[d].child) /\ Len(t) \in 0 .. Len(t)
    BY <1>1 DEF Linked, Heads
  <2> QED
    BY <1>2, <1>4, <2>2
<1>6. Siblings(u)
  <2>1. SUFFICES ASSUME NEW i \in Ids(t)
                 PROVE  u[i].sibling \in 0 .. i - 1 /\ Newest(u, u[i].parent, i - 1, u[i].sibling)
    BY <1>1 DEF Siblings
  <2>2. t[i].sibling \in 0 .. i - 1 /\ Newest(t, t[i].parent, i - 1, t[i].sibling)
    BY DEF Linked, Siblings
  <2>3. i - 1 \in 0 .. Len(t)
    BY <1>1 DEF Ids
  <2>4. Newest(u, t[i].parent, i - 1, t[i].sibling)
    BY <1>4, <2>2, <2>3
  <2> QED
    BY <1>2, <2>2, <2>4
<1>7. Parents(u)
  BY <1>1, <1>2, RootThere DEF Linked, Parents
<1>8. Distinct(u)
  BY <1>1, <1>2 DEF Linked, Distinct
<1>9. Linked(u)
  BY <1>1, <1>5, <1>6, <1>7, <1>8 DEF Linked, Marked
<1> QED
  BY <1>1, <1>2, <1>9 DEF SameNames, Named

LEMMA MarkMount ==
  ASSUME NEW t, Linked(t), NEW c \in Ids(t), NEW data \in Int, NEW size \in Nat
  PROVE  Marked(t, [t EXCEPT ![c].data = data, ![c].size = size], c, t[c].type, data, size)
<1> DEFINE e == [t[c] EXCEPT !.data = data, !.size = size]
<1>1. t \in Seq(NodeRec) /\ c \in 1 .. Len(t) /\ t[c] \in NodeRec
  BY DEF Linked, Ids
<1>2. /\ e \in NodeRec /\ e.name = t[c].name /\ e.parent = t[c].parent /\ e.sibling = t[c].sibling
      /\ e.child = t[c].child /\ e.type = t[c].type /\ e.data = data /\ e.size = size
  BY <1>1 DEF NodeRec
<1>3. PICK u : u = [t EXCEPT ![c] = e]
  OBVIOUS
<1>4. u = [t EXCEPT ![c].data = data, ![c].size = size]
  BY <1>1, <1>3
<1> HIDE DEF e
<1>5. /\ u \in Seq(NodeRec) /\ Len(u) = Len(t)
      /\ \A j \in 1 .. Len(t) : u[j] = IF j = c THEN e ELSE t[j]
  BY <1>1, <1>2, <1>3, ExceptSeq
<1>6. Marked(t, u, c, t[c].type, data, size)
  BY <1>2, <1>5 DEF Marked, Ids
<1> QED
  BY <1>4, <1>6

LEMMA MarkWrite ==
  ASSUME NEW t, Linked(t), NEW c \in Ids(t), NEW data \in Int, NEW size \in Nat
  PROVE  Marked(t, [t EXCEPT ![c].type = V_FILE, ![c].data = data, ![c].size = size],
                c, V_FILE, data, size)
<1> DEFINE e == [t[c] EXCEPT !.type = V_FILE, !.data = data, !.size = size]
<1>1. t \in Seq(NodeRec) /\ c \in 1 .. Len(t) /\ t[c] \in NodeRec
  BY DEF Linked, Ids
<1>2. /\ e \in NodeRec /\ e.name = t[c].name /\ e.parent = t[c].parent /\ e.sibling = t[c].sibling
      /\ e.child = t[c].child /\ e.type = V_FILE /\ e.data = data /\ e.size = size
  BY <1>1 DEF NodeRec
<1>3. PICK u : u = [t EXCEPT ![c] = e]
  OBVIOUS
<1>4. u = [t EXCEPT ![c].type = V_FILE, ![c].data = data, ![c].size = size]
  BY <1>1, <1>3
<1> HIDE DEF e
<1>5. /\ u \in Seq(NodeRec) /\ Len(u) = Len(t)
      /\ \A j \in 1 .. Len(t) : u[j] = IF j = c THEN e ELSE t[j]
  BY <1>1, <1>2, <1>3, ExceptSeq
<1>6. Marked(t, u, c, V_FILE, data, size)
  BY <1>2, <1>5 DEF Marked, Ids
<1> QED
  BY <1>4, <1>6

-----------------------------------------------------------------------------
(* Every step keeps the invariant. *)

LEMMA HereIs ==
  ASSUME Inv, NEW d \in Ids(nodes), NEW s, s = Here(d)
  PROVE  State(s) /\ s.t = nodes /\ s.off = name_off /\ s.cur = d /\ s.bad = FALSE
<1>1. /\ Linked(nodes) /\ nodes \in Seq(NodeRec) /\ Len(nodes) <= MaxNodes
      /\ name_off \in Nat /\ name_off <= NameBytes /\ d \in Nat
  BY ConstantsGiven DEF Inv, Linked, Ids
<1>2. s.t = nodes /\ s.off = name_off /\ s.cur = d /\ s.bad = FALSE /\ s \in StateRec
  BY <1>1 DEF Here, StateRec
<1> QED
  BY <1>1, <1>2 DEF State

LEMMA GrownKeeps ==
  ASSUME NEW s0, State(s0), NEW s, NEW type, Grew(s0, s, type),
         NEW c \in Ids(s0.t), Proper(s0.t, c), NEW end \in Nat, Stored(s0.t, end)
  PROVE  /\ Linked(s.t) /\ Len(s.t) <= MaxNodes /\ c \in Ids(s.t) /\ Proper(s.t, c)
         /\ s.off \in 0 .. NameBytes /\ Stored(s.t, end)
         /\ EnoughNames /\ Roomy(s0.t, s0.off) => Roomy(s.t, s.off)
<1>1. Linked(s0.t) /\ State(s) /\ Linked(s.t) /\ Extends(s0.t, s.t)
  BY DEF Grew, State
<1>2. SameNames(s0.t, s.t)
  BY <1>1 DEF Extends, SameNames
<1>3. c \in Ids(s.t) /\ PathOf(s.t, c) = PathOf(s0.t, c)
  BY <1>1, <1>2, PathKept
<1>4. Proper(s.t, c)
  BY <1>3 DEF Proper
<1>5. Stored(s.t, end)
  <2>1. SUFFICES ASSUME NEW i \in Ids(s.t), s.t[i].data >= 0 PROVE s.t[i].data + s.t[i].size <= end
    BY DEF Stored
  <2>2. CASE i \in Ids(s0.t)
    BY <1>1, <2>1, <2>2 DEF Extends, Stored
  <2>3. CASE i \notin Ids(s0.t)
    <3>1. s.t[i].data = 0 /\ s.t[i].size = 0
      BY <2>3 DEF Grew
    <3> QED
      BY <3>1
  <2> QED
    BY <2>2, <2>3
<1>6. s.off \in 0 .. NameBytes /\ Len(s.t) <= MaxNodes
  BY <1>1, ConstantsGiven DEF State, StateRec
<1> QED
  BY <1>1, <1>3, <1>4, <1>5, <1>6 DEF Grew

LEMMA MarkKeeps ==
  ASSUME NEW t, Linked(t), NEW u, NEW c \in Ids(t), NEW type, NEW data \in Int, NEW size \in Nat,
         Marked(t, u, c, type, data, size), NEW d \in Ids(t), Proper(t, d),
         NEW end \in Nat, NEW end2 \in Nat, end <= end2, Stored(t, end),
         data >= 0 => data + size <= end2
  PROVE  Proper(u, d) /\ Stored(u, end2)
<1>1. Linked(u) /\ SameNames(t, u) /\ Ids(u) = Ids(t)
  BY MarkedKeeps
<1>2. PathOf(u, d) = PathOf(t, d)
  BY <1>1, PathKept
<1>3. ASSUME NEW i \in Ids(t), u[i].data >= 0 PROVE u[i].data + u[i].size <= end2
  <2>1. CASE i = c
    BY <1>3, <2>1 DEF Marked
  <2>2. CASE i # c
    <3>1. t[i].data \in Int /\ t[i].size \in Nat /\ u[i].data = t[i].data /\ u[i].size = t[i].size
      BY <2>2, NodeTypes DEF Marked
    <3>2. t[i].data + t[i].size <= end
      BY <1>3, <3>1 DEF Stored
    <3> QED
      BY <3>1, <3>2
  <2> QED
    BY <2>1, <2>2
<1> QED
  BY <1>1, <1>2, <1>3 DEF Proper, Stored

LEMMA EntryIs ==
  ASSUME Inv, at < Len(image)
  PROVE  /\ at \in Nat /\ at + 1 \in 1 .. Len(image) /\ Len(image) \in Nat
         /\ image[at + 1].path \in Seq(Name) /\ image[at + 1].path # <<>>
         /\ image[at + 1].dir \in BOOLEAN /\ image[at + 1].size \in Nat
<1>1. image \in Seq([path : Seq(Name) \ {<<>>}, dir : BOOLEAN, size : Nat])
  BY RamdiskConstantsOK DEF Inv
<1>2. at \in 0 .. Len(image) /\ Len(image) \in Nat
  BY <1>1 DEF Inv
<1>3. at + 1 \in 1 .. Len(image)
  BY <1>2
<1>4. image[at + 1] \in [path : Seq(Name) \ {<<>>}, dir : BOOLEAN, size : Nat]
  BY <1>1, <1>3, ElementOfSeq
<1> QED
  BY <1>2, <1>3, <1>4

LEMMA MountInv ==
  ASSUME Inv, MountEntry
  PROVE  Inv'
<1>1. /\ at \in Nat /\ at + 1 \in 1 .. Len(image) /\ Len(image) \in Nat
      /\ image[at + 1].path \in Seq(Name) /\ image[at + 1].path # <<>>
      /\ image[at + 1].dir \in BOOLEAN /\ image[at + 1].size \in Nat
  BY EntryIs DEF MountEntry
<1>2. PICK type \in {V_DIR, V_FILE} : type = IF image[at + 1].dir THEN V_DIR ELSE V_FILE
  OBVIOUS
<1>3. PICK s : s = EnsureLast(Here(root), image[at + 1].path, type)
  OBVIOUS
<1>4. PICK h : /\ h = Here(root) /\ State(h) /\ h.t = nodes /\ h.off = name_off /\ h.cur = root
               /\ h.bad = FALSE
  BY HereIs, RootThere DEF Inv
<1>5. s \in StateRec /\ (~s.bad => Grew(h, s, type))
  BY <1>1, <1>3, <1>4, LastGrows
<1>6. at' = at + 1 /\ UNCHANGED writes /\ at' \in 0 .. Len(image)
  <2>1. at' = at + 1 /\ UNCHANGED writes
    BY DEF MountEntry
  <2> QED
    BY <1>1, <2>1
<1>7. /\ s.bad => fault' = TRUE
      /\ ~s.bad => UNCHANGED fault
      /\ call'.end = (IF s.bad THEN "stopped" ELSE "done") /\ call'.no = at' + writes'
  BY <1>2, <1>3 DEF MountEntry, Stop, Called
<1>8. Recorded'
  BY <1>7 DEF Recorded
<1>9. CASE s.bad
  <2>1. fault' = TRUE /\ UNCHANGED <<nodes, name_off, arena, data_off, cwd, image>>
    BY <1>2, <1>3, <1>9 DEF MountEntry, Stop
  <2> QED
    BY <1>6, <1>8, <2>1 DEF Inv
<1>10. CASE ~s.bad
  <2>1. /\ nodes' = IF image[at + 1].dir THEN s.t
                    ELSE [s.t EXCEPT ![s.cur].data = -(at + 1), ![s.cur].size = image[at + 1].size]
        /\ name_off' = s.off /\ UNCHANGED <<arena, data_off, cwd, image, fault>>
    BY <1>2, <1>3, <1>10 DEF MountEntry
  <2>2. /\ cwd \in Ids(nodes) /\ Proper(nodes, cwd) /\ data_off \in Nat /\ Stored(nodes, data_off)
        /\ (EnoughNames => Roomy(nodes, name_off))
    BY ConstantsGiven DEF Inv
  <2>3. /\ Linked(s.t) /\ Len(s.t) <= MaxNodes /\ cwd \in Ids(s.t) /\ Proper(s.t, cwd)
        /\ s.off \in 0 .. NameBytes /\ Stored(s.t, data_off)
        /\ EnoughNames => Roomy(s.t, s.off)
    BY <1>4, <1>5, <1>10, <2>2, GrownKeeps
  <2>4. CASE image[at + 1].dir
    <3>1. nodes' = s.t
      BY <2>1, <2>4
    <3> QED
      BY <1>6, <1>8, <2>1, <2>3, <3>1 DEF Inv
  <2>5. CASE ~image[at + 1].dir
    <3>1. s.cur \in Ids(s.t) /\ -(at + 1) \in Int /\ ~(-(at + 1) >= 0)
      BY <1>1, <1>5, <1>10 DEF Grew, State
    <3>2. Marked(s.t, nodes', s.cur, s.t[s.cur].type, -(at + 1), image[at + 1].size)
      BY <1>1, <2>1, <2>3, <2>5, <3>1, MarkMount
    <3>3. Linked(nodes') /\ Ids(nodes') = Ids(s.t) /\ Len(nodes') = Len(s.t) /\ (Named(s.t) => Named(nodes'))
      BY <2>3, <3>2, MarkedKeeps
    <3>4. Proper(nodes', cwd) /\ Stored(nodes', data_off)
      BY <1>1, <2>2, <2>3, <3>1, <3>2, MarkKeeps
    <3>5. EnoughNames => Roomy(nodes', s.off)
      BY <2>3, <3>3 DEF Roomy
    <3> QED
      BY <1>6, <1>8, <2>1, <2>3, <3>3, <3>4, <3>5 DEF Inv
  <2> QED
    BY <2>4, <2>5
<1> QED
  BY <1>9, <1>10

LEMMA Division ==
  ASSUME NEW x \in Nat, NEW n \in Nat \ {0}
  PROVE  /\ (x \div n) * n \in Nat
         /\ x < (x \div n) * n + n
<1>1. x \div n \in Int /\ x % n \in 0 .. n - 1 /\ x = n * (x \div n) + (x % n)
  OBVIOUS
<1> QED
  BY <1>1

\* A block starts behind everything that was stored before.
LEMMA BlockIs ==
  ASSUME Inv
  PROVE  Block \in Nat /\ data_off <= Block /\ data_off \in Nat
<1>1. PICK x \in Nat, n \in Nat \ {0} : x = data_off + n - 1 /\ n = Align /\ data_off \in Nat
  BY ConstantsGiven DEF Inv
<1>2. Block = (x \div n) * n
  BY <1>1 DEF Block
<1>3. PICK b \in Nat : b = (x \div n) * n /\ x < b + n
  BY Division
<1> QED
  BY <1>1, <1>2, <1>3

\* What a write does when it has its node.
Written(w, n, s) ==
  IF s.bad THEN Stop
  ELSE /\ name_off' = s.off
       /\ IF w.slash \/ ~Fits(n) THEN nodes' = s.t /\ UNCHANGED <<arena, data_off>>
          ELSE /\ data_off' = Block + n
               /\ arena' = [a \in DOMAIN arena |->
                    IF a \in Block .. Block + n - 1
                    THEN Bytes(writes + 1, n)[a - Block + 1] ELSE arena[a]]
               /\ nodes' = [s.t EXCEPT ![s.cur].type = V_FILE, ![s.cur].data = Block,
                                      ![s.cur].size = n]
       /\ UNCHANGED <<cwd, image, fault>>

\* How it ends.
EndOf(w, n, s) ==
  IF s.bad THEN "stopped" ELSE IF w.slash \/ ~Fits(n) THEN "failed" ELSE "done"

LEMMA WriteGrows ==
  ASSUME Inv, NEW w \in WritePath, NEW n \in 0 .. MaxSize, vfs_write_at(w, n)
  PROVE  \E h, s, type, q :
           /\ type \in {V_DIR, V_FILE} /\ type = (IF w.slash THEN V_DIR ELSE V_FILE)
           /\ State(h) /\ h.t = nodes /\ h.off = name_off
           /\ s \in StateRec /\ (~s.bad => Grew(h, s, type)) /\ (EnoughNames => Reached(h, s, q, type))
           /\ writes' = writes + 1 /\ writes < MaxWrites /\ UNCHANGED at /\ Written(w, n, s)
           /\ Called(IF w.slash THEN "write/" ELSE "write", q, Bytes(writes + 1, n), EndOf(w, n, s))
<1>1. w.path \in Seq(Name) /\ w.path # <<>> /\ w.abs \in BOOLEAN /\ w.slash \in BOOLEAN
  BY RamdiskConstantsOK
<1>2. PICK d \in Ids(nodes) : d = IF w.abs THEN root ELSE cwd
  BY RootThere DEF Inv
<1>3. PICK h : h = Here(d) /\ State(h) /\ h.t = nodes /\ h.off = name_off /\ h.cur = d /\ h.bad = FALSE
  BY HereIs
<1>4. PICK type \in {V_DIR, V_FILE} : type = IF w.slash THEN V_DIR ELSE V_FILE
  OBVIOUS
<1>5. PICK s : s = IF w.slash THEN EnsureDirs(h, w.path) ELSE EnsureLast(h, w.path, V_FILE)
  OBVIOUS
<1>6. PICK q : q = IF w.slash THEN Below(d, w.path) ELSE Target(d, w.path)
  OBVIOUS
<1>7. s \in StateRec /\ (~s.bad => Grew(h, s, type))
  <2>1. CASE w.slash
    BY <1>1, <1>3, <1>4, <1>5, <2>1, DirsGrow
  <2>2. CASE ~w.slash
    BY <1>1, <1>3, <1>4, <1>5, <2>2, LastGrows
  <2> QED
    BY <2>1, <2>2
<1>8. ASSUME EnoughNames PROVE Reached(h, s, q, type)
  <2>1. Roomy(h.t, h.off)
    BY <1>3, <1>8 DEF Inv
  <2>2. CASE w.slash
    BY <1>1, <1>3, <1>4, <1>5, <1>6, <1>8, <2>1, <2>2, DirsReach
  <2>3. CASE ~w.slash
    BY <1>1, <1>3, <1>4, <1>5, <1>6, <1>8, <2>1, <2>3, LastReach
  <2> QED
    BY <2>2, <2>3
<1>9. /\ writes' = writes + 1 /\ writes < MaxWrites /\ UNCHANGED at /\ Written(w, n, s)
      /\ Called(IF w.slash THEN "write/" ELSE "write", q, Bytes(writes + 1, n), EndOf(w, n, s))
  BY <1>2, <1>3, <1>5, <1>6, Zenon DEF vfs_write_at, Written, EndOf
<1> QED
  BY <1>3, <1>4, <1>7, <1>8, <1>9, Zenon

LEMMA WriteInv ==
  ASSUME Inv, NEW w \in WritePath, NEW n \in 0 .. MaxSize, vfs_write_at(w, n)
  PROVE  Inv'
<1>1. PICK h, s, type, q :
           /\ type \in {V_DIR, V_FILE} /\ type = (IF w.slash THEN V_DIR ELSE V_FILE)
           /\ State(h) /\ h.t = nodes /\ h.off = name_off
           /\ s \in StateRec /\ (~s.bad => Grew(h, s, type)) /\ (EnoughNames => Reached(h, s, q, type))
           /\ writes' = writes + 1 /\ writes < MaxWrites /\ UNCHANGED at /\ Written(w, n, s)
           /\ Called(IF w.slash THEN "write/" ELSE "write", q, Bytes(writes + 1, n), EndOf(w, n, s))
  BY WriteGrows, Zenon
<1>2. writes' \in 0 .. MaxWrites
  BY <1>1, ConstantsGiven DEF Inv
<1>3. Recorded'
  <2>1. /\ s.bad => fault' = TRUE
        /\ ~s.bad => UNCHANGED fault
        /\ call'.end = EndOf(w, n, s) /\ call'.no = at' + writes'
    BY <1>1 DEF Written, Stop, Called
  <2>2. EndOf(w, n, s) \in {"done", "failed", "stopped"} /\ (EndOf(w, n, s) = "stopped" => s.bad)
    BY DEF EndOf
  <2> QED
    BY <2>1, <2>2 DEF Recorded
<1>4. CASE s.bad
  <2>1. fault' = TRUE /\ UNCHANGED <<nodes, name_off, arena, data_off, cwd, image, at>>
    BY <1>1, <1>4 DEF Written, Stop
  <2> QED
    BY <1>2, <1>3, <2>1 DEF Inv
<1>5. CASE ~s.bad
  <2>1. /\ cwd \in Ids(nodes) /\ Proper(nodes, cwd) /\ data_off \in Nat /\ Stored(nodes, data_off)
        /\ (EnoughNames => Roomy(nodes, name_off))
    BY ConstantsGiven DEF Inv
  <2>2. /\ Linked(s.t) /\ Len(s.t) <= MaxNodes /\ cwd \in Ids(s.t) /\ Proper(s.t, cwd)
        /\ s.off \in 0 .. NameBytes /\ Stored(s.t, data_off)
        /\ EnoughNames => Roomy(s.t, s.off)
    BY <1>1, <1>5, <2>1, GrownKeeps
  <2>3. name_off' = s.off /\ UNCHANGED <<cwd, image, fault, at>>
    BY <1>1, <1>5 DEF Written
  <2>4. CASE w.slash \/ ~Fits(n)
    <3>1. nodes' = s.t /\ UNCHANGED <<arena, data_off>>
      BY <1>1, <1>5, <2>4 DEF Written
    <3> QED
      BY <1>2, <1>3, <2>2, <2>3, <3>1 DEF Inv
  <2>5. CASE ~(w.slash \/ ~Fits(n))
    <3>1. /\ data_off' = Block + n /\ DOMAIN arena' = DOMAIN arena
          /\ nodes' = [s.t EXCEPT ![s.cur].type = V_FILE, ![s.cur].data = Block, ![s.cur].size = n]
      BY <1>1, <1>5, <2>5 DEF Written
    <3>2. Block \in Nat /\ data_off <= Block /\ Block + n <= ArenaSize /\ n \in Nat
      BY <2>5, BlockIs, ConstantsGiven DEF Fits
    <3>3. PICK end \in Nat, b \in Nat : b = Block /\ end = b + n /\ data_off' = end /\ data_off <= end /\ end <= ArenaSize
      BY <2>1, <3>1, <3>2
    <3>4. s.cur \in Ids(s.t)
      BY <1>1, <1>5 DEF Grew, State
    <3>5. Marked(s.t, nodes', s.cur, V_FILE, b, n)
      <4>1. nodes' = [s.t EXCEPT ![s.cur].type = V_FILE, ![s.cur].data = b, ![s.cur].size = n]
        BY <3>1, <3>3
      <4>2. b \in Int /\ n \in Nat
        BY <3>2, <3>3
      <4> QED
        BY <2>2, <3>4, <4>1, <4>2, MarkWrite
    <3>6. Linked(nodes') /\ Ids(nodes') = Ids(s.t) /\ Len(nodes') = Len(s.t) /\ (Named(s.t) => Named(nodes'))
      BY <2>2, <3>5, MarkedKeeps
    <3>7. Proper(nodes', cwd) /\ Stored(nodes', end)
      <4>1. b \in Int /\ n \in Nat /\ b + n <= end /\ data_off <= end /\ end \in Nat
        BY <3>2, <3>3
      <4> QED
        BY <2>1, <2>2, <3>4, <3>5, <4>1, MarkKeeps
    <3>8. EnoughNames => Roomy(nodes', s.off)
      BY <2>2, <3>6 DEF Roomy
    <3>9. data_off' \in 0 .. ArenaSize
      BY <3>3, ConstantsGiven
    <3> QED
      BY <1>2, <1>3, <2>2, <2>3, <3>1, <3>3, <3>6, <3>7, <3>8, <3>9 DEF Inv
  <2> QED
    BY <2>4, <2>5
<1> QED
  BY <1>4, <1>5

LEMMA ChdirInv ==
  ASSUME Inv, NEW d \in DirPath, vfs_chdir(d)
  PROVE  Inv'
<1>1. d.path \in Seq(Name) /\ d.abs \in BOOLEAN
  BY RamdiskConstantsOK
<1>2. PICK n : /\ n = walk_from(nodes, IF d.abs THEN root ELSE cwd, d.path) /\ n \in Spots(nodes)
               /\ n \in Ids(nodes) => Proper(nodes, n)
  <2>1. PICK i \in Ids(nodes) : i = (IF d.abs THEN root ELSE cwd) /\ Proper(nodes, i)
    BY RootThere, RootProper DEF Inv
  <2> QED
    BY <1>1, <2>1, FromProper DEF Inv
<1>3. CASE n = -1
  <2>1. fault' = TRUE /\ UNCHANGED <<nodes, name_off, arena, data_off, cwd, image, at, writes, call>>
    BY <1>2, <1>3 DEF vfs_chdir, Stop
  <2> QED
    BY <2>1 DEF Inv, Recorded
<1>4. CASE n # -1
  <2>1. /\ cwd' = IF n # Null /\ nodes[n].type = V_DIR THEN n ELSE cwd
        /\ UNCHANGED <<nodes, name_off, arena, data_off, image, fault, at, writes, call>>
    BY <1>2, <1>4 DEF vfs_chdir
  <2>2. n # Null => n \in Ids(nodes) /\ Proper(nodes, n)
    BY <1>2, <1>4 DEF Spots
  <2>3. cwd' \in Ids(nodes) /\ Proper(nodes, cwd')
    BY <2>1, <2>2 DEF Inv
  <2> QED
    BY <2>1, <2>3 DEF Inv, Recorded
<1> QED
  BY <1>3, <1>4

LEMMA NextInv ==
  ASSUME Inv, [Next]_vars
  PROVE  Inv'
<1>1. CASE MountEntry
  BY <1>1, MountInv
<1>2. CASE \E w \in WritePath, n \in 0 .. MaxSize : vfs_write_at(w, n)
  BY <1>2, WriteInv
<1>3. CASE \E d \in DirPath : vfs_chdir(d)
  BY <1>3, ChdirInv
<1>4. CASE UNCHANGED vars
  BY <1>4 DEF Inv, Recorded, vars
<1> QED
  BY <1>1, <1>2, <1>3, <1>4 DEF Next

\* The number of the node that a path leads to, the current directory and the
\* fill of the three areas stay within their bounds, whatever the image and
\* the calls: no stored content reaches beyond the arena.
THEOREM RamdiskBounds == Spec => []TypeOK
<1>1. Init => Inv
  BY InitInv
<1>2. Inv /\ [Next]_vars => Inv'
  BY NextInv
<1>3. Inv => TypeOK
  BY InvTypes
<1> QED
  BY <1>1, <1>2, <1>3, PTL DEF Spec

LEMMA InvTree ==
  ASSUME EnoughNames, Inv
  PROVE  LinksMakeTree
<1>1. Linked(nodes) /\ Named(nodes) /\ cwd \in Ids(nodes) /\ Proper(nodes, cwd)
  BY DEF Inv, Roomy
<1>2. ASSUME NEW d \in 1 .. Len(nodes)
      PROVE  /\ ToSet(Children(nodes, d)) = {c \in 1 .. Len(nodes) : nodes[c].parent = d}
             /\ Cardinality({nodes[c].name : c \in ToSet(Children(nodes, d))}) = Len(Children(nodes, d))
             /\ walk(nodes, PathOf(nodes, d)) = d
  <2>1. d \in Ids(nodes)
    BY DEF Ids
  <2>2. ListFrom(nodes, d, Len(nodes), Children(nodes, d))
    BY <1>1, <2>1, ChildrenComplete
  <2>3. walk(nodes, PathOf(nodes, d)) = d
    BY <1>1, <2>1, PathsLead
  <2> QED
    BY <2>2, <2>3 DEF ListFrom
<1>3. walk_from(nodes, root, PathOf(nodes, cwd)) = cwd
  BY <1>1, CwdLeads
<1> QED
  BY <1>2, <1>3, Zenon DEF LinksMakeTree

\* While the name area has room for a widest name in every node of the table
\* (512 nodes, 8192 bytes: names of up to 15 characters), no image, no write
\* and no change of directory loses a node from its list or gives two children
\* one name; the names from the root down to a node lead to it for vfs_lookup,
\* and those down to the current directory for walk_from too.
THEOREM RamdiskLinks == EnoughNames => (Spec => []LinksMakeTree)
<1> SUFFICES ASSUME EnoughNames PROVE Spec => []LinksMakeTree
  OBVIOUS
<1>1. Init => Inv
  BY InitInv
<1>2. Inv /\ [Next]_vars => Inv'
  BY NextInv
<1>3. Inv => LinksMakeTree
  BY InvTree
<1> QED
  BY <1>1, <1>2, <1>3, PTL DEF Spec

-----------------------------------------------------------------------------
(* The tree that vfs_read sees. *)

\* Whatever is on the way to a node is the path of a node.
LEMMA AncestorPaths ==
  ASSUME NEW u, Linked(u)
  PROVE  \A i \in Ids(u) : \A k \in 0 .. Len(PathOf(u, i)) :
           \E j \in Ids(u) : PathOf(u, j) = SubSeq(PathOf(u, i), 1, k)
<1> DEFINE T == {i \in Nat : i # 0 => \A k \in 0 .. Len(PathOf(u, i)) :
                               \E j \in Ids(u) : PathOf(u, j) = SubSeq(PathOf(u, i), 1, k)}
<1>1. PICK N \in Nat : N = Len(u)
  BY RootThere
<1>2. ASSUME NEW i \in 0 .. N, \A j \in 0 .. N : j < i => j \in T PROVE i \in T
  <2>1. CASE i = 0
    BY <2>1
  <2>2. CASE i # 0
    <3>1. i \in Ids(u) /\ i \in Nat
      BY <1>1, <2>2 DEF Ids
    <3>2. PICK q \in Seq(Name \cup {NoName}) : q = PathOf(u, i)
      BY <3>1, PathSteps
    <3>3. Len(q) \in Nat /\ SubSeq(q, 1, Len(q)) = q
      BY SubSeqFull
    <3>4. ASSUME NEW k \in 0 .. Len(q) PROVE \E j \in Ids(u) : PathOf(u, j) = SubSeq(q, 1, k)
      <4>1. CASE k = Len(q)
        BY <3>1, <3>2, <3>3, <4>1
      <4>2. CASE k # Len(q) /\ i = root
        <5>1. Len(q) = 0
          BY <3>2, <4>2, PathSteps, EmptySeq
        <5> QED
          BY <4>2, <5>1
      <4>3. CASE k # Len(q) /\ i # root
        <5>1. PICK d \in Ids(u), p \in Seq(Name \cup {NoName}), x \in Name \cup {NoName} :
                d = u[i].parent /\ p = PathOf(u, d) /\ x = u[i].name /\ q = Append(p, x)
          <6>1. /\ u[i].parent \in Ids(u) /\ PathOf(u, i) = Append(PathOf(u, u[i].parent), u[i].name)
                /\ PathOf(u, u[i].parent) \in Seq(Name \cup {NoName}) /\ u[i].name \in Name \cup {NoName}
            BY <3>1, <4>3, PathSteps, NodeTypes
          <6> QED
            BY <3>2, <6>1
        <5>2. d < i /\ d \in 0 .. N /\ d # 0
          BY <1>1, <3>1, <4>3, <5>1 DEF Linked, Parents, Ids
        <5>3. Len(q) = Len(p) + 1 /\ Len(p) \in Nat
          BY <5>1, AppendProperties, LenProperties
        <5>4. k \in 0 .. Len(p)
          BY <4>3, <5>3
        <5>5. PICK j \in Ids(u) : PathOf(u, j) = SubSeq(p, 1, k)
          BY <1>2, <5>1, <5>2, <5>4
        <5>6. SubSeq(q, 1, k) = SubSeq(p, 1, k)
          BY <5>1, <5>4, SubSeqAppend
        <5> QED
          BY <5>5, <5>6
      <4> QED
        BY <4>1, <4>2, <4>3
    <3> QED
      BY <3>1, <3>2, <3>4
  <2> QED
    BY <2>1, <2>2
<1> HIDE DEF T
<1>3. \A i \in 0 .. N : i \in T
  BY <1>2, Descend
<1>4. \A i \in Ids(u) : i \in 0 .. N /\ i # 0
  BY <1>1 DEF Ids
<1> QED
  BY <1>3, <1>4 DEF T

ValueOf(a, n) == IF n.type = V_DIR THEN {} ELSE {ContentOf(a, n)}

LEMMA TreeIs ==
  ASSUME NEW t, Linked(t), Named(t), NEW a
  PROVE  /\ DOMAIN TreeOf(t, a) = {PathOf(t, i) : i \in Ids(t)}
         /\ TreeOf(t, a) = [p \in {PathOf(t, i) : i \in Ids(t)} |-> TreeOf(t, a)[p]]
         /\ \A i \in Ids(t) : TreeOf(t, a)[PathOf(t, i)] = ValueOf(a, t[i])
<1> DEFINE all  == {PathOf(t, i) : i \in Ids(t)}
           here == {p \in all : walk(t, p) > 0}
           f    == [p \in here |-> ValueOf(a, t[walk(t, p)])]
<1>1. \A i \in Ids(t) : walk(t, PathOf(t, i)) = i /\ i > 0
  BY PathsLead, RootThere DEF Ids
<1>2. here = all
  BY <1>1
<1>3. TreeOf(t, a) = f
  BY DEF TreeOf, ValueOf, Ids
<1>4. \A i \in Ids(t) : f[PathOf(t, i)] = ValueOf(a, t[i])
  BY <1>1, <1>2
<1>5. DOMAIN f = all /\ f = [p \in all |-> f[p]]
  BY <1>2
<1> QED
  BY <1>3, <1>4, <1>5

LEMMA OnePath ==
  ASSUME NEW t, Linked(t), Named(t), NEW i \in Ids(t), NEW j \in Ids(t), PathOf(t, i) = PathOf(t, j)
  PROVE  i = j
BY PathsLead

\* The tree f with p, and with the directories on the way to it.
Put(f, p, v) ==
  [q \in DOMAIN f \cup {SubSeq(p, 1, k) : k \in 0 .. Len(p)} |->
     IF q = p THEN v ELSE IF q \in DOMAIN f THEN f[q] ELSE {}]

\* The tree, when nodes were added on the way to c and only c has a new value.
LEMMA GrownTree ==
  ASSUME NEW t, Linked(t), Named(t), NEW u, Linked(u), Named(u), SameNames(t, u), NEW a, NEW b,
         NEW c \in Ids(u), NEW p, p = PathOf(u, c),
         \A i \in Ids(t) : i # c => ValueOf(b, u[i]) = ValueOf(a, t[i]),
         \A i \in Ids(u) \ Ids(t) : OnWay(PathOf(u, i), p) /\ (i # c => u[i].type = V_DIR)
  PROVE  /\ p \in DOMAIN TreeOf(t, a) <=> c \in Ids(t)
         /\ TreeOf(u, b) = Put(TreeOf(t, a), p, ValueOf(b, u[c]))
<1>1. \A i \in Ids(t) : i \in Ids(u) /\ PathOf(u, i) = PathOf(t, i)
  BY PathKept
<1>2. PICK f : /\ f = TreeOf(t, a) /\ DOMAIN f = {PathOf(t, i) : i \in Ids(t)}
               /\ \A i \in Ids(t) : f[PathOf(t, i)] = ValueOf(a, t[i])
  <2>1. /\ DOMAIN TreeOf(t, a) = {PathOf(t, i) : i \in Ids(t)}
        /\ \A i \in Ids(t) : TreeOf(t, a)[PathOf(t, i)] = ValueOf(a, t[i])
    BY TreeIs
  <2> QED
    BY <2>1
<1>3. PICK g : /\ g = TreeOf(u, b) /\ g = [q \in {PathOf(u, i) : i \in Ids(u)} |-> g[q]]
               /\ \A i \in Ids(u) : g[PathOf(u, i)] = ValueOf(b, u[i])
  <2>1. /\ TreeOf(u, b) = [q \in {PathOf(u, i) : i \in Ids(u)} |-> TreeOf(u, b)[q]]
        /\ \A i \in Ids(u) : TreeOf(u, b)[PathOf(u, i)] = ValueOf(b, u[i])
    BY TreeIs
  <2> QED
    BY <2>1
<1> DEFINE made == {SubSeq(p, 1, k) : k \in 0 .. Len(p)}
<1>4. {PathOf(u, i) : i \in Ids(u)} = DOMAIN f \cup made
  <2>1. ASSUME NEW i \in Ids(u) PROVE PathOf(u, i) \in DOMAIN f \cup made
    <3>1. CASE i \in Ids(t)
      BY <1>1, <1>2, <3>1
    <3>2. CASE i \notin Ids(t)
      BY <3>2 DEF OnWay
    <3> QED
      BY <3>1, <3>2
  <2>2. ASSUME NEW q \in DOMAIN f PROVE q \in {PathOf(u, i) : i \in Ids(u)}
    BY <1>1, <1>2
  <2>3. ASSUME NEW q \in made PROVE q \in {PathOf(u, i) : i \in Ids(u)}
    <3>1. PICK k \in 0 .. Len(PathOf(u, c)) : q = SubSeq(PathOf(u, c), 1, k)
      OBVIOUS
    <3>2. PICK j \in Ids(u) : PathOf(u, j) = q
      BY <3>1, AncestorPaths
    <3> QED
      BY <3>2
  <2> QED
    BY <2>1, <2>2, <2>3
<1>5. ASSUME NEW q, q \in {PathOf(u, i) : i \in Ids(u)}
      PROVE  g[q] = IF q = p THEN ValueOf(b, u[c]) ELSE IF q \in DOMAIN f THEN f[q] ELSE {}
  <2>1. PICK i \in Ids(u) : q = PathOf(u, i)
    BY <1>5
  <2>2. g[q] = ValueOf(b, u[i])
    BY <1>3, <2>1
  <2>3. CASE q = p
    BY <2>1, <2>2, <2>3, OnePath
  <2>4. CASE q # p /\ q \in DOMAIN f
    <3>1. PICK j \in Ids(t) : q = PathOf(t, j)
      BY <1>2, <2>4
    <3>2. j = i
      BY <1>1, <2>1, <3>1, OnePath
    <3>3. i # c
      BY <2>1, <2>4
    <3> QED
      BY <1>2, <2>2, <2>4, <3>1, <3>2, <3>3
  <2>5. CASE q # p /\ q \notin DOMAIN f
    <3>1. i \notin Ids(t) /\ i # c
      BY <1>1, <1>2, <2>1, <2>5
    <3>2. u[i].type = V_DIR
      BY <3>1
    <3> QED
      BY <2>2, <2>5, <3>2 DEF ValueOf
  <2> QED
    BY <2>3, <2>4, <2>5
<1>6. p \in DOMAIN f <=> c \in Ids(t)
  <2>1. ASSUME p \in DOMAIN f PROVE c \in Ids(t)
    <3>1. PICK j \in Ids(t) : p = PathOf(t, j)
      BY <1>2, <2>1
    <3>2. j = c
      BY <1>1, <3>1, OnePath
    <3> QED
      BY <3>2
  <2> QED
    BY <1>1, <1>2, <2>1
<1>7. g = [q \in DOMAIN f \cup made |->
             IF q = p THEN ValueOf(b, u[c]) ELSE IF q \in DOMAIN f THEN f[q] ELSE {}]
  BY <1>3, <1>4, <1>5, Zenon
<1>8. g = Put(f, p, ValueOf(b, u[c]))
  BY <1>7 DEF Put
<1> QED
  BY <1>2, <1>3, <1>6, <1>8

-----------------------------------------------------------------------------
(* The table of nodes implements the abstract tree. *)

SameContent(a, m, b, n) ==
  /\ m.type = n.type /\ m.data = n.data /\ m.size = n.size
  /\ m.data < 0 \/ \A k \in 1 .. m.size : a[m.data + k - 1] = b[m.data + k - 1]

LEMMA SameValue ==
  ASSUME NEW a, NEW b, NEW m, NEW n, SameContent(a, m, b, n)
  PROVE  ValueOf(b, n) = ValueOf(a, m)
<1>1. ContentOf(b, n) = ContentOf(a, m)
  BY Zenon DEF SameContent, ContentOf
<1> QED
  BY <1>1 DEF SameContent, ValueOf

\* A step that adds nodes on the way to c, and changes the value of c only,
\* puts its path into the tree.
LEMMA TreeGrows ==
  ASSUME Linked(nodes), Named(nodes), Linked(nodes'), Named(nodes'), SameNames(nodes, nodes'),
         NEW c \in Ids(nodes'), NEW p, p = PathOf(nodes', c),
         \A i \in Ids(nodes) : i # c => SameContent(arena, nodes[i], arena', nodes'[i]),
         \A i \in Ids(nodes') \ Ids(nodes) :
           OnWay(PathOf(nodes', i), p) /\ (i # c => nodes'[i].type = V_DIR)
  PROVE  /\ p \in DOMAIN TreeOf(nodes, arena) <=> c \in Ids(nodes)
         /\ TreeOf(nodes', arena') = Put(TreeOf(nodes, arena), p, ValueOf(arena', nodes'[c]))
         /\ TreeOf(nodes, arena)' = Tree!With(p, ValueOf(arena', nodes'[c]))
         /\ p \in DOMAIN TreeOf(nodes, arena)'
         /\ c \in Ids(nodes) => TreeOf(nodes, arena)[p] = ValueOf(arena, nodes[c])
<1>1. \A i \in Ids(nodes) : i # c => ValueOf(arena', nodes'[i]) = ValueOf(arena, nodes[i])
  BY SameValue
<1>2. /\ p \in DOMAIN TreeOf(nodes, arena) <=> c \in Ids(nodes)
      /\ TreeOf(nodes', arena') = Put(TreeOf(nodes, arena), p, ValueOf(arena', nodes'[c]))
  BY <1>1, GrownTree
<1>3. TreeOf(nodes, arena)' = Tree!With(p, ValueOf(arena', nodes'[c]))
  BY <1>2 DEF Put, Tree!With, Tree!Way, Tree!Dir
<1>4. p \in DOMAIN TreeOf(nodes', arena')
  BY TreeIs
<1>5. ASSUME c \in Ids(nodes) PROVE TreeOf(nodes, arena)[p] = ValueOf(arena, nodes[c])
  <2>1. p = PathOf(nodes, c)
    BY <1>5, PathKept
  <2> QED
    BY <1>5, <2>1, TreeIs
<1> QED
  BY <1>2, <1>3, <1>4, <1>5

\* What Grew says of the paths and values.
LEMMA GrewPaths ==
  ASSUME EnoughNames, NEW h, State(h), NEW s, NEW type, Grew(h, s, type), Roomy(h.t, h.off)
  PROVE  /\ Linked(h.t) /\ Named(h.t) /\ Linked(s.t) /\ Named(s.t) /\ SameNames(h.t, s.t)
         /\ s.cur \in Ids(s.t)
         /\ \A i \in Ids(h.t) : /\ s.t[i].type = h.t[i].type /\ s.t[i].data = h.t[i].data
                                /\ s.t[i].size = h.t[i].size
         /\ \A i \in Ids(s.t) \ Ids(h.t) :
              /\ s.t[i].type = IF i = s.cur THEN type ELSE V_DIR
              /\ s.t[i].data = 0 /\ s.t[i].size = 0
              /\ OnWay(PathOf(s.t, i), PathOf(s.t, s.cur))
BY DEF Grew, State, Roomy, Extends, SameNames

LEMMA InitRefines ==
  ASSUME Init
  PROVE  Tree!Init
<1>1. Inv
  BY InitInv
<1>2. Linked(nodes) /\ Len(nodes) = 1 /\ nodes[1].type = V_DIR
  BY <1>1 DEF Inv, Init, Node
<1>3. Ids(nodes) = {root} /\ Named(nodes)
  BY <1>2 DEF Ids, root, Named
<1>4. PathOf(nodes, root) = <<>>
  BY <1>2, PathSteps
<1>5. {PathOf(nodes, i) : i \in Ids(nodes)} = {<<>>}
  BY <1>3, <1>4
<1>6. /\ TreeOf(nodes, arena) = [p \in {<<>>} |-> TreeOf(nodes, arena)[p]]
      /\ TreeOf(nodes, arena)[<<>>] = ValueOf(arena, nodes[root])
  <2>1. /\ TreeOf(nodes, arena) = [p \in {PathOf(nodes, i) : i \in Ids(nodes)} |-> TreeOf(nodes, arena)[p]]
        /\ \A i \in Ids(nodes) : TreeOf(nodes, arena)[PathOf(nodes, i)] = ValueOf(arena, nodes[i])
    BY <1>2, <1>3, TreeIs
  <2>2. TreeOf(nodes, arena)[PathOf(nodes, root)] = ValueOf(arena, nodes[root])
    BY <1>3, <2>1
  <2> QED
    BY <1>4, <1>5, <2>1, <2>2
<1>7. ValueOf(arena, nodes[root]) = {}
  BY <1>2 DEF ValueOf, root
<1>8. TreeOf(nodes, arena) = [p \in {<<>>} |-> {}]
  BY <1>6, <1>7
<1> QED
  BY <1>8 DEF Tree!Init, Tree!Dir, Init

\* The table is full when the tree would outgrow it.
LEMMA StopRefines ==
  ASSUME EnoughNames, Inv, UNCHANGED <<nodes, arena>>, NEW q, Overfull(nodes, q),
         call'.end = "stopped", call'.path = q
  PROVE  Tree!Stopped
<1>1. DOMAIN TreeOf(nodes, arena) = PathsOf(nodes)
  BY TreeIs DEF Inv, Roomy, PathsOf
<1>2. Tree!Way(q) = WayTo(q)
  BY DEF Tree!Way, WayTo
<1>3. Tree!Cardinality(DOMAIN TreeOf(nodes, arena) \cup Tree!Way(q)) > MaxNodes
  <2>1. \A S : Tree!Cardinality(S) = Cardinality(S)
    BY DEF Tree!Cardinality, Cardinality
  <2> QED
    BY <1>1, <1>2, <2>1 DEF Overfull
<1> QED
  BY <1>3 DEF Tree!Stopped

\* Calls come one after the other, and none after the machine has stopped.
LEMMA CallNext ==
  ASSUME Inv, ~fault, at' + writes' = at + writes + 1, call'.no = at' + writes',
         Tree!Done \/ Tree!Failed \/ Tree!Stopped
  PROVE  Tree!Next
BY DEF Inv, Recorded, Tree!Next

\* A call that only makes nodes.
LEMMA PlainStep ==
  ASSUME EnoughNames, Inv, Inv', NEW h, State(h), h.t = nodes, h.off = name_off,
         NEW s, NEW type \in {V_DIR, V_FILE}, Grew(h, s, type), nodes' = s.t, arena' = arena,
         NEW p, p = PathOf(s.t, s.cur)
  PROVE  /\ type = V_DIR => Tree!MakeDir(p)
         /\ type = V_FILE => Tree!MakeFile(p)
<1> DEFINE c == s.cur
<1>1. Linked(nodes) /\ Named(nodes) /\ Roomy(nodes, name_off) /\ Linked(nodes') /\ Named(nodes')
  BY DEF Inv, Roomy
<1>2. /\ SameNames(nodes, nodes') /\ c \in Ids(nodes')
      /\ \A i \in Ids(nodes) : /\ nodes'[i].type = nodes[i].type /\ nodes'[i].data = nodes[i].data
                               /\ nodes'[i].size = nodes[i].size
      /\ \A i \in Ids(nodes') \ Ids(nodes) :
           /\ nodes'[i].type = IF i = c THEN type ELSE V_DIR
           /\ nodes'[i].data = 0 /\ nodes'[i].size = 0
           /\ OnWay(PathOf(nodes', i), p)
  <2>1. /\ SameNames(h.t, s.t) /\ s.cur \in Ids(s.t)
        /\ \A i \in Ids(h.t) : /\ s.t[i].type = h.t[i].type /\ s.t[i].data = h.t[i].data
                               /\ s.t[i].size = h.t[i].size
        /\ \A i \in Ids(s.t) \ Ids(h.t) :
             /\ s.t[i].type = IF i = s.cur THEN type ELSE V_DIR
             /\ s.t[i].data = 0 /\ s.t[i].size = 0
             /\ OnWay(PathOf(s.t, i), PathOf(s.t, s.cur))
    BY <1>1, GrewPaths
  <2> QED
    BY <2>1
<1>3. \A i \in Ids(nodes) : SameContent(arena, nodes[i], arena', nodes'[i])
  BY <1>2 DEF SameContent
<1>4. p = PathOf(nodes', c)
  OBVIOUS
<1> HIDE DEF c
<1>5. /\ p \in DOMAIN TreeOf(nodes, arena) <=> c \in Ids(nodes)
      /\ TreeOf(nodes, arena)' = Tree!With(p, ValueOf(arena', nodes'[c]))
      /\ p \in DOMAIN TreeOf(nodes, arena)'
      /\ c \in Ids(nodes) => TreeOf(nodes, arena)[p] = ValueOf(arena, nodes[c])
  BY <1>1, <1>2, <1>3, <1>4, TreeGrows
<1>6. CASE c \in Ids(nodes)
  <2>1. ValueOf(arena', nodes'[c]) = TreeOf(nodes, arena)[p]
    BY <1>3, <1>5, <1>6, SameValue
  <2> QED
    BY <1>5, <1>6, <2>1 DEF Tree!MakeDir, Tree!MakeFile
<1>7. CASE c \notin Ids(nodes)
  <2>1. nodes'[c].type = type /\ nodes'[c].data = 0 /\ nodes'[c].size = 0
    BY <1>2, <1>7
  <2>2. CASE type = V_DIR
    <3>1. ValueOf(arena', nodes'[c]) = {}
      BY <2>1, <2>2 DEF ValueOf
    <3>2. type # V_FILE
      BY <2>2 DEF V_DIR, V_FILE
    <3> QED
      BY <1>5, <1>7, <3>1, <3>2 DEF Tree!MakeDir, Tree!Dir
  <2>3. CASE type = V_FILE
    <3>1. ContentOf(arena', nodes'[c]) = <<>>
      BY <2>1 DEF ContentOf
    <3>2. type # V_DIR
      BY <2>3 DEF V_DIR, V_FILE
    <3>3. ValueOf(arena', nodes'[c]) = {<<>>}
      BY <2>1, <3>1, <3>2 DEF ValueOf
    <3> QED
      BY <1>5, <1>7, <3>2, <3>3 DEF Tree!MakeFile
  <2> QED
    BY <2>2, <2>3
<1> QED
  BY <1>5, <1>6, <1>7

Untouched(t, a, b) ==
  \A i \in Ids(t) : t[i].data >= 0 =>
    \A k \in 1 .. t[i].size : b[t[i].data + k - 1] = a[t[i].data + k - 1]

\* The tree of u is that of t, with the value of c at p.
Outcome(t, u, a, b, c, p) ==
  /\ p \in DOMAIN TreeOf(u, b) /\ TreeOf(u, b) = Put(TreeOf(t, a), p, ValueOf(b, u[c]))
  /\ p \in DOMAIN TreeOf(t, a) <=> c \in Ids(t)
  /\ c \in Ids(t) => TreeOf(t, a)[p] = ValueOf(a, t[c])

\* A call that gives the last node a content as well.
LEMMA MarkedStep ==
  ASSUME EnoughNames, Inv, Inv', NEW h, State(h), h.t = nodes, h.off = name_off,
         NEW s, NEW type, Grew(h, s, type), NEW ty, NEW data, NEW size,
         Marked(s.t, nodes', s.cur, ty, data, size),
         Untouched(nodes, arena, arena'),
         NEW p, p = PathOf(s.t, s.cur)
  PROVE  Outcome(nodes, nodes', arena, arena', s.cur, p)
<1>1. Linked(nodes) /\ Named(nodes) /\ Roomy(nodes, name_off) /\ Linked(nodes') /\ Named(nodes')
  BY DEF Inv, Roomy
<1>2. /\ Linked(s.t) /\ SameNames(nodes, s.t) /\ s.cur \in Ids(s.t)
      /\ \A i \in Ids(nodes) : /\ s.t[i].type = nodes[i].type /\ s.t[i].data = nodes[i].data
                               /\ s.t[i].size = nodes[i].size
      /\ \A i \in Ids(s.t) \ Ids(nodes) :
           /\ s.t[i].type = IF i = s.cur THEN type ELSE V_DIR
           /\ OnWay(PathOf(s.t, i), PathOf(s.t, s.cur))
  <2>1. /\ Linked(s.t) /\ SameNames(h.t, s.t) /\ s.cur \in Ids(s.t)
        /\ \A i \in Ids(h.t) : /\ s.t[i].type = h.t[i].type /\ s.t[i].data = h.t[i].data
                               /\ s.t[i].size = h.t[i].size
        /\ \A i \in Ids(s.t) \ Ids(h.t) :
             /\ s.t[i].type = IF i = s.cur THEN type ELSE V_DIR
             /\ OnWay(PathOf(s.t, i), PathOf(s.t, s.cur))
    BY <1>1, GrewPaths
  <2> QED
    BY <2>1
<1>3. PICK t, c : t = s.t /\ c = s.cur
  OBVIOUS
<1>4. /\ Ids(nodes') = Ids(t) /\ SameNames(t, nodes') /\ Len(nodes') = Len(t)
      /\ \A i \in Ids(t) : PathOf(nodes', i) = PathOf(t, i)
  BY <1>1, <1>2, <1>3, MarkedKeeps, PathKept
<1>5. \A i \in Ids(nodes) : i \in Ids(t)
  BY <1>1, <1>2, <1>3, PathKept
<1>6. SameNames(nodes, nodes')
  BY <1>2, <1>3, <1>4, <1>5 DEF SameNames
<1>7. p = PathOf(nodes', c) /\ c \in Ids(nodes')
  BY <1>2, <1>3, <1>4
<1>8. /\ \A i \in Ids(t) : i # c =>
           /\ nodes'[i].type = t[i].type /\ nodes'[i].data = t[i].data /\ nodes'[i].size = t[i].size
      /\ nodes'[c].type = ty /\ nodes'[c].data = data /\ nodes'[c].size = size
  BY <1>2, <1>3 DEF Marked
<1>9. ASSUME NEW i \in Ids(nodes), i # c PROVE SameContent(arena, nodes[i], arena', nodes'[i])
  <2>1. /\ nodes'[i].type = nodes[i].type /\ nodes'[i].data = nodes[i].data
        /\ nodes'[i].size = nodes[i].size
    BY <1>2, <1>3, <1>5, <1>8, <1>9
  <2>2. nodes[i].data < 0 \/ nodes[i].data >= 0
    BY <1>1, NodeTypes
  <2> QED
    BY <2>1, <2>2 DEF SameContent, Untouched
<1>10. \A i \in Ids(nodes') \ Ids(nodes) :
         OnWay(PathOf(nodes', i), p) /\ (i # c => nodes'[i].type = V_DIR)
  BY <1>2, <1>3, <1>4, <1>7, <1>8
<1>11. /\ p \in DOMAIN TreeOf(nodes, arena) <=> c \in Ids(nodes)
       /\ TreeOf(nodes', arena') = Put(TreeOf(nodes, arena), p, ValueOf(arena', nodes'[c]))
       /\ p \in DOMAIN TreeOf(nodes', arena')
       /\ c \in Ids(nodes) => TreeOf(nodes, arena)[p] = ValueOf(arena, nodes[c])
  BY <1>1, <1>6, <1>7, <1>9, <1>10, TreeGrows
<1> QED
  BY <1>3, <1>11 DEF Outcome

LEMMA MountRefines ==
  ASSUME EnoughNames, Inv, MountEntry
  PROVE  Tree!Next
<1>1. /\ at \in Nat /\ at + 1 \in 1 .. Len(image) /\ Len(image) \in Nat
      /\ image[at + 1].path \in Seq(Name) /\ image[at + 1].path # <<>>
      /\ image[at + 1].dir \in BOOLEAN /\ image[at + 1].size \in Nat
  BY EntryIs DEF MountEntry
<1>2. PICK type \in {V_DIR, V_FILE} : type = IF image[at + 1].dir THEN V_DIR ELSE V_FILE
  OBVIOUS
<1>3. PICK s : s = EnsureLast(Here(root), image[at + 1].path, type)
  OBVIOUS
<1>4. PICK h : /\ h = Here(root) /\ State(h) /\ h.t = nodes /\ h.off = name_off /\ h.cur = root
               /\ h.bad = FALSE
  BY HereIs, RootThere DEF Inv
<1>5. PICK p : p = Target(root, image[at + 1].path) /\ Reached(h, s, p, type)
  <2>1. Roomy(h.t, h.off)
    BY <1>4 DEF Inv
  <2> QED
    BY <1>1, <1>3, <1>4, <2>1, LastReach
<1>6. Inv'
  BY MountInv
<1>7. /\ ~fault /\ at' + writes' = at + writes + 1 /\ call'.no = at' + writes' /\ call'.path = p
      /\ call'.end = (IF s.bad THEN "stopped" ELSE "done")
      /\ call'.op = (IF image[at + 1].dir THEN "mount dir" ELSE "mount")
      /\ call'.content = (IF image[at + 1].dir THEN <<>> ELSE Bytes(-(at + 1), image[at + 1].size))
  <2>1. ~fault /\ at' = at + 1 /\ writes' = writes
    BY DEF MountEntry
  <2>2. at' + writes' = at + writes + 1
    BY <2>1, <1>1, ConstantsGiven DEF Inv
  <2> QED
    BY <1>2, <1>3, <1>5, <2>1, <2>2 DEF MountEntry, Called
<1>8. CASE s.bad
  <2>1. UNCHANGED <<nodes, arena>>
    BY <1>2, <1>3, <1>8 DEF MountEntry, Stop
  <2>2. Overfull(nodes, p)
    BY <1>4, <1>5, <1>8 DEF Reached
  <2>3. Tree!Stopped
    BY <1>7, <1>8, <2>1, <2>2, StopRefines
  <2> QED
    BY <1>7, <2>3, CallNext
<1>9. CASE ~s.bad
  <2>1. /\ nodes' = IF image[at + 1].dir THEN s.t
                    ELSE [s.t EXCEPT ![s.cur].data = -(at + 1), ![s.cur].size = image[at + 1].size]
        /\ arena' = arena
    BY <1>2, <1>3, <1>9 DEF MountEntry
  <2>2. Grew(h, s, type) /\ p = PathOf(s.t, s.cur) /\ Linked(s.t) /\ s.cur \in Ids(s.t)
    BY <1>5, <1>9 DEF Reached, Grew, State
  <2>3. CASE image[at + 1].dir
    <3>1. nodes' = s.t /\ type = V_DIR
      BY <1>2, <2>1, <2>3
    <3>2. Tree!MakeDir(p)
      BY <1>4, <1>6, <2>1, <2>2, <3>1, PlainStep
    <3>3. Tree!Done
      BY <1>7, <1>9, <2>3, <3>2 DEF Tree!Done
    <3> QED
      BY <1>7, <3>3, CallNext
  <2>4. CASE ~image[at + 1].dir
    <3>1. type = V_FILE /\ V_FILE # V_DIR
      BY <1>2, <2>4 DEF V_DIR, V_FILE
    <3>2. PICK data \in Int, size \in Nat : data = -(at + 1) /\ size = image[at + 1].size /\ data < 0
      BY <1>1
    <3>3. Marked(s.t, nodes', s.cur, s.t[s.cur].type, data, size)
      <4>1. nodes' = [s.t EXCEPT ![s.cur].data = data, ![s.cur].size = size]
        BY <2>1, <2>4, <3>2
      <4> QED
        BY <2>2, <4>1, MarkMount
    <3>4. Untouched(nodes, arena, arena')
      BY <2>1 DEF Untouched
    <3>5. /\ TreeOf(nodes, arena)' = Tree!With(p, ValueOf(arena', nodes'[s.cur]))
          /\ nodes'[s.cur].type = s.t[s.cur].type /\ nodes'[s.cur].data = data /\ nodes'[s.cur].size = size
          /\ s.cur \notin Ids(nodes) => s.t[s.cur].type = type
          /\ p \in DOMAIN TreeOf(nodes, arena) <=> s.cur \in Ids(nodes)
          /\ s.cur \in Ids(nodes) =>
               /\ s.t[s.cur].type = nodes[s.cur].type
               /\ TreeOf(nodes, arena)[p] = ValueOf(arena, nodes[s.cur])
      <4>1. PICK ty, dt, sz : ty = s.t[s.cur].type /\ dt = data /\ sz = size
        OBVIOUS
      <4>2. Marked(s.t, nodes', s.cur, ty, dt, sz)
        BY <3>3, <4>1
      <4>3. Outcome(nodes, nodes', arena, arena', s.cur, p)
        BY <1>4, <1>6, <2>2, <3>4, <4>2, MarkedStep
      <4>4. nodes'[s.cur].type = s.t[s.cur].type /\ nodes'[s.cur].data = data /\ nodes'[s.cur].size = size
        BY <2>2, <3>3 DEF Marked
      <4>5. s.cur \notin Ids(nodes) => s.t[s.cur].type = type
        BY <1>4, <2>2 DEF Grew
      <4>6. s.cur \in Ids(nodes) => s.t[s.cur].type = nodes[s.cur].type
        BY <1>4, <2>2 DEF Grew, Extends
      <4> QED
        BY <4>3, <4>4, <4>5, <4>6 DEF Outcome, Put, Tree!With, Tree!Way, Tree!Dir
    <3>6. PICK v : v = Bytes(data, size)
      OBVIOUS
    <3>7. CASE s.t[s.cur].type = V_DIR
      <4>1. s.cur \in Ids(nodes)
        BY <3>1, <3>5, <3>7
      <4>2. TreeOf(nodes, arena)[p] = {} /\ ValueOf(arena', nodes'[s.cur]) = {}
        BY <3>5, <3>7, <4>1 DEF ValueOf
      <4> QED
        <5>1. Tree!Mount(p, v)
          BY <3>5, <4>1, <4>2 DEF Tree!Mount, Tree!Dir
        <5>2. Tree!Done
          BY <1>7, <1>9, <2>4, <3>2, <3>6, <5>1 DEF Tree!Done
        <5> QED
          BY <1>7, <5>2, CallNext
    <3>8. CASE s.t[s.cur].type # V_DIR
      <4>1. ContentOf(arena', nodes'[s.cur]) = v
        BY <3>2, <3>5, <3>6 DEF ContentOf
      <4>2. ValueOf(arena', nodes'[s.cur]) = {v}
        BY <3>5, <3>8, <4>1 DEF ValueOf
      <4>3. ~(p \in DOMAIN TreeOf(nodes, arena) /\ TreeOf(nodes, arena)[p] = {})
        BY <3>5, <3>8 DEF ValueOf
      <4>4. Tree!Mount(p, v)
        BY <3>5, <4>2, <4>3 DEF Tree!Mount, Tree!Dir
      <4>5. Tree!Done
        BY <1>7, <1>9, <2>4, <3>2, <3>6, <4>4 DEF Tree!Done
      <4> QED
        BY <1>7, <4>5, CallNext
    <3> QED
      BY <3>7, <3>8
  <2> QED
    BY <2>3, <2>4
<1> QED
  BY <1>8, <1>9

LEMMA WriteRefines ==
  ASSUME EnoughNames, Inv, NEW w \in WritePath, NEW n \in 0 .. MaxSize, vfs_write_at(w, n)
  PROVE  Tree!Next
<1>1. PICK h, s, type, p :
           /\ type \in {V_DIR, V_FILE} /\ type = (IF w.slash THEN V_DIR ELSE V_FILE)
           /\ State(h) /\ h.t = nodes /\ h.off = name_off
           /\ s \in StateRec /\ (~s.bad => Grew(h, s, type)) /\ (EnoughNames => Reached(h, s, p, type))
           /\ writes' = writes + 1 /\ writes < MaxWrites /\ UNCHANGED at /\ Written(w, n, s)
           /\ Called(IF w.slash THEN "write/" ELSE "write", p, Bytes(writes + 1, n), EndOf(w, n, s))
  BY WriteGrows, Zenon
<1>2. Inv'
  BY WriteInv
<1>3. /\ ~fault /\ at' + writes' = at + writes + 1 /\ call'.no = at' + writes' /\ call'.path = p
      /\ call'.end = EndOf(w, n, s) /\ call'.content = Bytes(writes + 1, n)
      /\ call'.op = (IF w.slash THEN "write/" ELSE "write")
  <2>1. ~fault
    BY DEF vfs_write_at
  <2>2. at' + writes' = at + writes + 1
    BY <1>1, ConstantsGiven, RamdiskConstantsOK DEF Inv
  <2> QED
    BY <1>1, <2>1, <2>2 DEF Called
<1>4. CASE s.bad
  <2>1. UNCHANGED <<nodes, arena>>
    BY <1>1, <1>4 DEF Written, Stop
  <2>2. Overfull(nodes, p)
    BY <1>1, <1>4 DEF Reached
  <2>3. call'.end = "stopped"
    BY <1>3, <1>4 DEF EndOf
  <2>4. Tree!Stopped
    BY <1>3, <2>1, <2>2, <2>3, StopRefines
  <2> QED
    BY <1>3, <2>4, CallNext
<1>5. CASE ~s.bad
  <2>1. Grew(h, s, type) /\ p = PathOf(s.t, s.cur) /\ Linked(s.t) /\ s.cur \in Ids(s.t)
    BY <1>1, <1>5 DEF Reached, Grew, State
  <2>2. CASE w.slash \/ ~Fits(n)
    <3>1. nodes' = s.t /\ arena' = arena
      BY <1>1, <1>5, <2>2 DEF Written
    <3>2. call'.end = "failed"
      BY <1>3, <1>5, <2>2 DEF EndOf
    <3>3. CASE w.slash
      <4>1. Tree!MakeDir(p)
        BY <1>1, <1>2, <2>1, <3>1, <3>3, PlainStep
      <4>2. Tree!Failed
        BY <1>3, <3>2, <3>3, <4>1 DEF Tree!Failed
      <4> QED
        BY <1>3, <4>2, CallNext
    <3>4. CASE ~w.slash
      <4>1. Tree!MakeFile(p)
        BY <1>1, <1>2, <2>1, <3>1, <3>4, PlainStep
      <4>2. Tree!Failed
        BY <1>3, <3>2, <3>4, <4>1 DEF Tree!Failed
      <4> QED
        BY <1>3, <4>2, CallNext
    <3> QED
      BY <3>3, <3>4
  <2>3. CASE ~(w.slash \/ ~Fits(n))
    <3>1. /\ arena' = [a \in DOMAIN arena |->
               IF a \in Block .. Block + n - 1 THEN Bytes(writes + 1, n)[a - Block + 1] ELSE arena[a]]
          /\ nodes' = [s.t EXCEPT ![s.cur].type = V_FILE, ![s.cur].data = Block, ![s.cur].size = n]
      BY <1>1, <1>5, <2>3 DEF Written
    <3>2. /\ Block \in Nat /\ data_off <= Block /\ data_off \in Nat
          /\ Block + n <= ArenaSize /\ n \in Nat /\ ArenaSize \in Nat
      BY <2>3, BlockIs, ConstantsGiven DEF Fits
    <3>3. PICK b \in Nat : b = Block
      BY <3>2
    <3>4. DOMAIN arena = 0 .. ArenaSize - 1 /\ Stored(nodes, data_off) /\ Linked(nodes)
      BY DEF Inv
    <3>5. Marked(s.t, nodes', s.cur, V_FILE, b, n)
      <4>1. nodes' = [s.t EXCEPT ![s.cur].type = V_FILE, ![s.cur].data = b, ![s.cur].size = n]
        BY <3>1, <3>3
      <4>2. b \in Int /\ n \in Nat
        BY <3>2, <3>3
      <4> QED
        BY <2>1, <4>1, <4>2, MarkWrite
    <3>6. ASSUME NEW i \in Ids(nodes), nodes[i].data >= 0, NEW k \in 1 .. nodes[i].size
          PROVE  arena'[nodes[i].data + k - 1] = arena[nodes[i].data + k - 1]
      <4>1. PICK d \in Int, z \in Nat : d = nodes[i].data /\ z = nodes[i].size /\ d >= 0 /\ d + z <= data_off
        <5>1. nodes[i].data \in Int /\ nodes[i].size \in Nat
          BY <3>4, NodeTypes
        <5>2. nodes[i].data + nodes[i].size <= data_off
          BY <3>4, <3>6 DEF Stored
        <5> QED
          BY <3>6, <5>1, <5>2
      <4>2. d + k - 1 < b /\ d + k - 1 \in 0 .. ArenaSize - 1
        BY <3>2, <3>3, <4>1
      <4>3. d + k - 1 \notin Block .. Block + n - 1 /\ d + k - 1 \in DOMAIN arena
        BY <3>2, <3>3, <3>4, <4>2
      <4> QED
        BY <3>1, <4>1, <4>3
    <3>7. /\ TreeOf(nodes, arena)' = Tree!With(p, ValueOf(arena', nodes'[s.cur]))
          /\ nodes'[s.cur].type = V_FILE /\ nodes'[s.cur].data = b /\ nodes'[s.cur].size = n
      <4>1. Untouched(nodes, arena, arena')
        BY <3>6 DEF Untouched
      <4>2. PICK dt, sz : dt = b /\ sz = n
        OBVIOUS
      <4>3. Marked(s.t, nodes', s.cur, V_FILE, dt, sz)
        BY <3>5, <4>2
      <4>4. Outcome(nodes, nodes', arena, arena', s.cur, p)
        BY <1>1, <1>2, <2>1, <4>1, <4>3, MarkedStep
      <4>5. nodes'[s.cur].type = V_FILE /\ nodes'[s.cur].data = b /\ nodes'[s.cur].size = n
        BY <2>1, <3>5 DEF Marked
      <4> QED
        BY <4>4, <4>5 DEF Outcome, Put, Tree!With, Tree!Way, Tree!Dir
    <3>8. PICK v : v = Bytes(writes + 1, n)
      OBVIOUS
    <3>9. ContentOf(arena', nodes'[s.cur]) = v
      <4>1. ASSUME NEW k \in 1 .. n PROVE arena'[b + k - 1] = v[k]
        <5>1. b + k - 1 \in 0 .. ArenaSize - 1 /\ b + k - 1 \in b .. b + n - 1 /\ (b + k - 1) - b + 1 = k
          BY <3>2, <3>3
        <5> QED
          BY <3>1, <3>3, <3>4, <3>8, <5>1
      <4>2. ContentOf(arena', nodes'[s.cur]) = [k \in 1 .. n |-> arena'[b + k - 1]]
        <5>1. ~(b < 0)
          OBVIOUS
        <5> QED
          BY <3>7, <5>1 DEF ContentOf
      <4>3. v = [k \in 1 .. n |-> v[k]]
        BY <3>8 DEF Bytes
      <4> QED
        BY <4>1, <4>2, <4>3
    <3>10. ValueOf(arena', nodes'[s.cur]) = {v}
      BY <3>7, <3>9 DEF ValueOf, V_DIR, V_FILE
    <3>11. Tree!Store(p, v)
      BY <3>7, <3>10 DEF Tree!Store
    <3>12. call'.end = "done" /\ call'.op = "write" /\ call'.content = v
      BY <1>3, <1>5, <2>3, <3>8 DEF EndOf
    <3>13. Tree!Done
      BY <1>3, <3>11, <3>12 DEF Tree!Done
    <3> QED
      BY <1>3, <3>13, CallNext
  <2> QED
    BY <2>2, <2>3
<1> QED
  BY <1>4, <1>5

LEMMA ChdirRefines ==
  ASSUME NEW d \in DirPath, vfs_chdir(d)
  PROVE  UNCHANGED Tree!tvars
<1>1. UNCHANGED <<nodes, arena, call>>
  BY DEF vfs_chdir, Stop
<1> QED
  BY <1>1 DEF Tree!tvars

\* While every name finds room, what vfs_read sees is what the calls were asked
\* to store: a call that returns 0 puts the directory or the content it was
\* given at the path its components name, makes the directories on the way, and
\* changes nothing else; a failed write leaves at most an empty file there; a
\* change of directory changes nothing; and the machine stops only when the
\* table has fewer nodes than the tree would have paths.
THEOREM RamdiskIsFileTree == EnoughNames => (Spec => ImplementsFileTree)
<1> SUFFICES ASSUME EnoughNames PROVE Spec => ImplementsFileTree
  OBVIOUS
<1>1. Init => Inv
  BY InitInv
<1>2. Inv /\ [Next]_vars => Inv'
  BY NextInv
<1>3. Init => Tree!Init
  BY InitRefines
<1>4. Inv /\ [Next]_vars => [Tree!Next]_Tree!tvars
  <2> SUFFICES ASSUME Inv, [Next]_vars PROVE [Tree!Next]_Tree!tvars
    OBVIOUS
  <2>1. CASE MountEntry
    BY <2>1, MountRefines
  <2>2. CASE \E w \in WritePath, n \in 0 .. MaxSize : vfs_write_at(w, n)
    BY <2>2, WriteRefines
  <2>3. CASE \E d \in DirPath : vfs_chdir(d)
    BY <2>3, ChdirRefines
  <2>4. CASE UNCHANGED vars
    BY <2>4 DEF vars, Tree!tvars
  <2> QED
    BY <2>1, <2>2, <2>3, <2>4 DEF Next
<1> QED
  BY <1>1, <1>2, <1>3, <1>4, PTL DEF Spec, ImplementsFileTree, Tree!Spec
=============================================================================
