------------------------------- MODULE Paths -------------------------------
(***************************************************************************)
(* path_resolve and disk_subpath (src/FS/paths.c), force_disk_abs          *)
(* (src/Console/commands.c) and the forms of an 8.3 name, on sequences of  *)
(* characters.                                                             *)
(***************************************************************************)
EXTENDS Integers, Sequences, SequencesExt

CONSTANTS
  Cap,               \* 256, the size of the path buffers
  SegCap,            \* 16, the size of the buffer of seg11
  DiskName,          \* "disk"
  BaseLen, ExtLen,   \* 8 and 3
  LowerCase          \* function from lower-case letters to upper-case ones

Slash == "/"
Nul   == ""

\* The name of the disk is one component, without a dot at its end, and fits a
\* buffer with room to spare; letters are no slashes.
ASSUME PathConstants ==
  /\ DiskName \in Seq(STRING) /\ DiskName # <<>> /\ Last(DiskName) # "."
  /\ \A k \in DOMAIN DiskName : DiskName[k] \notin {Slash, Nul}
  /\ Cap \in Nat /\ Len(DiskName) + 1 < Cap
  /\ BaseLen \in Nat \ {0} /\ ExtLen \in Nat
  /\ SegCap \in Nat /\ BaseLen + ExtLen + 1 < SegCap   \* room for an 8.3 name
  /\ \A c \in DOMAIN LowerCase : c # Slash /\ LowerCase[c] # Slash /\ LowerCase[c] \in STRING

\* Mutant: the terminator's byte is forgotten.
Cut_OffByOne(s, n) == SubSeq(s, 1, IF Len(s) < n THEN Len(s) ELSE n)

\* A buffer of n bytes holds the first n-1 characters.
Cut(s, n) == SubSeq(s, 1, IF Len(s) < n THEN Len(s) ELSE n - 1)

\* The text that path_resolve then reduces in place.
Joined(cwd, in) ==
  IF in # <<>> /\ in[1] = Slash THEN Cut(<<Slash>> \o in, Cap)
  ELSE LET base == IF cwd = <<>> THEN <<Slash>> ELSE Cut(cwd, Cap)
           dir  == IF base[Len(base)] = Slash THEN base ELSE Append(base, Slash)
       IN  Cut(dir \o in, Cap)

\* Mutant: only one character is taken off.
Pop_One(out) == IF Len(out) <= 1 THEN out ELSE Front(out)

\* Takes the last component off what is written so far.
Pop(out) ==
  LET ends == {k \in 1 .. Len(out) - 1 : out[k] = Slash}
  IN  IF Len(out) <= 1 THEN out
      ELSE SubSeq(out, 1, CHOOSE k \in ends \cup {0} : \A j \in ends : j <= k)

\* One round of the loop: r reads, out is what lies below w.
At(in, i)  == IF i \in 1 .. Len(in) THEN in[i] ELSE Nul
Ends(in, i) == At(in, i) \in {Nul, Slash}
Past(in, i) == IF At(in, i) = Slash THEN i + 1 ELSE i
Round(in, st) ==
  LET r == IF At(in, st.r) = Slash
           THEN CHOOSE k \in st.r .. Len(in) : /\ \A j \in st.r .. k : in[j] = Slash
                                               /\ At(in, k + 1) # Slash
           ELSE st.r
  IN  CASE At(in, r) = Nul -> st
        [] At(in, r) = "." /\ Ends(in, r + 1) -> [r |-> Past(in, r + 1), out |-> st.out]
        [] At(in, r) = "." /\ At(in, r + 1) = "." /\ Ends(in, r + 2) ->
             [r |-> Past(in, r + 2), out |-> Pop(st.out)]
        [] OTHER -> [r |-> r + 1, out |-> Append(st.out, in[r])]

Reduced(in) ==
  LET st[n \in 0 .. Len(in)] ==
        IF n = 0 THEN [r |-> 1, out |-> <<>>] ELSE Round(in, st[n - 1])
  IN  st[Len(in)].out

path_resolve(cwd, in) ==
  LET out == Reduced(Joined(cwd, in))
  IN  IF Len(out) > 1 /\ out[Len(out)] = Slash THEN Front(out) ELSE out

DiskPrefix == <<Slash>> \o DiskName

\* disk_subpath: {} for a null pointer.
disk_subpath(abs) ==
  LET rest == SubSeq(abs, Len(DiskPrefix) + 1, Len(abs))
  IN  IF ~IsPrefix(DiskPrefix, abs) THEN {}
      ELSE CASE rest = <<>> -> {<<Slash>>}
             [] rest # <<>> /\ rest[1] = Slash -> {Tail(rest)}
             [] OTHER -> {}

force_disk_abs(abs) ==
  IF IsPrefix(DiskPrefix, abs) THEN abs
  ELSE Cut(DiskPrefix \o (IF abs[1] = Slash THEN <<>> ELSE <<Slash>>) \o abs, Cap)

\* The parts between slashes, empty ones left out: next_seg and its likes.
\* seen[n]: the parts that n characters close, and the one they leave open.
Parts(s) ==
  LET Step(acc, c) == IF c # Slash THEN [acc EXCEPT !.part = Append(@, c)]
                      ELSE IF acc.part = <<>> THEN acc
                      ELSE [all |-> Append(acc.all, acc.part), part |-> <<>>]
      line == Append(s, Slash)
      seen[n \in 0 .. Len(s) + 1] ==
        IF n = 0 THEN [all |-> <<>>, part |-> <<>>] ELSE Step(seen[n - 1], line[n])
  IN  seen[Len(s) + 1].all

-----------------------------------------------------------------------------
(* 8.3 names: the field of a directory entry, blank-filled. *)

Upper(c) == IF c \in DOMAIN LowerCase THEN LowerCase[c] ELSE c
Field(base, ext) ==
  [i \in 1 .. BaseLen + ExtLen |->
     IF i <= Len(base) THEN base[i]
     ELSE IF i > BaseLen /\ i - BaseLen <= Len(ext) THEN ext[i - BaseLen] ELSE " "]

\* up11_from_seg, and the loop of up11: a dot moves on to the extension, again
\* and again.
up11(name) ==
  LET Step(acc, c) == IF acc.j >= BaseLen + ExtLen THEN acc
                      ELSE IF c = "." THEN [acc EXCEPT !.j = BaseLen]
                      ELSE [f |-> [acc.f EXCEPT ![acc.j + 1] = Upper(c)], j |-> acc.j + 1]
      put[n \in 0 .. Len(name)] ==
        IF n = 0 THEN [f |-> Field(<<>>, <<>>), j |-> 0] ELSE Step(put[n - 1], name[n])
  IN  put[Len(name)].f

\* What seg11 gives up11 of a component, and the names it gives it whole, or
\* cut behind the field's last character.
Kept(name)  == Cut(name, SegCap)
Uncut(name) == up11(Kept(name)) = up11(name)

\* split83_up and entry_matches_name83: what is too long is cut off.
name83(name) ==
  LET Step(acc, c) == IF c = "." THEN [acc EXCEPT !.dot = TRUE]
                      ELSE IF ~acc.dot THEN [acc EXCEPT !.base = Append(@, Upper(c))]
                      ELSE [acc EXCEPT !.ext = Append(@, Upper(c))]
      split[n \in 0 .. Len(name)] ==
        IF n = 0 THEN [base |-> <<>>, ext |-> <<>>, dot |-> FALSE] ELSE Step(split[n - 1], name[n])
      r == split[Len(name)]
  IN  Field(Cut(r.base, BaseLen + 1), Cut(r.ext, ExtLen + 1))

-----------------------------------------------------------------------------
(* What a path means: components on a stack. *)

Follow(from, comps) ==
  LET Step(at, c) == CASE c = <<".">> -> at
                       [] c = <<".", ".">> -> IF at = <<>> THEN at ELSE Front(at)
                       [] OTHER -> Append(at, c)
      at[n \in 0 .. Len(comps)] == IF n = 0 THEN from ELSE Step(at[n - 1], comps[n])
  IN  at[Len(comps)]

Meaning(cwd, in) ==
  Follow(IF in # <<>> /\ in[1] = Slash THEN <<>> ELSE Parts(cwd), Parts(in))

\* Paths without doubled slashes, whose components end in a dot only if they
\* are "." or "..".
Plain(in) ==
  /\ \A k \in 1 .. Len(in) - 1 : ~(in[k] = Slash /\ in[k + 1] = Slash)
  /\ \A k \in 1 .. Len(in) : in[k] = "." /\ Ends(in, k + 1) =>
       Ends(in, k - 1) \/ (At(in, k - 1) = "." /\ Ends(in, k - 2))

Fits(cwd, in) == Len(cwd) + Len(in) + Len(DiskPrefix) + 2 < Cap
=============================================================================
