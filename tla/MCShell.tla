------------------------------ MODULE MCShell ------------------------------
(***************************************************************************)
(* An instance of Shell: names of two characters and one, "disk" and "bin" *)
(* of one; four bytes to a table entry are two entries to a FAT sector.    *)
(***************************************************************************)
EXTENDS Shell

MCDiskName  == <<"k">>
MCBinName   == <<"B">>
MCRamBin    == <<"b">>
MCElfExt    == <<".", "E">>
MCLowerCase == "b" :> "B" @@ "d" :> "D" @@ "e" :> "E" @@ "x" :> "X" @@ "k" :> "K"

Fat(s)   == [type |-> 12, start |-> s, size |-> 20]
MCTables == { <<NoPart, NoPart, NoPart, Fat(5)>>, <<Fat(5), NoPart, Fat(9), NoPart>>,
              <<NoPart, NoPart, NoPart, NoPart>> }

\* Two that a formatter writes, one of them with an odd sector at its end; one
\* too small for FAT32; and ones no formatter writes: FATs larger than the
\* volume, other sector sizes, no FAT, no cluster size, no FAT size.
MCBootSectors ==
  LET b == [byps |-> 8, spc |-> 1, rsvd |-> 1, nfats |-> 2, fatsz16 |-> 0, fatsz32 |-> 4,
            totsec16 |-> 0, totsec32 |-> 15, root |-> 2]
      c == [b EXCEPT !.spc = 2, !.nfats = 1, !.rsvd = 2, !.fatsz16 = 4, !.fatsz32 = 0,
                     !.totsec16 = 17, !.totsec32 = 0, !.root = 0]
  IN  {b, c, [c EXCEPT !.totsec16 = 15], [b EXCEPT !.totsec32 = 5], [b EXCEPT !.byps = 16],
       [b EXCEPT !.byps = 3], [b EXCEPT !.nfats = 0], [b EXCEPT !.spc = 0], [b EXCEPT !.fatsz32 = 0]}

\* The root, /B, /D, /D/D, a directory whose field is full, and one with a blank
\* in its field, which the walk that cuts `Dotted' takes for /D.
MCDirs      == {<<>>, <<up11(<<"b">>)>>, <<up11(<<"d">>)>>, <<up11(<<"d">>), up11(<<"d">>)>>,
                <<up11(<<"d", "x", "e">>)>>, <<up11(<<"d", ".", "x">>)>>}
MCDiskFiles == {<<<<>>, up11(<<"x">>)>>, <<<<up11(<<"d">>)>>, up11(<<"x">>)>>,
                <<<<up11(<<"b">>)>>, up11(<<"b">>)>>, <<<<up11(<<"b">>)>>, up11(<<"x">>)>>}
MCRamFiles  == {<<<<"b">>, <<"b">>>>, <<<<"b">>, <<"e">>>>, <<<<"x">>>>}

Names == {<<"k">>, <<"d">>, <<"b">>, <<"x">>, <<"x", ".", "e">>, <<".">>, <<".", ".">>}
Two   == {a \o <<Slash>> \o c : a \in {<<"k">>, <<"d">>, <<".">>, <<".", ".">>},
                                c \in {<<"d">>, <<"x">>, <<".", ".">>}}
Long  == <<"d", "x", "e", "e", "e", "e", "e", "e", "e", "e", "e", "e", "e", "e", "e">>
Dotted == <<"d", ".", ".", ".", "x">>
Abs(S) == {<<Slash>> \o s : s \in S}
MCArgs ==
  Names \cup Two \cup Abs(Names) \cup Abs(Two)
  \cup {<<Slash, "k", Slash, "d", Slash>> \o s : s \in {<<"d">>, <<"x">>, <<".", ".">>}}
  \cup {<<>>, <<Slash>>, <<"e">>, <<"k", "d">>, <<Slash, "k", "d">>, <<Slash, "k", Slash>>,
        <<"d", ".">>, <<"d", ".", Slash, "x">>, <<Slash, ".", Slash, Slash, "d">>,
        <<"d", Slash, Slash, "x">>, <<"x", "d", "d">>, Dotted, Dotted \o <<Slash, "x">>, Long, <<Slash, "k", Slash>> \o Long}
MCRests == {<<>>, <<"x">>, <<".", ".">>, <<"x", Slash, "d">>}

MCSavePaths ==
  {<<"x">>, <<Slash, "k", Slash, "x">>, <<"x", ".", "e">>, <<Slash, "b", Slash, "x", ".", "e">>}
=============================================================================
