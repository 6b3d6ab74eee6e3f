----------------------------- MODULE MCRamdisk ------------------------------
(* An image with a directory and a file in it, and one whose directories   *)
(* have no entries of their own, and one too large for the table of six    *)
(* nodes; an arena with room for two or three contents.                    *)
EXTENDS Ramdisk, TLC

CONSTANTS bin, x, y

MCName    == {bin, x, y, Dot, Up}
MCNameLen == (bin :> 3) @@ (x :> 1) @@ (y :> 1) @@ (Dot :> 1) @@ (Up :> 2)

Entry(p, d, n) == [path |-> p, dir |-> d, size |-> n]
MCImage == {<<Entry(<<bin>>, TRUE, 0), Entry(<<bin, x>>, FALSE, 2)>>,
            <<Entry(<<bin, x>>, FALSE, 1), Entry(<<y>>, FALSE, 0)>>,
            [i \in 1 .. 4 |-> Entry(<<<<bin, x>>, <<bin, y>>, <<y, x>>, <<x>>>>[i], FALSE, 1)]}

MCWritePath == [abs : BOOLEAN, path : {<<x>>, <<bin>>, <<bin, Dot, y>>, <<Up, Dot>>}, slash : {FALSE}]
                 \cup {[abs |-> TRUE, path |-> <<bin, y>>, slash |-> TRUE]}
MCDirPath   == [abs : {FALSE}, path : {<<bin>>, <<Up>>, <<Dot, Up, bin>>, <<x>>}]
                 \cup [abs : {TRUE}, path : {<<bin>>, <<Dot, Up>>}]
=============================================================================
