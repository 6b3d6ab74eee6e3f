----------------------------- MODULE LineEditor -----------------------------
(***************************************************************************)
(* The shell's line, kmain's loop (kernel.c): keys go into a buffer and    *)
(* are echoed on the console, a line's output follows it, and a prompt     *)
(* comes after that.  One character is put on the console per step.        *)
(***************************************************************************)
EXTENDS Console

CONSTANTS
  Key,             \* characters the keyboard gives: printable ones, NL, BS
  BufSize,         \* sizeof buf
  Banner, Prompt,  \* what kmain writes first, and "> "
  Output           \* what a command and the program it runs may write

ASSUME LineEditorConstantsOK ==
  /\ Key \subseteq Plain \cup {NL, BS}
  /\ BufSize \in Nat \ {0}
  /\ {Banner} \cup Output \subseteq Seq(Plain \cup {NL, CR, BS}) /\ Prompt \in Seq(Plain)
  /\ Banner = <<>> \/ Banner[Len(Banner)] = NL

VARIABLES
  buf,             \* the characters of buf below n
  todo,            \* what is still to be put on the console
  wrapped          \* history: the text has wrapped since the last new line

lvars == <<buf, todo, wrapped>>
vars  == <<fbvars, lvars>>

Emit ==
  /\ todo # <<>>
  /\ fb_putc(Head(todo))
  /\ todo' = Tail(todo)
  /\ wrapped' = (Head(todo) # NL /\ (wrapped \/ (Head(todo) \in Plain /\ cur_x' = 0)))
  /\ UNCHANGED buf

Waiting(ch) == todo = <<>> /\ ch \in Key /\ UNCHANGED <<fbvars, wrapped>>

\* Mutant: the erased character stays in the buffer.
Backspace_KeepsChar(ch) ==
  /\ Waiting(ch) /\ ch = BS
  /\ IF buf = <<>> THEN UNCHANGED <<buf, todo>> ELSE todo' = <<BS>> /\ UNCHANGED buf

Backspace(ch) ==
  /\ Waiting(ch) /\ ch = BS
  /\ IF buf = <<>> THEN UNCHANGED <<buf, todo>>
     ELSE buf' = SubSeq(buf, 1, Len(buf) - 1) /\ todo' = <<BS>>

\* handle_line
Enter(ch) ==
  /\ Waiting(ch) /\ ch = NL
  /\ buf' = <<>>
  /\ \E out \in Output : todo' = <<NL>> \o out \o <<NL>> \o Prompt

\* Mutant: the buffer's last byte is not kept for the terminating 0.
Insert_NoRoomForZero(ch) ==
  /\ Waiting(ch) /\ ch \in Plain /\ Len(buf) < BufSize
  /\ buf' = Append(buf, ch) /\ todo' = <<ch>>

Insert(ch) ==
  /\ Waiting(ch) /\ ch \in Plain /\ Len(buf) < BufSize - 1
  /\ buf' = Append(buf, ch) /\ todo' = <<ch>>

Init ==
  /\ ConsoleInit
  /\ buf = <<>> /\ todo = Banner \o Prompt /\ wrapped = FALSE

Next == Emit \/ \E ch \in Key : Backspace(ch) \/ Enter(ch) \/ Insert(ch)

Spec == Init /\ [][Next]_vars

-----------------------------------------------------------------------------
(* Properties. *)

\* buf holds no more than its bytes less the terminating 0.
TypeOK ==
  /\ fb \in [Y -> [X -> {Dark} \cup {Lit(g, x, y) : g \in Glyph, x \in 1 .. GlyphW, y \in 1 .. GlyphH}]]
  /\ cur_x \in Nat /\ cur_y \in Nat
  /\ buf \in Seq(Plain) /\ Len(buf) < BufSize
  /\ todo \in Seq(Plain \cup {NL, CR, BS}) /\ wrapped \in BOOLEAN

\* While a line fits its row, the row shows the prompt and exactly the
\* characters Enter would hand to the shell, whatever was typed, erased or
\* refused, and whatever the last command left on the screen.
LineShown ==
  todo = <<>> /\ ~wrapped =>
    LET text == Prompt \o buf IN
    /\ cur_x = Len(text)
    /\ \A c \in 0 .. Columns - 1 :
         Shown(cur_y, c) = IF c < Len(text) THEN glyph_for(text[c + 1]) ELSE Space
=============================================================================
