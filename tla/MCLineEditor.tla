---------------------------- MODULE MCLineEditor ----------------------------
(* A screen of two rows of five cells, with a strip of one pixel left over *)
(* at the right and at the bottom; a buffer of four bytes.                 *)
EXTENDS LineEditor, TLC

CONSTANTS a, A, tilde, gt, sp, qm

MCLetters == {a}
MCUpcase  == a :> A
MCShapes  == {A, gt, sp, qm}
MCPlain   == {a, A, tilde, gt, sp, qm}
MCKey     == {a, tilde, NL, BS}
MCBanner  == <<A, NL>>
MCPrompt  == <<gt, sp>>

\* Nothing, a short answer, one that erases and returns the carriage, one
\* that ends at the last column, and one that wraps and scrolls.
MCOutput  == {<<>>, <<A, NL, CR>>, <<BS, A, BS, BS>>, <<A, A, A, A, A>>, <<A, A, A, A, A, A, NL>>}
=============================================================================
