----------------------------- MODULE MCKeyboard -----------------------------
(* One letter, one symbol, both shift keys, Caps Lock and an extended key, *)
(* and a ring of three slots instead of 64, which holds two characters.    *)
EXTENDS Keyboard

MCChar == (Letters \cup Symbols) \X BOOLEAN
=============================================================================
