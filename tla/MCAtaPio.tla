----------------------------- MODULE MCAtaPio ------------------------------
(* Commands of up to two sectors, so that a call of three needs two commands. *)
EXTENDS AtaPio
=============================================================================
