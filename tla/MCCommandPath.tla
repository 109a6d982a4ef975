--------------------------- MODULE MCCommandPath ----------------------------
(* Three commands: one that has acted and may be repeated, a later one, and *)
(* one that waits behind both.                                              *)
EXTENDS CommandPath
=============================================================================
