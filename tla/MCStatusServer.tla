--------------------------- MODULE MCStatusServer ---------------------------
(* One status and one command are enough, as entries are told apart by their *)
(* times; the command is the one whose name changes on its way.            *)
EXTENDS StatusServer, TLC

MCCommands == {"lock_open"}
MCSymmetry == Permutations(Requests)
=============================================================================
