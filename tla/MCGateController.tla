-------------------------- MODULE MCGateController --------------------------
(* The gate with three auto-close goroutines at a time, openings of two     *)
(* seconds and one publication in flight per status: three overlapping      *)
(* sleepers are enough for a sleeper of the last but one opening to wake in *)
(* the present one.                                                         *)
EXTENDS GateController

MCGoroutines == {"g1", "g2", "g3"}
=============================================================================
