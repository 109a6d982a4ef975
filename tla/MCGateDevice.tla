---------------------------- MODULE MCGateDevice ----------------------------
(* The device with three sleepers at a time and one waiting publisher       *)
(* counted per status: enough for a sleeper of the last but one opening to  *)
(* wake in the present one, for a status to overtake another, to be sent    *)
(* twice or after a newer one, and to be lost with the process.             *)
EXTENDS GateDevice

MCGoroutines == {"g1", "g2", "g3"}
=============================================================================
