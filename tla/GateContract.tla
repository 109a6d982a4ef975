---------------------------- MODULE GateContract ----------------------------
(***************************************************************************)
(* What the gate promises to whoever stands in front of it, without pins,  *)
(* goroutines or notifications: a closed gate is admitted through for at   *)
(* most Duration seconds, or locked open until it is shut; a gate that is  *)
(* open is never lowered from locked open to open, an opening is never     *)
(* prolonged, and when its time is over the gate is shut.                  *)
(*                                                                         *)
(* It does not promise the full Duration: GateController may shut earlier. *)
(***************************************************************************)
EXTENDS Naturals

CONSTANT Duration   \* seconds an opening lasts, a natural number

VARIABLES
  gate,       \* "Closed", "Open" or "LockedOpen"
  remaining   \* seconds left of the present opening; 0 when not Open

contractVars == <<gate, remaining>>

Init == gate = "Closed" /\ remaining = 0

Admit == gate = "Closed" /\ gate' = "Open" /\ remaining' = Duration

Lock == gate \in {"Closed", "Open"} /\ gate' = "LockedOpen" /\ remaining' = 0

Shut == gate \in {"Open", "LockedOpen"} /\ gate' = "Closed" /\ remaining' = 0

Elapse == remaining > 0 /\ remaining' = remaining - 1 /\ UNCHANGED gate

\* The time of the opening is over.
Expire == gate = "Open" /\ remaining = 0 /\ Shut

Next == Admit \/ Lock \/ Shut \/ Elapse

SafeSpec == Init /\ [][Next]_contractVars

Spec == SafeSpec /\ WF_contractVars(Elapse) /\ WF_contractVars(Expire)

=============================================================================
