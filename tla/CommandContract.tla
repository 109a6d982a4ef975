-------------------------- MODULE CommandContract ---------------------------
(***************************************************************************)
(* What the way from the broker to the gate promises to whoever sends      *)
(* commands, without links, sessions, acknowledgements and callbacks:      *)
(* every command is performed at least once, unless it is lost before it   *)
(* is owed or together with all that is owed, and it is owed until it has  *)
(* been performed.                                                         *)
(*                                                                         *)
(* Commands are brought in passes.  A pass takes what is due in the order  *)
(* of sending.  A new pass may start at any time, and makes all that is    *)
(* owed due again, so that commands that were performed but not confirmed  *)
(* are performed once more, each with the newer ones after it.             *)
(***************************************************************************)
EXTENDS Naturals

VARIABLES
  count,    \* commands sent so far; a command is its number
  owed,     \* those that are still to be performed, or to be confirmed
  due,      \* those of them that the present pass has still to bring
  lost,     \* those that are owed no more, and were not confirmed
  acted,    \* those that were performed
  missed,   \* those that were brought and not performed
  last      \* the one that was performed last, 0 at first

deliveryVars == <<count, owed, due, lost, acted, missed, last>>

Init ==
  /\ count = 0 /\ last = 0
  /\ owed = {} /\ due = {} /\ lost = {} /\ acted = {} /\ missed = {}

\* A command is sent, and is owed, or is lost since nobody keeps it.
Order ==
  /\ count' = count + 1
  /\ \/ owed' = owed \cup {count'} /\ due' = due \cup {count'} /\ UNCHANGED lost
     \/ lost' = lost \cup {count'} /\ UNCHANGED <<owed, due>>
  /\ UNCHANGED <<acted, missed, last>>

\* The pass brings its next command.  One that comes late, from the pass
\* before or when it has been lost, does not count.
Bring(m) ==
  \/ m \in due /\ (\A k \in due: m <= k) /\ due' = due \ {m}
  \/ m \in due \cup lost /\ UNCHANGED due

Perform(m) ==
  /\ Bring(m)
  /\ acted' = acted \cup {m}
  /\ last' = m
  /\ UNCHANGED <<count, owed, lost, missed>>

Miss(m) ==
  /\ Bring(m)
  /\ missed' = missed \cup {m}
  /\ UNCHANGED <<count, owed, lost, acted, last>>

\* Commands are confirmed in order, but for those that were missed.
Confirm(m) ==
  /\ m \in (owed \cap acted) \ due
  /\ \A k \in owed: k < m => k \in missed
  /\ owed' = owed \ {m}
  /\ UNCHANGED <<count, due, lost, acted, missed, last>>

NewPass == due' = owed /\ UNCHANGED <<count, owed, lost, acted, missed, last>>

Forget ==
  /\ lost' = lost \cup owed
  /\ owed' = {} /\ due' = {}
  /\ UNCHANGED <<count, acted, missed, last>>

Next ==
  \/ Order \/ NewPass \/ Forget
  \/ \E m \in 1..count: Perform(m) \/ Miss(m) \/ Confirm(m)

Spec == Init /\ [][Next]_deliveryVars

-----------------------------------------------------------------------------
(* What follows from the contract.                                         *)

Disturbed == lost \cup missed

\* No command is forgotten that was neither performed nor lost, and when a pass
\* is over, the newest of those performed has the last word.
PassSettles ==
  /\ 1..count \subseteq owed \cup acted \cup lost
  /\ due = {} => last \in Disturbed \cup {0} \/ \A m \in acted \ Disturbed: m <= last

=============================================================================
