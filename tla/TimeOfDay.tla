----------------------------- MODULE TimeOfDay ------------------------------
(***************************************************************************)
(* The access window of isTimeOfDayInRange (pigate/pkg/gate/gate.go).  A    *)
(* time of day is the number of seconds since midnight; date and fraction  *)
(* of a second are dropped before anything is compared.                    *)
(***************************************************************************)
EXTENDS Integers

CONSTANT DayLength   \* seconds in a day
ASSUME DayAssumption == DayLength \in Nat \ {0}

TimesOfDay == 0 .. DayLength - 1

\* Mutant of InRange: an overnight window is treated like any other.
InRangeSameDay(c, s, e) == s <= c /\ c <= e

\* Is c within the window from s to e?  The end belongs to a window within one
\* day, and not to an overnight window.
InRange(c, s, e) ==
  \/ s <= e /\ s <= c /\ c <= e
  \/ s > e /\ (c >= s \/ c < e)

-----------------------------------------------------------------------------
(* What a window is meant to be: an arc of the day.                         *)

\* Seconds from time of day s until the next time of day c.
Elapsed(s, c) == IF c >= s THEN c - s ELSE c - s + DayLength

\* What counts is how long ago the window began, whether or not midnight lies
\* in it.  The end is inside unless the window is overnight.
InArc(c, s, e) ==
  \/ s <= e /\ Elapsed(s, c) <= Elapsed(s, e)
  \/ s > e /\ Elapsed(s, c) < Elapsed(s, e)

=============================================================================
