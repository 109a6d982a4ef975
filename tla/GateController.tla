--------------------------- MODULE GateController ---------------------------
(***************************************************************************)
(* The gate state machine of pigate/pkg/gate/gate.go.                      *)
(*                                                                         *)
(* A GateController keeps the state of the gate, drives the relay and the  *)
(* LED, and starts two kinds of goroutines: one that sleeps for the        *)
(* configured duration and then closes a gate that is still open, and one  *)
(* per change of state that publishes the new status.  Every read and      *)
(* write of the state is made under g.mu, so a call is one atomic step;    *)
(* what interleaves is calls, sleepers and publishers.                     *)
(*                                                                         *)
(* Time is counted in seconds by Tick.  A sleeper is represented by the    *)
(* seconds it still has to sleep, so that the state space is finite.       *)
(***************************************************************************)
EXTENDS Integers

CONSTANTS
  GateOpenDuration,  \* config GATE_OPEN_DURATION, in seconds
  Goroutines,        \* identities of the auto-close goroutines; the model's
                     \* bound on how many sleep at the same time
  MaxNotices         \* bound: publishers counted for one status

ASSUME DurationAssumption == GateOpenDuration \in Int
ASSUME NoticesAssumption == MaxNotices \in Nat \ {0}

VARIABLES
  state,     \* g.state
  relay,     \* level of the relay pin (g.pin)
  led,       \* level of the LED pin (g.ledPin)
  asleep,    \* auto-close goroutines that have not finished
  left,      \* left[g]: seconds goroutine g still has to sleep
  openFor,   \* seconds since the gate became Open, at most SleepTime;
             \* 0 when it is not Open (history, read by properties only)
  notifier,  \* TRUE once SetStatusNotifier was called
  notices    \* notices[s]: goroutines that have still to publish status s;
             \* MaxNotices stands for that many or more

timerVars == <<asleep, left, openFor>>
noticeVars == <<notifier, notices>>
vars == <<state, relay, led, timerVars, noticeVars>>

States == {"Closed", "Open", "LockedOpen"}
Statuses == {"closed", "opened", "locked_open"}
Commands == {"open", "close", "hold_open"}

\* What the status topic calls a state of the gate.
StatusOf == [Closed |-> "closed", Open |-> "opened", LockedOpen |-> "locked_open"]

\* time.Sleep returns at once for a negative duration.
SleepTime == IF GateOpenDuration > 0 THEN GateOpenDuration ELSE 0

TypeOK ==
  /\ state \in States
  /\ relay \in {"High", "Low"}
  /\ led \in {"High", "Low"}
  /\ asleep \in SUBSET Goroutines
  /\ left \in [Goroutines -> 0..SleepTime]
  /\ openFor \in 0..SleepTime
  /\ notifier \in BOOLEAN
  /\ notices \in [Statuses -> 0..MaxNotices]

Init ==
  /\ state = "Closed"
  /\ relay = "Low"
  /\ led = "Low"
  /\ asleep = {}
  /\ left = [g \in Goroutines |-> 0]
  /\ openFor = 0
  /\ notifier = FALSE
  /\ notices = [s \in Statuses |-> 0]

-----------------------------------------------------------------------------
(* The operations of the gate.                                             *)

\* Start the goroutine that publishes s; without a notifier nothing starts.
Notify(s) ==
  /\ notices' = [notices EXCEPT ![s] = IF notifier /\ @ < MaxNotices THEN @ + 1 ELSE @]
  /\ UNCHANGED notifier

DrivePins(level) ==
  /\ relay' = level
  /\ led' = level

\* Mutant of Shut: nobody is told.
ShutSilently ==
  /\ DrivePins("Low")
  /\ state' = "Closed"
  /\ openFor' = 0
  /\ UNCHANGED noticeVars

\* closeLockedOrOpen, and the body of Close: shut the gate and announce it.
Shut ==
  /\ DrivePins("Low")
  /\ state' = "Closed"
  /\ openFor' = 0
  /\ Notify("closed")

\* Mutant of StartSleeper: a goroutine that is still asleep will do.
StartSleeperOnce ==
  \E g \in Goroutines \ asleep:
    /\ asleep' = IF asleep = {} THEN {g} ELSE asleep
    /\ left' = IF asleep = {} THEN [left EXCEPT ![g] = SleepTime] ELSE left

StartSleeper ==
  \E g \in Goroutines \ asleep:
    /\ asleep' = asleep \cup {g}
    /\ left' = [left EXCEPT ![g] = SleepTime]

\* Mutant of TempOpen: only a locked-open gate is left alone, so that a second
\* code prolongs the opening.
TempOpenAgain ==
  \/ /\ state # "LockedOpen"
     /\ state' = "Open"
     /\ DrivePins("High")
     /\ openFor' = 0
     /\ Notify("opened")
     /\ StartSleeper
  \/ state = "LockedOpen" /\ UNCHANGED vars

\* A gate that is open in either way is left alone.
TempOpen ==
  \/ /\ state = "Closed"
     /\ state' = "Open"
     /\ DrivePins("High")
     /\ openFor' = 0
     /\ Notify("opened")
     /\ StartSleeper
  \/ /\ state \in {"Open", "LockedOpen"}
     /\ UNCHANGED vars

\* Mutant of LockOpen: a second lock code puts the gate back to Open.
LockOpenToggles ==
  /\ state' = IF state = "LockedOpen" THEN "Open" ELSE "LockedOpen"
  /\ DrivePins("High")
  /\ openFor' = 0
  /\ Notify(StatusOf[state'])
  /\ UNCHANGED <<asleep, left>>

LockOpen ==
  \/ /\ state # "LockedOpen"
     /\ state' = "LockedOpen"
     /\ DrivePins("High")
     /\ openFor' = 0
     /\ Notify("locked_open")
     /\ UNCHANGED <<asleep, left>>
  \/ /\ state = "LockedOpen"
     /\ UNCHANGED vars

\* Close does not stop a sleeper: it will wake and look at the state then.
Close ==
  \/ /\ state \in {"Open", "LockedOpen"}
     /\ Shut
     /\ UNCHANGED <<asleep, left>>
  \/ /\ state = "Closed"
     /\ UNCHANGED vars

\* Mutant of AutoClose: the state is not looked at again after the sleep.
AutoCloseUnchecked(g) ==
  /\ g \in asleep
  /\ left[g] = 0
  /\ asleep' = asleep \ {g}
  /\ UNCHANGED left
  /\ Shut

\* Mutant of AutoClose: the test after the sleep is inverted.
AutoCloseInverted(g) ==
  /\ g \in asleep
  /\ left[g] = 0
  /\ asleep' = asleep \ {g}
  /\ UNCHANGED left
  /\ \/ state = "LockedOpen" /\ Shut
     \/ state # "LockedOpen" /\ UNCHANGED <<state, relay, led, openFor, noticeVars>>

\* The goroutine of tempOpen after its sleep: it closes a gate that is Open,
\* whichever opening that is.
AutoClose(g) ==
  /\ g \in asleep
  /\ left[g] = 0
  /\ asleep' = asleep \ {g}
  /\ UNCHANGED left
  /\ \/ state = "Open" /\ Shut
     \/ state # "Open" /\ UNCHANGED <<state, relay, led, openFor, noticeVars>>

\* The callback of the command topic.
CommandHandler(msg) ==
  \/ msg = "open" /\ TempOpen
  \/ msg = "close" /\ Close
  \/ msg = "hold_open" /\ LockOpen
  \/ msg \notin Commands /\ UNCHANGED vars

\* Open(code, time), once the code was looked up: AccessControl models how the
\* verdict is reached.
Open(verdict) ==
  \/ verdict = "denied" /\ UNCHANGED vars
  \/ verdict = "lock_open" /\ LockOpen
  \/ verdict = "regular_open" /\ TempOpen

SetStatusNotifier ==
  /\ notifier' = TRUE
  /\ UNCHANGED <<state, relay, led, timerVars, notices>>

\* A publisher is done: it never holds g.mu, and nobody waits for it.
PublishEnds(s) ==
  /\ notices[s] > 0
  /\ notices' = [notices EXCEPT ![s] = @ - 1]
  /\ UNCHANGED <<state, relay, led, timerVars, notifier>>

\* Mutant of Tick: a sleeper that is late goes on counting.
TickPastZero ==
  /\ left' = [g \in Goroutines |-> IF g \in asleep THEN left[g] - 1 ELSE 0]
  /\ openFor' = IF state = "Open" /\ openFor < SleepTime THEN openFor + 1 ELSE openFor
  /\ UNCHANGED <<state, relay, led, asleep, noticeVars>>

\* A second passes.  A sleeper that is due may still be late.
Tick ==
  /\ left' = [g \in Goroutines |-> IF left[g] > 0 THEN left[g] - 1 ELSE 0]
  /\ openFor' = IF state = "Open" /\ openFor < SleepTime THEN openFor + 1 ELSE openFor
  /\ UNCHANGED <<state, relay, led, asleep, noticeVars>>

-----------------------------------------------------------------------------
Next ==
  \/ \E msg \in Commands \cup {"other"}: CommandHandler(msg)
  \/ \E verdict \in {"denied", "regular_open", "lock_open"}: Open(verdict)
  \/ \E g \in Goroutines: AutoClose(g)
  \/ SetStatusNotifier
  \/ \E s \in Statuses: PublishEnds(s)
  \/ Tick

\* Time passes, a goroutine that can run is run, and waitForToken bounds how
\* long a publisher lives.  Nobody has to press a key or send a command.
Fairness ==
  /\ WF_vars(Tick)
  /\ \A g \in Goroutines: WF_vars(AutoClose(g))
  /\ \A s \in Statuses: WF_vars(PublishEnds(s))

Spec == Init /\ [][Next]_vars /\ Fairness

-----------------------------------------------------------------------------
(* Properties.                                                             *)

\* Outside the critical sections of g.mu the relay and the LED show whether
\* the gate is shut, whichever of the three callers and of the sleepers moved
\* it last (tempOpen, lockOpen, Close and closeLockedOrOpen drive the pins
\* one by one).
PinsFollowState ==
  /\ (relay = "High") <=> (state # "Closed")
  /\ led = relay

\* An Open gate is never forgotten: the sleeper of this very opening is still
\* there, and due when the configured duration is over, although sleepers of
\* earlier openings may have ended and no sleeper is ever cancelled.
AutoClosePending ==
  state = "Open" => \E g \in asleep: left[g] = SleepTime - openFor

\* A step that ends LockedOpen is a Close: the gate is shut, by no sleeper.
ShutsLockedOpen ==
  state = "LockedOpen" /\ state' # "LockedOpen" => state' = "Closed" /\ asleep' = asleep

\* A gate that is locked open is left alone by tempOpen and by every sleeper,
\* also by the sleeper of the opening that lockOpen took over: only a Close
\* ends it, and it ends shut.
LockedOpenUntilClose == [][ShutsLockedOpen]_vars

\* The comment on tempOpen: "opens gate for configured duration".  A sleeper
\* that shuts the gate does so when the present opening has lasted that long.
StaysOpenForDuration ==
  [][state = "Open" /\ state' = "Closed" /\ asleep' # asleep
       => openFor = SleepTime]_vars

\* The goroutines and the stale sleepers add up to the contract of the gate.
Contract == INSTANCE GateContract WITH
              Duration  <- SleepTime,
              gate      <- state,
              remaining <- IF state = "Open" THEN SleepTime - openFor ELSE 0

\* Every behaviour of the gate is one that GateContract allows, and an opening
\* whose time is over is shut.
KeepsContract == Contract!Spec

=============================================================================
