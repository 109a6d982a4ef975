----------------------------- MODULE GateDevice -----------------------------
(***************************************************************************)
(* The gatecontroller process on the Pi (pigate/cmd/gatecontroller/main.go)*)
(* around the gate of GateController: how it boots, when the keypad and    *)
(* the command topic start to act on the gate, how it ends, and what the   *)
(* broker retains on the status topic meanwhile.                           *)
(*                                                                         *)
(* main starts the keypad before it connects to the broker, ends in        *)
(* log.Fatalf when it cannot connect, and is restarted by the host.  The   *)
(* pins outlive the process; the state, the sleepers and the messages the  *)
(* MQTT library keeps in memory do not.                                    *)
(*                                                                         *)
(* A publisher of GateController first gets to run and hands its message to*)
(* the MQTT library, which keeps it until the broker acknowledges it: the  *)
(* 10 s of waitForToken end the wait, not the message.  The client sets no *)
(* store, and the default one is a map: what is kept when the link is lost *)
(* is sent again in any order once there is a link.                        *)
(*                                                                         *)
(* SetStatusNotifier writes without g.mu; a method that does not see it    *)
(* yet acts before SetNotifier here, and one that sees half of it panics,  *)
(* which is a Crash.                                                       *)
(***************************************************************************)
EXTENDS GateController

CONSTANT KeypadDuringBoot   \* may a code be typed before main has booted?

ASSUME KeypadAssumption == KeypadDuringBoot \in BOOLEAN

VARIABLES
  pc,        \* how far main() has come
  outbox,    \* statuses of which the MQTT library keeps a message, one or more
  retained,  \* the message the broker retains on the status topic
  recent     \* statuses announced since nothing was last in flight (history,
             \* read by properties only)

deviceVars == <<vars, pc, outbox, retained, recent>>

\* "down": no process.  The others name what main() is about to do.
Stages == {"down", "connecting", "connected", "announcing", "serving"}

DeviceTypeOK ==
  /\ TypeOK
  /\ pc \in Stages
  /\ outbox \subseteq Statuses
  /\ retained \in Statuses \cup {"none"}
  /\ recent \subseteq Statuses

DeviceInit ==
  /\ Init
  /\ pc = "down"
  /\ outbox = {}
  /\ retained = "none"
  /\ recent = {}

\* No publisher waits to run, and the library keeps no message.
Quiet == outbox = {} /\ \A s \in Statuses: notices[s] = 0

\* The status s is announced: when nothing was in flight, it is the only one.
NoteStatus(s) == recent' = {s} \cup (IF Quiet THEN {} ELSE recent)

NoteChange ==
  \/ state' # state /\ NoteStatus(StatusOf[state'])
  \/ state' = state /\ UNCHANGED recent

\* The MQTT library takes a message.
Enqueue(s) == outbox' = outbox \cup {s}

-----------------------------------------------------------------------------
(* Booting.                                                                *)

\* Mutant of Boot: the pins are taken as the last process left them.
BootKeepsPins ==
  /\ pc = "down"
  /\ pc' = "connecting"
  /\ UNCHANGED <<vars, outbox, retained, recent>>

\* NewGateController, InitPinControl, keypadReader.Start.  The memory of the
\* process is as Crash left it, that is, as NewGateController creates it.
Boot ==
  /\ pc = "down"
  /\ pc' = "connecting"
  /\ DrivePins("Low")
  /\ UNCHANGED <<state, timerVars, noticeVars, outbox, retained, recent>>

\* client.Connect() returned without an error.
ConnectOk ==
  /\ pc = "connecting"
  /\ pc' = "connected"
  /\ UNCHANGED <<vars, outbox, retained, recent>>

SetNotifier ==
  /\ pc = "connected"
  /\ pc' = "announcing"
  /\ SetStatusNotifier
  /\ UNCHANGED <<outbox, retained, recent>>

\* The NotifyGateClosed of main(): "closed" is published whatever the state
\* of the gate is by now.  main goes on when it is acknowledged, or after 10 s
\* with the message still in the outbox; then it synchronises and subscribes.
AnnounceClosed ==
  /\ pc = "announcing"
  /\ pc' = "serving"
  /\ Enqueue("closed")
  /\ NoteStatus("closed")
  /\ UNCHANGED <<vars, retained>>

-----------------------------------------------------------------------------
(* Ending.                                                                 *)

\* The process is gone, and with it all it had in memory.
LoseMemory ==
  /\ pc' = "down"
  /\ state' = "Closed"
  /\ asleep' = {}
  /\ left' = [g \in Goroutines |-> 0]
  /\ openFor' = 0
  /\ notifier' = FALSE
  /\ notices' = [s \in Statuses |-> 0]
  /\ outbox' = {}
  /\ recent' = {}

\* log.Fatalf when the broker cannot be reached within 10 s: the deferred
\* gateCtrl.Close() is not run, the relay stays where a code has put it.
ConnectFails ==
  /\ pc = "connecting"
  /\ LoseMemory
  /\ UNCHANGED <<relay, led, retained>>

\* A panic, a stop of the service (main never returns, so Close is not run) or
\* a power failure, which alone releases the pins.  A message already sent may
\* still reach the broker.
Crash ==
  /\ pc # "down"
  /\ LoseMemory
  /\ UNCHANGED <<relay, led>> \/ DrivePins("Low")
  /\ retained' \in {retained} \cup outbox

-----------------------------------------------------------------------------
(* Running.                                                                *)

KeypadActs == IF KeypadDuringBoot THEN pc # "down" ELSE pc = "serving"

\* The callback of the keypad reader.
KeypadCode ==
  /\ KeypadActs
  /\ \E verdict \in {"denied", "regular_open", "lock_open"}: Open(verdict)
  /\ NoteChange
  /\ UNCHANGED <<pc, outbox, retained>>

\* Commands have a handler once main() has subscribed.
Command ==
  /\ pc = "serving"
  /\ \E msg \in Commands \cup {"other"}: CommandHandler(msg)
  /\ NoteChange
  /\ UNCHANGED <<pc, outbox, retained>>

SleeperEnds(g) ==
  /\ pc # "down"
  /\ AutoClose(g)
  /\ NoteChange
  /\ UNCHANGED <<pc, outbox, retained>>

\* A publisher gets to run.  Publishers are not ordered among themselves: the
\* one that was started last may run first.
Publish(s) ==
  /\ Enqueue(s)
  /\ PublishEnds(s) \/ (notices[s] = MaxNotices /\ UNCHANGED vars)
  /\ UNCHANGED <<pc, retained, recent>>

\* The broker retains a status, any of those that are kept.  It is kept on when
\* there are more of it, or when the acknowledgement is late or lost: then it
\* will be sent again.
Deliver(s) ==
  /\ s \in outbox
  /\ retained' = s
  /\ outbox' \in {outbox, outbox \ {s}}
  /\ UNCHANGED <<vars, pc, recent>>

Second == Tick /\ UNCHANGED <<pc, outbox, retained, recent>>

-----------------------------------------------------------------------------
DeviceNext ==
  \/ Boot \/ ConnectOk \/ ConnectFails \/ SetNotifier \/ AnnounceClosed
  \/ Crash
  \/ KeypadCode
  \/ Command
  \/ \E g \in Goroutines: SleeperEnds(g)
  \/ \E s \in Statuses: Publish(s) \/ Deliver(s)
  \/ Second

\* The host restarts the process, a boot is over at some time, time passes and
\* goroutines are run.  Nothing says that the broker ever answers, and a crash
\* is never bound to happen or to stop happening.
DeviceFairness ==
  /\ WF_deviceVars(Boot)
  /\ WF_deviceVars(Second)
  /\ \A g \in Goroutines: WF_deviceVars(SleeperEnds(g))

DeviceSpec == DeviceInit /\ [][DeviceNext]_deviceVars /\ DeviceFairness

-----------------------------------------------------------------------------
(* Properties.                                                             *)

\* While there is a process, its pins show its state: InitPinControl runs
\* before any code or command can act, so that a relay latched by the process
\* before is never taken for a closed gate.
PinsFollowStateWhileUp == pc # "down" => PinsFollowState

\* Whatever was reordered, sent twice or sent again: once nothing is in flight,
\* the retained status is one of those announced since nothing was last in
\* flight, never an older one.  So a change of state that finds nothing in
\* flight, and is followed by no other before it is acknowledged, is shown.
RecentStatusSettles == pc = "serving" /\ Quiet => retained \in recent

\* An energised relay is released in the end, or was locked open on purpose:
\* by its sleeper, or, when the process died with the gate open, by the next
\* boot.
RelayReleased == relay = "High" ~> (relay = "Low" \/ state = "LockedOpen")

\* A gate that is locked open is shut by a Close only, and by no sleeper of an
\* earlier opening, for as long as there is a process: what ends with it is the
\* state, not the relay.
LockedOpenWhileUp == [][pc' = "down" \/ ShutsLockedOpen]_deviceVars

\* What remains of the duration: an opening that is ended by a sleeper while no
\* other sleeper is there has lasted at least as long as configured.  Only sleepers that
\* commands left behind can cut an opening short.
LoneOpeningLasts ==
  [][\A g \in Goroutines:
       asleep = {g} /\ asleep' = {} /\ state = "Open" /\ state' = "Closed" /\ pc' # "down"
         => openFor = SleepTime]_deviceVars

\* The README: the status page "shows [...] the latest gate status".  Once
\* nothing is in flight, the retained status is the state of the gate.
RetainedStatusSettles == pc = "serving" /\ Quiet => retained = StatusOf[state]

=============================================================================
