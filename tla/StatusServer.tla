---------------------------- MODULE StatusServer ----------------------------
(***************************************************************************)
(* The status page of pigate/cmd/statusserver/main.go: what it holds in    *)
(* memory, what it keeps in Postgres and the commands it publishes.        *)
(*                                                                         *)
(* Three kinds of goroutines change it: main, which loads the latest row   *)
(* and then subscribes to one topic after the other; the callback of the   *)
(* MQTT client, which takes one message at a time; and a handler per HTTP  *)
(* request.  A handler and the callback each stamp an entry, store it in   *)
(* memory under the lock, insert it into the events and then update the    *)
(* latest row, and others run in between.                                  *)
(*                                                                         *)
(* Every statement of the database may fail, be given up after three       *)
(* seconds, or be cut off by the end of the process, and then it may have  *)
(* been carried out or not.  It is assumed that it is not carried out      *)
(* later, and that the clock is never set back.                            *)
(***************************************************************************)
EXTENDS Naturals, FiniteSets

CONSTANTS
  Statuses,    \* payloads of the status topics
  Commands,    \* commands of the page, by the names the page gives them
  Requests,    \* HTTP requests that may be in progress together
  MaxTime      \* bound: times the clock is read

StatusTopics == {"gate_status", "credential_status"}
Topics == StatusTopics \cup {"gate_command"}
Callback == "callback"
Workers == Requests \cup {Callback}

Wire(payload) == IF payload = "lock_open" THEN "hold_open" ELSE payload
Names == Statuses \cup Commands
Payloads == {"unknown"} \cup Names \cup {Wire(c): c \in Commands}
Entries == [payload: Payloads, at: 0..MaxTime]
Unknown == [payload |-> "unknown", at |-> 0]
Idle == [step |-> "idle", topic |-> "gate_status", entry |-> Unknown]

ASSUME StatusAssumption ==
  /\ MaxTime \in Nat
  /\ Callback \notin Requests
  /\ \A s \in Statuses: Wire(s) = s   \* none has the name of a command
  /\ \A c, d \in Commands: Wire(c) = Wire(d) => c = d   \* normalizeCommand
  /\ Statuses \cap {Wire(c): c \in Commands} = {}

VARIABLES
  phase,       \* how far main has come, or "down"
  subscribed,  \* the topics whose messages arrive
  memory,      \* memory[t]: what the page shows of topic t, and since when
  latest,      \* latest[t]: the same in the row of pigate_status_latest
  events,      \* the rows of pigate_status_events
  job,         \* job[w]: what worker w is about to do, and with which entry
  clock,       \* the latest time read
  taken,       \* taken[c]: publications of command c that the broker took
  unsaved      \* topics whose last load or record was reported as failed; read
               \* by properties only

statusVars ==
  <<phase, subscribed, memory, latest, events, job, clock, taken, unsaved>>

StatusTypeOK ==
  /\ phase \in {"down", "load", "gate", "credential", "serving"}
  /\ subscribed \subseteq StatusTopics
  /\ memory \in [Topics -> Entries]
  /\ latest \in [Topics -> Entries]
  /\ events \subseteq [topic: Topics, entry: Entries]
  /\ job \in [Workers ->
               [step: {"idle", "publish", "stamp", "set", "event", "latest"},
                topic: Topics, entry: Entries]]
  /\ clock \in 0..MaxTime
  /\ taken \in [Commands -> 0..MaxTime]
  /\ unsaved \subseteq Topics

StatusInit ==
  /\ phase = "down"
  /\ subscribed = {}
  /\ memory = [t \in Topics |-> Unknown]
  /\ latest = [t \in Topics |-> Unknown]
  /\ events = {}
  /\ job = [w \in Workers |-> Idle]
  /\ clock = 0
  /\ taken = [c \in Commands |-> 0]
  /\ unsaved = {}

Begin(w, step, topic, payload, at) ==
  job' = [job EXCEPT ![w] =
           [step |-> step, topic |-> topic,
            entry |-> [payload |-> payload, at |-> at]]]

GoTo(w, step) == job' = [job EXCEPT ![w].step = step]
EndJob(w) == job' = [job EXCEPT ![w] = Idle]

-----------------------------------------------------------------------------
(* main *)

StartServer ==
  /\ phase = "down"
  /\ phase' = "load"
  /\ UNCHANGED <<subscribed, memory, latest, events, job, clock, taken, unsaved>>

(* Mutant of LoadLatest: the row is loaded when the first subscription is there. *)
LoadLatestLate ==
  /\ phase \in {"load", "credential"}
  /\ phase' = IF phase = "load" THEN "gate" ELSE "serving"
  /\ memory' = IF phase = "load" THEN memory ELSE latest
  /\ unsaved' = {}
  /\ UNCHANGED <<subscribed, latest, events, job, clock, taken>>

(* loadLatest and applyLatest.  A row that is missing leaves the memory as  *)
(* it is, which is also what an empty row would make of it.                 *)
LoadLatest ==
  /\ phase = "load"
  /\ phase' = "gate"
  /\ \/ /\ memory' = latest
        /\ unsaved' = {}
     \/ /\ unsaved' = Topics
        /\ UNCHANGED memory
  /\ UNCHANGED <<subscribed, latest, events, job, clock, taken>>

(* subscribeToStatus: a subscription that fails is logged and not retried. *)
SubscribeTo(topic, here, next) ==
  /\ phase = here
  /\ phase' = next
  /\ subscribed' \in {subscribed, subscribed \cup {topic}}
  /\ UNCHANGED <<memory, latest, events, job, clock, taken, unsaved>>

Subscribe ==
  \/ SubscribeTo("gate_status", "gate", "credential")
  \/ SubscribeTo("credential_status", "credential", "serving")

(* The process ends.  That a statement under way is carried out first is    *)
(* the failure of that statement in RecordEvent or UpsertLatest, then this. *)
Crash ==
  /\ phase # "down"
  /\ phase' = "down"
  /\ subscribed' = {}
  /\ memory' = [t \in Topics |-> Unknown]
  /\ job' = [w \in Workers |-> Idle]
  /\ UNCHANGED <<latest, events, clock, taken, unsaved>>

-----------------------------------------------------------------------------
(* The callback of a status topic, up to the call of the store *)

Receive(topic, status) ==
  /\ topic \in subscribed
  /\ job[Callback].step = "idle"
  /\ clock < MaxTime
  /\ clock' = clock + 1
  /\ memory' = [memory EXCEPT ![topic] = [payload |-> status, at |-> clock']]
  /\ Begin(Callback, "event", topic, status, clock')
  /\ UNCHANGED <<phase, subscribed, latest, events, taken, unsaved>>

-----------------------------------------------------------------------------
(* handleCommand, up to the call of the store *)

(* A request that normalizeCommand refuses changes nothing and is left out. *)
Request(r, command) ==
  /\ phase = "serving"
  /\ job[r].step = "idle"
  /\ Begin(r, "publish", "gate_command", command, 0)
  /\ UNCHANGED <<phase, subscribed, memory, latest, events, clock, taken, unsaved>>

Take(command) ==
  /\ taken[command] < MaxTime
  /\ taken' = [taken EXCEPT ![command] = @ + 1]

(* Mutant of Publish: the error of the publication is not looked at. *)
PublishUnchecked(r) ==
  /\ job[r].step = "publish"
  /\ Take(job[r].entry.payload) \/ UNCHANGED taken
  /\ GoTo(r, "stamp")
  /\ UNCHANGED <<phase, subscribed, memory, latest, events, clock, unsaved>>

(* The command is published.  One that is given up may have been taken by   *)
(* the broker all the same.                                                 *)
Publish(r) ==
  /\ job[r].step = "publish"
  /\ \/ Take(job[r].entry.payload) /\ GoTo(r, "stamp")
     \/ Take(job[r].entry.payload) /\ EndJob(r)
     \/ UNCHANGED taken /\ EndJob(r)
  /\ UNCHANGED <<phase, subscribed, memory, latest, events, clock, unsaved>>

Stamp(r) ==
  /\ job[r].step = "stamp"
  /\ clock < MaxTime
  /\ clock' = clock + 1
  /\ Begin(r, "set", job[r].topic, job[r].entry.payload, clock')
  /\ UNCHANGED <<phase, subscribed, memory, latest, events, taken, unsaved>>

SetCommand(r) ==
  /\ job[r].step = "set"
  /\ memory' = [memory EXCEPT ![job[r].topic] = job[r].entry]
  /\ GoTo(r, "event")
  /\ UNCHANGED <<phase, subscribed, latest, events, clock, taken, unsaved>>

-----------------------------------------------------------------------------
(* recordGateStatus, recordCredentialStatus and recordCommand: the event is *)
(* inserted and then, unless that failed, the latest row is updated.        *)

(* Mutant of Logged: the entry is written without its time. *)
LoggedUntimed(w) ==
  [topic |-> job[w].topic, entry |-> [payload |-> Wire(job[w].entry.payload)]]

Logged(w) ==
  [topic |-> job[w].topic, entry |-> [job[w].entry EXCEPT !.payload = Wire(@)]]

Insert(w) == events' = events \cup {Logged(w)}
Update(w) == latest' = [latest EXCEPT ![job[w].topic] = Logged(w).entry]

(* Mutant of RecordEvent: the latest row is updated although the event could not be inserted. *)
RecordEventGoesOn(w) ==
  /\ job[w].step = "event"
  /\ Insert(w) \/ UNCHANGED events
  /\ GoTo(w, "latest")
  /\ UNCHANGED <<phase, subscribed, memory, latest, clock, taken, unsaved>>

(* Mutant of RecordEvent: a status that the row has already is logged and not written again. *)
RecordEventSkips(w) ==
  /\ job[w].step = "event"
  /\ Insert(w)
  /\ IF latest[job[w].topic].payload = Wire(job[w].entry.payload)
       THEN EndJob(w)
       ELSE GoTo(w, "latest")
  /\ UNCHANGED <<phase, subscribed, memory, latest, clock, taken, unsaved>>

RecordEvent(w) ==
  /\ job[w].step = "event"
  /\ \/ Insert(w) /\ GoTo(w, "latest") /\ UNCHANGED unsaved
     \/ /\ Insert(w) \/ UNCHANGED events
        /\ EndJob(w)
        /\ unsaved' = unsaved \cup {job[w].topic}
  /\ UNCHANGED <<phase, subscribed, memory, latest, clock, taken>>

UpsertLatest(w) ==
  /\ job[w].step = "latest"
  /\ EndJob(w)
  /\ \/ Update(w) /\ unsaved' = unsaved \ {job[w].topic}
     \/ /\ Update(w) \/ UNCHANGED latest
        /\ unsaved' = unsaved \cup {job[w].topic}
  /\ UNCHANGED <<phase, subscribed, memory, events, clock, taken>>

-----------------------------------------------------------------------------
StatusNext ==
  \/ StartServer \/ LoadLatest \/ Subscribe \/ Crash
  \/ \E t \in StatusTopics, s \in Statuses: Receive(t, s)
  \/ \E r \in Requests:
       \/ \E c \in Commands: Request(r, c)
       \/ Publish(r) \/ Stamp(r) \/ SetCommand(r)
  \/ \E w \in Workers: RecordEvent(w) \/ UpsertLatest(w)

StatusSpec == StatusInit /\ [][StatusNext]_statusVars

-----------------------------------------------------------------------------
(* Safety *)

(* What the latest row says of a topic, with its time, is among the events:  *)
(* the log explains the page after a restart, whatever statements failed,    *)
(* since the event is inserted first and a failure of it ends the record     *)
(* (recordGateStatus, recordCredentialStatus and recordCommand).             *)
LatestIsLogged ==
  \A t \in Topics:
    latest[t] # Unknown => [topic |-> t, entry |-> latest[t]] \in events

(* No command is in the log more often than the broker took it: the log      *)
(* never claims a command that was not sent (handleCommand returns when the  *)
(* publication fails).                                                       *)
LoggedCommandsWereTaken ==
  \A c \in Commands:
    Cardinality({e \in events: e.entry.payload = Wire(c)}) <= taken[c]

(* While the callback is not at work on a status topic, the page and the     *)
(* row agree about it, unless the last load or record of it was reported as  *)
(* failed: a restart shows what was shown before (subscribeToStatus).  It    *)
(* says nothing of the command: two requests may store and record theirs in  *)
(* different orders.                                                         *)
SettledStatusIsPersisted ==
  \A t \in StatusTopics \ unsaved:
    \/ phase \in {"down", "load"}
    \/ job[Callback].step # "idle" /\ job[Callback].topic = t
    \/ memory[t] = latest[t]

(* The time of a status never goes back, in the row or, while the process    *)
(* runs, on the page: the row is loaded before the first message can arrive, *)
(* and the callback records one message before it takes the next (main).     *)
StatusNeverGoesBack ==
  [][\A t \in StatusTopics:
       /\ latest[t].at <= latest'[t].at
       /\ phase' # "down" => memory[t].at <= memory'[t].at]_statusVars

=============================================================================
