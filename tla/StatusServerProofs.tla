------------------------- MODULE StatusServerProofs -------------------------
(***************************************************************************)
(* What StatusServer guarantees for every set of statuses, commands and    *)
(* requests, and however long it runs.                                     *)
(*                                                                         *)
(* LogInv says what the log has when a worker is about to update the row;  *)
(* PageInv what memory and row have in common, and whose entry they wait   *)
(* for, when the callback is at work.  CountInv counts, for each command,  *)
(* the log and the requests that have still to log it; WorkInv says that   *)
(* only requests are at work on commands.                                  *)
(***************************************************************************)
EXTENDS StatusServer, FiniteSetTheorems, TLAPS

\* The steps of the server one by one.
LEMMA StatusCases ==
  ASSUME [StatusNext]_statusVars, NEW P,
         StartServer => P, LoadLatest => P, Subscribe => P, Crash => P,
         \A t \in StatusTopics, s \in Statuses: Receive(t, s) => P,
         \A r \in Requests, c \in Commands: Request(r, c) => P,
         \A r \in Requests: Publish(r) => P,
         \A r \in Requests: Stamp(r) => P,
         \A r \in Requests: SetCommand(r) => P,
         \A w \in Workers: RecordEvent(w) => P,
         \A w \in Workers: UpsertLatest(w) => P,
         UNCHANGED statusVars => P
  PROVE  P
BY DEF StatusNext

-----------------------------------------------------------------------------
(* Type correctness.                                                       *)

JobSteps == {"idle", "publish", "stamp", "set", "event", "latest"}
Jobs == [step: JobSteps, topic: Topics, entry: Entries]

\* The values that memory and jobs start with have their types.
LEMMA InitialTypes == Unknown \in Entries /\ Idle \in Jobs
BY StatusAssumption
   DEF Unknown, Entries, Payloads, Idle, Jobs, JobSteps, Topics, StatusTopics

\* What is logged of an entry is an entry, with the same time.
LEMMA LoggedType ==
  ASSUME StatusTypeOK, NEW w \in Workers
  PROVE  /\ Logged(w).topic = job[w].topic
         /\ Logged(w).entry \in Entries
         /\ Logged(w).entry.at = job[w].entry.at
         /\ Logged(w).entry.payload = Wire(job[w].entry.payload)
         /\ Logged(w) \in [topic: Topics, entry: Entries]
<1>1. job[w] \in Jobs
  BY DEF StatusTypeOK, Jobs, JobSteps
<1>2. \A p \in Payloads: Wire(p) \in Payloads
  BY StatusAssumption DEF Payloads, Names, Wire
<1> QED
  BY <1>1, <1>2 DEF Jobs, Entries, Logged

\* Every state of every behaviour has the types of StatusTypeOK: whatever the
\* page, the row and the log say is an entry with a payload and a time.
THEOREM StatusTypeCorrect == StatusSpec => []StatusTypeOK
<1>1. StatusInit => StatusTypeOK
  BY InitialTypes, StatusAssumption DEF StatusInit, StatusTypeOK, Jobs, JobSteps
<1>2. StatusTypeOK /\ [StatusNext]_statusVars => StatusTypeOK'
  <2> SUFFICES ASSUME StatusTypeOK, [StatusNext]_statusVars
               PROVE  StatusTypeOK'
    OBVIOUS
  <2>1. CASE StartServer
    BY <2>1 DEF StartServer, StatusTypeOK
  <2>2. CASE LoadLatest
    BY <2>2 DEF LoadLatest, StatusTypeOK
  <2>3. CASE Subscribe
    BY <2>3 DEF Subscribe, SubscribeTo, StatusTypeOK, StatusTopics
  <2>4. CASE Crash
    BY <2>4, InitialTypes DEF Crash, StatusTypeOK, Jobs, JobSteps
  <2>5. ASSUME NEW t \in StatusTopics, NEW s \in Statuses, Receive(t, s)
        PROVE  StatusTypeOK'
    <3>1. clock' \in 0..MaxTime
      BY <2>5, StatusAssumption DEF Receive, StatusTypeOK
    <3>2. [payload |-> s, at |-> clock'] \in Entries /\ t \in Topics
      BY <3>1 DEF Entries, Payloads, Names, Topics
    <3>3. job' \in [Workers -> Jobs]
      BY <2>5, <3>2 DEF Receive, Begin, StatusTypeOK, Jobs, JobSteps
    <3> QED
      BY <2>5, <3>1, <3>2, <3>3 DEF Receive, StatusTypeOK, Jobs, JobSteps
  <2>6. ASSUME NEW r \in Requests, NEW c \in Commands, Request(r, c)
        PROVE  StatusTypeOK'
    <3>1. [payload |-> c, at |-> 0] \in Entries
      BY StatusAssumption DEF Entries, Payloads, Names
    <3>2. job' \in [Workers -> Jobs]
      BY <2>6, <3>1 DEF Request, Begin, StatusTypeOK, Jobs, JobSteps, Topics
    <3> QED
      BY <2>6, <3>2 DEF Request, StatusTypeOK, Jobs, JobSteps
  <2>7. ASSUME NEW r \in Requests, Publish(r)
        PROVE  StatusTypeOK'
    <3>1. job' \in [Workers -> Jobs]
      BY <2>7, InitialTypes DEF Publish, GoTo, EndJob, StatusTypeOK, Jobs, JobSteps
    <3>2. taken' \in [Commands -> 0..MaxTime]
      BY <2>7, StatusAssumption DEF Publish, Take, StatusTypeOK
    <3> QED
      BY <2>7, <3>1, <3>2 DEF Publish, StatusTypeOK, Jobs, JobSteps
  <2>8. ASSUME NEW r \in Requests, Stamp(r)
        PROVE  StatusTypeOK'
    <3>1. clock' \in 0..MaxTime
      BY <2>8, StatusAssumption DEF Stamp, StatusTypeOK
    <3>2. job[r] \in Jobs
      BY DEF StatusTypeOK, Jobs, JobSteps, Workers
    <3>3. [payload |-> job[r].entry.payload, at |-> clock'] \in Entries
      BY <3>1, <3>2 DEF Entries, Jobs
    <3>4. job' \in [Workers -> Jobs]
      BY <2>8, <3>2, <3>3 DEF Stamp, Begin, StatusTypeOK, Jobs, JobSteps
    <3> QED
      BY <2>8, <3>1, <3>4 DEF Stamp, StatusTypeOK, Jobs, JobSteps
  <2>9. ASSUME NEW r \in Requests, SetCommand(r)
        PROVE  StatusTypeOK'
    <3>1. job[r] \in Jobs
      BY DEF StatusTypeOK, Jobs, JobSteps, Workers
    <3>2. job' \in [Workers -> Jobs]
      BY <2>9 DEF SetCommand, GoTo, StatusTypeOK, Jobs, JobSteps
    <3>3. memory' \in [Topics -> Entries]
      BY <2>9, <3>1 DEF SetCommand, StatusTypeOK, Jobs
    <3> QED
      BY <2>9, <3>2, <3>3 DEF SetCommand, StatusTypeOK, Jobs, JobSteps
  <2>10. ASSUME NEW w \in Workers, RecordEvent(w)
         PROVE  StatusTypeOK'
    <3>1. job' \in [Workers -> Jobs]
      BY <2>10, InitialTypes DEF RecordEvent, GoTo, EndJob, StatusTypeOK, Jobs, JobSteps
    <3>2. events' \subseteq [topic: Topics, entry: Entries]
      BY <2>10, LoggedType DEF RecordEvent, Insert, StatusTypeOK
    <3>3. unsaved' \subseteq Topics
      BY <2>10 DEF RecordEvent, StatusTypeOK
    <3> QED
      BY <2>10, <3>1, <3>2, <3>3 DEF RecordEvent, StatusTypeOK, Jobs, JobSteps
  <2>11. ASSUME NEW w \in Workers, UpsertLatest(w)
         PROVE  StatusTypeOK'
    <3>1. job' \in [Workers -> Jobs]
      BY <2>11, InitialTypes DEF UpsertLatest, EndJob, StatusTypeOK, Jobs, JobSteps
    <3>2. latest' \in [Topics -> Entries]
      BY <2>11, LoggedType DEF UpsertLatest, Update, StatusTypeOK
    <3>3. unsaved' \subseteq Topics
      BY <2>11 DEF UpsertLatest, StatusTypeOK
    <3> QED
      BY <2>11, <3>1, <3>2, <3>3 DEF UpsertLatest, StatusTypeOK, Jobs, JobSteps
  <2>12. CASE UNCHANGED statusVars
    BY <2>12 DEF statusVars, StatusTypeOK
  <2> QED
    BY <2>1, <2>2, <2>3, <2>4, <2>5, <2>6, <2>7, <2>8, <2>9, <2>10, <2>11,
       <2>12, StatusCases
<1> QED
  BY <1>1, <1>2, PTL DEF StatusSpec

-----------------------------------------------------------------------------
(* The log explains the row.                                               *)

\* A worker that is about to update the row has its entry in the log.
LogInv ==
  /\ LatestIsLogged
  /\ \A w \in Workers: job[w].step = "latest" => Logged(w) \in events

\* The row says nothing the log does not have, whatever statements failed and
\* wherever the process ended.
THEOREM LatestAlwaysLogged == StatusSpec => []LatestIsLogged
<1>1. StatusInit => LogInv
  BY DEF StatusInit, LogInv, LatestIsLogged, Idle
<1>2. StatusTypeOK /\ LogInv /\ [StatusNext]_statusVars => LogInv'
  <2> SUFFICES ASSUME StatusTypeOK, LogInv, [StatusNext]_statusVars
               PROVE  LogInv'
    OBVIOUS
  <2>1. ASSUME UNCHANGED <<latest, events>>,
               \A w \in Workers: job'[w].step = "latest" => job'[w] = job[w]
        PROVE  LogInv'
    BY <2>1 DEF LogInv, LatestIsLogged, Logged
  <2>2. CASE StartServer \/ LoadLatest \/ Subscribe \/ UNCHANGED statusVars
    BY <2>1, <2>2 DEF StartServer, LoadLatest, Subscribe, SubscribeTo, statusVars
  <2>3. CASE Crash
    BY <2>1, <2>3 DEF Crash, Idle
  <2>4. ASSUME NEW t \in StatusTopics, NEW s \in Statuses, Receive(t, s)
        PROVE  LogInv'
    BY <2>1, <2>4 DEF Receive, Begin, StatusTypeOK
  <2>5. ASSUME NEW r \in Requests,
               (\E c \in Commands: Request(r, c)) \/ Publish(r) \/ Stamp(r) \/ SetCommand(r)
        PROVE  LogInv'
    BY <2>1, <2>5 DEF Request, Publish, Stamp, SetCommand, Begin, GoTo, EndJob,
                      Idle, StatusTypeOK
  <2>6. ASSUME NEW w \in Workers, RecordEvent(w)
        PROVE  LogInv'
    <3>1. events \subseteq events' /\ UNCHANGED latest
      BY <2>6 DEF RecordEvent, Insert
    <3>2. \A v \in Workers \ {w}: job'[v] = job[v]
      BY <2>6 DEF RecordEvent, GoTo, EndJob, StatusTypeOK
    <3>3. job'[w].step = "latest" => Logged(w)' \in events'
      BY <2>6 DEF RecordEvent, Insert, GoTo, EndJob, Idle, Logged, StatusTypeOK
    <3> QED
      BY <3>1, <3>2, <3>3 DEF LogInv, LatestIsLogged, Logged
  <2>7. ASSUME NEW w \in Workers, UpsertLatest(w)
        PROVE  LogInv'
    <3>1. UNCHANGED events /\ Logged(w) \in events
      BY <2>7 DEF UpsertLatest, LogInv
    <3>2. \A v \in Workers: job'[v].step = "latest" => job'[v] = job[v]
      BY <2>7 DEF UpsertLatest, EndJob, Idle, StatusTypeOK
    <3>3. Logged(w) = [topic |-> job[w].topic, entry |-> Logged(w).entry]
      BY DEF Logged
    <3>4. \A t \in Topics: latest'[t] = latest[t] \/ (t = job[w].topic /\ latest'[t] = Logged(w).entry)
      BY <2>7 DEF UpsertLatest, Update, StatusTypeOK
    <3> QED
      BY <3>1, <3>2, <3>3, <3>4 DEF LogInv, LatestIsLogged, Logged
  <2> QED
    BY <2>2, <2>3, <2>4, <2>5, <2>6, <2>7, StatusCases
<1>3. LogInv => LatestIsLogged
  BY DEF LogInv
<1> QED
  BY <1>1, <1>2, <1>3, StatusTypeCorrect, PTL DEF StatusSpec

-----------------------------------------------------------------------------
(* Page and row.                                                           *)

\* The entry the callback is at work on is what the page shows, is written as
\* it is, and is no older than the row.
InHand(topic, entry) ==
  /\ topic \in StatusTopics
  /\ memory[topic] = entry
  /\ Wire(entry.payload) = entry.payload
  /\ latest[topic].at <= entry.at

\* Nothing arrives before the row was loaded, and requests keep to their topic.
PageInv ==
  /\ SettledStatusIsPersisted
  /\ phase \in {"down", "load", "gate"} => subscribed = {} /\ job[Callback].step = "idle"
  /\ phase \in {"down", "load"} => \A t \in StatusTopics: memory[t] = Unknown
  /\ \A r \in Requests: job[r].step # "idle" => job[r].topic = "gate_command"
  /\ job[Callback].step \in {"idle", "event", "latest"}
  /\ job[Callback].step # "idle" => InHand(job[Callback].topic, job[Callback].entry)
  /\ \A t \in StatusTopics: latest[t].at <= clock /\ memory[t].at <= clock

\* A step that leaves the status topics and the callback alone keeps PageInv.
LEMMA OthersKeepPageInv ==
  ASSUME StatusTypeOK, PageInv,
         UNCHANGED <<phase, subscribed>>, job'[Callback] = job[Callback],
         \A t \in StatusTopics: memory'[t] = memory[t] /\ latest'[t] = latest[t],
         unsaved \cap StatusTopics \subseteq unsaved',
         clock <= clock', clock' \in Nat,
         \A r \in Requests: job'[r].step # "idle" => job'[r].topic = "gate_command"
  PROVE  PageInv'
<1>1. clock \in Nat /\ \A t \in StatusTopics: latest[t].at \in Nat /\ memory[t].at \in Nat
  BY StatusAssumption DEF StatusTypeOK, Entries, Topics
<1>2. \A t \in StatusTopics: latest'[t].at <= clock' /\ memory'[t].at <= clock'
  BY <1>1 DEF PageInv
<1>3. SettledStatusIsPersisted'
  BY DEF PageInv, SettledStatusIsPersisted
<1>4. job'[Callback].step # "idle" => InHand(job[Callback].topic, job[Callback].entry)'
  BY DEF PageInv, InHand
<1> QED
  BY <1>2, <1>3, <1>4 DEF PageInv

\* Memory and row are related by PageInv in every state of every behaviour.
LEMMA PageInvHolds == StatusSpec => []PageInv
<1>1. StatusInit => PageInv
  BY DEF StatusInit, PageInv, SettledStatusIsPersisted, Idle, Unknown, Topics,
         Workers
<1>2. StatusTypeOK /\ StatusTypeOK' /\ PageInv /\ [StatusNext]_statusVars => PageInv'
  <2> SUFFICES ASSUME StatusTypeOK, StatusTypeOK', PageInv, [StatusNext]_statusVars
               PROVE  PageInv'
    OBVIOUS
  <2>a. /\ StatusTopics \subseteq Topics /\ "gate_command" \notin StatusTopics
        /\ Callback \in Workers /\ Requests \subseteq Workers /\ Callback \notin Requests
    BY StatusAssumption DEF Topics, StatusTopics, Workers
  <2>b. /\ clock \in Nat /\ clock' \in Nat
        /\ \A t \in StatusTopics: latest[t].at \in Nat /\ memory[t].at \in Nat
    BY <2>a, StatusAssumption DEF StatusTypeOK, Entries
  <2>1. CASE StartServer
    BY <2>1 DEF StartServer, PageInv, SettledStatusIsPersisted
  <2>2. CASE LoadLatest
    BY <2>2, <2>a, <2>b DEF LoadLatest, PageInv, SettledStatusIsPersisted, Unknown
  <2>3. CASE Subscribe
    BY <2>3 DEF Subscribe, SubscribeTo, PageInv, SettledStatusIsPersisted, InHand
  <2>4. CASE Crash
    BY <2>4, <2>a, <2>b DEF Crash, PageInv, SettledStatusIsPersisted, Idle, Unknown
  <2>5. ASSUME NEW t \in StatusTopics, NEW s \in Statuses, Receive(t, s)
        PROVE  PageInv'
    <3> DEFINE e == [payload |-> s, at |-> clock']
    <3>1. /\ t \in subscribed
          /\ clock' = clock + 1
          /\ memory' = [memory EXCEPT ![t] = e]
          /\ job' = [job EXCEPT ![Callback] = [step |-> "event", topic |-> t, entry |-> e]]
          /\ UNCHANGED <<phase, subscribed, latest, unsaved>>
      BY <2>5 DEF Receive, Begin
    <3>2. job'[Callback] = [step |-> "event", topic |-> t, entry |-> e]
      BY <3>1, <2>a DEF StatusTypeOK
    <3>3. memory'[t] = e /\ \A u \in StatusTopics \ {t}: memory'[u] = memory[u]
      BY <3>1, <2>a DEF StatusTypeOK
    <3>4. \A r \in Requests: job'[r] = job[r]
      BY <3>1, <2>a DEF StatusTypeOK
    <3>5. phase \notin {"down", "load", "gate"}
      BY <3>1 DEF PageInv
    <3>6. \A u \in StatusTopics: latest'[u].at <= clock' /\ memory'[u].at <= clock'
      BY <3>1, <3>3, <2>b DEF PageInv
    <3>7. InHand(job[Callback].topic, job[Callback].entry)'
      BY <3>1, <3>2, <3>3, <3>6, StatusAssumption DEF InHand
    <3>8. job[Callback].step = "idle"
      BY <2>5 DEF Receive
    <3>9. SettledStatusIsPersisted'
      BY <3>1, <3>2, <3>3, <3>8 DEF PageInv, SettledStatusIsPersisted
    <3> QED
      BY <3>1, <3>2, <3>4, <3>5, <3>6, <3>7, <3>9 DEF PageInv
  <2>6. ASSUME NEW r \in Requests,
               (\E c \in Commands: Request(r, c)) \/ Publish(r) \/ Stamp(r) \/ SetCommand(r)
        PROVE  PageInv'
    <3>1. /\ UNCHANGED <<phase, subscribed, latest, unsaved>>
          /\ clock <= clock'
      BY <2>6, <2>b DEF Request, Publish, Stamp, SetCommand
    <3>2. /\ \A v \in Workers \ {r}: job'[v] = job[v]
          /\ job'[r].step # "idle" => job'[r].topic = "gate_command"
      BY <2>6, <2>a DEF Request, Publish, Stamp, SetCommand, Begin, GoTo, EndJob, Idle,
                        StatusTypeOK, PageInv
    <3>3. \A t \in StatusTopics: memory'[t] = memory[t]
      BY <2>6, <2>a DEF Request, Publish, Stamp, SetCommand, PageInv, StatusTypeOK
    <3> QED
      BY <3>1, <3>2, <3>3, <2>a, <2>b, OthersKeepPageInv DEF PageInv
  <2>7. ASSUME NEW r \in Requests, RecordEvent(r) \/ UpsertLatest(r)
        PROVE  PageInv'
    <3>1. job[r].topic = "gate_command"
      BY <2>7 DEF RecordEvent, UpsertLatest, PageInv
    <3>2. UNCHANGED <<phase, subscribed, memory, clock>>
      BY <2>7 DEF RecordEvent, UpsertLatest
    <3>3. /\ \A v \in Workers \ {r}: job'[v] = job[v]
          /\ job'[r].step # "idle" => job'[r].topic = "gate_command"
      BY <2>7, <3>1, <2>a DEF RecordEvent, UpsertLatest, GoTo, EndJob, Idle, StatusTypeOK
    <3>4. \A t \in StatusTopics: latest'[t] = latest[t]
      BY <2>7, <3>1, <2>a DEF RecordEvent, UpsertLatest, Update, StatusTypeOK
    <3>5. unsaved \cap StatusTopics \subseteq unsaved'
      BY <2>7, <3>1, <2>a DEF RecordEvent, UpsertLatest
    <3> QED
      BY <3>2, <3>3, <3>4, <3>5, <2>a, <2>b, OthersKeepPageInv DEF PageInv
  <2>8. CASE RecordEvent(Callback)
    <3>1. /\ job[Callback].step = "event"
          /\ UNCHANGED <<phase, subscribed, memory, latest, clock>>
      BY <2>8 DEF RecordEvent
    <3>2. \A r \in Requests: job'[r] = job[r]
      BY <2>8, <2>a DEF RecordEvent, GoTo, EndJob, StatusTypeOK
    <3>3. \/ /\ job'[Callback] = [job[Callback] EXCEPT !.step = "latest"]
             /\ UNCHANGED unsaved
          \/ /\ job'[Callback] = Idle
             /\ unsaved' = unsaved \cup {job[Callback].topic}
      BY <2>8, <2>a DEF RecordEvent, GoTo, EndJob, StatusTypeOK
    <3>4. job'[Callback].step = "latest" =>
            job'[Callback].topic = job[Callback].topic /\ job'[Callback].entry = job[Callback].entry
      BY <3>3, <2>a DEF Idle, StatusTypeOK
    <3>5. job'[Callback].step \in {"idle", "latest"}
      BY <3>3, <2>a DEF Idle, StatusTypeOK
    <3>6. SettledStatusIsPersisted'
      BY <3>1, <3>3, <3>4, <2>a DEF PageInv, SettledStatusIsPersisted, Idle, StatusTypeOK
    <3> QED
      BY <3>1, <3>2, <3>4, <3>5, <3>6 DEF PageInv, InHand
  <2>9. CASE UpsertLatest(Callback)
    <3> DEFINE j == job[Callback]
    <3>1. /\ j.step = "latest"
          /\ UNCHANGED <<phase, subscribed, memory, clock>>
      BY <2>9 DEF UpsertLatest
    <3>2. job'[Callback] = Idle /\ \A r \in Requests: job'[r] = job[r]
      BY <2>9, <2>a DEF UpsertLatest, EndJob, StatusTypeOK
    <3>3. InHand(j.topic, j.entry)
      BY <3>1 DEF PageInv
    <3>4. Logged(Callback).entry = j.entry
      BY <3>3, <2>a DEF Logged, InHand, StatusTypeOK, Entries
    <3>5. \/ /\ latest'[j.topic] = j.entry
             /\ unsaved' = unsaved \ {j.topic}
          \/ /\ latest'[j.topic] \in {j.entry, latest[j.topic]}
             /\ unsaved' = unsaved \cup {j.topic}
      BY <2>9, <3>3, <3>4, <2>a DEF UpsertLatest, Update, InHand, StatusTypeOK
    <3>6. \A t \in StatusTopics \ {j.topic}: latest'[t] = latest[t]
      BY <2>9, <3>4, <2>a DEF UpsertLatest, Update, StatusTypeOK
    <3>7. SettledStatusIsPersisted'
      BY <3>1, <3>2, <3>3, <3>5, <3>6 DEF PageInv, SettledStatusIsPersisted, InHand
    <3>8. \A t \in StatusTopics: latest'[t].at <= clock
      BY <3>3, <3>5, <3>6, <2>b DEF PageInv, InHand
    <3> QED
      BY <3>1, <3>2, <3>7, <3>8 DEF PageInv, Idle
  <2>10. CASE UNCHANGED statusVars
    BY <2>10 DEF statusVars, PageInv, SettledStatusIsPersisted, InHand
  <2>11. ASSUME NEW w \in Workers, RecordEvent(w) \/ UpsertLatest(w)
         PROVE  PageInv'
    BY <2>7, <2>8, <2>9, <2>11 DEF Workers
  <2> QED
    BY <2>1, <2>2, <2>3, <2>4, <2>5, <2>6, <2>10, <2>11, StatusCases
<1> QED
  BY <1>1, <1>2, StatusTypeCorrect, PTL DEF StatusSpec

\* Page and row agree about a status unless its last record or load failed, or
\* the callback is at work on it.
THEOREM SettledAlwaysPersisted == StatusSpec => []SettledStatusIsPersisted
<1>1. PageInv => SettledStatusIsPersisted
  BY DEF PageInv
<1> QED
  BY <1>1, PageInvHolds, PTL

\* No step takes the time of a status back, on the page or in the row.
THEOREM StatusStaysNewest == StatusSpec => StatusNeverGoesBack
<1> DEFINE Newer ==
      \A t \in StatusTopics:
        /\ latest[t].at <= latest'[t].at
        /\ phase' # "down" => memory[t].at <= memory'[t].at
<1>1. StatusTypeOK /\ PageInv /\ [StatusNext]_statusVars => [Newer]_statusVars
  <2> SUFFICES ASSUME StatusTypeOK, PageInv, [StatusNext]_statusVars
               PROVE  Newer
    OBVIOUS
  <2>a. /\ StatusTopics \subseteq Topics /\ "gate_command" \notin StatusTopics
        /\ Callback \in Workers /\ Requests \subseteq Workers
    BY DEF Topics, StatusTopics, Workers
  <2>b. /\ clock \in Nat
        /\ \A t \in StatusTopics: latest[t].at \in Nat /\ memory[t].at \in Nat
    BY <2>a, StatusAssumption DEF StatusTypeOK, Entries
  <2>1. ASSUME \A t \in StatusTopics: latest'[t] = latest[t] /\ memory'[t] = memory[t]
        PROVE  Newer
    BY <2>1, <2>b
  <2>2. CASE StartServer \/ Subscribe \/ UNCHANGED statusVars
    BY <2>1, <2>2 DEF StartServer, Subscribe, SubscribeTo, statusVars
  <2>3. CASE LoadLatest
    BY <2>3, <2>b DEF LoadLatest, PageInv, Unknown
  <2>4. CASE Crash
    BY <2>4, <2>b DEF Crash
  <2>5. ASSUME NEW t \in StatusTopics, NEW s \in Statuses, Receive(t, s)
        PROVE  Newer
    <3>1. clock' = clock + 1 /\ UNCHANGED latest
      BY <2>5 DEF Receive
    <3>2. memory' = [memory EXCEPT ![t] = [payload |-> s, at |-> clock']]
      BY <2>5 DEF Receive
    <3>3. memory'[t].at = clock' /\ \A u \in StatusTopics \ {t}: memory'[u] = memory[u]
      BY <3>2, <2>a DEF StatusTypeOK
    <3>4. \A u \in StatusTopics: memory[u].at <= memory'[u].at
      BY <3>1, <3>3, <2>b DEF PageInv
    <3> QED
      BY <3>1, <3>4, <2>b
  <2>6. ASSUME NEW r \in Requests,
               (\E c \in Commands: Request(r, c)) \/ Publish(r) \/ Stamp(r) \/ SetCommand(r)
        PROVE  Newer
    <3>1. UNCHANGED latest
      BY <2>6 DEF Request, Publish, Stamp, SetCommand
    <3>2. \A t \in StatusTopics: memory'[t] = memory[t]
      BY <2>6, <2>a DEF Request, Publish, Stamp, SetCommand, PageInv, StatusTypeOK
    <3> QED
      BY <2>1, <3>1, <3>2
  <2>7. ASSUME NEW w \in Workers, RecordEvent(w)
        PROVE  Newer
    BY <2>1, <2>7 DEF RecordEvent
  <2>8. ASSUME NEW w \in Workers, UpsertLatest(w)
        PROVE  Newer
    <3>1. UNCHANGED memory
      BY <2>8 DEF UpsertLatest
    <3>2. \A t \in StatusTopics:
            latest'[t] = latest[t] \/ (t = job[w].topic /\ latest'[t] = Logged(w).entry)
      BY <2>8, <2>a DEF UpsertLatest, Update, StatusTypeOK
    <3>3. ASSUME job[w].topic \in StatusTopics
          PROVE  latest[job[w].topic].at <= Logged(w).entry.at
      <4>1. w = Callback
        BY <2>8, <3>3, <2>a DEF UpsertLatest, PageInv, Workers
      <4>2. latest[job[w].topic].at <= job[w].entry.at
        BY <2>8, <4>1 DEF UpsertLatest, PageInv, InHand
      <4> QED
        BY <4>2, LoggedType
    <3> QED
      BY <3>1, <3>2, <3>3, <2>b
  <2> QED
    BY <2>2, <2>3, <2>4, <2>5, <2>6, <2>7, <2>8, StatusCases
<1> QED
  BY <1>1, PageInvHolds, StatusTypeCorrect, PTL DEF StatusSpec, StatusNeverGoesBack

-----------------------------------------------------------------------------
(* The log claims no command that was not sent.                            *)

Log(c) == {e \in events: e.entry.payload = Wire(c)}

\* Requests whose command the broker took and which have still to log it.
Underway(c) ==
  {r \in Requests: job[r].step \in {"stamp", "set", "event"} /\ job[r].entry.payload = c}

\* The callback is at work on statuses, requests on commands.
WorkInv ==
  /\ job[Callback].step \in {"idle", "event", "latest"}
  /\ job[Callback].step # "idle" => job[Callback].entry.payload \in Statuses
  /\ \A r \in Requests: job[r].step # "idle" => job[r].entry.payload \in Commands

\* What is logged and what is still to be logged was taken.
CountInv ==
  \A c \in Commands:
    /\ IsFiniteSet(Log(c)) /\ IsFiniteSet(Underway(c))
    /\ Cardinality(Log(c)) + Cardinality(Underway(c)) <= taken[c]

\* A worker's job is that of the step it took, the others' are as before.
LEMMA WorkStep ==
  ASSUME StatusTypeOK, WorkInv, [StatusNext]_statusVars
  PROVE  WorkInv'
<1>0. /\ job \in [Workers -> Jobs] /\ Callback \in Workers
      /\ Requests \subseteq Workers /\ Callback \notin Requests
  BY StatusAssumption DEF StatusTypeOK, Jobs, JobSteps, Workers
<1>1. CASE StartServer \/ LoadLatest \/ Subscribe \/ UNCHANGED statusVars
  BY <1>1 DEF StartServer, LoadLatest, Subscribe, SubscribeTo, statusVars, WorkInv
<1>2. CASE Crash
  BY <1>0, <1>2 DEF Crash, Idle, WorkInv
<1>3. ASSUME NEW t \in StatusTopics, NEW s \in Statuses, Receive(t, s)
      PROVE  WorkInv'
  BY <1>0, <1>3 DEF Receive, Begin, WorkInv
<1>4. ASSUME NEW r \in Requests, NEW c \in Commands, Request(r, c)
      PROVE  WorkInv'
  BY <1>0, <1>4 DEF Request, Begin, WorkInv
<1>5. ASSUME NEW r \in Requests, Publish(r)
      PROVE  WorkInv'
  BY <1>0, <1>5 DEF Publish, GoTo, EndJob, Idle, WorkInv, Jobs
<1>6. ASSUME NEW r \in Requests, Stamp(r)
      PROVE  WorkInv'
  BY <1>0, <1>6 DEF Stamp, Begin, WorkInv
<1>7. ASSUME NEW r \in Requests, SetCommand(r)
      PROVE  WorkInv'
  BY <1>0, <1>7 DEF SetCommand, GoTo, WorkInv, Jobs
<1>8. ASSUME NEW w \in Workers, RecordEvent(w)
      PROVE  WorkInv'
  BY <1>0, <1>8 DEF RecordEvent, GoTo, EndJob, Idle, WorkInv, Jobs
<1>9. ASSUME NEW w \in Workers, UpsertLatest(w)
      PROVE  WorkInv'
  BY <1>0, <1>9 DEF UpsertLatest, EndJob, Idle, WorkInv, Jobs
<1> QED
  BY <1>1, <1>2, <1>3, <1>4, <1>5, <1>6, <1>7, <1>8, <1>9, StatusCases

\* A step that logs nothing and has nobody begin to.
LEMMA CountKept ==
  ASSUME CountInv, events' = events,
         \A c \in Commands: taken[c] \in Nat /\ taken'[c] \in Nat /\ taken[c] <= taken'[c],
         \A c \in Commands: Underway(c)' \subseteq Underway(c)
  PROVE  CountInv'
<1> SUFFICES ASSUME NEW c \in Commands
             PROVE  /\ IsFiniteSet(Log(c)') /\ IsFiniteSet(Underway(c)')
                    /\ Cardinality(Log(c)') + Cardinality(Underway(c)') <= taken'[c]
  BY DEF CountInv
<1>1. Log(c)' = Log(c)
  BY DEF Log
<1>2. IsFiniteSet(Log(c)) /\ IsFiniteSet(Underway(c))
  BY DEF CountInv
<1>3. IsFiniteSet(Underway(c)') /\ Cardinality(Underway(c)') <= Cardinality(Underway(c))
  BY <1>2, FS_Subset
<1>4. /\ Cardinality(Log(c)) \in Nat /\ Cardinality(Underway(c)) \in Nat
      /\ Cardinality(Underway(c)') \in Nat
  BY <1>2, <1>3, FS_CardinalityType
<1>5. Cardinality(Log(c)) + Cardinality(Underway(c)) <= taken[c]
  BY DEF CountInv
<1> QED
  BY <1>1, <1>2, <1>3, <1>4, <1>5

\* A set grows by at most one with an element.
LEMMA OneMore ==
  ASSUME NEW S, IsFiniteSet(S), NEW x
  PROVE  IsFiniteSet(S \cup {x}) /\ Cardinality(S \cup {x}) <= Cardinality(S) + 1
<1>1. Cardinality(S) \in Nat
  BY FS_CardinalityType
<1>2. /\ IsFiniteSet(S \cup {x})
      /\ \/ Cardinality(S \cup {x}) = Cardinality(S)
         \/ Cardinality(S \cup {x}) = Cardinality(S) + 1
  BY FS_AddElement, Zenon
<1> QED
  BY <1>1, <1>2

\* The broker takes one more command, whose request goes on to log it, or not.
LEMMA CountTaken ==
  ASSUME StatusTypeOK, WorkInv, CountInv, NEW r \in Requests, Publish(r), StatusTypeOK'
  PROVE  CountInv'
<1> DEFINE c0 == job[r].entry.payload
<1>0. /\ job \in [Workers -> Jobs] /\ r \in Workers /\ c0 \in Commands
      /\ \A c \in Commands: taken[c] \in Nat /\ taken'[c] \in Nat
  <2>1. job \in [Workers -> Jobs] /\ r \in Workers
    BY DEF StatusTypeOK, Jobs, JobSteps, Workers
  <2>2. c0 \in Commands
    BY DEF WorkInv, Publish
  <2>3. \A c \in Commands: taken[c] \in Nat /\ taken'[c] \in Nat
    BY StatusAssumption DEF StatusTypeOK
  <2> QED
    BY <2>1, <2>2, <2>3
<1>1. CASE EndJob(r)
  <2>1. \A c \in Commands: taken[c] <= taken'[c]
    BY <1>0, <1>1 DEF Publish, Take, StatusTypeOK
  <2>2. \A c \in Commands: Underway(c)' \subseteq Underway(c)
    BY <1>0, <1>1 DEF EndJob, Idle, Underway
  <2>3. events' = events
    BY DEF Publish
  <2> QED
    BY <1>0, <2>1, <2>2, <2>3, CountKept
<1>2. CASE Take(c0) /\ GoTo(r, "stamp")
  <2> SUFFICES ASSUME NEW c \in Commands
               PROVE  /\ IsFiniteSet(Log(c)') /\ IsFiniteSet(Underway(c)')
                      /\ Cardinality(Log(c)') + Cardinality(Underway(c)') <= taken'[c]
    BY DEF CountInv
  <2>1. Log(c)' = Log(c)
    BY DEF Log, Publish
  <2>2. /\ IsFiniteSet(Log(c)) /\ IsFiniteSet(Underway(c))
        /\ Cardinality(Log(c)) + Cardinality(Underway(c)) <= taken[c]
    BY DEF CountInv
  <2>3. Cardinality(Log(c)) \in Nat /\ Cardinality(Underway(c)) \in Nat
    BY <2>2, FS_CardinalityType
  <2>4. CASE c = c0
    <3>1. Underway(c)' = Underway(c) \cup {r}
      BY <1>0, <1>2, <2>4 DEF GoTo, Underway, Jobs
    <3>2. taken'[c] = taken[c] + 1
      BY <1>0, <1>2, <2>4 DEF Take, StatusTypeOK
    <3>3. IsFiniteSet(Underway(c)') /\ Cardinality(Underway(c)') <= Cardinality(Underway(c)) + 1
      BY <2>2, <3>1, OneMore
    <3>4. Cardinality(Underway(c)') \in Nat
      BY <3>3, FS_CardinalityType
    <3> QED
      BY <1>0, <2>1, <2>2, <2>3, <3>2, <3>3, <3>4
  <2>5. CASE c # c0
    <3>1. Underway(c)' = Underway(c)
      BY <1>0, <1>2, <2>5 DEF GoTo, Underway, Jobs, Publish
    <3>2. taken'[c] = taken[c]
      BY <1>0, <1>2, <2>5 DEF Take, StatusTypeOK
    <3> QED
      BY <2>1, <2>2, <3>1, <3>2
  <2> QED
    BY <2>4, <2>5
<1> QED
  BY <1>1, <1>2, Zenon DEF Publish

\* An entry is logged, or may have been.
LEMMA CountLogged ==
  ASSUME StatusTypeOK, WorkInv, CountInv, NEW w \in Workers, RecordEvent(w)
  PROVE  CountInv'
<1> DEFINE p == job[w].entry.payload
<1>0. /\ job \in [Workers -> Jobs]
      /\ w = Callback \/ w \in Requests
      /\ job[w].step = "event" /\ taken' = taken
      /\ \A c \in Commands: taken[c] \in Nat
  BY StatusAssumption DEF StatusTypeOK, Jobs, JobSteps, Workers, RecordEvent
<1>1. /\ Logged(w).entry.payload = Wire(p)
      /\ events' = events \/ events' = events \cup {Logged(w)}
  BY LoggedType DEF RecordEvent, Insert
<1>2. \A c \in Commands: Underway(c)' \subseteq Underway(c) \ {w}
  <2>1. /\ job'[w].step \in {"latest", "idle"}
        /\ \A r \in Workers \ {w}: job'[r] = job[r]
    BY <1>0 DEF RecordEvent, GoTo, EndJob, Idle, Jobs
  <2>2. Requests \subseteq Workers
    BY DEF Workers
  <2> SUFFICES ASSUME NEW c \in Commands, NEW r \in Requests, r \in Underway(c)'
               PROVE  r \in Underway(c) /\ r # w
    BY DEF Underway
  <2>3. job'[r].step \in {"stamp", "set", "event"} /\ job'[r].entry.payload = c
    BY DEF Underway
  <2>4. r # w
    BY <2>1, <2>3
  <2>5. job'[r] = job[r]
    BY <2>1, <2>2, <2>4
  <2> QED
    BY <2>3, <2>4, <2>5 DEF Underway
<1> SUFFICES ASSUME NEW c \in Commands
             PROVE  /\ IsFiniteSet(Log(c)') /\ IsFiniteSet(Underway(c)')
                    /\ Cardinality(Log(c)') + Cardinality(Underway(c)') <= taken'[c]
  BY DEF CountInv
<1>3. /\ IsFiniteSet(Log(c)) /\ IsFiniteSet(Underway(c))
      /\ Cardinality(Log(c)) + Cardinality(Underway(c)) <= taken[c]
  BY DEF CountInv
<1>4. Cardinality(Log(c)) \in Nat /\ Cardinality(Underway(c)) \in Nat
  BY <1>3, FS_CardinalityType
<1>5. CASE Log(c)' = Log(c)
  <2>1. Underway(c)' \in SUBSET Underway(c)
    BY <1>2
  <2>2. IsFiniteSet(Underway(c)') /\ Cardinality(Underway(c)') <= Cardinality(Underway(c))
    BY <1>3, <2>1, FS_Subset
  <2>3. Cardinality(Underway(c)') \in Nat
    BY <2>2, FS_CardinalityType
  <2> QED
    BY <1>0, <1>3, <1>4, <1>5, <2>2, <2>3
<1>6. CASE w \in Requests /\ p = c
  <2>1. w \in Underway(c)
    BY <1>0, <1>6 DEF Underway
  <2>2. /\ IsFiniteSet(Underway(c) \ {w})
        /\ Cardinality(Underway(c) \ {w}) = Cardinality(Underway(c)) - 1
    BY <1>3, <2>1, FS_RemoveElement
  <2>3. Underway(c)' \in SUBSET (Underway(c) \ {w})
    BY <1>2
  <2>4. IsFiniteSet(Underway(c)') /\ Cardinality(Underway(c)') <= Cardinality(Underway(c)) - 1
    BY <2>2, <2>3, FS_Subset
  <2>5. Log(c)' \in SUBSET (Log(c) \cup {Logged(w)})
    BY <1>1 DEF Log
  <2>6. /\ IsFiniteSet(Log(c) \cup {Logged(w)})
        /\ Cardinality(Log(c) \cup {Logged(w)}) <= Cardinality(Log(c)) + 1
    BY <1>3, OneMore
  <2>7. IsFiniteSet(Log(c)') /\ Cardinality(Log(c)') <= Cardinality(Log(c) \cup {Logged(w)})
    BY <2>5, <2>6, FS_Subset
  <2>8. /\ Cardinality(Log(c)') \in Nat /\ Cardinality(Underway(c)') \in Nat
        /\ Cardinality(Log(c) \cup {Logged(w)}) \in Nat
    BY <2>4, <2>6, <2>7, FS_CardinalityType
  <2> QED
    BY <1>0, <1>3, <1>4, <2>4, <2>6, <2>7, <2>8
<1>7. Wire(p) = Wire(c) => w \in Requests /\ p = c
  <2>1. w = Callback => p \in Statuses
    BY <1>0 DEF WorkInv
  <2>2. w \in Requests => p \in Commands
    BY <1>0 DEF WorkInv
  <2> QED
    BY <1>0, <2>1, <2>2, StatusAssumption
<1>8. Wire(p) # Wire(c) => Log(c)' = Log(c)
  BY <1>1 DEF Log
<1> QED
  BY <1>5, <1>6, <1>7, <1>8

\* Nothing is in the log that the broker did not take, for each command as often.
THEOREM LoggedWereTaken == StatusSpec => []LoggedCommandsWereTaken
<1>1. ASSUME StatusInit
      PROVE  WorkInv /\ CountInv
  <2>1. WorkInv
    BY <1>1 DEF StatusInit, Idle, WorkInv, Workers
  <2>2. ASSUME NEW c \in Commands
        PROVE  Log(c) = {} /\ Underway(c) = {} /\ taken[c] = 0
    BY <1>1 DEF StatusInit, Idle, Log, Underway, Workers
  <2>3. IsFiniteSet({}) /\ Cardinality({}) = 0
    BY FS_EmptySet
  <2> QED
    BY <2>1, <2>2, <2>3 DEF CountInv
<1>2. ASSUME StatusTypeOK, StatusTypeOK', WorkInv, CountInv, [StatusNext]_statusVars
      PROVE  WorkInv' /\ CountInv'
  <2>0. /\ job \in [Workers -> Jobs] /\ Requests \subseteq Workers
        /\ Callback \in Workers /\ Callback \notin Requests
        /\ \A c \in Commands: taken[c] \in Nat
    BY <1>2, StatusAssumption DEF StatusTypeOK, Jobs, JobSteps, Workers
  <2>k. ASSUME events' = events, taken' = taken,
               \A c \in Commands: Underway(c)' \subseteq Underway(c)
        PROVE  CountInv'
    BY <1>2, <2>0, <2>k, CountKept
  <2>1. ASSUME StartServer \/ LoadLatest \/ Subscribe \/ UNCHANGED statusVars
        PROVE  CountInv'
    <3>1. job' = job /\ events' = events /\ taken' = taken
      BY <2>1 DEF StartServer, LoadLatest, Subscribe, SubscribeTo, statusVars
    <3>2. \A c \in Commands: Underway(c)' = Underway(c)
      BY <3>1 DEF Underway
    <3> QED
      BY <2>k, <3>1, <3>2
  <2>2. ASSUME Crash
        PROVE  CountInv'
    <3>1. \A c \in Commands: Underway(c)' = {}
      BY <2>0, <2>2 DEF Crash, Idle, Underway
    <3> QED
      BY <2>2, <2>k, <3>1 DEF Crash
  <2>3. ASSUME NEW t \in StatusTopics, NEW s \in Statuses, Receive(t, s)
        PROVE  CountInv'
    <3>1. \A c \in Commands: Underway(c)' \subseteq Underway(c)
      BY <2>0, <2>3 DEF Receive, Begin, Underway
    <3> QED
      BY <2>3, <2>k, <3>1 DEF Receive
  <2>4. ASSUME NEW r \in Requests, NEW d \in Commands, Request(r, d)
        PROVE  CountInv'
    <3>1. \A c \in Commands: Underway(c)' \subseteq Underway(c)
      BY <2>0, <2>4 DEF Request, Begin, Underway
    <3> QED
      BY <2>4, <2>k, <3>1 DEF Request
  <2>5. ASSUME NEW r \in Requests, Publish(r)
        PROVE  CountInv'
    BY <1>2, <2>5, CountTaken
  <2>6. ASSUME NEW r \in Requests, Stamp(r)
        PROVE  CountInv'
    <3>1. \A c \in Commands: Underway(c)' \subseteq Underway(c)
      BY <2>0, <2>6 DEF Stamp, Begin, Underway
    <3> QED
      BY <2>6, <2>k, <3>1 DEF Stamp
  <2>7. ASSUME NEW r \in Requests, SetCommand(r)
        PROVE  CountInv'
    <3>1. \A c \in Commands: Underway(c)' \subseteq Underway(c)
      BY <2>0, <2>7 DEF SetCommand, GoTo, Underway, Jobs
    <3> QED
      BY <2>7, <2>k, <3>1 DEF SetCommand
  <2>8. ASSUME NEW w \in Workers, RecordEvent(w)
        PROVE  CountInv'
    BY <1>2, <2>8, CountLogged
  <2>9. ASSUME NEW w \in Workers, UpsertLatest(w)
        PROVE  CountInv'
    <3>1. \A c \in Commands: Underway(c)' \subseteq Underway(c)
      BY <2>0, <2>9 DEF UpsertLatest, EndJob, Idle, Underway
    <3> QED
      BY <2>9, <2>k, <3>1 DEF UpsertLatest
  <2>10. CountInv'
    BY <1>2, <2>1, <2>2, <2>3, <2>4, <2>5, <2>6, <2>7, <2>8, <2>9, StatusCases
  <2> QED
    BY <1>2, <2>10, WorkStep
<1>3. ASSUME StatusTypeOK, CountInv
      PROVE  LoggedCommandsWereTaken
  <2> SUFFICES ASSUME NEW c \in Commands
               PROVE  Cardinality(Log(c)) <= taken[c]
    BY DEF LoggedCommandsWereTaken, Log
  <2>1. /\ IsFiniteSet(Log(c)) /\ IsFiniteSet(Underway(c))
        /\ Cardinality(Log(c)) + Cardinality(Underway(c)) <= taken[c]
    BY <1>3 DEF CountInv
  <2>2. Cardinality(Log(c)) \in Nat /\ Cardinality(Underway(c)) \in Nat
    BY <2>1, FS_CardinalityType
  <2>3. taken[c] \in Nat
    BY <1>3, StatusAssumption DEF StatusTypeOK
  <2> QED
    BY <2>1, <2>2, <2>3
<1> QED
  BY <1>1, <1>2, <1>3, StatusTypeCorrect, PTL DEF StatusSpec

=============================================================================
