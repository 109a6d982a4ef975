--------------------------- MODULE CredentialFeed ---------------------------
(***************************************************************************)
(* How the credential file on the Windows machine gets into the Postgres   *)
(* table: run() of pigate/cmd/credentialserver/main.go, the watcher of     *)
(* pigate/pkg/credentialparser/filewatcher.go and HandleFile of paser.go.  *)
(*                                                                         *)
(* HandleFile is called once at start and then in a goroutine per event of *)
(* the watcher, so that several calls read, delete and upsert at the same  *)
(* time, each with the content the file had when it was parsed.  Nothing   *)
(* of a call is atomic: the upserts do not use the transaction that is     *)
(* opened for them.                                                        *)
(*                                                                         *)
(* A file is what ParseCredentialFile makes of it: a mark (locked out or   *)
(* not) per code it lists.  One that is empty, cut short or without its    *)
(* columns lists fewer codes, or none, and that is no error.               *)
(***************************************************************************)
EXTENDS Naturals

CONSTANTS
  Codes,       \* codes in the file or in the table
  Marks,       \* what the file may say of a code
  Handlers,    \* identities of the calls of HandleFile; the model's bound on
               \* how many are at work
  MaxEvents    \* bound: events of the watcher that wait

Absent == "absent"   \* no row, or not listed
Manual == "manual"   \* a row that is not from the feed (AutoUpdate is false)

ASSUME FeedAssumption ==
  /\ Marks \cap {Absent, Manual} = {}
  /\ MaxEvents \in Nat

VARIABLES
  file,        \* file[c]: the mark of code c in the file, or Absent
  table,       \* table[c]: the row of code c in Postgres: a mark, if the row is
               \* from the feed, or Manual, or Absent
  phase,       \* how far the service has come
  events,      \* events not yet taken by the watcher
  step,        \* step[h]: what call h is about to do, or "idle"
  content,     \* content[h]: the file as h has parsed it
  doomed,      \* doomed[h]: the codes h will delete
  toPut,       \* toPut[h]: the codes h has still to upsert
  \* History, read by properties only:
  undisputed,  \* undisputed[h]: h has seen the whole table and has the content
               \* of the file, and nobody was at work with another one
  mirrored,    \* an undisputed call has succeeded since the last change of the
               \* file, or of the table by somebody else
  fed          \* codes listed or in rows of the feed since the oldest call
               \* that is at work began

calls == <<step, content, doomed, toPut>>
feedVars == <<file, table, phase, events, calls, undisputed, mirrored, fed>>

Files == [Codes -> Marks \cup {Absent}]
Nothing == [c \in Codes |-> Absent]
Listed(f) == {c \in Codes: f[c] # Absent}
FeedRows(t) == {c \in Codes: t[c] \in Marks}

FeedTypeOK ==
  /\ file \in Files
  /\ table \in [Codes -> Marks \cup {Absent, Manual}]
  /\ phase \in {"down", "starting", "watching", "blind", "stopping"}
  /\ events \in 0..MaxEvents
  /\ step \in [Handlers -> {"idle", "parse", "load", "delete", "put", "notify"}]
  /\ content \in [Handlers -> Files]
  /\ doomed \in [Handlers -> SUBSET Codes]
  /\ toPut \in [Handlers -> SUBSET Codes]
  /\ undisputed \in [Handlers -> BOOLEAN]
  /\ mirrored \in BOOLEAN
  /\ fed \subseteq Codes

FeedInit ==
  /\ file \in Files
  /\ table \in [Codes -> {Absent, Manual}]
  /\ phase = "down"
  /\ events = 0
  /\ step = [h \in Handlers |-> "idle"]
  /\ content = [h \in Handlers |-> Nothing]
  /\ doomed = [h \in Handlers |-> {}]
  /\ toPut = [h \in Handlers |-> {}]
  /\ undisputed = [h \in Handlers |-> FALSE]
  /\ mirrored = FALSE
  /\ fed = {}

NobodyAtWork(s) == \A h \in Handlers: s[h] = "idle"

NoteFed ==
  fed' = IF NobodyAtWork(step') THEN {} ELSE fed \cup Listed(file') \cup FeedRows(table')

\* The file or the table is changed from outside.
NoteOutside ==
  /\ undisputed' = [h \in Handlers |-> FALSE]
  /\ mirrored' = FALSE
  /\ NoteFed

-----------------------------------------------------------------------------
(* The world outside.                                                      *)

\* The file is written, or a part of it.  The watcher gets an event, or two
\* (Create and Write), or, when its buffer overflows, none.
FileChanges(f) ==
  /\ f # file
  /\ file' = f
  /\ \E n \in IF phase \in {"watching", "stopping"} THEN 0..2 ELSE {0}:
       events' = IF events + n <= MaxEvents THEN events + n ELSE MaxEvents
  /\ UNCHANGED <<table, phase, calls>>
  /\ NoteOutside

\* Somebody adds a row that is not from the feed, or takes it away.
RowByHand(c) ==
  /\ table[c] \in {Absent, Manual}
  /\ table' = [table EXCEPT ![c] = IF @ = Manual THEN Absent ELSE Manual]
  /\ UNCHANGED <<file, phase, events, calls>>
  /\ NoteOutside

-----------------------------------------------------------------------------
(* The service.                                                            *)

Begin(h) == step[h] = "idle" /\ step' = [step EXCEPT ![h] = "parse"]

\* run() has connected to the broker, and handles the file that is there.
Start ==
  /\ phase = "down"
  /\ phase' = "starting"
  /\ (\E h \in Handlers: Begin(h)) \/ UNCHANGED step
  /\ UNCHANGED <<file, table, events, content, doomed, toPut, undisputed, mirrored>>
  /\ NoteFed

\* Only then is the directory watched, or found not to exist.
Watch ==
  /\ phase = "starting"
  /\ NobodyAtWork(step)
  /\ phase' \in {"watching", "blind"}
  /\ UNCHANGED <<file, table, events, calls, undisputed, mirrored, fed>>

\* Mutant of TakeEvent: a goroutine is started when there is no event.
TakeEventUnasked(h) ==
  /\ phase \in {"watching", "stopping"}
  /\ events' = events - 1
  /\ Begin(h)
  /\ UNCHANGED <<file, table, phase, content, doomed, toPut, undisputed, mirrored>>
  /\ NoteFed

\* The watcher takes an event and starts a goroutine.
TakeEvent(h) ==
  /\ phase \in {"watching", "stopping"}
  /\ events > 0
  /\ events' = events - 1
  /\ Begin(h)
  /\ UNCHANGED <<file, table, phase, content, doomed, toPut, undisputed, mirrored>>
  /\ NoteFed

\* The service is asked to stop: run() returns, and Stop waits for a watcher
\* that does not know, and goes on.
Stop ==
  /\ phase = "watching"
  /\ phase' = "stopping"
  /\ UNCHANGED <<file, table, events, calls, undisputed, mirrored, fed>>

\* The process is killed, or ends in log.Fatalf.
Crash ==
  /\ phase # "down"
  /\ phase' = "down"
  /\ events' = 0
  /\ step' = [h \in Handlers |-> "idle"]
  /\ content' = [h \in Handlers |-> Nothing]
  /\ doomed' = [h \in Handlers |-> {}]
  /\ toPut' = [h \in Handlers |-> {}]
  /\ undisputed' = [h \in Handlers |-> FALSE]
  /\ UNCHANGED <<file, table, mirrored>>
  /\ NoteFed

-----------------------------------------------------------------------------
(* HandleFile.                                                             *)

Goto(h, s) == step' = [step EXCEPT ![h] = s]

AtWork == {h \in Handlers: step[h] \in {"load", "delete", "put"}}

\* ParseCredentialFile.
Parse(h) ==
  /\ step[h] = "parse"
  /\ content' = [content EXCEPT ![h] = file]
  /\ Goto(h, "load")
  /\ UNCHANGED <<file, table, phase, events, doomed, toPut, undisputed, mirrored>>
  /\ NoteFed

\* Mutant of Doomed: rows that are not from the feed are not spared.
DoomedByHand(h, seen) == {c \in seen: table[c] # Absent} \ Listed(content[h])

\* Mutant of Doomed: nothing is deleted.
DoomedNone(h, seen) == {}

\* The delete list, when seen is what the query returns: rows of the feed that
\* the file does not list.
Doomed(h, seen) == (seen \cap FeedRows(table)) \ Listed(content[h])

\* GetCredentials, all of the rows, or, when the query was cut short, some.
Load(h) ==
  \E seen \in SUBSET Codes:
    /\ step[h] = "load"
    /\ doomed' = [doomed EXCEPT ![h] = Doomed(h, seen)]
    /\ toPut' = [toPut EXCEPT ![h] = Listed(content[h])]
    /\ Goto(h, "delete")
    /\ undisputed' = [undisputed EXCEPT
         ![h] = FeedRows(table) \subseteq seen /\ \A g \in AtWork: content[g] = file]
    /\ UNCHANGED <<file, table, phase, events, content, mirrored, fed>>

\* DeleteCredentials: one statement, which does not look at AutoUpdate again.
Delete(h) ==
  /\ step[h] = "delete"
  /\ table' = [c \in Codes |-> IF c \in doomed[h] THEN Absent ELSE table[c]]
  /\ doomed' = [doomed EXCEPT ![h] = {}]
  /\ Goto(h, "put")
  /\ UNCHANGED <<file, phase, events, content, toPut, undisputed, mirrored>>
  /\ NoteFed

\* PutCredential of one row, for itself: the transaction of PutCredentials is
\* on another connection.
Put(h, c) ==
  /\ step[h] = "put"
  /\ c \in toPut[h]
  /\ table' = [table EXCEPT ![c] = content[h][c]]
  /\ toPut' = [toPut EXCEPT ![h] = @ \ {c}]
  /\ UNCHANGED <<file, phase, events, step, content, doomed, undisputed, mirrored>>
  /\ NoteFed

PutsDone(h) ==
  /\ step[h] = "put"
  /\ toPut[h] = {}
  /\ Goto(h, "notify")
  /\ mirrored' = (mirrored \/ undisputed[h])
  /\ UNCHANGED <<file, table, phase, events, content, doomed, toPut, undisputed, fed>>

\* The call is over and forgotten, with or without its steps done.
Forget(h) ==
  /\ Goto(h, "idle")
  /\ content' = [content EXCEPT ![h] = Nothing]
  /\ doomed' = [doomed EXCEPT ![h] = {}]
  /\ toPut' = [toPut EXCEPT ![h] = {}]
  /\ undisputed' = [undisputed EXCEPT ![h] = FALSE]
  /\ UNCHANGED <<file, table, phase, events, mirrored>>
  /\ NoteFed

\* NotifyNewCredentials, whose error nobody looks at.
Notify(h) == step[h] = "notify" /\ Forget(h)

\* A step fails, or the 30 s of the call are over: HandleFile returns the error,
\* which is logged, with what it did so far done.
Fails(h) == step[h] \in {"parse", "load", "delete", "put"} /\ Forget(h)

HandleFile(h) ==
  \/ Parse(h) \/ Load(h) \/ Delete(h)
  \/ \E c \in Codes: Put(h, c)
  \/ PutsDone(h) \/ Notify(h) \/ Fails(h)

-----------------------------------------------------------------------------
FeedNext ==
  \/ \E f \in Files: FileChanges(f)
  \/ \E c \in Codes: RowByHand(c)
  \/ Start \/ Watch \/ Stop \/ Crash
  \/ \E h \in Handlers: TakeEvent(h)
  \/ \E h \in Handlers: HandleFile(h)

FeedSpec == FeedInit /\ [][FeedNext]_feedVars

-----------------------------------------------------------------------------
(* Properties.                                                             *)

\* Once a call has been through all its steps with the present content, and
\* nobody was at work with an older one, the rows of the feed are what the file
\* lists, and remain so: whatever crashed calls had left half done, and however
\* many calls repeat it.
UndisputedFileWins ==
  mirrored => /\ \A c \in Listed(file): table[c] = file[c]
              /\ FeedRows(table) \subseteq Listed(file)

\* A row that is not from the feed is taken away or taken over only when its
\* code was listed, or was in a row of the feed, while a call was at work.
ManualRowsStay ==
  [][(\E h \in Handlers: step'[h] # step[h] \/ toPut'[h] # toPut[h]) =>
       \A c \in Codes \ fed: table[c] = Manual => table'[c] = Manual]_feedVars

=============================================================================
