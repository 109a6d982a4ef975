--------------------------- MODULE CredentialSync ---------------------------
(***************************************************************************)
(* How the local SQLite tables of the Pi follow the Postgres tables of the *)
(* control plane: SyncCredentials, SyncAccessTimes and the update callback *)
(* of pigate/pkg/database/updater.go, run by main() at start, by the       *)
(* goroutine with the 24 h ticker, and by the callback of the credentials  *)
(* topic (pigate/cmd/gatecontroller/main.go).                              *)
(*                                                                         *)
(* A sync reads a snapshot of a remote table and upserts it locally later; *)
(* the ticker and the callback may do so at the same time.  Errors are     *)
(* logged, and the sync goes on.  The content of a row is abstracted to    *)
(* the write that made it: remote writes are numbered, 0 means no row.     *)
(***************************************************************************)
EXTENDS Integers, FiniteSets

CONSTANTS
  Codes,           \* rows of the credentials table
  Groups,          \* rows of the access_times table
  MaxWrites,       \* bound: writes to the remote tables
  PoolBounded,     \* does Postgres refuse connections beyond a limit?
  MaxConnections   \* that limit, for the connections of this process

ASSUME SyncAssumption ==
  /\ Codes \cap Groups = {}
  /\ MaxWrites \in Nat
  /\ PoolBounded \in BOOLEAN
  /\ MaxConnections \in Nat

VARIABLES
  remote,    \* remote[r]: the write that made row r in Postgres, or 0
  local,     \* local[r]: the write whose row r SQLite holds, or 0
  writes,    \* remote writes so far
  notified,  \* an update notification waits for the callback
  pc,        \* pc[p]: what syncer p is about to do
  snapshot,  \* snapshot[p]: the rows p has fetched and not yet stored
  conns,     \* connections to Postgres that were opened; none is ever closed
  overtaken  \* overtaken[p]: rows that another syncer has stored since p fetched
             \* (history, read by properties only)

syncVars == <<remote, local, writes, notified, pc, snapshot, conns, overtaken>>

Rows == Codes \cup Groups
Syncers == {"main", "ticker", "callback"}
Empty == [r \in Rows |-> 0]
NoneOvertaken == [p \in Syncers |-> {}]

SyncTypeOK ==
  /\ remote \in [Rows -> 0..MaxWrites]
  /\ local \in [Rows -> 0..MaxWrites]
  /\ writes \in 0..MaxWrites
  /\ notified \in BOOLEAN
  /\ pc \in [Syncers -> {"waits", "fetchCodes", "storeCodes", "fetchTimes", "storeTimes"}]
  /\ snapshot \in [Syncers -> [Rows -> 0..MaxWrites]]
  /\ conns \in 0..MaxConnections
  /\ overtaken \in [Syncers -> SUBSET Rows]

\* The process starts with the sync of main().
Starting == [p \in Syncers |-> IF p = "main" THEN "fetchCodes" ELSE "waits"]

SyncInit ==
  /\ remote = Empty
  /\ local = Empty
  /\ writes = 0
  /\ notified = FALSE
  /\ pc = Starting
  /\ snapshot = [p \in Syncers |-> Empty]
  /\ conns = 0
  /\ overtaken = NoneOvertaken

-----------------------------------------------------------------------------
(* The control plane.                                                      *)

\* Somebody writes a remote row, or deletes it.
RemoteWrite(r) ==
  /\ writes < MaxWrites
  /\ writes' = writes + 1
  /\ remote' \in {[remote EXCEPT ![r] = writes + 1], [remote EXCEPT ![r] = 0]}
  /\ UNCHANGED <<local, notified, pc, snapshot, conns, overtaken>>

\* The broker has an update notification for the Pi, a new one or, since the
\* message is retained, an old one.
Notification ==
  /\ ~ notified
  /\ notified' = TRUE
  /\ UNCHANGED <<remote, local, writes, pc, snapshot, conns, overtaken>>

-----------------------------------------------------------------------------
(* Syncing.                                                                *)

Goto(p, step) == pc' = [pc EXCEPT ![p] = step]

\* Mutant of MainIsDone: the sync of main() runs beside the others.
MainIsNotWaitedFor == TRUE

\* The ticker goroutine is started, and the topic subscribed, after main's sync.
MainIsDone == pc["main"] = "waits"

Ticks ==
  /\ MainIsDone
  /\ pc["ticker"] = "waits"
  /\ Goto("ticker", "fetchCodes")
  /\ UNCHANGED <<remote, local, writes, notified, snapshot, conns, overtaken>>

\* HandleUpdateNotification; the MQTT library runs one callback at a time.
Callback ==
  /\ MainIsDone
  /\ notified
  /\ pc["callback"] = "waits"
  /\ notified' = FALSE
  /\ Goto("callback", "fetchCodes")
  /\ UNCHANGED <<remote, local, writes, snapshot, conns, overtaken>>

\* NewPostgresAccessManager: every call opens a pool of its own, and none of
\* them is closed.  Without a bound the connections are not counted.
Connect ==
  IF PoolBounded
  THEN conns < MaxConnections /\ conns' = conns + 1
  ELSE UNCHANGED conns

\* Mutant of Fetch: the query may be answered by a replica that is a write behind.
FetchLagging(p, T) ==
  \E got \in SUBSET T, lag \in 0..1:
    snapshot' = [snapshot EXCEPT ![p] =
      [r \in Rows |-> IF r \in got /\ remote[r] > lag THEN remote[r] - lag ELSE 0]]

\* The rows of T that a SELECT of p returns.  rows.Err() is not looked at: a
\* query cut short looks like a smaller table.
Fetch(p, T) ==
  \E got \in SUBSET T:
    snapshot' = [snapshot EXCEPT ![p] = [r \in Rows |-> IF r \in got THEN remote[r] ELSE 0]]

\* Mutant of Upserted: the local tables are emptied first.
Refilled(p, T) == [r \in T |-> snapshot[p][r]]

\* Mutant of Upserted: a row that is there already is left as it is.
InsertedOnly(p, T) ==
  [r \in Rows |-> IF r \in T /\ local[r] = 0 THEN snapshot[p][r] ELSE local[r]]

\* What local rows become when the fetched rows of T are upserted.
Upserted(p, T) ==
  [r \in Rows |-> IF r \in T /\ snapshot[p][r] # 0 THEN snapshot[p][r] ELSE local[r]]

\* The others may hold older rows than those of T that p stores.
Overtake(p, T) ==
  overtaken' = [q \in Syncers |->
    IF q = p THEN overtaken[q] ELSE overtaken[q] \cup {r \in T: snapshot[p][r] # 0}]

CatchUp(p) == overtaken' = [overtaken EXCEPT ![p] = {}]

Forget(p) == snapshot' = [snapshot EXCEPT ![p] = Empty]

\* SyncCredentials reads the remote credentials, all of them or not.
FetchCodes(p) ==
  /\ pc[p] = "fetchCodes"
  /\ Connect
  /\ Fetch(p, Codes)
  /\ Goto(p, "storeCodes")
  /\ CatchUp(p)
  /\ UNCHANGED <<remote, local, writes, notified>>

\* Postgres cannot be reached, or refuses, or fails after it was connected to:
\* SyncCredentials returns the error, the access times are synchronised next.
FetchCodesFails(p) ==
  /\ pc[p] = "fetchCodes"
  /\ Connect \/ UNCHANGED conns
  /\ Goto(p, "fetchTimes")
  /\ UNCHANGED <<remote, local, writes, notified, snapshot, overtaken>>

\* PutCredentials of SQLite: one transaction.
StoreCodes(p) ==
  /\ pc[p] = "storeCodes"
  /\ local' = Upserted(p, Codes)
  /\ Goto(p, "fetchTimes")
  /\ Forget(p)
  /\ Overtake(p, Codes)
  /\ UNCHANGED <<remote, writes, notified, conns>>

\* Mutant of StoreCodesFails: what INSERT OR REPLACE had taken away is not
\* brought back.
StoreCodesTorn(p) ==
  /\ pc[p] = "storeCodes"
  /\ local' = [r \in Rows |-> IF r \in Codes /\ snapshot[p][r] # 0 THEN 0 ELSE local[r]]
  /\ Goto(p, "fetchTimes")
  /\ Forget(p)
  /\ Overtake(p, Codes)
  /\ UNCHANGED <<remote, writes, notified, conns>>

\* The transaction is rolled back, and SyncCredentials returns no error.
StoreCodesFails(p) ==
  /\ pc[p] = "storeCodes"
  /\ Goto(p, "fetchTimes")
  /\ Forget(p)
  /\ UNCHANGED <<remote, local, writes, notified, conns, overtaken>>

FetchTimes(p) ==
  /\ pc[p] = "fetchTimes"
  /\ Connect
  /\ Fetch(p, Groups)
  /\ Goto(p, "storeTimes")
  /\ CatchUp(p)
  /\ UNCHANGED <<remote, local, writes, notified>>

FetchTimesFails(p) ==
  /\ pc[p] = "fetchTimes"
  /\ Connect \/ UNCHANGED conns
  /\ Goto(p, "waits")
  /\ UNCHANGED <<remote, local, writes, notified, snapshot, overtaken>>

\* PutAccessTime, row by row: each is stored, or its error is logged.
StoreTime(p, g) ==
  /\ pc[p] = "storeTimes"
  /\ snapshot[p][g] # 0
  /\ local' = Upserted(p, {g})
  /\ snapshot' = [snapshot EXCEPT ![p][g] = 0]
  /\ Overtake(p, {g})
  /\ UNCHANGED <<remote, writes, notified, pc, conns>>

StoreTimeFails(p, g) ==
  /\ pc[p] = "storeTimes"
  /\ snapshot[p][g] # 0
  /\ snapshot' = [snapshot EXCEPT ![p][g] = 0]
  /\ UNCHANGED <<remote, local, writes, notified, pc, conns, overtaken>>

TimesStored(p) ==
  /\ pc[p] = "storeTimes"
  /\ snapshot[p] = Empty
  /\ Goto(p, "waits")
  /\ UNCHANGED <<remote, local, writes, notified, snapshot, conns, overtaken>>

\* The process ends and is started again: the SQLite file is still there, the
\* connections are gone, and the retained notification comes again, or not.
Restart ==
  /\ pc' = Starting
  /\ snapshot' = [p \in Syncers |-> Empty]
  /\ conns' = 0
  /\ notified' \in {notified, TRUE}
  /\ overtaken' = NoneOvertaken
  /\ UNCHANGED <<remote, local, writes>>

-----------------------------------------------------------------------------
SyncStep(p) ==
  \/ FetchCodes(p) \/ FetchCodesFails(p)
  \/ StoreCodes(p) \/ StoreCodesFails(p)
  \/ FetchTimes(p) \/ FetchTimesFails(p)
  \/ \E g \in Groups: StoreTime(p, g) \/ StoreTimeFails(p, g)
  \/ TimesStored(p)

SyncNext ==
  \/ \E r \in Rows: RemoteWrite(r)
  \/ Notification
  \/ Ticks
  \/ Callback
  \/ \E p \in Syncers: SyncStep(p)
  \/ Restart

FreshCodes(p, c) == FetchCodes(p) /\ snapshot'[p][c] = remote[c]
FreshTimes(p, g) == FetchTimes(p) /\ snapshot'[p][g] = remote[g]

\* The ticker ticks and syncs are not stuck: every query has a timeout.  What
\* is tried again and again works out at times, for each row: it is fetched,
\* and when it was fetched, it is stored.  Nothing says that a particular sync
\* succeeds, that a notification arrives, or that the process goes on running.
SyncFairness ==
  /\ WF_syncVars(Ticks)
  /\ \A p \in Syncers: WF_syncVars(SyncStep(p))
  /\ \A c \in Codes:
       /\ SF_syncVars(\E p \in Syncers: FreshCodes(p, c))
       /\ SF_syncVars(\E p \in Syncers: StoreCodes(p) /\ snapshot[p][c] = remote[c])
  /\ \A g \in Groups:
       /\ SF_syncVars(\E p \in Syncers: FreshTimes(p, g))
       /\ SF_syncVars(\E p \in Syncers: StoreTime(p, g) /\ snapshot[p][g] = remote[g])

SyncSpec == SyncInit /\ [][SyncNext]_syncVars /\ SyncFairness

-----------------------------------------------------------------------------
(* Properties.                                                             *)

\* The ticker and the callback may synchronise at the same time.  A row goes back
\* to an older version only when one of them has been overtaken: another sync
\* has stored this row since it fetched the version that it stores.
OnlyOvertakenGoesBack ==
  [][\A r \in Rows: local'[r] \in 1..local[r] - 1
       => \E p \in {"ticker", "callback"}:
            r \in overtaken[p] /\ local'[r] = snapshot[p][r]]_syncVars

\* The sync at start is alone (main() starts the ticker and subscribes after
\* it), so that it takes no row back to an older one; the ticker and the
\* callback may do that to each other.
StartSyncNeverGoesBack ==
  [][pc["main"] # "waits" => \A r \in Rows: local'[r] >= local[r]]_syncVars

\* Row r is at the Pi as it is in Postgres, and no sync holds an older one.
InStep(r) ==
  /\ local[r] = remote[r]
  /\ \A p \in Syncers: snapshot[p][r] \in {0, remote[r]}

\* Whatever syncs overlap, fail, are cut short or end with the process: a row
\* that is in step stays so until it is written in Postgres again.
StaysInStep ==
  [][\A r \in Rows: InStep(r) /\ remote'[r] = remote[r] => InStep(r)']_syncVars

\* When the remote tables are left alone, every row they have gets to the Pi
\* and stays, although the ticker and the callback may store old snapshots
\* over newer rows, syncs fail, and notifications are lost.
Converges == <>[](\A r \in Rows: remote[r] # 0 => local[r] = remote[r])

\* The README: "PostgreSQL is the durable source of truth for credentials": a
\* code that was deleted there stops being known at the gate in the end.
DeletedCodeGoes == <>[](\A c \in Codes: remote[c] = 0 => local[c] = 0)

\* The README: "On startup, every 24 hours, and when it receives a credential
\* update notification over MQTT, it syncs from Postgres": there is always
\* another sync that gets its rows, when Postgres does not stay unreachable.
SyncsAgain == []<>(\E p \in Syncers: pc[p] = "storeCodes")

=============================================================================
