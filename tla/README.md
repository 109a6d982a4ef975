# PiGate: models, checks and proofs

PiGate opens a gate. A Raspberry Pi reads a keypad, checks the code against a
local SQLite database and drives a relay; a credential server on the office
machine keeps a Postgres database in step with a credential file; a status
server in the cloud shows what the gate does and sends commands; MQTT connects
them. This directory holds TLA+ models of these programs, the TLC
configurations that check them, and proofs for TLAPS. Source paths below are
relative to `src/pigate/`.

## 1. The system

| part | state it keeps | operations | talks to |
|---|---|---|---|
| `GateController` (`pkg/gate/gate.go`) | `state`, the two pins, one sleeping goroutine per opening, one publishing goroutine per change | `Open`, `tempOpen`, `lockOpen`, `Close`, `CommandHandler`, `SetStatusNotifier` | keypad reader and MQTT callback call it; it reads SQLite and calls the MQTT client |
| gatecontroller process (`cmd/gatecontroller/main.go`) | how far `main` has booted, the goroutine with the 24 h ticker | boot, fatal exit, restart by the host | creates all parts of the Pi |
| access check (`gate.go`, `ValidateCredential`, `isLockCode`, `isTimeOfDayInRange`) | none; three queries per code | one decision per code | SQLite, which the syncs write meanwhile |
| `KeypadReader` (`pkg/gate/keypad.go`) | channel of bits, half a key, half a code, two timers | two edge handlers and the loop `run` | calls `Open` from inside its loop |
| sync (`pkg/database/updater.go`) | none between syncs; a fetched snapshot during one | `SyncCredentials`, `SyncAccessTimes`, the notification callback | Postgres to SQLite |
| SQLite repository (`pkg/database/sqlite_repository.go`) | tables `credentials`, `access_times`, `gate_logs` | put, get, delete, list | |
| Postgres repository (`pkg/database/postgresql_repository.go`) | the same tables, remote; a connection pool per call of the constructor | put, get, delete, list | |
| MQTT client (`pkg/messenger/messanger.go`) | connection, handlers, messages not yet acknowledged; at the broker a session with subscriptions and what is kept for them | connect, reconnect, publish and wait 10 s, subscribe, callbacks one at a time | all three programs |
| credential server (`cmd/credentialserver`, `pkg/credentialparser`) | the watcher's events, a goroutine per event | parse the file, read, delete, upsert, notify | Postgres, MQTT |
| status server (`cmd/statusserver`) | what the page shows, a row and a log in Postgres | load, two callbacks, `POST /api/command` | Postgres, MQTT, browsers |
| access log, DynamoDB repository, configuration, web page, stubs for other platforms, compose files | | not modelled, see section 7 | |

Where it is hard, and what makes each part correct:

* **Gate.** No sleeper is ever cancelled, so sleepers of earlier openings wake
  up in the middle of later ones. Correct: the pins show the state, every
  opening ends, a gate that is locked open stays so until it is closed.
* **Publication.** One goroutine per change and no order among them; what is not
  acknowledged when the link is lost is sent again, in any order; the broker
  retains whichever is last; a message may be lost with the process. Correct:
  once things are quiet the retained status is the state. The code does not give
  that (`device_status`); what it gives is that no status from before the last
  quiet moment comes back.
* **Boot and end.** The keypad is live before `main` has connected, and
  `log.Fatalf` skips the deferred `Close`. Correct: no relay stays energised
  for ever, and no process works with pins it has not set.
* **Command path.** The broker keeps commands over lost links and restarts and
  sends them again; handlers live in the process, subscriptions at the broker;
  a command waits behind a notification whose callback synchronises. Correct: no
  command vanishes while somebody keeps it, one that was acknowledged is over,
  and the newest has the last word.
* **Access check.** Three queries outside any transaction. Correct: the
  decision is that of one look at the tables if nobody writes in between, and
  is never more generous than some state of the tables during the call.
* **Keypad.** Two handlers that can overtake each other, a channel that drops,
  timers that go on while the gate is being called. Correct: keys are read as
  typed, handed over once and in the end, and a lost pulse does not shift the
  keys of everybody after.
* **Sync.** Ticker and callback overlap, a snapshot is stored late, every step
  may fail. Correct: a row goes back to an older version only where two syncs
  overlap, and the Pi gets to the remote contents.
* **Credential feed.** A goroutine per event, each with the file as it was then;
  delete, then upsert, with no transaction that holds. Correct: the file wins
  in the end, and rows entered by hand stay.
* **Status page.** Callback, requests and failing statements. Correct: memory,
  row and log agree.

The hazards, each at its line with the properties that cover it, are in
`PROJECT.json`.

## 2. The modules

Each module has its state, `Init`, one action per operation, and properties.
The names are those of the source where TLA+ allows it. Operators called
"Mutant of X" are slips in the code that a property must catch, and are used by
nothing else.

| module | models | how it corresponds |
|---|---|---|
| `GateController` | `gate.go` | `state`, `relay`, `led` are the fields of the struct. The mutex makes every method one action. `left[g]` is the rest of the `time.Sleep` of goroutine `g`; `AutoClose(g)` is what follows it. `notices[s]` counts goroutines that have still to publish `s`. |
| `GateContract` | nothing in the code: what the gate promises to whoever stands before it | `GateController` implements it (`KeepsContract`): an opening is `Duration` minus `openFor` |
| `GateDevice` | `main.go` of the gatecontroller, the pins over restarts, the broker's retained status | `EXTENDS GateController`; `pc` is how far `main` is; `outbox` is the set of statuses of which the MQTT library keeps a message, without an order: the client sets no store, and the default one is a map, sent again in any order after a lost link; every action is one of the gate's or of `main` |
| `TimeOfDay` | `isTimeOfDayInRange` | a pure operator, which `AccessControl` uses |
| `AccessControl` | `Open` down to its verdict, with the tables it reads | one action per query; `PutCredentials` and `PutAccessTime` are writes of a sync in between. Its `verdict` is the argument of `GateController!Open` |
| `KeypadReader` | `keypad.go` | `bitCh`, `keyBits`, `keys`, the timers and the call in progress; one action per case of the `select`, per edge handler and per timer. `typed`, `read`, `handed`, `intact` and `late` are history |
| `KeypadContract` | nothing in the code: what the reader promises to the gate and to whoever types | `KeypadReader` implements it (`KeepsKeypadContract`) by `typed`, `read`, `handed` and `intact`; `TakeLastBit` is a key read, `CodeTimeout` a hand-over, a bit that is dropped, overtaken or cut off a `Garble`, and the first `Press` with nothing of it left a `Recover` |
| `CommandPath` | `messanger.go` in the gatecontroller, with the broker's session | `routes` are the handlers of the process, `inbox` what has arrived, its head in a callback; `subs`, `session` and `sent` belong to the broker and outlive the process. One action per callback, per step of `main` and per event of the link |
| `CommandContract` | nothing in the code: delivery at least once, in ordered passes | `CommandPath` implements it (`KeepsCommandContract`): `owed` is the session, `missed` what strayed, `due` what the present connection has still to bring (`Pending`); losing a link starts a new pass |
| `CredentialSync` | `updater.go` with both repositories | `pc[p]` and `snapshot[p]` of the three syncers: `main`, ticker, callback. A row is abstracted to the number of the write that made it. `overtaken[p]`, the rows others have stored since `p` fetched, is history |
| `CredentialFeed` | credential server, watcher, `HandleFile` | `step[h]`, `content[h]`, `doomed[h]`, `toPut[h]` of each call of `HandleFile`; `table` is Postgres |
| `StatusServer` | the status server | `memory`, `latest` (the row), `events` (the log); `job[w]` is the step of the callback or of a request |

`MC...` modules give the constants their values. `...Proofs` modules hold the
theorems.

How they fit: `AccessControl` computes the verdict that `GateController`
takes; `KeypadReader` calls it; `StatusServer` publishes the commands that
`CommandPath` brings, whose `Act` is `GateController!CommandHandler`, and whose
notices are the notifications of `CredentialSync`; `CredentialFeed` writes the
table that `CredentialSync` reads, and `CredentialSync` makes the writes that
`AccessControl` has as `PutCredentials`; what `GateDevice` leaves retained at
the broker is what `StatusServer` receives.

## 3. What the runs check

| run | question | result |
|---|---|---|
| `device` | Over boots, fatal exits and crashes, and with stale sleepers about, does the gate keep its pins, its openings and its contract, and does the status page recover? | `PinsFollowStateWhileUp`, `AutoClosePending`, `LockedOpenWhileUp`, `LoneOpeningLasts` (an opening that a sleeper ends while no other is about has had at least its full duration), `RelayReleased`, `RecentStatusSettles` (what is retained once no status is in flight was announced since the last time none was: no older status comes back, and a change that finds nothing in flight and is followed by no other repairs the page) and the refinement `KeepsContract` hold |
| `device_status` | Does the page show the latest gate status once all is quiet? | No: `RetainedStatusSettles` fails when two publishers run in the other order (or the library sends two statuses again in the other order), without any code being typed during boot |
| `gate_duration` | Does an opening last the configured duration, as the comment on `tempOpen` says? | No: `StaysOpenForDuration` fails. Open, close, open again: the first sleeper shuts the second opening |
| `access` | Do three queries decide like one look, with windows that may be overnight, and what if a sync writes in between? | `UndisturbedVerdict`, `GrantIsVouched` hold |
| `keypad` | Are keys read as typed and handed over once, when bits are dropped or overtaken and calls take any time, and how long does a damage last? | Keys are read as typed, also behind a call for a full code of any length. What is excused is a dropped bit, one that overtook another, and half a key whose timer fired during the call for a code cut short, and only the keys on their way then: those typed afterwards are read right again. `KeysConserved`, `HalvesAreTimed`, `ReadAsTyped` and the refinement `KeepsKeypadContract` hold |
| `command` | Over lost links, restarts, losses of the session and slow callbacks, what becomes of a command? | `NoCommandVanishes`, `NewestHasTheLastWord`, `AckedStaysDone`, `KeptCommandActs` and the refinement `KeepsCommandContract` hold |
| `command_session` | Is a process subscribed again after it lost its link, as a comment in `NewMQTTClientWithCredentials` says? | No: `SubscriptionsRestored` fails. `OnConnect` is assigned to options the client has copied already, so after the broker has lost the session the link comes back without subscriptions |
| `sync` | What may overlapping, failing and cut syncs do to the rows of the Pi, and do they bring the new ones? | `OnlyOvertakenGoesBack` (a row goes back to an older version only when ticker or callback stores it after another sync has stored that row), `StartSyncNeverGoesBack`, `StaysInStep` (only a remote write parts a row that agrees), `Converges` hold |
| `sync_deleted` | Does a code deleted in Postgres stop working? | No: `DeletedCodeGoes` fails, a sync only upserts |
| `sync_pool` | Does the Pi go on syncing when Postgres limits its connections? | No: `SyncsAgain` fails, every sync opens two pools and closes none |
| `feed` | Do overlapping calls of `HandleFile` mirror the file, and spare what is not theirs? | `UndisputedFileWins`, `ManualRowsStay` hold |
| `status` | Do row, log and memory agree under races, failures and restarts? | `LatestIsLogged`, `LoggedCommandsWereTaken`, `SettledStatusIsPersisted`, `StatusNeverGoesBack` hold |

Each passing run also checks the type invariant of its module. The five runs that
fail are the findings of `PROJECT.json`, each with the sentence of the repository it
contradicts.

Some properties hold with a proviso that says what the code does not promise. A
hazard that only the proviso meets has a note in `PROJECT.json`, and no property.
`UndisputedFileWins` needs one call that runs to its end with the present file
while nobody older is at work: two calls with different contents may leave the
older file's rows in the table, until the next event. `SettledStatusIsPersisted`
leaves the last command out: two requests may store and record theirs in
different orders. `NewestHasTheLastWord` leaves out a command that arrived before
`main` had subscribed: the client drops it without an acknowledgement, the broker
sends it again after some later reconnection, and it then acts out of turn; and
commands that were lost with a session, or published while a subscription had
failed. `ManualRowsStay` leaves out a code that was in a file or in a row of the
feed while a call was at work: the call deletes by what it read before.
`UndisturbedVerdict` leaves out calls during which a sync writes, about which
`GrantIsVouched` speaks. `RecentStatusSettles` counts the "closed" that `main`
publishes at boot as announced, true or not. `ReadAsTyped` leaves out the keys on
their way when a bit was dropped, overtaken or cut off, and no others.

### Bounds

* `device`: `GateOpenDuration = 2` and three sleepers: one due, one that is not,
  and one of an opening before those. `MaxNotices = 1` saturates: it stands for
  one or more publishers of a status. What the library keeps needs no bound: a
  set of statuses stands for any number of messages, since they have no order.
  `gate_duration` has the same gate without the
  device, `device_status` a duration of 1.
* `access`: a day of 3 seconds with every window in it, overnight too; only the
  order of three times matters, which 3 points can take in every way. Two groups,
  so that one can vouch for a code that another does not let in.
* `keypad`: codes of two keys instead of five, three keys typed, a channel of 6
  bits instead of 64. A code can then be full, time out, and be followed by
  another, and two keys typed in one call overflow the channel.
* `command`: three commands: one that has acted and may be repeated, a later one
  that may contradict it, and one behind both. One command is enough for
  `command_session`. At most one notice waits at a time. The proofs have no bound.
* `sync`: one code, one group, three remote writes: two of them make an old and
  a new snapshot, the third changes the row between. The proofs have no bound.
* `feed`: two codes, one mark, two calls at once, one event waiting. Two codes
  make a call delete one and put the other; two calls give one older content.
* `status`: one status per topic and the command whose name changes on its way,
  two requests and three readings of the clock, which tell entries apart. The
  two requests are interchangeable, and no liveness is checked, so symmetry is
  sound.

`CHECK_DEADLOCK FALSE` is said only in `keypad.cfg`, where typing ends at the
bound. Other specifications can always go on.

### Fairness

Safety needs none, and `access`, `feed` and `status` have none.

* Gate (`gate_duration`): time passes; a goroutine whose sleep is over is run at
  some time; a publisher ends, because `waitForToken` waits 10 s. Nobody has to
  press a key.
* Device: the host restarts the process, as `README.md` has services restarted
  and the unit files are not in the repository; time passes and goroutines run.
  Nothing is assumed of the broker, and no crash ever has to happen.
* Command path: the library goes on trying to reconnect, and the link can be had;
  the broker sends what it keeps; a callback returns, because a synchronisation
  has a deadline of 30 s. Neither the process, nor the link, nor the broker has to
  fail or to last, no command has to be sent, and `main` need not get anywhere.
  `KeptCommandActs` says nothing if links are lost for ever again.
* Keypad: timers fire, goroutines run, calls return (their queries have a
  context of 10 s). `Run`, the `select`, is weakly fair as a whole: there is no
  promise for a single case.
* Sync: the ticker ticks, and a syncer that is at work goes on, since queries
  have timeouts. What is repeated for ever works out at times, for each row
  (strong fairness of the fetch and of the store of a row), but no particular
  sync has to succeed, no notification to arrive. `sync_pool` uses the same
  fairness, and fails because after the bound no fetch is possible any more.

## 4. What is proved

The theorems hold for every value of the constants.

* `GateControllerProofs`. `TypeCorrect`; `PinsCorrect` (relay and LED show the
  state); `LockedOpenStays`; `SleeperOfOpening`, that every opening has a
  sleeper due exactly when its time is over; and `ImplementsContract`, that
  every step is one of `GateContract` or stutters. `AutoClosePending` is
  inductive only with the type invariant: the sleeper of the opening is found
  with `left = SleepTime - openFor`, and `Tick` moves both by one until the
  sleeper is due, when `openFor` is `SleepTime`. The refinement needs that
  `openFor` stays within `SleepTime`, so that `remaining` is a natural number.
* `AccessControlProofs`. `InRangeIsArc`, that `isTimeOfDayInRange` is
  membership in one arc of a day of any length; `AccessTypeCorrect`,
  `GrantsAreVouched`, `UndisturbedIsJudged`. The invariants say what is known
  after each query: in step `accessTime` the group read is among those that
  vouched, in step `openMode` its window held the time as well; undisturbed, the
  rows are still what was read.
* `CredentialSyncProofs`. `SyncTypeCorrect`; `OnlyOvertakenEverGoesBack`, where
  `OvertakenInv` says that whoever holds an older version of a row than the Pi has
  been overtaken there, which is so because a fetch is never older than what was
  stored before it (`Newest`); `StartSyncStaysNewest`, with
  an invariant of three parts: type correctness, `Newest` (no local row and no
  snapshot is newer than the remote write counter allows), and `MainAlone`
  (while `main` synchronises, nobody else does); `AlwaysStaysInStep`, by what a
  step can do to one row (`RowMoves`): store what a syncer holds, or fetch what
  Postgres has. That a row gets in step at all is the liveness of `Converges`.
* `GateDeviceProofs`. `DeviceTypeCorrect`; `PinsAlwaysFollowWhileUp`, where
  `BootInv` adds that a process finds the state closed in its memory, and what a
  move does to the pins is taken from `GateControllerProofs`;
  `RecentStatusAlwaysSettles`, where `RecentInv` says that every status a publisher
  or the library still has is recent, in whatever order they will be delivered, and
  that so is the retained one when nothing is in flight;
  `LoneOpeningAlwaysLasts`, the sound half of what `gate_duration` refutes: the
  sleeper that ends the opening is the only one, so it is the one that
  `AutoClosePending` speaks of, and it is due when the duration is over;
  `DeviceSleeperOfOpening`, `LockedOpenStaysWhileUp` and `DeviceImplementsContract`,
  which carry the theorems of the gate over boots and ends: a step of the device
  is one of the gate, leaves state and timers alone, or is the end of the process.
* `KeypadReaderProofs`. `KeypadTypeCorrect`; `HalvesAlwaysTimed`, where `TimerInv`
  says that half a key has a timer, and keys too unless they are being handed over;
  `KeysAlwaysConserved`; `AlwaysReadAsTyped`, where `FrameInv` says that,
  while nothing is left of a damage, the half key and the bits on their way are the
  frames of what was typed and not yet read, a full code having used up its half
  key, and that a key timer that fired with half a key in hand did so during the
  call for a code cut short. When nothing is on its way the frames are none, so that
  counting the typed keys anew from those read makes it hold again. How a
  frame makes a key is reasoned bit by bit, since the provers cannot open a fold
  but at a given length. `ReaderKeepsContract` is the refinement: the stream of
  frames tells which key `TakeLastBit` reads, and `KeysConserved` that a code
  that is handed over is all that waits. `ContractKeepsOrder` shows from the
  contract alone that the gate has had the keys in the order of typing, once each.
* `CommandPathProofs`. `CommandTypeCorrect`; `DeliveryInOrder`, where `DeliveryInv`
  says that what has arrived is in order, is kept by the broker or was lost with
  it, and on a link was sent and is not acknowledged; `NothingVanishes`, which
  needs besides that only commands that acted are acknowledged (`VanishInv`);
  `AcknowledgedStaysDone`; `LastWord`, where `OrderInv` says that before a command
  acts once more, every newer one that has acted is still to act after it.
  `DeliversByContract` is the refinement: what a callback takes from the inbox is
  the least of what is due, or comes late from a link that was lost or a session
  that was forgotten (`HeadIsBrought`), and acknowledgements confirm in order.
  `ContractSettles` shows from the contract alone what such passes are good for:
  no command is forgotten, and after a pass the newest has the last word. Its
  invariant `PassInv` is `OrderInv` without links and inboxes, which is the point
  of the contract: whoever composes with `CommandPath` needs no more of it.
* `CredentialFeedProofs`. `FeedTypeCorrect`; `FileWinsUndisputed`, where `WinInv`
  says what an undisputed call has achieved after each step (`Achieved`) and that
  a call deletes nothing its file lists and puts nothing else (`Keeps`);
  `ManualRowsAreSpared`, where `SpareInv` says which codes a call has any
  business with.
* `StatusServerProofs`. `StatusTypeCorrect`; `LatestAlwaysLogged`, where `LogInv`
  says that a worker about to update the row has logged what it will write;
  `SettledAlwaysPersisted` and `StatusStaysNewest`, where `PageInv` relates memory,
  row and clock while the callback is at work and when it is not;
  `LoggedWereTaken`, where `CountInv` counts for each command what is logged and
  the requests that have still to log it, together no more than what the broker
  took, and `WorkInv` says that no status is taken for a command.

The assumptions are the named `ASSUME`s of the modules, and TLC evaluates them
in the runs.

## 5. What is model-checked only

Liveness under fairness, which the prover does not do: the liveness part of
`KeepsContract` and of `KeepsKeypadContract`, `RelayReleased`, `Converges` and
`KeptCommandActs`. The safety part of the two contracts is proved
(`ImplementsContract`, `DeviceImplementsContract`, `ReaderKeepsContract`). Every invariant and every action property of the passing runs
is proved.

## 6. Abstractions a reader should know

* A second of the gate is one `Tick`; a sleeper may be late by any time.
* `CommandPath` is one process with the fixed client identifier. The broker sends
  a message once per connection and in order, as the one of `deploy/cloud` does,
  and keeps the session until it is restarted or the session expires. Of the
  library (paho, in the version of `go.mod`): a message without a handler is not
  acknowledged, callbacks are waited for before it reconnects, a `Subscribe`
  without a link fails at once and one whose link is lost is not sent again.
* Of the statuses handed to the MQTT library, any may get to the broker next, and
  any may be sent again. On a live link they go in the order of handing over; after
  a lost link the library sends what its store keeps, which is a map because the
  client sets no other, in any order. The model does not tell the two cases apart:
  a link may be lost at any time. Losing it is otherwise a delay.
* `CommandPath` numbers the commands in the order in which the broker takes them.
  The status server publishes with the same library, so that commands it hands over
  while it has no link may get to the broker in another order than that of the
  requests; `StatusServer` does not order requests either.
* The keypad model has no clock: a press is over and, unless the gate is being
  called, its bits are read before 100 ms are over.
* Remote deletions and cut query results are in `CredentialSync`: a row is
  missing from the snapshot. `rows.Err()` is not looked at by the code.
* A file is what `ParseCredentialFile` makes of it, which for a file without
  its columns is nothing at all, and no error.
* A statement of the status server that is given up has been carried out by
  then or never is; its clock is not set back.
* `SetStatusNotifier` writes without the mutex. A reader sees the old value or
  the new one, or half of it, which is a panic and is a crash in `GateDevice`.

## 7. What is not modelled

* `AccessLogger` and the gate logs: no program writes or reads them.
* `dynamodb_repository.go`: left over, nothing calls it.
* `config.go`: read once at start; its values are constants here.
* The page in the browser: polling and layout.
* `KeypadReader.Stop`, the single-row operations of SQLite, writing access times
  to Postgres: used by tests, or by nothing.
* `gpio_unsupported.go`, `keypad_unsupported.go`: stubs.
* `deploy/`: configuration of the broker and the database.
* The update agent and the desired version of `CONTEXT.md`: no code.
* `Disconnect` and `IsConnected` of the MQTT client: the end of the process, and
  a question nothing depends on. `resubscribeAll` has no action because nothing
  ever calls it (`command_session`). The credentials of the connection are a
  constant.

## 8. Plan

Done, in this order: the gate and its contract; the device around it; the time
window; the access check; the keypad; the sync; the credential feed; the status
server; the command path; the contracts of gate, keypad and command path, with the
proofs that the detailed modules implement them; the other proofs of section 4.

Left:

1. `CredentialPipeline`: `CredentialFeed` and `CredentialSync` composed through
   one Postgres table and one notification topic. Abstract specification: the
   Pi holds, row by row, something the table once held. To check: a code that
   the file lists and goes on listing gets to the Pi.
2. `AccessGate`: `AccessControl` and `GateContract` composed, verdicts applied
   after they were reached, the commands of `CommandContract` in between.
3. The safety of these compositions, proved from the invariants of their parts.
