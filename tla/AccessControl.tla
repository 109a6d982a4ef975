--------------------------- MODULE AccessControl ----------------------------
(***************************************************************************)
(* How the code typed at the keypad becomes a verdict: GateController.Open *)
(* of pigate/pkg/gate/gate.go on the local SQLite database of              *)
(* pigate/pkg/database/sqlite_repository.go.                               *)
(*                                                                         *)
(* Open reads the credential, then the access time of its group, then the  *)
(* credential once more for its open mode: three queries outside any       *)
(* transaction, between which a sync may write either table.  The keypad   *)
(* calls Open for one code at a time, so the model follows one code and    *)
(* the row it has.  The weekdays of an access time are left out: they are  *)
(* stored and nothing reads them.                                          *)
(***************************************************************************)
EXTENDS TimeOfDay, FiniteSets

CONSTANTS
  Groups,     \* access groups
  Windows,    \* access times a group may have: [start, end]
  NoRow,      \* the code has no credential
  NoWindow    \* the group has no access time

ASSUME WindowsAssumption ==
  Windows \subseteq [start: TimesOfDay, end: TimesOfDay]

VARIABLES
  credential,   \* the row of the code in the credentials table
  accessTimes,  \* accessTimes[g]: the row of group g in the access_times table
  pc,           \* the query Open is about to make
  time,         \* currentTime of the call
  group,        \* cred.AccessGroup as ValidateCredential read it
  verdict,      \* what Open does to the gate: GateController!Open(verdict)
  \* History of the call, read by properties only:
  undisturbed,  \* no table was written and no query failed since the call
  vouched,      \* groups the code belonged to, not locked out, since the call
  inTime        \* groups whose window held currentTime since the call

tables == <<credential, accessTimes>>
call == <<time, group, verdict>>
history == <<undisturbed, vouched, inTime>>
accessVars == <<tables, pc, call, history>>

OpenModes == {"regular_open", "lock_open"}
Verdicts == OpenModes \cup {"denied"}
Credentials == [accessGroup: Groups, lockedOut: BOOLEAN, openMode: OpenModes]

AccessTypeOK ==
  /\ credential \in Credentials \cup {NoRow}
  /\ accessTimes \in [Groups -> Windows \cup {NoWindow}]
  /\ pc \in {"idle", "credential", "accessTime", "openMode", "decided"}
  /\ time \in TimesOfDay /\ group \in Groups
  /\ verdict \in Verdicts
  /\ undisturbed \in BOOLEAN
  /\ vouched \subseteq Groups /\ inTime \subseteq Groups

-----------------------------------------------------------------------------
(* What the tables say.                                                    *)

MayEnter(cred) == cred # NoRow /\ ~ cred.lockedOut

\* The answer of isTimeOfDayInRange for an access time that was found.
WindowHolds(w, t) == w # NoWindow /\ InRange(t, w.start, w.end)

\* What it should be.
Covers(w, t) == w # NoWindow /\ InArc(t, w.start, w.end)

\* The verdict of one look at both tables.
Judge(cred, times, t) ==
  IF MayEnter(cred) /\ Covers(times[cred.accessGroup], t)
  THEN cred.openMode ELSE "denied"

Vouches(cred) == IF MayEnter(cred) THEN {cred.accessGroup} ELSE {}

Holding(times, t) == {g \in Groups: Covers(times[g], t)}

\* Every write to a table is seen by the call in progress.
Witness ==
  /\ undisturbed' = FALSE
  /\ vouched' = vouched \cup Vouches(credential')
  /\ inTime' = inTime \cup Holding(accessTimes', time)

AccessInit ==
  /\ credential = NoRow
  /\ accessTimes = [g \in Groups |-> NoWindow]
  /\ pc = "idle"
  /\ time = 0 /\ group \in Groups
  /\ verdict = "denied"
  /\ undisturbed = TRUE
  /\ vouched = {} /\ inTime = {}

-----------------------------------------------------------------------------
(* Open, query by query.                                                   *)

\* The keypad reader calls Open(code, time.Now()).
Call(t) ==
  /\ pc = "idle"
  /\ pc' = "credential"
  /\ time' = t
  /\ verdict' = "denied"
  /\ undisturbed' = TRUE
  /\ vouched' = Vouches(credential)
  /\ inTime' = Holding(accessTimes, t)
  /\ UNCHANGED <<tables, group>>

Deny ==
  /\ pc' = "decided"
  /\ verdict' = "denied"

\* Mutant of ReadCredential: a missing row is taken for the zero Credential,
\* which is in group 0 and not locked out.
ReadCredentialZero ==
  /\ pc = "credential"
  /\ group' = IF credential = NoRow THEN 0 ELSE credential.accessGroup
  /\ pc' = "accessTime"
  /\ UNCHANGED <<tables, time, verdict, history>>

\* Mutant of ReadCredential: a locked-out code passes.
ReadCredentialUnlocked ==
  /\ pc = "credential"
  /\ \/ credential = NoRow /\ Deny /\ UNCHANGED group
     \/ /\ credential # NoRow
        /\ group' = credential.accessGroup
        /\ pc' = "accessTime"
        /\ UNCHANGED verdict
  /\ UNCHANGED <<tables, time, history>>

\* ValidateCredential: GetCredential and LockedOut.
ReadCredential ==
  /\ pc = "credential"
  /\ \/ ~ MayEnter(credential) /\ Deny /\ UNCHANGED group
     \/ /\ MayEnter(credential)
        /\ group' = credential.accessGroup
        /\ pc' = "accessTime"
        /\ UNCHANGED verdict
  /\ UNCHANGED <<tables, time, history>>

\* ValidateCredential: GetAccessTime and isTimeOfDayInRange.
ReadAccessTime ==
  /\ pc = "accessTime"
  /\ \/ ~ WindowHolds(accessTimes[group], time) /\ Deny
     \/ /\ WindowHolds(accessTimes[group], time)
        /\ pc' = "openMode"
        /\ UNCHANGED verdict
  /\ UNCHANGED <<tables, time, group, history>>

\* Mutant of ReadOpenMode: the open modes are swapped.
ReadOpenModeInverted ==
  /\ pc = "openMode"
  /\ pc' = "decided"
  /\ verdict' = IF credential.openMode = "lock_open" THEN "regular_open" ELSE "lock_open"
  /\ UNCHANGED <<tables, time, group, history>>

\* isLockCode: GetCredential once more.  No row is ever deleted here.
ReadOpenMode ==
  /\ pc = "openMode"
  /\ credential # NoRow
  /\ pc' = "decided"
  /\ verdict' = credential.openMode
  /\ UNCHANGED <<tables, time, group, history>>

\* A query returns an error, or the 10 s of its context are over.
QueryFails ==
  /\ pc \in {"credential", "accessTime", "openMode"}
  /\ Deny
  /\ undisturbed' = FALSE
  /\ UNCHANGED <<tables, time, group, vouched, inTime>>

\* Open returns to the keypad reader.
Return ==
  /\ pc = "decided"
  /\ pc' = "idle"
  /\ UNCHANGED <<tables, call, history>>

\* A sync commits PutCredentials.
PutCredentials(cred) ==
  /\ credential' = cred
  /\ UNCHANGED <<accessTimes, pc, call>>
  /\ Witness

\* A sync stores one access time.
PutAccessTime(g, w) ==
  /\ accessTimes' = [accessTimes EXCEPT ![g] = w]
  /\ UNCHANGED <<credential, pc, call>>
  /\ Witness

-----------------------------------------------------------------------------
AccessNext ==
  \/ \E t \in TimesOfDay: Call(t)
  \/ ReadCredential \/ ReadAccessTime \/ ReadOpenMode \/ QueryFails
  \/ Return
  \/ \E cred \in Credentials: PutCredentials(cred)
  \/ \E g \in Groups, w \in Windows: PutAccessTime(g, w)

AccessSpec == AccessInit /\ [][AccessNext]_accessVars

-----------------------------------------------------------------------------
(* Properties.                                                             *)

Decided == pc = "decided"

\* With no sync and no error in between, the three queries of Open come to the
\* verdict of one look at the tables, where a window is an arc of the day: no
\* code starts to work, or stops, at midnight.
UndisturbedVerdict ==
  Decided /\ undisturbed => verdict = Judge(credential, accessTimes, time)

\* Whatever a sync writes between the queries, nobody is let in who was locked
\* out all through the call, or in no group whose window held the time at some
\* moment of it.
GrantIsVouched ==
  Decided /\ verdict # "denied" => vouched \cap inTime # {}

=============================================================================
