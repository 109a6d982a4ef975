------------------------ MODULE AccessControlProofs -------------------------
(***************************************************************************)
(* What AccessControl guarantees for every set of groups and windows.     *)
(*                                                                         *)
(* The queries of a call are about tables that change under it, so neither *)
(* property is inductive: VouchInv says what each query that was passed    *)
(* leaves behind in the history of the call, UndisturbedInv what it says   *)
(* of the tables as long as nobody writes them.                            *)
(***************************************************************************)
EXTENDS AccessControl, TLAPS

-----------------------------------------------------------------------------
(* Windows.                                                                 *)

\* A time of day is in the window just when it comes, going round the day from
\* the start of the window, before the end: the two branches of
\* isTimeOfDayInRange are one rule but for the end itself, for a day of any
\* length.
THEOREM InRangeIsArc ==
  ASSUME NEW c \in TimesOfDay, NEW s \in TimesOfDay, NEW e \in TimesOfDay
  PROVE  InRange(c, s, e) <=> InArc(c, s, e)
BY DayAssumption DEF TimesOfDay, InRange, InArc, Elapsed

\* The window of a group that is stored, or missing, answers for its arc.
LEMMA WindowHoldsIsCovers ==
  ASSUME AccessTypeOK, NEW g \in Groups
  PROVE  WindowHolds(accessTimes[g], time) <=> Covers(accessTimes[g], time)
<1>1. accessTimes[g] \in Windows \cup {NoWindow} /\ time \in TimesOfDay
  BY DEF AccessTypeOK
<1>2. CASE accessTimes[g] = NoWindow
  BY <1>2 DEF WindowHolds, Covers
<1>3. CASE accessTimes[g] \in Windows
  <2>1. accessTimes[g].start \in TimesOfDay /\ accessTimes[g].end \in TimesOfDay
    BY <1>3, WindowsAssumption
  <2> QED
    BY <1>1, <2>1, InRangeIsArc DEF WindowHolds, Covers
<1> QED
  BY <1>1, <1>2, <1>3

-----------------------------------------------------------------------------
(* Type correctness.                                                        *)

\* What the tables vouch for are groups.
LEMMA VouchType ==
  ASSUME NEW cred \in Credentials \cup {NoRow}, NEW times, NEW t
  PROVE  Vouches(cred) \subseteq Groups /\ Holding(times, t) \subseteq Groups
  BY DEF Vouches, MayEnter, Credentials, Holding

\* A write to a table keeps the types of the history.
LEMMA WitnessType ==
  ASSUME AccessTypeOK, Witness, credential' \in Credentials \cup {NoRow}
  PROVE  /\ undisturbed' \in BOOLEAN
         /\ vouched' \subseteq Groups
         /\ inTime' \subseteq Groups
<1>1. Vouches(credential') \subseteq Groups /\ Holding(accessTimes', time) \subseteq Groups
  BY VouchType
<1>2. undisturbed' \in BOOLEAN
  BY Zenon DEF Witness
<1> QED
  BY <1>1, <1>2 DEF Witness, AccessTypeOK

\* Every state of every behaviour has the types of AccessTypeOK: no query
\* result that is missing is ever taken for a row.
THEOREM AccessTypeCorrect == AccessSpec => []AccessTypeOK
<1>1. AccessInit => AccessTypeOK
  <2> SUFFICES ASSUME AccessInit
               PROVE  AccessTypeOK
    OBVIOUS
  <2>1. time \in TimesOfDay
    BY DayAssumption DEF AccessInit, TimesOfDay
  <2>2. accessTimes \in [Groups -> Windows \cup {NoWindow}]
    BY DEF AccessInit
  <2>3. undisturbed \in BOOLEAN
    BY Zenon DEF AccessInit
  <2> QED
    BY <2>1, <2>2, <2>3 DEF AccessInit, AccessTypeOK, Verdicts
<1>2. AccessTypeOK /\ [AccessNext]_accessVars => AccessTypeOK'
  <2> SUFFICES ASSUME AccessTypeOK, [AccessNext]_accessVars
               PROVE  AccessTypeOK'
    OBVIOUS
  <2>1. ASSUME NEW t \in TimesOfDay, Call(t)
        PROVE  AccessTypeOK'
    <3>1. Vouches(credential) \subseteq Groups /\ Holding(accessTimes, t) \subseteq Groups
      BY VouchType DEF AccessTypeOK
    <3>2. undisturbed' \in BOOLEAN
      BY <2>1, Zenon DEF Call
    <3> QED
      BY <2>1, <3>1, <3>2 DEF Call, AccessTypeOK, tables, Verdicts
  <2>2. CASE ReadCredential
    <3>1. MayEnter(credential) => credential.accessGroup \in Groups
      BY DEF AccessTypeOK, MayEnter, Credentials
    <3> QED
      BY <2>2, <3>1 DEF ReadCredential, Deny, AccessTypeOK, tables, history, Verdicts
  <2>3. CASE ReadAccessTime
    BY <2>3 DEF ReadAccessTime, Deny, AccessTypeOK, tables, history, Verdicts
  <2>4. CASE ReadOpenMode
    BY <2>4 DEF ReadOpenMode, AccessTypeOK, tables, history, Verdicts, Credentials
  <2>5. CASE QueryFails
    <3>1. undisturbed' \in BOOLEAN
      BY <2>5, Zenon DEF QueryFails
    <3> QED
      BY <2>5, <3>1 DEF QueryFails, Deny, AccessTypeOK, tables, Verdicts
  <2>6. CASE Return
    BY <2>6 DEF Return, AccessTypeOK, tables, call, history
  <2>7. ASSUME NEW cred \in Credentials, PutCredentials(cred)
        PROVE  AccessTypeOK'
    BY <2>7, WitnessType DEF PutCredentials, AccessTypeOK, call
  <2>8. ASSUME NEW g \in Groups, NEW w \in Windows, PutAccessTime(g, w)
        PROVE  AccessTypeOK'
    <3>1. accessTimes' \in [Groups -> Windows \cup {NoWindow}]
      BY <2>8 DEF PutAccessTime, AccessTypeOK
    <3> QED
      BY <2>8, <3>1, WitnessType DEF PutAccessTime, AccessTypeOK, call
  <2>9. CASE UNCHANGED accessVars
    BY <2>9 DEF AccessTypeOK, accessVars, tables, call, history
  <2> QED
    BY <2>1, <2>2, <2>3, <2>4, <2>5, <2>6, <2>7, <2>8, <2>9 DEF AccessNext
<1> QED
  BY <1>1, <1>2, PTL DEF AccessSpec

-----------------------------------------------------------------------------
(* Nobody is let in unvouched.                                              *)

\* The history has what the tables vouch for now, and a call that has passed
\* a query has its group there.
VouchInv ==
  /\ Vouches(credential) \subseteq vouched
  /\ Holding(accessTimes, time) \subseteq inTime
  /\ pc \in {"accessTime", "openMode"} => group \in vouched
  /\ pc = "openMode" => group \in inTime
  /\ Decided /\ verdict # "denied" => group \in vouched \cap inTime

\* A write to a table only adds to the history.
LEMMA WitnessKeepsVouchInv ==
  ASSUME VouchInv, Witness, UNCHANGED <<pc, time, group, verdict>>
  PROVE  VouchInv'
BY DEF Witness, VouchInv, Decided

\* A code that was locked out all through the call, or whose group had no
\* window that held the time at any moment of it, is not let in, whatever a
\* sync writes between the three queries of Open.
THEOREM GrantsAreVouched == AccessSpec => []GrantIsVouched
<1>1. AccessInit => VouchInv
  BY DEF AccessInit, VouchInv, Vouches, MayEnter, Holding, Covers, Decided
<1>2. AccessTypeOK /\ VouchInv /\ [AccessNext]_accessVars => VouchInv'
  <2> SUFFICES ASSUME AccessTypeOK, VouchInv, [AccessNext]_accessVars
               PROVE  VouchInv'
    OBVIOUS
  <2>1. ASSUME NEW t \in TimesOfDay, Call(t)
        PROVE  VouchInv'
    BY <2>1 DEF Call, tables, VouchInv, Decided
  <2>2. CASE ReadCredential
    <3>1. MayEnter(credential) => credential.accessGroup \in vouched
      BY DEF VouchInv, Vouches
    <3> QED
      BY <2>2, <3>1 DEF ReadCredential, Deny, VouchInv, Decided, tables, history
  <2>3. CASE ReadAccessTime
    <3>1. WindowHolds(accessTimes[group], time) => group \in inTime
      BY WindowHoldsIsCovers DEF VouchInv, Holding, AccessTypeOK
    <3> QED
      BY <2>3, <3>1 DEF ReadAccessTime, Deny, VouchInv, Decided, tables, history
  <2>4. CASE ReadOpenMode
    BY <2>4 DEF ReadOpenMode, VouchInv, Decided, tables, history
  <2>5. CASE QueryFails
    BY <2>5 DEF QueryFails, Deny, VouchInv, Decided, tables
  <2>6. CASE Return
    BY <2>6 DEF Return, VouchInv, Decided, tables, call, history
  <2>7. ASSUME NEW cred \in Credentials, PutCredentials(cred)
        PROVE  VouchInv'
    BY <2>7, WitnessKeepsVouchInv DEF PutCredentials, call
  <2>8. ASSUME NEW g \in Groups, NEW w \in Windows, PutAccessTime(g, w)
        PROVE  VouchInv'
    BY <2>8, WitnessKeepsVouchInv DEF PutAccessTime, call
  <2>9. CASE UNCHANGED accessVars
    BY <2>9 DEF VouchInv, Decided, accessVars, tables, call, history
  <2> QED
    BY <2>1, <2>2, <2>3, <2>4, <2>5, <2>6, <2>7, <2>8, <2>9 DEF AccessNext
<1>3. VouchInv => GrantIsVouched
  BY DEF VouchInv, GrantIsVouched
<1> QED
  BY <1>1, <1>2, <1>3, AccessTypeCorrect, PTL DEF AccessSpec

-----------------------------------------------------------------------------
(* The verdict of a call nobody disturbs.                                   *)

\* What the queries of an undisturbed call have found is still so.
UndisturbedInv ==
  undisturbed =>
    /\ pc \in {"accessTime", "openMode"} =>
         MayEnter(credential) /\ group = credential.accessGroup
    /\ pc = "openMode" => Covers(accessTimes[group], time)
    /\ Decided => verdict = Judge(credential, accessTimes, time)

\* With no sync and no error between its queries, Open decides what one look at
\* both tables decides: the locked-out flag, the window of the group and the
\* open mode are combined as if they had been read at once.
THEOREM UndisturbedIsJudged == AccessSpec => []UndisturbedVerdict
<1>1. AccessInit => UndisturbedInv
  BY DEF AccessInit, UndisturbedInv, Decided
<1>2. AccessTypeOK /\ UndisturbedInv /\ [AccessNext]_accessVars => UndisturbedInv'
  <2> SUFFICES ASSUME AccessTypeOK, UndisturbedInv, [AccessNext]_accessVars
               PROVE  UndisturbedInv'
    OBVIOUS
  <2>1. ASSUME NEW t \in TimesOfDay, Call(t)
        PROVE  UndisturbedInv'
    BY <2>1 DEF Call, UndisturbedInv, Decided
  <2>2. CASE ReadCredential
    BY <2>2 DEF ReadCredential, Deny, UndisturbedInv, Decided, Judge, tables, history
  <2>3. CASE ReadAccessTime
    <3>1. WindowHolds(accessTimes[group], time) <=> Covers(accessTimes[group], time)
      BY WindowHoldsIsCovers DEF AccessTypeOK
    <3> QED
      BY <2>3, <3>1
         DEF ReadAccessTime, Deny, UndisturbedInv, Decided, Judge, tables, history
  <2>4. CASE ReadOpenMode
    BY <2>4 DEF ReadOpenMode, UndisturbedInv, Decided, Judge, tables, history
  <2>5. CASE QueryFails
    BY <2>5 DEF QueryFails, UndisturbedInv
  <2>6. CASE Return
    BY <2>6 DEF Return, UndisturbedInv, Decided
  <2>7. ASSUME Witness
        PROVE  UndisturbedInv'
    BY <2>7 DEF Witness, UndisturbedInv
  <2>8. CASE UNCHANGED accessVars
    BY <2>8 DEF UndisturbedInv, Decided, accessVars, tables, call, history
  <2> QED
    BY <2>1, <2>2, <2>3, <2>4, <2>5, <2>6, <2>7, <2>8
       DEF AccessNext, PutCredentials, PutAccessTime
<1>3. UndisturbedInv => UndisturbedVerdict
  BY DEF UndisturbedInv, UndisturbedVerdict
<1> QED
  BY <1>1, <1>2, <1>3, AccessTypeCorrect, PTL DEF AccessSpec
=============================================================================
