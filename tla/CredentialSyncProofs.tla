------------------------ MODULE CredentialSyncProofs ------------------------
(***************************************************************************)
(* Safety of CredentialSync for every set of rows and number of writes.    *)
(***************************************************************************)
EXTENDS CredentialSync, TLAPS

\* The steps of a sync, for a case distinction.
LEMMA SyncCases ==
  ASSUME [SyncNext]_syncVars
  PROVE  \/ \E r \in Rows: RemoteWrite(r)
         \/ Notification \/ Ticks \/ Callback \/ Restart
         \/ \E p \in Syncers: \/ FetchCodes(p) \/ FetchCodesFails(p)
                              \/ StoreCodes(p) \/ StoreCodesFails(p)
                              \/ FetchTimes(p) \/ FetchTimesFails(p)
                              \/ TimesStored(p)
         \/ \E p \in Syncers, g \in Groups: StoreTime(p, g) \/ StoreTimeFails(p, g)
         \/ UNCHANGED syncVars
  BY DEF SyncNext, SyncStep

Steps == {"waits", "fetchCodes", "storeCodes", "fetchTimes", "storeTimes"}

-----------------------------------------------------------------------------
(* Type correctness.                                                        *)

\* Upserting keeps the local tables tables of rows.
LEMMA UpsertedType ==
  ASSUME SyncTypeOK, NEW p \in Syncers, NEW T
  PROVE  Upserted(p, T) \in [Rows -> 0..MaxWrites]
BY DEF SyncTypeOK, Upserted

\* A fetched snapshot is a table of rows.
LEMMA FetchType ==
  ASSUME SyncTypeOK, NEW p \in Syncers, NEW T, Fetch(p, T)
  PROVE  snapshot' \in [Syncers -> [Rows -> 0..MaxWrites]]
<1>1. PICK got \in SUBSET T:
        snapshot' = [snapshot EXCEPT ![p] = [r \in Rows |-> IF r \in got THEN remote[r] ELSE 0]]
  BY DEF Fetch
<1>2. [r \in Rows |-> IF r \in got THEN remote[r] ELSE 0] \in [Rows -> 0..MaxWrites]
  BY SyncAssumption DEF SyncTypeOK
<1> QED
  BY <1>1, <1>2 DEF SyncTypeOK

\* The empty snapshot is one too.
LEMMA EmptyType == Empty \in [Rows -> 0..MaxWrites]
  BY SyncAssumption DEF Empty

\* Connections are counted up to their limit.
LEMMA ConnectType ==
  ASSUME SyncTypeOK, Connect \/ UNCHANGED conns
  PROVE  conns' \in 0..MaxConnections
BY SyncAssumption DEF SyncTypeOK, Connect

\* What is overtaken are rows.
LEMMA OvertakenType ==
  ASSUME overtaken \in [Syncers -> SUBSET Rows], NEW p \in Syncers
  PROVE  /\ CatchUp(p) => overtaken' \in [Syncers -> SUBSET Rows]
         /\ \A T \in SUBSET Rows: Overtake(p, T) => overtaken' \in [Syncers -> SUBSET Rows]
BY DEF CatchUp, Overtake

\* Every state of every behaviour has the types of SyncTypeOK: whoever stores
\* what, the local tables stay tables of versions, and connections are bounded.
THEOREM SyncTypeCorrect == SyncSpec => []SyncTypeOK
<1>1. SyncInit => SyncTypeOK
  <2> SUFFICES ASSUME SyncInit
               PROVE  SyncTypeOK
    OBVIOUS
  <2>1. notified \in BOOLEAN
    BY Zenon DEF SyncInit
  <2>2. pc \in [Syncers -> Steps]
    BY DEF SyncInit, Starting, Steps
  <2>3. /\ remote \in [Rows -> 0..MaxWrites]
        /\ local \in [Rows -> 0..MaxWrites]
        /\ snapshot \in [Syncers -> [Rows -> 0..MaxWrites]]
    BY EmptyType DEF SyncInit
  <2>4. writes \in 0..MaxWrites /\ conns \in 0..MaxConnections
    BY SyncAssumption DEF SyncInit
  <2>5. overtaken \in [Syncers -> SUBSET Rows]
    BY DEF SyncInit, NoneOvertaken
  <2> QED
    BY <2>1, <2>2, <2>3, <2>4, <2>5 DEF SyncTypeOK, Steps
<1>2. SyncTypeOK /\ [SyncNext]_syncVars => SyncTypeOK'
  <2> SUFFICES ASSUME SyncTypeOK, [SyncNext]_syncVars
               PROVE  SyncTypeOK'
    OBVIOUS
  <2>1. ASSUME NEW r \in Rows, RemoteWrite(r)
        PROVE  SyncTypeOK'
    <3>1. writes' \in 0..MaxWrites
      BY <2>1, SyncAssumption DEF RemoteWrite, SyncTypeOK
    <3>2. remote' \in [Rows -> 0..MaxWrites]
      BY <2>1, SyncAssumption DEF RemoteWrite, SyncTypeOK
    <3> QED
      BY <2>1, <3>1, <3>2 DEF RemoteWrite, SyncTypeOK
  <2>2. CASE Notification
    <3>1. notified' \in BOOLEAN
      BY <2>2, Zenon DEF Notification
    <3> QED
      BY <2>2, <3>1 DEF Notification, SyncTypeOK
  <2>3. CASE Ticks
    <3>1. pc' \in [Syncers -> Steps]
      BY <2>3 DEF Ticks, Goto, SyncTypeOK, Steps
    <3> QED
      BY <2>3, <3>1 DEF Ticks, SyncTypeOK, Steps
  <2>4. CASE Callback
    <3>1. pc' \in [Syncers -> Steps]
      BY <2>4 DEF Callback, Goto, SyncTypeOK, Steps
    <3>2. notified' \in BOOLEAN
      BY <2>4, Zenon DEF Callback
    <3> QED
      BY <2>4, <3>1, <3>2 DEF Callback, SyncTypeOK, Steps
  <2>5. CASE Restart
    <3>1. notified' \in BOOLEAN
      BY <2>5, Zenon DEF Restart, SyncTypeOK
    <3>2. pc' \in [Syncers -> Steps]
      BY <2>5 DEF Restart, Starting, Steps
    <3>3. snapshot' \in [Syncers -> [Rows -> 0..MaxWrites]]
      BY <2>5, EmptyType DEF Restart
    <3>4. conns' \in 0..MaxConnections
      BY <2>5, SyncAssumption DEF Restart
    <3>5. overtaken' \in [Syncers -> SUBSET Rows]
      BY <2>5 DEF Restart, NoneOvertaken
    <3> QED
      BY <2>5, <3>1, <3>2, <3>3, <3>4, <3>5 DEF Restart, SyncTypeOK, Steps
  <2>6. ASSUME NEW p \in Syncers
        PROVE  /\ FetchCodes(p) => SyncTypeOK'
               /\ FetchTimes(p) => SyncTypeOK'
    BY FetchType, ConnectType, OvertakenType DEF FetchCodes, FetchTimes, Goto, SyncTypeOK
  <2>7. ASSUME NEW p \in Syncers
        PROVE  /\ FetchCodesFails(p) => SyncTypeOK'
               /\ FetchTimesFails(p) => SyncTypeOK'
    BY ConnectType DEF FetchCodesFails, FetchTimesFails, Goto, SyncTypeOK
  <2>8. ASSUME NEW p \in Syncers
        PROVE  /\ StoreCodes(p) => SyncTypeOK'
               /\ StoreCodesFails(p) => SyncTypeOK'
    <3>1. Forget(p) => snapshot' \in [Syncers -> [Rows -> 0..MaxWrites]]
      BY EmptyType DEF Forget, SyncTypeOK
    <3>2. StoreCodes(p) => overtaken' \in [Syncers -> SUBSET Rows]
      BY OvertakenType DEF StoreCodes, SyncTypeOK, Rows
    <3>3. StoreCodes(p) => local' \in [Rows -> 0..MaxWrites]
      BY UpsertedType DEF StoreCodes
    <3> QED
      BY <3>1, <3>2, <3>3 DEF StoreCodes, StoreCodesFails, Goto, SyncTypeOK
  <2>9. ASSUME NEW p \in Syncers, NEW g \in Groups
        PROVE  /\ StoreTime(p, g) => SyncTypeOK'
               /\ StoreTimeFails(p, g) => SyncTypeOK'
    <3>1. snapshot' = [snapshot EXCEPT ![p][g] = 0]
            => snapshot' \in [Syncers -> [Rows -> 0..MaxWrites]]
      BY SyncAssumption DEF SyncTypeOK, Rows
    <3>2. StoreTime(p, g) => overtaken' \in [Syncers -> SUBSET Rows]
      <4>1. {g} \in SUBSET Rows
        BY DEF Rows
      <4> QED
        BY <4>1, OvertakenType DEF StoreTime, SyncTypeOK
    <3>3. StoreTime(p, g) => local' \in [Rows -> 0..MaxWrites]
      BY UpsertedType DEF StoreTime
    <3> QED
      BY <3>1, <3>2, <3>3 DEF StoreTime, StoreTimeFails, SyncTypeOK
  <2>10. ASSUME NEW p \in Syncers
         PROVE  TimesStored(p) => SyncTypeOK'
    BY DEF TimesStored, Goto, SyncTypeOK
  <2>11. CASE UNCHANGED syncVars
    BY <2>11 DEF SyncTypeOK, syncVars
  <2> QED
    BY SyncCases, <2>1, <2>2, <2>3, <2>4, <2>5, <2>6, <2>7, <2>8, <2>9, <2>10, <2>11
<1> QED
  BY <1>1, <1>2, PTL DEF SyncSpec

-----------------------------------------------------------------------------
(* The sync at start.                                                       *)

\* Remote rows are the newest there are; while main() synchronises nobody else
\* does, so that what it has fetched is not older than what the Pi has.
Newest ==
  \A r \in Rows:
    /\ remote[r] <= writes /\ local[r] <= writes
    /\ \A p \in Syncers: snapshot[p][r] <= writes
    /\ remote[r] # 0 => /\ local[r] <= remote[r]
                        /\ \A p \in Syncers: snapshot[p][r] <= remote[r]

MainAlone ==
  pc["main"] # "waits" =>
    /\ pc["ticker"] = "waits" /\ pc["callback"] = "waits"
    /\ \A r \in Rows: snapshot["main"][r] # 0 => local[r] <= snapshot["main"][r]

StartInv == SyncTypeOK /\ Newest /\ MainAlone

\* A store keeps the remote rows the newest.
LEMMA StoreKeepsNewest ==
  ASSUME SyncTypeOK, Newest, NEW p \in Syncers, NEW T,
         local' = Upserted(p, T), UNCHANGED <<remote, writes>>,
         \A q \in Syncers, r \in Rows: snapshot'[q][r] \in {0, snapshot[q][r]}
  PROVE  Newest'
<1> SUFFICES ASSUME NEW r \in Rows
             PROVE  /\ remote[r] <= writes /\ local'[r] <= writes
                    /\ \A q \in Syncers: snapshot'[q][r] <= writes
                    /\ remote[r] # 0 => /\ local'[r] <= remote[r]
                                        /\ \A q \in Syncers: snapshot'[q][r] <= remote[r]
  BY DEF Newest
<1>1. local'[r] = local[r] \/ local'[r] = snapshot[p][r]
  BY DEF Upserted
<1>2. writes \in Nat /\ remote[r] \in Nat
  BY SyncAssumption DEF SyncTypeOK
<1> QED
  BY <1>1, <1>2 DEF Newest

\* A snapshot is fetched from the newest rows.
LEMMA FetchKeepsNewest ==
  ASSUME SyncTypeOK, Newest, NEW p \in Syncers, NEW T, Fetch(p, T),
         UNCHANGED <<remote, local, writes>>
  PROVE  /\ Newest'
         /\ \A r \in Rows: snapshot'[p][r] # 0 => local[r] <= snapshot'[p][r]
         /\ \A q \in Syncers \ {p}: snapshot'[q] = snapshot[q]
<1>1. PICK got \in SUBSET T:
        snapshot' = [snapshot EXCEPT ![p] = [r \in Rows |-> IF r \in got THEN remote[r] ELSE 0]]
  BY DEF Fetch
<1>2. \A r \in Rows: snapshot'[p][r] = IF r \in got THEN remote[r] ELSE 0
  BY <1>1 DEF SyncTypeOK
<1>3. \A q \in Syncers \ {p}: snapshot'[q] = snapshot[q]
  BY <1>1 DEF SyncTypeOK
<1>4. \A r \in Rows: remote[r] \in Nat /\ writes \in Nat /\ remote[r] <= writes
  <2> SUFFICES ASSUME NEW r \in Rows
               PROVE  remote[r] \in Nat /\ writes \in Nat /\ remote[r] <= writes
    OBVIOUS
  <2> QED
    BY SyncAssumption DEF SyncTypeOK, Newest
<1> QED
  BY <1>1, <1>2, <1>3, <1>4 DEF Newest

\* A write of the control plane makes a row newer than everything.
LEMMA WriteKeepsNewest ==
  ASSUME SyncTypeOK, Newest, NEW r \in Rows, RemoteWrite(r)
  PROVE  Newest'
<1>1. writes \in Nat
  BY SyncAssumption DEF SyncTypeOK
<1>2. \A t \in Rows: local[t] \in Nat /\ remote[t] \in Nat
  BY SyncAssumption DEF SyncTypeOK
<1>3. \A t \in Rows, p \in Syncers: snapshot[p][t] \in Nat
  BY SyncAssumption DEF SyncTypeOK
<1>4. \A t \in Rows: \/ remote'[t] = remote[t]
                     \/ remote'[t] = writes + 1
                     \/ remote'[t] = 0
  BY DEF RemoteWrite, SyncTypeOK
<1> QED
  BY <1>1, <1>2, <1>3, <1>4 DEF RemoteWrite, Newest

\* The rows are the newest, and main() alone, at all times.
LEMMA StartInvHolds == SyncSpec => []StartInv
<1>1. SyncInit => Newest /\ MainAlone
  BY DEF SyncInit, Newest, MainAlone, Starting, Empty, Syncers
<1>2. StartInv /\ [SyncNext]_syncVars => Newest' /\ MainAlone'
  <2> SUFFICES ASSUME StartInv, [SyncNext]_syncVars
               PROVE  Newest' /\ MainAlone'
    OBVIOUS
  <2> USE DEF StartInv
  <2>1. ASSUME NEW r \in Rows, RemoteWrite(r)
        PROVE  Newest' /\ MainAlone'
    BY <2>1, WriteKeepsNewest DEF RemoteWrite, MainAlone
  <2>2. CASE Notification \/ UNCHANGED syncVars
    BY <2>2 DEF Notification, syncVars, Newest, MainAlone
  <2>3. CASE Ticks \/ Callback
    BY <2>3 DEF Ticks, Callback, MainIsDone, Goto, Newest, MainAlone, SyncTypeOK, Syncers
  <2>4. CASE Restart
    <3>1. \A p \in Syncers, r \in Rows: snapshot'[p][r] = 0
      BY <2>4 DEF Restart, Empty
    <3>2. Newest'
      <4>1. \A r \in Rows: local[r] \in Nat /\ remote[r] \in Nat /\ writes \in Nat
        BY SyncAssumption DEF SyncTypeOK
      <4> QED
        BY <2>4, <3>1, <4>1 DEF Restart, Newest
    <3> QED
      BY <2>4, <3>1, <3>2 DEF Restart, Starting, MainAlone, Syncers
  <2>5. ASSUME NEW p \in Syncers, FetchCodes(p) \/ FetchTimes(p)
        PROVE  Newest' /\ MainAlone'
    <3>1. PICK T: Fetch(p, T)
      BY <2>5 DEF FetchCodes, FetchTimes
    <3>2. UNCHANGED <<remote, local, writes>> /\ pc[p] # "waits"
      BY <2>5 DEF FetchCodes, FetchTimes
    <3>3. pc' \in [Syncers -> Steps] /\ \A q \in Syncers \ {p}: pc'[q] = pc[q]
      BY <2>5 DEF FetchCodes, FetchTimes, Goto, SyncTypeOK, Steps
    <3> QED
      BY <3>1, <3>2, <3>3, FetchKeepsNewest DEF MainAlone, Syncers
  <2>6. ASSUME NEW p \in Syncers, FetchCodesFails(p) \/ FetchTimesFails(p) \/ TimesStored(p)
        PROVE  Newest' /\ MainAlone'
    <3>1. UNCHANGED <<remote, local, writes, snapshot>> /\ pc[p] # "waits"
      BY <2>6 DEF FetchCodesFails, FetchTimesFails, TimesStored
    <3>2. \A q \in Syncers \ {p}: pc'[q] = pc[q]
      BY <2>6 DEF FetchCodesFails, FetchTimesFails, TimesStored, Goto, SyncTypeOK
    <3> QED
      BY <3>1, <3>2 DEF Newest, MainAlone, Syncers
  <2>7. ASSUME NEW p \in Syncers, StoreCodes(p) \/ StoreCodesFails(p)
        PROVE  Newest' /\ MainAlone'
    <3>1. \A q \in Syncers \ {p}: pc'[q] = pc[q] /\ snapshot'[q] = snapshot[q]
      BY <2>7 DEF StoreCodes, StoreCodesFails, Goto, Forget, SyncTypeOK
    <3>2. pc[p] # "waits" /\ UNCHANGED <<remote, writes>> /\ \A r \in Rows: snapshot'[p][r] = 0
      BY <2>7 DEF StoreCodes, StoreCodesFails, Forget, Empty, SyncTypeOK
    <3>3. local' = Upserted(p, Codes) \/ local' = Upserted(p, {})
      BY <2>7 DEF StoreCodes, StoreCodesFails, Upserted, SyncTypeOK
    <3>4. \A q \in Syncers, r \in Rows: snapshot'[q][r] \in {0, snapshot[q][r]}
      BY <3>1, <3>2
    <3>5. Newest'
      BY <3>2, <3>3, <3>4, StoreKeepsNewest
    <3> QED
      BY <3>1, <3>2, <3>5 DEF MainAlone, Syncers
  <2>8. ASSUME NEW p \in Syncers, NEW g \in Groups, StoreTime(p, g) \/ StoreTimeFails(p, g)
        PROVE  Newest' /\ MainAlone'
    <3>1. UNCHANGED <<remote, writes, pc>> /\ pc[p] # "waits"
      BY <2>8 DEF StoreTime, StoreTimeFails
    <3>2. \A q \in Syncers, r \in Rows:
            snapshot'[q][r] = IF q = p /\ r = g THEN 0 ELSE snapshot[q][r]
      BY <2>8 DEF StoreTime, StoreTimeFails, SyncTypeOK, Rows
    <3>3. local' = Upserted(p, {g}) \/ local' = Upserted(p, {})
      BY <2>8 DEF StoreTime, StoreTimeFails, Upserted, SyncTypeOK
    <3>4. Newest'
      BY <3>1, <3>2, <3>3, StoreKeepsNewest
    <3>5. \A r \in Rows: r # g => local'[r] = local[r]
      BY <3>3 DEF Upserted
    <3> QED
      BY <3>1, <3>2, <3>4, <3>5 DEF MainAlone, Syncers
  <2> QED
    BY SyncCases, <2>1, <2>2, <2>3, <2>4, <2>5, <2>6, <2>7, <2>8
<1> QED
  BY <1>1, <1>2, SyncTypeCorrect, PTL DEF SyncSpec, StartInv

\* While the sync of main() runs, no row of the Pi becomes older than it was.
THEOREM StartSyncStaysNewest == SyncSpec => StartSyncNeverGoesBack
<1> DEFINE NeverBack == pc["main"] # "waits" => \A r \in Rows: local'[r] >= local[r]
<1>1. StartInv /\ [SyncNext]_syncVars => [NeverBack]_syncVars
  <2> SUFFICES ASSUME StartInv, [SyncNext]_syncVars, pc["main"] # "waits", NEW r \in Rows
               PROVE  local'[r] >= local[r]
    OBVIOUS
  <2>1. local[r] \in Nat /\ \A p \in Syncers: snapshot[p][r] \in Nat
    BY SyncAssumption DEF StartInv, SyncTypeOK
  <2>2. CASE UNCHANGED local
    BY <2>1, <2>2
  <2>3. ASSUME NEW p \in Syncers, NEW T, pc[p] # "waits", local' = Upserted(p, T)
        PROVE  local'[r] >= local[r]
    <3>1. p = "main"
      BY <2>3 DEF StartInv, MainAlone, Syncers
    <3>2. snapshot["main"][r] # 0 => local[r] <= snapshot["main"][r]
      BY DEF StartInv, MainAlone
    <3> QED
      BY <2>1, <2>3, <3>1, <3>2 DEF Upserted
  <2> QED
    BY SyncCases, <2>2, <2>3
       DEF RemoteWrite, Notification, Ticks, Callback, Restart, FetchCodes, FetchCodesFails,
           StoreCodes, StoreCodesFails, FetchTimes, FetchTimesFails, TimesStored,
           StoreTime, StoreTimeFails, syncVars
<1> QED
  BY <1>1, StartInvHolds, PTL DEF SyncSpec, StartSyncNeverGoesBack

-----------------------------------------------------------------------------
(* Overlapping syncs.                                                       *)

\* What a syncer holds is as new as what the Pi has, until it is overtaken.
OvertakenInv ==
  \A p \in Syncers, r \in Rows:
    snapshot[p][r] # 0 /\ r \notin overtaken[p] => local[r] <= snapshot[p][r]

\* A sync that stores some of its rows, and holds them no more, overtakes the
\* others in these rows.
LEMMA StoreOvertakes ==
  ASSUME SyncTypeOK, OvertakenInv, NEW p \in Syncers, NEW T \in SUBSET Rows,
         local' = Upserted(p, T), Overtake(p, T),
         \A q \in Syncers, r \in Rows:
           snapshot'[q][r] \in IF q = p /\ r \in T THEN {0} ELSE {0, snapshot[q][r]}
  PROVE  OvertakenInv'
<1> SUFFICES ASSUME NEW q \in Syncers, NEW r \in Rows,
                    snapshot'[q][r] # 0, r \notin overtaken'[q]
             PROVE  local'[r] <= snapshot'[q][r]
  BY DEF OvertakenInv
<1>1. snapshot'[q][r] = snapshot[q][r] /\ ~(q = p /\ r \in T)
  OBVIOUS
<1>2. r \notin overtaken[q] /\ (r \in T => snapshot[p][r] = 0 \/ q = p)
  BY DEF Overtake, SyncTypeOK
<1>3. local'[r] = local[r]
  BY <1>1, <1>2 DEF Upserted
<1> QED
  BY <1>1, <1>2, <1>3 DEF OvertakenInv

\* What is not overtaken is not older, at all times.
LEMMA OvertakenInvHolds == SyncSpec => []OvertakenInv
<1>1. SyncInit => OvertakenInv
  BY DEF SyncInit, OvertakenInv, Empty
<1>2. StartInv /\ OvertakenInv /\ [SyncNext]_syncVars => OvertakenInv'
  <2> SUFFICES ASSUME StartInv, OvertakenInv, [SyncNext]_syncVars
               PROVE  OvertakenInv'
    OBVIOUS
  <2>0. SyncTypeOK /\ Newest
    BY DEF StartInv
  <2>1. CASE UNCHANGED <<local, snapshot, overtaken>>
    BY <2>1 DEF OvertakenInv
  <2>2. CASE Restart
    BY <2>2 DEF Restart, Empty, OvertakenInv
  <2>3. ASSUME NEW p \in Syncers, FetchCodes(p) \/ FetchTimes(p)
        PROVE  OvertakenInv'
    <3>1. PICK T: Fetch(p, T)
      BY <2>3 DEF FetchCodes, FetchTimes
    <3>2. UNCHANGED <<remote, local, writes>> /\ CatchUp(p)
      BY <2>3 DEF FetchCodes, FetchTimes
    <3>3. /\ \A r \in Rows: snapshot'[p][r] # 0 => local[r] <= snapshot'[p][r]
          /\ \A q \in Syncers \ {p}: snapshot'[q] = snapshot[q]
      BY <2>0, <3>1, <3>2, FetchKeepsNewest
    <3>4. \A q \in Syncers \ {p}: overtaken'[q] = overtaken[q]
      BY <2>0, <3>2 DEF CatchUp, SyncTypeOK
    <3> QED
      BY <3>2, <3>3, <3>4 DEF OvertakenInv
  <2>4. ASSUME NEW p \in Syncers, StoreCodesFails(p)
        PROVE  OvertakenInv'
    BY <2>0, <2>4 DEF StoreCodesFails, Forget, Empty, OvertakenInv, SyncTypeOK
  <2>5. ASSUME NEW p \in Syncers, NEW g \in Groups, StoreTimeFails(p, g)
        PROVE  OvertakenInv'
    <3>1. \A q \in Syncers, r \in Rows:
            snapshot'[q][r] = IF q = p /\ r = g THEN 0 ELSE snapshot[q][r]
      BY <2>0, <2>5 DEF StoreTimeFails, SyncTypeOK, Rows
    <3> QED
      BY <2>5, <3>1 DEF StoreTimeFails, OvertakenInv
  <2>6. ASSUME NEW p \in Syncers, StoreCodes(p)
        PROVE  OvertakenInv'
    <3>1. \A q \in Syncers, r \in Rows:
            snapshot'[q][r] = IF q = p THEN 0 ELSE snapshot[q][r]
      BY <2>0, <2>6 DEF StoreCodes, Forget, Empty, SyncTypeOK
    <3>2. Codes \in SUBSET Rows
      BY DEF Rows
    <3> QED
      BY <2>0, <2>6, <3>1, <3>2, StoreOvertakes DEF StoreCodes
  <2>7. ASSUME NEW p \in Syncers, NEW g \in Groups, StoreTime(p, g)
        PROVE  OvertakenInv'
    <3>1. \A q \in Syncers, r \in Rows:
            snapshot'[q][r] = IF q = p /\ r \in {g} THEN 0 ELSE snapshot[q][r]
      BY <2>0, <2>7 DEF StoreTime, SyncTypeOK, Rows
    <3> QED
      BY <2>0, <2>7, <3>1, StoreOvertakes DEF StoreTime, Rows
  <2> QED
    BY SyncCases, <2>1, <2>2, <2>3, <2>4, <2>5, <2>6, <2>7
       DEF RemoteWrite, Notification, Ticks, Callback, FetchCodesFails, FetchTimesFails,
           TimesStored, syncVars
<1> QED
  BY <1>1, <1>2, StartInvHolds, PTL DEF SyncSpec

\* Only a sync of the ticker or of the callback that was overtaken takes a row
\* back to an older version.
THEOREM OnlyOvertakenEverGoesBack == SyncSpec => OnlyOvertakenGoesBack
<1> DEFINE Overtaken ==
      \A r \in Rows: local'[r] \in 1..local[r] - 1
        => \E p \in {"ticker", "callback"}: r \in overtaken[p] /\ local'[r] = snapshot[p][r]
<1>1. StartInv /\ OvertakenInv /\ [SyncNext]_syncVars => [Overtaken]_syncVars
  <2> SUFFICES ASSUME StartInv, OvertakenInv, [SyncNext]_syncVars,
                      NEW r \in Rows, local'[r] \in 1..local[r] - 1
               PROVE  \E p \in {"ticker", "callback"}:
                        r \in overtaken[p] /\ local'[r] = snapshot[p][r]
    OBVIOUS
  <2>1. local[r] \in Nat /\ \A p \in Syncers: snapshot[p][r] \in Nat
    BY SyncAssumption DEF StartInv, SyncTypeOK
  <2>2. PICK p \in Syncers: pc[p] # "waits" /\ snapshot[p][r] # 0 /\ local'[r] = snapshot[p][r]
    <3>1. CASE UNCHANGED local
      BY <2>1, <3>1
    <3>2. ASSUME NEW p \in Syncers, NEW T, pc[p] # "waits", local' = Upserted(p, T)
          PROVE  pc[p] # "waits" /\ snapshot[p][r] # 0 /\ local'[r] = snapshot[p][r]
      BY <2>1, <3>2 DEF Upserted
    <3> QED
      BY SyncCases, <3>1, <3>2
         DEF RemoteWrite, Notification, Ticks, Callback, Restart, FetchCodes, FetchCodesFails,
             StoreCodes, StoreCodesFails, FetchTimes, FetchTimesFails, TimesStored,
             StoreTime, StoreTimeFails, syncVars
  <2>3. ~(local[r] <= snapshot[p][r])
    BY <2>1, <2>2
  <2>4. r \in overtaken[p]
    BY <2>2, <2>3 DEF OvertakenInv
  <2>5. p # "main"
    BY <2>2, <2>3 DEF StartInv, MainAlone
  <2> QED
    BY <2>2, <2>4, <2>5 DEF Syncers
<1> QED
  BY <1>1, StartInvHolds, OvertakenInvHolds, PTL DEF SyncSpec, OnlyOvertakenGoesBack

-----------------------------------------------------------------------------
(* Rows in step.                                                            *)

\* What a step can do to one row, when nobody writes it in Postgres: a syncer
\* stores what it holds, and then holds what it held, what Postgres has, or
\* nothing.
LEMMA RowMoves ==
  ASSUME SyncTypeOK, [SyncNext]_syncVars, NEW r \in Rows
  PROVE  /\ \/ local'[r] = local[r]
            \/ \E p \in Syncers: snapshot[p][r] # 0 /\ local'[r] = snapshot[p][r]
         /\ \A p \in Syncers: snapshot'[p][r] \in {0, snapshot[p][r], remote[r]}
<1> DEFINE LocalMoves == \/ local'[r] = local[r]
                         \/ \E p \in Syncers: snapshot[p][r] # 0 /\ local'[r] = snapshot[p][r]
           Held == \A p \in Syncers: snapshot'[p][r] \in {0, snapshot[p][r], remote[r]}
<1>1. ASSUME NEW p \in Syncers, NEW T, local' = Upserted(p, T)
      PROVE  LocalMoves
  BY <1>1 DEF Upserted
<1>2. ASSUME NEW p \in Syncers, NEW T, Fetch(p, T)
      PROVE  Held
  <2>1. PICK got \in SUBSET T:
          snapshot' = [snapshot EXCEPT ![p] = [t \in Rows |-> IF t \in got THEN remote[t] ELSE 0]]
    BY <1>2 DEF Fetch
  <2> QED
    BY <2>1 DEF SyncTypeOK
<1>3. ASSUME NEW p \in Syncers, Forget(p)
      PROVE  Held
  BY <1>3 DEF Forget, Empty, SyncTypeOK
<1>4. ASSUME NEW p \in Syncers, NEW g \in Groups, snapshot' = [snapshot EXCEPT ![p][g] = 0]
      PROVE  Held
  BY <1>4 DEF SyncTypeOK, Rows
<1>5. CASE UNCHANGED <<local, snapshot>>
  BY <1>5
<1>6. CASE Restart
  BY <1>6 DEF Restart, Empty
<1>7. ASSUME NEW p \in Syncers,
             FetchCodes(p) \/ FetchTimes(p) \/ StoreCodes(p) \/ StoreCodesFails(p)
      PROVE  LocalMoves /\ Held
  BY <1>1, <1>2, <1>3, <1>7 DEF FetchCodes, FetchTimes, StoreCodes, StoreCodesFails
<1>8. ASSUME NEW p \in Syncers, NEW g \in Groups, StoreTime(p, g) \/ StoreTimeFails(p, g)
      PROVE  LocalMoves /\ Held
  BY <1>1, <1>4, <1>8 DEF StoreTime, StoreTimeFails
<1> QED
  BY SyncCases, <1>5, <1>6, <1>7, <1>8
     DEF RemoteWrite, Notification, Ticks, Callback, FetchCodesFails, FetchTimesFails,
         TimesStored, syncVars

\* A row that is in step stays so until it is written in Postgres again.
THEOREM AlwaysStaysInStep == SyncSpec => StaysInStep
<1> DEFINE Stays == \A r \in Rows: InStep(r) /\ remote'[r] = remote[r] => InStep(r)'
<1>1. SyncTypeOK /\ [SyncNext]_syncVars => [Stays]_syncVars
  <2> SUFFICES ASSUME SyncTypeOK, [SyncNext]_syncVars,
                      NEW r \in Rows, InStep(r), remote'[r] = remote[r]
               PROVE  InStep(r)'
    OBVIOUS
  <2>1. local'[r] = local[r] \/ \E p \in Syncers: snapshot[p][r] # 0 /\ local'[r] = snapshot[p][r]
    BY RowMoves
  <2>2. \A p \in Syncers: snapshot'[p][r] \in {0, snapshot[p][r], remote[r]}
    BY RowMoves
  <2> QED
    BY <2>1, <2>2 DEF InStep
<1> QED
  BY <1>1, SyncTypeCorrect, PTL DEF SyncSpec, StaysInStep
=============================================================================
