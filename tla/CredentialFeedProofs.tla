------------------------ MODULE CredentialFeedProofs ------------------------
(***************************************************************************)
(* What CredentialFeed guarantees for every set of codes, marks and calls. *)
(*                                                                         *)
(* Both properties are about the end of a call whose steps interleave with *)
(* those of other calls, so they are not inductive: WinInv says what an    *)
(* undisputed call has achieved after each of its steps, SpareInv which    *)
(* codes a call has any business with.                                     *)
(***************************************************************************)
EXTENDS CredentialFeed, TLAPS

\* The actions that change what the proofs are about, one by one.
LEMMA FeedCases ==
  ASSUME [FeedNext]_feedVars, NEW P,
         \A f \in Files: FileChanges(f) => P,
         \A c \in Codes: RowByHand(c) => P,
         Start => P, Watch => P, Stop => P, Crash => P,
         \A h \in Handlers: TakeEvent(h) => P,
         \A h \in Handlers: Parse(h) => P,
         \A h \in Handlers: Load(h) => P,
         \A h \in Handlers: Delete(h) => P,
         \A h \in Handlers, c \in Codes: Put(h, c) => P,
         \A h \in Handlers: PutsDone(h) => P,
         \A h \in Handlers: Forget(h) /\ (Notify(h) \/ Fails(h)) => P,
         UNCHANGED feedVars => P
  PROVE  P
BY DEF FeedNext, HandleFile, Notify, Fails

-----------------------------------------------------------------------------
(* Type correctness.                                                       *)

Steps == {"idle", "parse", "load", "delete", "put", "notify"}

\* What Forget and Crash leave of a call has its type.
LEMMA NothingType == Nothing \in Files /\ Listed(Nothing) = {}
BY DEF Nothing, Files, Listed

\* fed has only codes, whatever has happened.
LEMMA NoteFedType ==
  ASSUME FeedTypeOK, NoteFed
  PROVE  fed' \subseteq Codes
BY DEF FeedTypeOK, NoteFed, Listed, FeedRows

\* A change from outside keeps the types of the history.
LEMMA NoteOutsideType ==
  ASSUME FeedTypeOK, NoteOutside
  PROVE  /\ undisputed' \in [Handlers -> BOOLEAN]
         /\ mirrored' \in BOOLEAN
         /\ fed' \subseteq Codes
BY NoteFedType DEF NoteOutside

\* Every state of every behaviour has the types of FeedTypeOK: no goroutine is
\* started without an event, and no call puts a row it has not parsed.
THEOREM FeedTypeCorrect == FeedSpec => []FeedTypeOK
<1>1. FeedInit => FeedTypeOK
  <2> SUFFICES ASSUME FeedInit
               PROVE  FeedTypeOK
    OBVIOUS
  <2>1. table \in [Codes -> Marks \cup {Absent, Manual}]
    BY DEF FeedInit
  <2>2. undisputed \in [Handlers -> BOOLEAN] /\ mirrored \in BOOLEAN
    BY Zenon DEF FeedInit
  <2> QED
    BY <2>1, <2>2, FeedAssumption, NothingType DEF FeedInit, FeedTypeOK
<1>2. FeedTypeOK /\ [FeedNext]_feedVars => FeedTypeOK'
  <2> SUFFICES ASSUME FeedTypeOK, [FeedNext]_feedVars
               PROVE  FeedTypeOK'
    OBVIOUS
  <2>1. ASSUME NEW f \in Files, FileChanges(f)
        PROVE  FeedTypeOK'
    <3>1. events' \in 0..MaxEvents
      BY <2>1, FeedAssumption DEF FileChanges, FeedTypeOK
    <3> QED
      BY <2>1, <3>1, NoteOutsideType DEF FileChanges, FeedTypeOK, calls
  <2>2. ASSUME NEW c \in Codes, RowByHand(c)
        PROVE  FeedTypeOK'
    <3>1. table' \in [Codes -> Marks \cup {Absent, Manual}]
      BY <2>2 DEF RowByHand, FeedTypeOK
    <3> QED
      BY <2>2, <3>1, NoteOutsideType DEF RowByHand, FeedTypeOK, calls
  <2>3. CASE Start
    BY <2>3, NoteFedType DEF Start, Begin, FeedTypeOK
  <2>4. CASE Watch
    BY <2>4 DEF Watch, FeedTypeOK, calls
  <2>5. CASE Stop
    BY <2>5 DEF Stop, FeedTypeOK, calls
  <2>6. CASE Crash
    BY <2>6, FeedAssumption, NoteFedType, NothingType DEF Crash, FeedTypeOK
  <2>7. ASSUME NEW h \in Handlers, TakeEvent(h)
        PROVE  FeedTypeOK'
    BY <2>7, FeedAssumption, NoteFedType DEF TakeEvent, Begin, FeedTypeOK
  <2>8. ASSUME NEW h \in Handlers, Parse(h)
        PROVE  FeedTypeOK'
    BY <2>8, NoteFedType DEF Parse, Goto, FeedTypeOK
  <2>9. ASSUME NEW h \in Handlers, Load(h)
        PROVE  FeedTypeOK'
    <3>1. PICK seen \in SUBSET Codes:
            /\ doomed' = [doomed EXCEPT ![h] = Doomed(h, seen)]
            /\ toPut' = [toPut EXCEPT ![h] = Listed(content[h])]
            /\ undisputed' = [undisputed EXCEPT ![h] =
                 FeedRows(table) \subseteq seen /\ \A g \in AtWork: content[g] = file]
      BY <2>9 DEF Load
    <3>2. doomed' \in [Handlers -> SUBSET Codes]
      BY <3>1 DEF FeedTypeOK, Doomed
    <3>3. toPut' \in [Handlers -> SUBSET Codes]
      BY <3>1 DEF FeedTypeOK, Listed
    <3>4. undisputed' \in [Handlers -> BOOLEAN]
      BY <3>1, Zenon DEF FeedTypeOK
    <3>5. step' \in [Handlers -> Steps]
      BY <2>9 DEF Load, Goto, FeedTypeOK, Steps
    <3>6. UNCHANGED <<file, table, phase, events, content, mirrored, fed>>
      BY <2>9 DEF Load
    <3> QED
      BY <3>2, <3>3, <3>4, <3>5, <3>6 DEF FeedTypeOK, Steps
  <2>10. ASSUME NEW h \in Handlers, Delete(h)
         PROVE  FeedTypeOK'
    BY <2>10, NoteFedType DEF Delete, Goto, FeedTypeOK
  <2>11. ASSUME NEW h \in Handlers, NEW c \in Codes, Put(h, c)
         PROVE  FeedTypeOK'
    BY <2>11, NoteFedType DEF Put, FeedTypeOK, Files
  <2>12. ASSUME NEW h \in Handlers, PutsDone(h)
         PROVE  FeedTypeOK'
    <3>1. mirrored' \in BOOLEAN
      BY <2>12, Zenon DEF PutsDone, FeedTypeOK
    <3> QED
      BY <2>12, <3>1 DEF PutsDone, Goto, FeedTypeOK
  <2>13. ASSUME NEW h \in Handlers, Forget(h)
         PROVE  FeedTypeOK'
    BY <2>13, NoteFedType, NothingType DEF Forget, Goto, FeedTypeOK
  <2>14. CASE UNCHANGED feedVars
    BY <2>14 DEF feedVars, calls, FeedTypeOK
  <2> QED
    BY <2>1, <2>2, <2>3, <2>4, <2>5, <2>6, <2>7, <2>8, <2>9, <2>10, <2>11,
       <2>12, <2>13, <2>14, FeedCases
<1> QED
  BY <1>1, <1>2, PTL DEF FeedSpec

-----------------------------------------------------------------------------
(* The file wins.                                                          *)

\* What UndisputedFileWins says of the table, whoever has seen to it.
Mirror ==
  /\ \A c \in Listed(file): table[c] = file[c]
  /\ FeedRows(table) \subseteq Listed(file)

Current == \A g \in AtWork: content[g] = file

\* What an undisputed call has achieved, after each of its steps.
Achieved(h) ==
  /\ step[h] \in {"delete", "put", "notify"}
  /\ content[h] = file
  /\ Current
  /\ step[h] = "delete" => /\ FeedRows(table) \subseteq Listed(file) \cup doomed[h]
                           /\ toPut[h] = Listed(file)
  /\ step[h] = "put" => /\ FeedRows(table) \subseteq Listed(file)
                        /\ \A c \in Listed(file) \ toPut[h]: table[c] = file[c]
  /\ step[h] = "notify" => Mirror

\* A call has no lists before it loads, deletes nothing it has parsed, and
\* puts nothing else.
Keeps(h) ==
  /\ step[h] \in {"idle", "parse", "load"} => doomed[h] = {} /\ toPut[h] = {}
  /\ doomed[h] \cap Listed(content[h]) = {}
  /\ toPut[h] \subseteq Listed(content[h])

WinInv ==
  /\ \A h \in Handlers: Keeps(h)
  /\ \A h \in Handlers: undisputed[h] => Achieved(h)
  /\ mirrored => Mirror /\ Current

\* After a change from outside nothing is claimed.
LEMMA OutsideKeepsWinInv ==
  ASSUME WinInv, NoteOutside, UNCHANGED calls
  PROVE  WinInv'
BY DEF WinInv, NoteOutside, calls, Keeps

\* A delete of a call with the present content takes away no row that is
\* listed, and brings none.
LEMMA DeleteKeepsRows ==
  ASSUME FeedTypeOK, WinInv, NEW h \in Handlers, Delete(h), content[h] = file
  PROVE  /\ FeedRows(table') \subseteq FeedRows(table) \ doomed[h]
         /\ \A c \in Listed(file): table'[c] = table[c]
BY FeedAssumption DEF FeedTypeOK, WinInv, Keeps, Delete, FeedRows, Listed

\* A put of a call with the present content makes a listed row what it is in
\* the file, and touches no other.
LEMMA PutKeepsRows ==
  ASSUME FeedTypeOK, WinInv, NEW h \in Handlers, NEW c \in Codes, Put(h, c),
         content[h] = file
  PROVE  /\ c \in Listed(file)
         /\ table'[c] = file[c]
         /\ \A d \in Codes \ {c}: table'[d] = table[d]
         /\ FeedRows(table') \subseteq FeedRows(table) \cup {c}
BY DEF FeedTypeOK, WinInv, Keeps, Put, FeedRows, Listed

\* What a call has achieved after each of its steps holds in every behaviour.
LEMMA WinInvHolds == FeedSpec => []WinInv
<1>1. FeedInit => WinInv
  BY NothingType DEF FeedInit, WinInv, Keeps
<1>2. FeedTypeOK /\ WinInv /\ [FeedNext]_feedVars => WinInv'
  <2> SUFFICES ASSUME FeedTypeOK, WinInv, [FeedNext]_feedVars
               PROVE  WinInv'
    OBVIOUS
  <2>1. ASSUME NEW f \in Files, FileChanges(f)
        PROVE  WinInv'
    BY <2>1, OutsideKeepsWinInv DEF FileChanges
  <2>2. ASSUME NEW c \in Codes, RowByHand(c)
        PROVE  WinInv'
    BY <2>2, OutsideKeepsWinInv DEF RowByHand
  <2>3. ASSUME NEW h \in Handlers, Begin(h) \/ UNCHANGED step,
               UNCHANGED <<file, table, content, doomed, toPut, undisputed, mirrored>>
        PROVE  WinInv'
    <3>1. AtWork' \subseteq AtWork
      BY <2>3 DEF Begin, AtWork, FeedTypeOK
    <3>2. \A g \in Handlers: step[g] \in {"delete", "put", "notify"} => step'[g] = step[g]
      BY <2>3 DEF Begin, FeedTypeOK
    <3>3. Current => Current'
      BY <2>3, <3>1 DEF Current
    <3>4. \A g \in Handlers: Keeps(g)'
      BY <2>3 DEF WinInv, Keeps, Begin, FeedTypeOK
    <3>5. Mirror' = Mirror
      BY <2>3 DEF Mirror
    <3>6. \A g \in Handlers: Achieved(g) => Achieved(g)'
      BY <2>3, <3>2, <3>3, <3>5 DEF Achieved
    <3> QED
      BY <2>3, <3>3, <3>4, <3>5, <3>6 DEF WinInv
  <2>4. ASSUME NEW h \in Handlers, Parse(h)
        PROVE  WinInv'
    <3>1. /\ step[h] = "parse"
          /\ step' = [step EXCEPT ![h] = "load"]
          /\ content' = [content EXCEPT ![h] = file]
          /\ UNCHANGED <<file, table, doomed, toPut, undisputed, mirrored>>
      BY <2>4 DEF Parse, Goto
    <3>2. ~ undisputed[h]
      BY <3>1 DEF WinInv, Achieved
    <3>3. Current => Current'
      BY <3>1 DEF Current, AtWork, FeedTypeOK
    <3>4. \A g \in Handlers: Keeps(g)'
      BY <3>1 DEF WinInv, Keeps, FeedTypeOK
    <3> QED
      BY <3>1, <3>2, <3>3, <3>4 DEF WinInv, Achieved, Mirror, FeedTypeOK
  <2>5. ASSUME NEW h \in Handlers, Load(h)
        PROVE  WinInv'
    <3>1. PICK seen \in SUBSET Codes:
            /\ doomed' = [doomed EXCEPT ![h] = Doomed(h, seen)]
            /\ undisputed' = [undisputed EXCEPT
                 ![h] = FeedRows(table) \subseteq seen /\ Current]
      BY <2>5 DEF Load, Current
    <3>2. /\ step[h] = "load"
          /\ step' = [step EXCEPT ![h] = "delete"]
          /\ toPut' = [toPut EXCEPT ![h] = Listed(content[h])]
          /\ UNCHANGED <<file, table, content, mirrored>>
      BY <2>5 DEF Load, Goto
    <3>3. \A g \in Handlers: Keeps(g)'
      BY <3>1, <3>2 DEF WinInv, Keeps, FeedTypeOK, Doomed
    <3>4. AtWork' = AtWork
      BY <3>2 DEF AtWork, FeedTypeOK
    <3>5. Current' = Current
      BY <3>2, <3>4 DEF Current
    <3>6. ASSUME FeedRows(table) \subseteq seen, Current
          PROVE  Achieved(h)'
      <4>1. content[h] = file
        BY <3>2, <3>6 DEF Current, AtWork
      <4>2. doomed'[h] = FeedRows(table) \ Listed(file)
        BY <3>1, <3>6, <4>1 DEF Doomed, FeedTypeOK
      <4> QED
        BY <3>2, <3>5, <3>6, <4>1, <4>2 DEF Achieved, FeedTypeOK
    <3>7. \A g \in Handlers \ {h}: undisputed[g] => Achieved(g)'
      BY <3>1, <3>2, <3>5 DEF WinInv, Achieved, Mirror, FeedTypeOK
    <3>8. undisputed'[h] => FeedRows(table) \subseteq seen /\ Current
      BY <3>1, Zenon DEF FeedTypeOK
    <3>9. \A g \in Handlers \ {h}: undisputed'[g] = undisputed[g]
      BY <3>1 DEF FeedTypeOK
    <3> QED
      BY <3>2, <3>3, <3>5, <3>6, <3>7, <3>8, <3>9 DEF WinInv, Mirror
  <2>6. ASSUME NEW h \in Handlers, Delete(h)
        PROVE  WinInv'
    <3>1. /\ step[h] = "delete"
          /\ step' = [step EXCEPT ![h] = "put"]
          /\ doomed' = [doomed EXCEPT ![h] = {}]
          /\ UNCHANGED <<file, content, toPut, undisputed, mirrored>>
      BY <2>6 DEF Delete, Goto
    <3>2. \A g \in Handlers: Keeps(g)'
      BY <3>1 DEF WinInv, Keeps, FeedTypeOK
    <3>3. AtWork' = AtWork
      BY <3>1 DEF AtWork, FeedTypeOK
    <3>4. Current' = Current
      BY <3>1, <3>3 DEF Current
    <3>5. Current => content[h] = file
      BY <3>1 DEF Current, AtWork
    <3>6. Current => /\ FeedRows(table') \subseteq FeedRows(table) \ doomed[h]
                     /\ \A c \in Listed(file): table'[c] = table[c]
      BY <2>6, <3>5, DeleteKeepsRows
    <3>7. Mirror /\ Current => Mirror'
      BY <3>1, <3>6 DEF Mirror
    <3>8. \A g \in Handlers: Achieved(g) => Achieved(g)'
      <4> SUFFICES ASSUME NEW g \in Handlers, Achieved(g)
                   PROVE  Achieved(g)'
        OBVIOUS
      <4>1. CASE g = h
        BY <3>1, <3>4, <3>6, <4>1 DEF Achieved, FeedTypeOK
      <4>2. CASE g # h
        <5>1. step'[g] = step[g] /\ doomed'[g] = doomed[g]
          BY <3>1, <4>2 DEF FeedTypeOK
        <5> QED
          BY <3>1, <3>4, <3>6, <3>7, <5>1 DEF Achieved
      <4> QED
        BY <4>1, <4>2
    <3> QED
      BY <3>1, <3>2, <3>4, <3>7, <3>8 DEF WinInv
  <2>7. ASSUME NEW h \in Handlers, NEW c \in Codes, Put(h, c)
        PROVE  WinInv'
    <3>1. /\ step[h] = "put"
          /\ toPut' = [toPut EXCEPT ![h] = @ \ {c}]
          /\ UNCHANGED <<file, step, content, doomed, undisputed, mirrored>>
      BY <2>7 DEF Put
    <3>2. \A g \in Handlers: Keeps(g)'
      BY <3>1 DEF WinInv, Keeps, FeedTypeOK
    <3>3. Current' = Current
      BY <3>1 DEF Current, AtWork
    <3>4. Current => content[h] = file
      BY <3>1 DEF Current, AtWork
    <3>5. Current => /\ c \in Listed(file)
                     /\ table'[c] = file[c]
                     /\ \A d \in Codes \ {c}: table'[d] = table[d]
                     /\ FeedRows(table') \subseteq FeedRows(table) \cup {c}
      BY <2>7, <3>4, PutKeepsRows
    <3>6. Listed(file) \subseteq Codes
      BY DEF Listed
    <3>7. Mirror /\ Current => Mirror'
      BY <3>1, <3>5, <3>6 DEF Mirror
    <3>8. \A g \in Handlers: Achieved(g) => Achieved(g)'
      <4> SUFFICES ASSUME NEW g \in Handlers, Achieved(g)
                   PROVE  Achieved(g)'
        OBVIOUS
      <4>1. step[g] = "put" =>
              \A d \in Listed(file) \ toPut'[g]: table'[d] = file[d]
        BY <3>1, <3>5, <3>6 DEF Achieved, FeedTypeOK
      <4>2. step[g] = "delete" => g # h /\ toPut'[g] = toPut[g]
        BY <3>1 DEF FeedTypeOK
      <4> QED
        BY <3>1, <3>3, <3>5, <3>7, <4>1, <4>2 DEF Achieved
    <3> QED
      BY <3>1, <3>2, <3>3, <3>7, <3>8 DEF WinInv
  <2>8. ASSUME NEW h \in Handlers, PutsDone(h)
        PROVE  WinInv'
    <3>1. /\ step[h] = "put" /\ toPut[h] = {}
          /\ step' = [step EXCEPT ![h] = "notify"]
          /\ UNCHANGED <<file, table, content, doomed, toPut, undisputed>>
      BY <2>8 DEF PutsDone, Goto
    <3>2. mirrored' => mirrored \/ undisputed[h]
      BY <2>8, Zenon DEF PutsDone
    <3>3. \A g \in Handlers: Keeps(g)'
      BY <3>1 DEF WinInv, Keeps, FeedTypeOK
    <3>4. AtWork' \subseteq AtWork
      BY <3>1 DEF AtWork, FeedTypeOK
    <3>5. Current => Current'
      BY <3>1, <3>4 DEF Current
    <3>6. Mirror' = Mirror
      BY <3>1 DEF Mirror
    <3>7. Achieved(h) => Mirror /\ Current
      BY <3>1 DEF Achieved, Mirror
    <3>8. \A g \in Handlers: Achieved(g) => Achieved(g)'
      BY <3>1, <3>5, <3>6, <3>7 DEF Achieved, FeedTypeOK
    <3> QED
      BY <3>1, <3>2, <3>3, <3>5, <3>6, <3>7, <3>8 DEF WinInv
  <2>9. ASSUME NEW h \in Handlers, Forget(h)
        PROVE  WinInv'
    <3>1. /\ step' = [step EXCEPT ![h] = "idle"]
          /\ content' = [content EXCEPT ![h] = Nothing]
          /\ doomed' = [doomed EXCEPT ![h] = {}]
          /\ toPut' = [toPut EXCEPT ![h] = {}]
          /\ undisputed' = [undisputed EXCEPT ![h] = FALSE]
          /\ UNCHANGED <<file, table, mirrored>>
      BY <2>9 DEF Forget, Goto
    <3>2. \A g \in Handlers: Keeps(g)'
      BY <3>1 DEF WinInv, Keeps, FeedTypeOK
    <3>3. Current => Current'
      BY <3>1 DEF Current, AtWork, FeedTypeOK
    <3>4. \A g \in Handlers: undisputed'[g] => g # h /\ undisputed[g]
      BY <3>1 DEF FeedTypeOK
    <3>5. \A g \in Handlers \ {h}: Achieved(g) => Achieved(g)'
      BY <3>1, <3>3 DEF Achieved, Mirror, FeedTypeOK
    <3>6. Mirror' = Mirror
      BY <3>1 DEF Mirror
    <3> QED
      BY <3>1, <3>2, <3>3, <3>4, <3>5, <3>6 DEF WinInv
  <2>10. CASE Crash
    <3>1. AtWork' = {}
      BY <2>10 DEF Crash, AtWork
    <3> QED
      BY <2>10, <3>1 DEF Crash, WinInv, Keeps, Mirror, Current
  <2>11. CASE UNCHANGED feedVars
    BY <2>11 DEF feedVars, calls, WinInv, Achieved, Keeps, Mirror, Current, AtWork
  <2>12. CASE Start
    <3>1. CASE UNCHANGED step
      BY <2>12, <3>1 DEF Start, WinInv, Achieved, Keeps, Mirror, Current, AtWork
    <3> QED
      BY <2>3, <2>12, <3>1 DEF Start
  <2>13. ASSUME NEW h \in Handlers, TakeEvent(h)
         PROVE  WinInv'
    BY <2>3, <2>13 DEF TakeEvent
  <2>14. ASSUME Watch \/ Stop
         PROVE  WinInv'
    BY <2>14 DEF Watch, Stop, calls, WinInv, Achieved, Keeps, Mirror, Current, AtWork
  <2> QED
    BY <2>1, <2>2, <2>4, <2>5, <2>6, <2>7, <2>8, <2>9, <2>10, <2>11, <2>12,
       <2>13, <2>14, FeedCases
<1> QED
  BY <1>1, <1>2, FeedTypeCorrect, PTL DEF FeedSpec

\* Once an undisputed call has succeeded, the rows of the feed are those of the
\* file until either is changed from outside, for any number of overlapping,
\* failing and repeated calls.
THEOREM FileWinsUndisputed == FeedSpec => []UndisputedFileWins
<1>1. WinInv => UndisputedFileWins
  BY DEF WinInv, Mirror, UndisputedFileWins
<1> QED
  BY <1>1, WinInvHolds, PTL

-----------------------------------------------------------------------------
(* Rows entered by hand stay.                                              *)

\* The codes a call has any business with are in fed while it is at work.
SpareInv ==
  /\ \A h \in Handlers: Listed(content[h]) \cup doomed[h] \cup toPut[h] \subseteq fed
  /\ \A h \in Handlers:
       step[h] = "idle" => Listed(content[h]) \cup doomed[h] \cup toPut[h] = {}
  /\ ~ NobodyAtWork(step) => Listed(file) \cup FeedRows(table) \subseteq fed

\* fed follows the table and the file, and forgets only when no call is left.
LEMMA NoteFedKeepsSpareInv ==
  ASSUME SpareInv, NoteFed,
         \A h \in Handlers: step'[h] = "idle" =>
           Listed(content'[h]) \cup doomed'[h] \cup toPut'[h] = {},
         \A h \in Handlers: Listed(content'[h]) \cup doomed'[h] \cup toPut'[h]
           \subseteq fed \cup Listed(file')
  PROVE  SpareInv'
BY DEF SpareInv, NoteFed, NobodyAtWork

\* No call of any behaviour has business with a code that is not from the feed.
LEMMA SpareInvHolds == FeedSpec => []SpareInv
<1>1. FeedInit => SpareInv
  BY NothingType DEF FeedInit, SpareInv, NobodyAtWork
<1>2. FeedTypeOK /\ SpareInv /\ [FeedNext]_feedVars => SpareInv'
  <2> SUFFICES ASSUME FeedTypeOK, SpareInv, [FeedNext]_feedVars
               PROVE  SpareInv'
    OBVIOUS
  <2>1. ASSUME NoteFed, UNCHANGED calls
        PROVE  SpareInv'
    BY <2>1, NoteFedKeepsSpareInv DEF SpareInv, calls
  <2>2. ASSUME NEW h \in Handlers, TakeEvent(h) \/ Begin(h), NoteFed,
               UNCHANGED <<content, doomed, toPut>>
        PROVE  SpareInv'
    <3>1. Begin(h)
      BY <2>2 DEF TakeEvent
    <3> QED
      BY <2>2, <3>1, NoteFedKeepsSpareInv DEF SpareInv, Begin, FeedTypeOK
  <2>3. ASSUME NEW h \in Handlers, Parse(h)
        PROVE  SpareInv'
    BY <2>3, NoteFedKeepsSpareInv DEF Parse, Goto, SpareInv, FeedTypeOK
  <2>4. ASSUME NEW h \in Handlers, Load(h)
        PROVE  SpareInv'
    <3>1. PICK seen \in SUBSET Codes: doomed' = [doomed EXCEPT ![h] = Doomed(h, seen)]
      BY <2>4 DEF Load
    <3>2. /\ step[h] = "load"
          /\ step' = [step EXCEPT ![h] = "delete"]
          /\ toPut' = [toPut EXCEPT ![h] = Listed(content[h])]
          /\ UNCHANGED <<file, table, content, fed>>
      BY <2>4 DEF Load, Goto
    <3>3. Listed(file) \cup FeedRows(table) \subseteq fed
      BY <3>2 DEF SpareInv, NobodyAtWork
    <3>4. doomed'[h] \subseteq fed
      BY <3>1, <3>3 DEF Doomed, FeedTypeOK
    <3> QED
      BY <3>1, <3>2, <3>3, <3>4 DEF SpareInv, FeedTypeOK
  <2>5. ASSUME NEW h \in Handlers, Delete(h)
        PROVE  SpareInv'
    BY <2>5, NoteFedKeepsSpareInv DEF Delete, Goto, SpareInv, FeedTypeOK
  <2>6. ASSUME NEW h \in Handlers, NEW c \in Codes, Put(h, c)
        PROVE  SpareInv'
    BY <2>6, NoteFedKeepsSpareInv DEF Put, SpareInv, FeedTypeOK
  <2>7. ASSUME NEW h \in Handlers, PutsDone(h)
        PROVE  SpareInv'
    BY <2>7 DEF PutsDone, Goto, SpareInv, NobodyAtWork, FeedTypeOK
  <2>8. ASSUME NEW h \in Handlers, Forget(h)
        PROVE  SpareInv'
    BY <2>8, NoteFedKeepsSpareInv, NothingType DEF Forget, Goto, SpareInv, FeedTypeOK
  <2>9. CASE Crash
    BY <2>9, NoteFedKeepsSpareInv, NothingType DEF Crash
  <2>10. CASE UNCHANGED feedVars \/ Watch \/ Stop
    BY <2>10 DEF Watch, Stop, feedVars, calls, SpareInv, NobodyAtWork
  <2>11. CASE Start
    <3>1. CASE UNCHANGED step
      BY <2>1, <2>11, <3>1 DEF Start, calls
    <3> QED
      BY <2>2, <2>11, <3>1 DEF Start
  <2>12. ASSUME NEW f \in Files, FileChanges(f)
         PROVE  SpareInv'
    BY <2>1, <2>12 DEF FileChanges, NoteOutside
  <2>13. ASSUME NEW c \in Codes, RowByHand(c)
         PROVE  SpareInv'
    BY <2>1, <2>13 DEF RowByHand, NoteOutside
  <2>14. ASSUME NEW h \in Handlers, TakeEvent(h)
         PROVE  SpareInv'
    BY <2>2, <2>14 DEF TakeEvent
  <2> QED
    BY <2>3, <2>4, <2>5, <2>6, <2>7, <2>8, <2>9, <2>10, <2>11, <2>12, <2>13,
       <2>14, FeedCases
<1> QED
  BY <1>1, <1>2, FeedTypeCorrect, PTL DEF FeedSpec

\* No step of a call takes away or takes over a row entered by hand, unless its
\* code was listed or in a row of the feed while some call was at work.
THEOREM ManualRowsAreSpared == FeedSpec => ManualRowsStay
<1> DEFINE Stays ==
      (\E h \in Handlers: step'[h] # step[h] \/ toPut'[h] # toPut[h]) =>
        \A c \in Codes \ fed: table[c] = Manual => table'[c] = Manual
<1>1. FeedTypeOK /\ SpareInv /\ [FeedNext]_feedVars => [Stays]_feedVars
  <2> SUFFICES ASSUME FeedTypeOK, SpareInv, [FeedNext]_feedVars
               PROVE  Stays
    OBVIOUS
  <2>1. ASSUME UNCHANGED table
        PROVE  Stays
    BY <2>1
  <2>2. ASSUME NEW c \in Codes, RowByHand(c)
        PROVE  Stays
    BY <2>2 DEF RowByHand, calls
  <2>3. ASSUME NEW h \in Handlers, Delete(h)
        PROVE  Stays
    BY <2>3 DEF Delete, SpareInv
  <2>4. ASSUME NEW h \in Handlers, NEW c \in Codes, Put(h, c)
        PROVE  Stays
    BY <2>4 DEF Put, SpareInv, FeedTypeOK
  <2>5. ASSUME NEW h \in Handlers,
               TakeEvent(h) \/ Parse(h) \/ Load(h) \/ PutsDone(h) \/ Forget(h)
        PROVE  UNCHANGED table
    BY <2>5 DEF TakeEvent, Parse, Load, PutsDone, Forget
  <2>6. ASSUME Start \/ Watch \/ Stop \/ Crash \/ UNCHANGED feedVars
        PROVE  UNCHANGED table
    BY <2>6 DEF Start, Watch, Stop, Crash, feedVars
  <2>7. ASSUME NEW f \in Files, FileChanges(f)
        PROVE  UNCHANGED table
    BY <2>7 DEF FileChanges
  <2> QED
    BY <2>1, <2>2, <2>3, <2>4, <2>5, <2>6, <2>7, FeedCases
<1> QED
  BY <1>1, SpareInvHolds, FeedTypeCorrect, PTL DEF FeedSpec, ManualRowsStay

=============================================================================
