------------------------ MODULE GateControllerProofs ------------------------
(***************************************************************************)
(* Safety of GateController for every duration, every set of goroutines    *)
(* and every number of notices.                                            *)
(*                                                                         *)
(* TypeOK and PinsFollowState are inductive alone; AutoClosePending is     *)
(* inductive relative to TypeOK, which bounds openFor so that the sleeper  *)
(* and the opening count down together.                                    *)
(***************************************************************************)
EXTENDS GateController, TLAPS

\* A sleeper sleeps for a natural number of seconds, whatever is configured.
LEMMA SleepTimeIsNat == SleepTime \in Nat
  BY DurationAssumption DEF SleepTime

-----------------------------------------------------------------------------
(* The steps that change the gate, by name: a remote command and a code     *)
(* reach the same three methods.                                            *)

\* A step of the gate is one of its three methods, the end of a sleeper, the
\* registration of the notifier, the end of a publisher, or a second.
LEMMA StepCases ==
  ASSUME [Next]_vars
  PROVE  \/ TempOpen
         \/ LockOpen
         \/ Close
         \/ \E g \in Goroutines: AutoClose(g)
         \/ SetStatusNotifier
         \/ \E s \in Statuses: PublishEnds(s)
         \/ Tick
         \/ UNCHANGED vars
  BY DEF Next, CommandHandler, Open

\* The operators that start a publisher keep the counters in their range.
LEMMA NotifyType ==
  ASSUME NEW s \in Statuses, TypeOK, Notify(s)
  PROVE  /\ notices' \in [Statuses -> 0..MaxNotices]
         /\ notifier' \in BOOLEAN
  BY NoticesAssumption DEF Notify, TypeOK

-----------------------------------------------------------------------------
(* Type correctness.                                                        *)

\* The values that NewGateController gives have their types.
LEMMA InitType == Init => TypeOK
<1> SUFFICES ASSUME Init
             PROVE  TypeOK
  OBVIOUS
<1>1. left \in [Goroutines -> 0..SleepTime]
  BY SleepTimeIsNat DEF Init
<1>2. notices \in [Statuses -> 0..MaxNotices]
  BY NoticesAssumption DEF Init
<1>3. openFor \in 0..SleepTime
  BY SleepTimeIsNat DEF Init
<1>4. /\ asleep \in SUBSET Goroutines
      /\ notifier \in BOOLEAN
      /\ state \in States
      /\ relay \in {"High", "Low"}
      /\ led \in {"High", "Low"}
  BY Zenon DEF Init, States
<1> QED
  BY <1>1, <1>2, <1>3, <1>4 DEF TypeOK

\* Each step of the gate keeps the types.
LEMMA StepKeepsType == TypeOK /\ [Next]_vars => TypeOK'
<1> SUFFICES ASSUME TypeOK, [Next]_vars
             PROVE  TypeOK'
  OBVIOUS
<1> USE SleepTimeIsNat
<1>1. CASE TempOpen
  <2>1. CASE UNCHANGED vars
    BY <2>1 DEF TypeOK, vars, timerVars, noticeVars
  <2>2. CASE state = "Closed" /\ StartSleeper /\ Notify("opened")
             /\ state' = "Open" /\ DrivePins("High") /\ openFor' = 0
    <3>1. /\ notices' \in [Statuses -> 0..MaxNotices]
          /\ notifier' \in BOOLEAN
      BY <2>2, NotifyType DEF Statuses
    <3>2. /\ asleep' \in SUBSET Goroutines
          /\ left' \in [Goroutines -> 0..SleepTime]
      BY <2>2 DEF StartSleeper, TypeOK
    <3> QED
      BY <2>2, <3>1, <3>2 DEF TypeOK, DrivePins, States
  <2> QED
    BY <1>1, <2>1, <2>2 DEF TempOpen
<1>2. CASE LockOpen
  <2>1. CASE UNCHANGED vars
    BY <2>1 DEF TypeOK, vars, timerVars, noticeVars
  <2>2. CASE ~ UNCHANGED vars
    <3>1. /\ notices' \in [Statuses -> 0..MaxNotices]
          /\ notifier' \in BOOLEAN
      BY <1>2, <2>2, NotifyType DEF LockOpen, Statuses
    <3> QED
      BY <1>2, <2>2, <3>1 DEF LockOpen, TypeOK, DrivePins, States
  <2> QED
    BY <2>1, <2>2
<1>3. CASE Close
  <2>1. CASE UNCHANGED vars
    BY <2>1 DEF TypeOK, vars, timerVars, noticeVars
  <2>2. CASE ~ UNCHANGED vars
    <3>1. /\ notices' \in [Statuses -> 0..MaxNotices]
          /\ notifier' \in BOOLEAN
      BY <1>3, <2>2, NotifyType DEF Close, Shut, Statuses
    <3> QED
      BY <1>3, <2>2, <3>1 DEF Close, Shut, TypeOK, DrivePins, States
  <2> QED
    BY <2>1, <2>2
<1>4. ASSUME NEW g \in Goroutines, AutoClose(g)
      PROVE  TypeOK'
  <2>1. CASE Shut
    <3>1. /\ notices' \in [Statuses -> 0..MaxNotices]
          /\ notifier' \in BOOLEAN
      BY <2>1, NotifyType DEF Shut, Statuses
    <3> QED
      BY <1>4, <2>1, <3>1 DEF AutoClose, Shut, TypeOK, DrivePins, States
  <2>2. CASE UNCHANGED <<state, relay, led, openFor, noticeVars>>
    BY <1>4, <2>2 DEF AutoClose, TypeOK, noticeVars
  <2> QED
    BY <1>4, <2>1, <2>2 DEF AutoClose
<1>5. CASE SetStatusNotifier
  BY <1>5 DEF SetStatusNotifier, TypeOK, timerVars
<1>6. ASSUME NEW s \in Statuses, PublishEnds(s)
      PROVE  TypeOK'
  BY <1>6, NoticesAssumption DEF PublishEnds, TypeOK, timerVars
<1>7. CASE Tick
  <2>1. left' \in [Goroutines -> 0..SleepTime]
    BY <1>7 DEF Tick, TypeOK
  <2>2. openFor' \in 0..SleepTime
    BY <1>7 DEF Tick, TypeOK
  <2> QED
    BY <1>7, <2>1, <2>2 DEF Tick, TypeOK, noticeVars
<1>8. CASE UNCHANGED vars
  BY <1>8 DEF TypeOK, vars, timerVars, noticeVars
<1> QED
  BY StepCases, <1>1, <1>2, <1>3, <1>4, <1>5, <1>6, <1>7, <1>8

\* Every state of every behaviour has the types of TypeOK: no sleeper counts
\* below zero and no opening is counted beyond its time.
THEOREM TypeCorrect == Spec => []TypeOK
  BY InitType, StepKeepsType, PTL DEF Spec

-----------------------------------------------------------------------------
(* The pins.                                                                *)

\* Each step of the gate drives both pins or neither.
LEMMA StepKeepsPins == PinsFollowState /\ [Next]_vars => PinsFollowState'
<1> SUFFICES ASSUME PinsFollowState, [Next]_vars
             PROVE  PinsFollowState'
  OBVIOUS
<1>1. CASE TempOpen
  BY <1>1 DEF TempOpen, DrivePins, PinsFollowState, vars
<1>2. CASE LockOpen
  BY <1>2 DEF LockOpen, DrivePins, PinsFollowState, vars
<1>3. CASE Close
  BY <1>3 DEF Close, Shut, DrivePins, PinsFollowState, vars
<1>4. ASSUME NEW g \in Goroutines, AutoClose(g)
      PROVE  PinsFollowState'
  BY <1>4 DEF AutoClose, Shut, DrivePins, PinsFollowState
<1>5. CASE UNCHANGED <<state, relay, led>>
  BY <1>5 DEF PinsFollowState
<1> QED
  BY StepCases, <1>1, <1>2, <1>3, <1>4, <1>5
     DEF SetStatusNotifier, PublishEnds, Tick, vars

\* Whoever moved the gate last, both pins show whether it is shut: the four
\* places of gate.go that drive them leave neither behind.
THEOREM PinsCorrect == Spec => []PinsFollowState
<1>1. Init => PinsFollowState
  BY DEF Init, PinsFollowState
<1> QED
  BY <1>1, StepKeepsPins, PTL DEF Spec

-----------------------------------------------------------------------------
(* The sleepers.                                                            *)

\* A second brings the opening and its sleeper forward together.
LEMMA TickKeepsPending ==
  ASSUME TypeOK, AutoClosePending, Tick
  PROVE  AutoClosePending'
<1> SUFFICES ASSUME state = "Open"
             PROVE  \E g \in asleep': left'[g] = SleepTime - openFor'
  BY DEF Tick, AutoClosePending
<1>1. PICK g \in asleep: left[g] = SleepTime - openFor
  BY DEF AutoClosePending
<1>2. g \in Goroutines /\ asleep' = asleep
  BY <1>1 DEF TypeOK, Tick
<1>3. left'[g] = IF left[g] > 0 THEN left[g] - 1 ELSE 0
  BY <1>2 DEF Tick
<1>4. left'[g] = SleepTime - openFor'
  BY <1>1, <1>2, <1>3, SleepTimeIsNat DEF Tick, TypeOK
<1> QED
  BY <1>1, <1>2, <1>4

\* An opening and its sleeper begin together, and no other step parts them.
LEMMA StepKeepsPending == TypeOK /\ AutoClosePending /\ [Next]_vars => AutoClosePending'
<1> SUFFICES ASSUME TypeOK, AutoClosePending, [Next]_vars
             PROVE  AutoClosePending'
  OBVIOUS
<1>1. CASE TempOpen
  <2>1. CASE StartSleeper /\ openFor' = 0
    <3>1. PICK g \in Goroutines: /\ asleep' = asleep \cup {g}
                                 /\ left' = [left EXCEPT ![g] = SleepTime]
      BY <2>1 DEF StartSleeper
    <3>2. left'[g] = SleepTime - openFor'
      BY <2>1, <3>1, SleepTimeIsNat DEF TypeOK
    <3> QED
      BY <3>1, <3>2 DEF AutoClosePending
  <2>2. CASE UNCHANGED vars
    BY <2>2 DEF AutoClosePending, vars, timerVars
  <2> QED
    BY <1>1, <2>1, <2>2 DEF TempOpen
<1>2. CASE LockOpen
  BY <1>2 DEF LockOpen, AutoClosePending, vars, timerVars
<1>3. CASE Close
  BY <1>3 DEF Close, Shut, AutoClosePending, vars, timerVars
<1>4. ASSUME NEW g \in Goroutines, AutoClose(g)
      PROVE  AutoClosePending'
  BY <1>4 DEF AutoClose, Shut, AutoClosePending
<1>5. CASE Tick
  BY <1>5, TickKeepsPending
<1>6. CASE UNCHANGED <<state, timerVars>>
  BY <1>6 DEF AutoClosePending, timerVars
<1> QED
  BY StepCases, <1>1, <1>2, <1>3, <1>4, <1>5, <1>6
     DEF SetStatusNotifier, PublishEnds, vars

\* An Open gate always has the sleeper of its own opening: no legal sequence of
\* codes, commands and late sleepers leaves a temporary opening without the
\* goroutine that will end it.
THEOREM SleeperOfOpening == Spec => []AutoClosePending
<1>1. Init => AutoClosePending
  BY DEF Init, AutoClosePending
<1> QED
  BY <1>1, StepKeepsPending, TypeCorrect, PTL DEF Spec

-----------------------------------------------------------------------------
(* Locked open.                                                             *)

\* No method but Close, and no sleeper, ends LockedOpen.
LEMMA StepShutsLockedOpen == [Next]_vars => ShutsLockedOpen
<1> SUFFICES ASSUME [Next]_vars
             PROVE  ShutsLockedOpen
  OBVIOUS
<1>1. CASE TempOpen
  BY <1>1 DEF TempOpen, vars, ShutsLockedOpen
<1>2. CASE LockOpen
  BY <1>2 DEF LockOpen, vars, ShutsLockedOpen
<1>3. CASE Close
  BY <1>3 DEF Close, Shut, vars, ShutsLockedOpen
<1>4. ASSUME NEW g \in Goroutines, AutoClose(g)
      PROVE  ShutsLockedOpen
  BY <1>4 DEF AutoClose, ShutsLockedOpen
<1>5. CASE UNCHANGED state
  BY <1>5 DEF ShutsLockedOpen
<1> QED
  BY StepCases, <1>1, <1>2, <1>3, <1>4, <1>5
     DEF SetStatusNotifier, PublishEnds, Tick, vars

\* A sleeper never shuts a gate that was locked open while it slept, and no
\* code or open command lowers it to a temporary opening.
THEOREM LockedOpenStays == Spec => LockedOpenUntilClose
<1>1. [Next]_vars => [ShutsLockedOpen]_vars
  BY StepShutsLockedOpen
<1> QED
  BY <1>1, PTL DEF Spec, LockedOpenUntilClose

-----------------------------------------------------------------------------
(* The contract.                                                            *)

\* Every step of the gate is a step of GateContract or leaves it alone.
LEMMA StepKeepsContract ==
  ASSUME TypeOK, [Next]_vars
  PROVE  [Contract!Next]_(Contract!contractVars)
<1> USE SleepTimeIsNat
<1>1. CASE TempOpen
  BY <1>1 DEF TempOpen, vars, timerVars, Contract!Next, Contract!Admit, Contract!contractVars
<1>2. CASE LockOpen
  BY <1>2 DEF LockOpen, vars, timerVars, TypeOK, States,
              Contract!Next, Contract!Lock, Contract!contractVars
<1>3. CASE Close
  BY <1>3 DEF Close, Shut, vars, timerVars,
              Contract!Next, Contract!Shut, Contract!contractVars
<1>4. ASSUME NEW g \in Goroutines, AutoClose(g)
      PROVE  [Contract!Next]_(Contract!contractVars)
  BY <1>4 DEF AutoClose, Shut, Contract!Next, Contract!Shut, Contract!contractVars
<1>5. CASE Tick
  <2>1. CASE state = "Open" /\ openFor < SleepTime
    <3>1. SleepTime - openFor > 0 /\ SleepTime - openFor' = (SleepTime - openFor) - 1
      BY <1>5, <2>1 DEF Tick, TypeOK
    <3> QED
      BY <1>5, <2>1, <3>1 DEF Tick, Contract!Next, Contract!Elapse
  <2>2. CASE ~ (state = "Open" /\ openFor < SleepTime)
    BY <1>5, <2>2 DEF Tick, Contract!contractVars
  <2> QED
    BY <2>1, <2>2
<1>6. CASE UNCHANGED <<state, openFor>>
  BY <1>6 DEF Contract!contractVars
<1> QED
  BY StepCases, <1>1, <1>2, <1>3, <1>4, <1>5, <1>6
     DEF SetStatusNotifier, PublishEnds, vars, timerVars

\* The gate with its sleepers, pins and publishers implements the safety part
\* of GateContract: no opening is prolonged, and none follows locked open.
THEOREM ImplementsContract == Spec => Contract!SafeSpec
<1>1. Init => Contract!Init
  BY DEF Init, Contract!Init
<1>2. TypeOK /\ [Next]_vars => [Contract!Next]_(Contract!contractVars)
  BY StepKeepsContract
<1> QED
  BY <1>1, <1>2, TypeCorrect, PTL DEF Spec, Contract!SafeSpec
=============================================================================
