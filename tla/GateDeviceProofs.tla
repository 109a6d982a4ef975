-------------------------- MODULE GateDeviceProofs --------------------------
(***************************************************************************)
(* Safety of GateDevice, over any number of boots, crashes, sleepers and   *)
(* publications.                                                           *)
(*                                                                         *)
(* What a step does to the gate itself is taken from GateControllerProofs. *)
(* BootInv adds to the pins that a process finds the gate closed in its    *)
(* memory; RecentInv says which statuses may be in flight, in whatever     *)
(* order they will reach the broker, and what it retains when none is.     *)
(***************************************************************************)
EXTENDS GateDevice, GateControllerProofs

\* A step in which the gate is moved by a code, a command or a sleeper.
Moves ==
  /\ pc # "down"
  /\ TempOpen \/ LockOpen \/ Close \/ (\E g \in Goroutines: AutoClose(g)) \/ UNCHANGED vars
  /\ NoteChange
  /\ UNCHANGED <<pc, outbox, retained>>

\* A step in which main() goes on and the gate is left alone.
MainGoesOn == ConnectOk \/ AnnounceClosed

\* A step in which the process ends.
Ends ==
  /\ LoseMemory
  /\ UNCHANGED <<relay, led>> \/ DrivePins("Low")
  /\ retained' \in {retained} \cup outbox

\* The steps of the device, by what they have in common.
LEMMA DeviceCases ==
  ASSUME [DeviceNext]_deviceVars, NEW P,
         Boot => P, MainGoesOn => P, SetNotifier => P, Ends => P, Moves => P,
         \A s \in Statuses: Publish(s) => P,
         \A s \in Statuses: Deliver(s) => P,
         Second => P,
         UNCHANGED deviceVars => P
  PROVE  P
<1>1. ConnectFails \/ Crash => Ends
  BY DEF ConnectFails, Crash, Ends
<1>2. KeypadCode => Moves
  BY DEF KeypadCode, KeypadActs, Open, Moves
<1>3. Command => Moves
  BY DEF Command, CommandHandler, Moves
<1>4. \A g \in Goroutines: SleeperEnds(g) => Moves
  BY DEF SleeperEnds, Moves
<1> QED
  BY <1>1, <1>2, <1>3, <1>4 DEF DeviceNext, MainGoesOn

\* To the gate itself, a move is a step of its own.
LEMMA MovesAreSteps == Moves => [Next]_vars
BY DEF Moves, Next, CommandHandler, Open, Commands

-----------------------------------------------------------------------------
(* Type correctness.                                                       *)

\* Every state of the gate has a status.
LEMMA StatusOfType == \A st \in States: StatusOf[st] \in Statuses
BY DEF States, StatusOf, Statuses

\* What is noted are statuses.
LEMMA NoteType ==
  ASSUME recent \subseteq Statuses, NEW s \in Statuses, NoteStatus(s)
  PROVE  recent' \subseteq Statuses
BY DEF NoteStatus

\* Every state of every behaviour has the types of DeviceTypeOK: over crashes
\* and restarts the broker retains nothing but a status that was published.
THEOREM DeviceTypeCorrect == DeviceSpec => []DeviceTypeOK
<1>1. DeviceInit => DeviceTypeOK
  <2> SUFFICES ASSUME DeviceInit
               PROVE  DeviceTypeOK
    OBVIOUS
  <2> QED
    BY InitType DEF DeviceInit, DeviceTypeOK, Stages
<1>2. DeviceTypeOK /\ [DeviceNext]_deviceVars => DeviceTypeOK'
  <2> SUFFICES ASSUME DeviceTypeOK, [DeviceNext]_deviceVars
               PROVE  DeviceTypeOK'
    OBVIOUS
  <2>0. ASSUME UNCHANGED vars
        PROVE  TypeOK'
    BY <2>0, StepKeepsType DEF DeviceTypeOK
  <2>1. CASE Boot
    <3>1. TypeOK'
      BY <2>1 DEF Boot, DrivePins, DeviceTypeOK, TypeOK, timerVars, noticeVars
    <3> QED
      BY <2>1, <3>1 DEF Boot, DeviceTypeOK, Stages
  <2>2. CASE MainGoesOn
    <3>1. UNCHANGED vars
      BY <2>2 DEF MainGoesOn, ConnectOk, AnnounceClosed
    <3>2. "closed" \in Statuses
      BY DEF Statuses
    <3>3. outbox' \subseteq Statuses /\ recent' \subseteq Statuses
      BY <2>2, <3>2, NoteType DEF MainGoesOn, ConnectOk, AnnounceClosed, Enqueue, DeviceTypeOK
    <3> QED
      BY <2>0, <2>2, <3>1, <3>2, <3>3
         DEF MainGoesOn, ConnectOk, AnnounceClosed, DeviceTypeOK, Stages
  <2>3. CASE SetNotifier
    <3>1. TypeOK'
      BY <2>3, StepKeepsType DEF SetNotifier, DeviceTypeOK, Next
    <3> QED
      BY <2>3, <3>1 DEF SetNotifier, DeviceTypeOK, Stages
  <2>4. CASE Ends
    <3>1. left' \in [Goroutines -> 0..SleepTime] /\ openFor' \in 0..SleepTime
      BY <2>4, SleepTimeIsNat DEF Ends, LoseMemory
    <3>2. notices' \in [Statuses -> 0..MaxNotices]
      BY <2>4, NoticesAssumption DEF Ends, LoseMemory
    <3>3. relay' \in {"High", "Low"} /\ led' \in {"High", "Low"}
      BY <2>4 DEF Ends, DrivePins, DeviceTypeOK, TypeOK
    <3>4. /\ state' \in States
          /\ asleep' \in SUBSET Goroutines
          /\ notifier' \in BOOLEAN
      BY <2>4, Zenon DEF Ends, LoseMemory, States
    <3>5. TypeOK'
      BY <3>1, <3>2, <3>3, <3>4 DEF TypeOK
    <3> QED
      BY <2>4, <3>5 DEF Ends, LoseMemory, DeviceTypeOK, Stages
  <2>5. CASE Moves
    <3>1. TypeOK'
      BY <2>5, MovesAreSteps, StepKeepsType DEF DeviceTypeOK
    <3>2. StatusOf[state'] \in Statuses
      BY <3>1, StatusOfType DEF TypeOK
    <3>3. recent' \subseteq Statuses
      BY <2>5, <3>2, NoteType DEF Moves, NoteChange, DeviceTypeOK
    <3> QED
      BY <2>5, <3>1, <3>3 DEF Moves, DeviceTypeOK
  <2>6. ASSUME NEW s \in Statuses, Publish(s)
        PROVE  DeviceTypeOK'
    <3>1. [Next]_vars
      BY <2>6 DEF Publish, Next
    <3>2. TypeOK'
      BY <3>1, StepKeepsType DEF DeviceTypeOK
    <3> QED
      BY <2>6, <3>2 DEF Publish, Enqueue, DeviceTypeOK
  <2>7. ASSUME NEW s \in Statuses, Deliver(s)
        PROVE  DeviceTypeOK'
    BY <2>0, <2>7 DEF Deliver, DeviceTypeOK
  <2>8. CASE Second
    <3>1. TypeOK'
      BY <2>8, StepKeepsType DEF Second, DeviceTypeOK, Next
    <3> QED
      BY <2>8, <3>1 DEF Second, DeviceTypeOK
  <2>9. CASE UNCHANGED deviceVars
    BY <2>0, <2>9 DEF deviceVars, DeviceTypeOK
  <2> QED
    BY <2>1, <2>2, <2>3, <2>4, <2>5, <2>6, <2>7, <2>8, <2>9, DeviceCases
<1> QED
  BY <1>1, <1>2, PTL DEF DeviceSpec

-----------------------------------------------------------------------------
(* The pins.                                                               *)

\* A process that boots finds in memory the state that Boot drives to the pins.
BootInv ==
  /\ pc = "down" => state = "Closed"
  /\ PinsFollowStateWhileUp

\* Whatever the process before has left on the pins, they show the state of
\* the gate for as long as there is a process.
THEOREM PinsAlwaysFollowWhileUp == DeviceSpec => []PinsFollowStateWhileUp
<1>1. DeviceInit => BootInv
  BY DEF DeviceInit, Init, BootInv, PinsFollowStateWhileUp
<1>2. BootInv /\ [DeviceNext]_deviceVars => BootInv'
  <2> SUFFICES ASSUME BootInv, [DeviceNext]_deviceVars
               PROVE  BootInv'
    OBVIOUS
  <2>0. ASSUME PinsFollowState, [Next]_vars
        PROVE  PinsFollowState'
    BY <2>0, StepKeepsPins
  <2>1. CASE Boot
    BY <2>1 DEF Boot, DrivePins, BootInv, PinsFollowStateWhileUp, PinsFollowState
  <2>2. CASE MainGoesOn
    BY <2>0, <2>2 DEF MainGoesOn, ConnectOk, AnnounceClosed, BootInv, PinsFollowStateWhileUp
  <2>3. CASE SetNotifier
    BY <2>0, <2>3 DEF SetNotifier, Next, BootInv, PinsFollowStateWhileUp
  <2>4. CASE Ends
    BY <2>4 DEF Ends, LoseMemory, BootInv, PinsFollowStateWhileUp
  <2>5. CASE Moves
    BY <2>0, <2>5, MovesAreSteps DEF Moves, BootInv, PinsFollowStateWhileUp
  <2>6. ASSUME NEW s \in Statuses, Publish(s)
        PROVE  BootInv'
    <3>1. UNCHANGED <<state, relay, led, pc>>
      BY <2>6 DEF Publish, PublishEnds, vars
    <3> QED
      BY <3>1 DEF BootInv, PinsFollowStateWhileUp, PinsFollowState
  <2>7. CASE (\E s \in Statuses: Deliver(s)) \/ Second \/ UNCHANGED deviceVars
    <3>1. UNCHANGED <<state, relay, led, pc>>
      BY <2>7 DEF Deliver, Second, Tick, deviceVars, vars
    <3> QED
      BY <3>1 DEF BootInv, PinsFollowStateWhileUp, PinsFollowState
  <2> QED
    BY <2>1, <2>2, <2>3, <2>4, <2>5, <2>6, <2>7, DeviceCases
<1>3. BootInv => PinsFollowStateWhileUp
  BY DEF BootInv
<1> QED
  BY <1>1, <1>2, <1>3, PTL DEF DeviceSpec

-----------------------------------------------------------------------------
(* The gate of the device.                                                 *)

\* To the gate, every step of the device is a step of its own, or leaves its
\* state and its sleepers alone, or is the end of the process.
LEMMA DeviceStepsOfGate ==
  ASSUME [DeviceNext]_deviceVars
  PROVE  [Next]_vars \/ UNCHANGED <<state, timerVars>> \/ Ends
<1>1. Boot => UNCHANGED <<state, timerVars>>
  BY DEF Boot
<1>2. SetNotifier \/ Second => Next
  BY DEF SetNotifier, Second, Next
<1>3. \A s \in Statuses: Publish(s) => [Next]_vars
  BY DEF Publish, Next
<1>4. MainGoesOn \/ (\E s \in Statuses: Deliver(s)) \/ UNCHANGED deviceVars => UNCHANGED vars
  BY DEF MainGoesOn, ConnectOk, AnnounceClosed, Deliver, deviceVars
<1> QED
  BY <1>1, <1>2, <1>3, <1>4, MovesAreSteps, DeviceCases

\* Over boots and crashes too, an Open gate has the sleeper of its own opening.
THEOREM DeviceSleeperOfOpening == DeviceSpec => []AutoClosePending
<1>1. DeviceInit => AutoClosePending
  BY DEF DeviceInit, Init, AutoClosePending
<1>2. DeviceTypeOK /\ AutoClosePending /\ [DeviceNext]_deviceVars => AutoClosePending'
  <2> SUFFICES ASSUME DeviceTypeOK, AutoClosePending, [DeviceNext]_deviceVars
               PROVE  AutoClosePending'
    OBVIOUS
  <2>1. CASE [Next]_vars
    BY <2>1, StepKeepsPending DEF DeviceTypeOK
  <2>2. CASE UNCHANGED <<state, timerVars>>
    BY <2>2 DEF AutoClosePending, timerVars
  <2>3. CASE Ends
    BY <2>3 DEF Ends, LoseMemory, AutoClosePending
  <2> QED
    BY <2>1, <2>2, <2>3, DeviceStepsOfGate
<1> QED
  BY <1>1, <1>2, DeviceTypeCorrect, PTL DEF DeviceSpec

\* A process that ends is down; nothing else lets its last sleeper go than the
\* end of that sleeper, which is the one of the present opening.
THEOREM LoneOpeningAlwaysLasts == DeviceSpec => LoneOpeningLasts
<1> DEFINE Lasts(g) ==
      asleep = {g} /\ asleep' = {} /\ state = "Open" /\ state' = "Closed" /\ pc' # "down"
        => openFor = SleepTime
<1>1. DeviceTypeOK /\ AutoClosePending /\ [DeviceNext]_deviceVars
        => [\A g \in Goroutines: Lasts(g)]_deviceVars
  <2> SUFFICES ASSUME DeviceTypeOK, AutoClosePending, [DeviceNext]_deviceVars,
                      NEW g \in Goroutines, asleep = {g}, asleep' = {},
                      state = "Open", state' = "Closed", pc' # "down"
               PROVE  openFor = SleepTime
    OBVIOUS
  <2>1. [Next]_vars
    BY DeviceStepsOfGate DEF timerVars, Ends, LoseMemory
  <2>2. PICK h \in Goroutines: AutoClose(h)
    BY <2>1, StepCases
       DEF TempOpen, LockOpen, Close, SetStatusNotifier, PublishEnds, Tick, vars, timerVars
  <2>3. left[g] = 0
    BY <2>2 DEF AutoClose
  <2>4. left[g] = SleepTime - openFor
    BY DEF AutoClosePending
  <2> QED
    BY <2>3, <2>4, SleepTimeIsNat DEF DeviceTypeOK, TypeOK
<1> QED
  BY <1>1, DeviceTypeCorrect, DeviceSleeperOfOpening, PTL DEF DeviceSpec, LoneOpeningLasts

\* While there is a process, no sleeper shuts a gate that is locked open, and
\* no code or command lowers it to a temporary opening.
THEOREM LockedOpenStaysWhileUp == DeviceSpec => LockedOpenWhileUp
<1>1. [DeviceNext]_deviceVars => [pc' = "down" \/ ShutsLockedOpen]_deviceVars
  <2> SUFFICES ASSUME [DeviceNext]_deviceVars
               PROVE  pc' = "down" \/ ShutsLockedOpen
    OBVIOUS
  <2>1. CASE [Next]_vars
    BY <2>1, StepShutsLockedOpen
  <2>2. CASE UNCHANGED <<state, timerVars>>
    BY <2>2 DEF ShutsLockedOpen
  <2>3. CASE Ends
    BY <2>3 DEF Ends, LoseMemory
  <2> QED
    BY <2>1, <2>2, <2>3, DeviceStepsOfGate
<1> QED
  BY <1>1, PTL DEF DeviceSpec, LockedOpenWhileUp

\* The device, over crashes and restarts, implements the safety part of
\* GateContract: to the contract the end of the process is a gate that is shut.
THEOREM DeviceImplementsContract == DeviceSpec => Contract!SafeSpec
<1>1. DeviceInit => Contract!Init
  BY DEF DeviceInit, Init, Contract!Init
<1>2. DeviceTypeOK /\ [DeviceNext]_deviceVars => [Contract!Next]_(Contract!contractVars)
  <2> SUFFICES ASSUME DeviceTypeOK, [DeviceNext]_deviceVars
               PROVE  [Contract!Next]_(Contract!contractVars)
    OBVIOUS
  <2>1. CASE [Next]_vars
    BY <2>1, StepKeepsContract DEF DeviceTypeOK
  <2>2. CASE UNCHANGED <<state, timerVars>>
    BY <2>2 DEF timerVars, Contract!contractVars
  <2>3. CASE Ends
    BY <2>3 DEF Ends, LoseMemory, DeviceTypeOK, TypeOK, States,
                Contract!Next, Contract!Shut, Contract!contractVars
  <2> QED
    BY <2>1, <2>2, <2>3, DeviceStepsOfGate
<1> QED
  BY <1>1, <1>2, DeviceTypeCorrect, PTL DEF DeviceSpec, Contract!SafeSpec

-----------------------------------------------------------------------------
(* The retained status.                                                    *)

\* A status that a publisher or the MQTT library still has is a recent one, and
\* so is the retained one when none is in flight.
RecentInv ==
  /\ \A s \in Statuses: notices[s] > 0 => s \in recent
  /\ outbox \subseteq recent
  /\ pc \in {"announcing", "serving"} => notifier
  /\ pc = "serving" /\ Quiet => retained \in recent

\* A move that changes anything for the publishers changes the state, and
\* starts at most a publisher of the new state.
LEMMA MovesAnnounce ==
  ASSUME TypeOK, Moves
  PROVE  \/ UNCHANGED <<state, notices>>
         \/ /\ state' # state /\ state' \in States
            /\ \A s \in Statuses: s # StatusOf[state'] => notices'[s] = notices[s]
            /\ notifier => notices'[StatusOf[state']] > 0
<1> DEFINE Announces ==
      /\ state' # state /\ state' \in States
      /\ Notify(StatusOf[state'])
<1>1. TempOpen => UNCHANGED <<state, notices>> \/ Announces
  BY DEF TempOpen, vars, noticeVars, States, StatusOf
<1>2. LockOpen => UNCHANGED <<state, notices>> \/ Announces
  BY DEF LockOpen, vars, noticeVars, States, StatusOf
<1>3. Close => UNCHANGED <<state, notices>> \/ Announces
  BY DEF Close, Shut, vars, noticeVars, States, StatusOf
<1>4. ASSUME NEW g \in Goroutines, AutoClose(g)
      PROVE  UNCHANGED <<state, notices>> \/ Announces
  BY <1>4 DEF AutoClose, Shut, noticeVars, States, StatusOf
<1>5. UNCHANGED vars => UNCHANGED <<state, notices>> \/ Announces
  BY DEF vars, noticeVars
<1>6. UNCHANGED <<state, notices>> \/ Announces
  BY <1>1, <1>2, <1>3, <1>4, <1>5 DEF Moves
<1>7. ASSUME Announces
      PROVE  /\ \A s \in Statuses: s # StatusOf[state'] => notices'[s] = notices[s]
             /\ notifier => notices'[StatusOf[state']] > 0
  <2>1. notices \in [Statuses -> 0..MaxNotices] /\ StatusOf[state'] \in Statuses
    BY <1>7, StatusOfType DEF TypeOK
  <2> QED
    BY <1>7, <2>1, NoticesAssumption DEF Notify
<1> QED
  BY <1>6, <1>7

\* In whatever order the messages in flight arrive, and however often: what the
\* broker retains once none is in flight was announced since the last such time.
THEOREM RecentStatusAlwaysSettles == DeviceSpec => []RecentStatusSettles
<1>1. DeviceInit => RecentInv
  BY DEF DeviceInit, Init, RecentInv
<1>2. DeviceTypeOK /\ RecentInv /\ [DeviceNext]_deviceVars => RecentInv'
  <2> SUFFICES ASSUME DeviceTypeOK, RecentInv, [DeviceNext]_deviceVars
               PROVE  RecentInv'
    OBVIOUS
  <2>a. TypeOK /\ notices \in [Statuses -> 0..MaxNotices]
    BY DEF DeviceTypeOK, TypeOK
  <2>0. ASSUME UNCHANGED <<notices, notifier, outbox, retained, recent>>,
               pc' \in {"announcing", "serving"} => pc' = pc
        PROVE  RecentInv'
    BY <2>0 DEF RecentInv, Quiet
  <2>1. CASE Boot \/ ConnectOk \/ Second \/ UNCHANGED deviceVars
    BY <2>0, <2>1 DEF Boot, ConnectOk, Second, Tick, deviceVars, vars, noticeVars
  <2>2. CASE SetNotifier
    BY <2>2 DEF SetNotifier, SetStatusNotifier, RecentInv
  <2>3. CASE AnnounceClosed
    <3>1. /\ pc = "announcing" /\ pc' = "serving" /\ UNCHANGED <<notices, notifier>>
          /\ outbox' = outbox \cup {"closed"}
          /\ recent' = {"closed"} \cup (IF Quiet THEN {} ELSE recent)
      BY <2>3 DEF AnnounceClosed, Enqueue, NoteStatus, vars, noticeVars
    <3>2. CASE Quiet
      BY <2>a, <3>1, <3>2 DEF RecentInv, Quiet
    <3>3. CASE ~Quiet
      BY <3>1, <3>3 DEF RecentInv, Quiet
    <3> QED
      BY <3>2, <3>3
  <2>4. CASE Ends
    BY <2>4 DEF Ends, LoseMemory, RecentInv
  <2>5. CASE Moves
    <3>1. UNCHANGED <<pc, outbox, retained, notifier>>
      BY <2>5 DEF Moves, TempOpen, LockOpen, Close, AutoClose, Shut, Notify, vars, noticeVars
    <3>2. CASE UNCHANGED <<state, notices>>
      <4>1. UNCHANGED recent
        BY <2>5, <3>2 DEF Moves, NoteChange
      <4> QED
        BY <2>0, <3>1, <3>2, <4>1
    <3>3. CASE /\ state' # state /\ state' \in States
               /\ \A s \in Statuses: s # StatusOf[state'] => notices'[s] = notices[s]
               /\ notifier => notices'[StatusOf[state']] > 0
      <4>1. recent' = {StatusOf[state']} \cup (IF Quiet THEN {} ELSE recent)
        BY <2>5, <3>3 DEF Moves, NoteChange, NoteStatus
      <4>2. \A s \in Statuses: notices'[s] > 0 => s \in recent'
        BY <2>a, <3>3, <4>1 DEF RecentInv, Quiet
      <4>3. outbox' \subseteq recent'
        BY <3>1, <4>1 DEF RecentInv, Quiet
      <4>4. pc' = "serving" => ~Quiet'
        <5>1. StatusOf[state'] \in Statuses
          BY <3>3, StatusOfType
        <5>2. ASSUME pc' = "serving"
              PROVE  \E s \in Statuses: notices'[s] # 0
          BY <3>1, <3>3, <5>1, <5>2 DEF RecentInv
        <5> QED
          BY <5>2 DEF Quiet
      <4> QED
        BY <3>1, <4>2, <4>3, <4>4 DEF RecentInv
    <3> QED
      BY <2>a, <2>5, <3>2, <3>3, MovesAnnounce
  <2>6. ASSUME NEW s \in Statuses, Publish(s)
        PROVE  RecentInv'
    <3>1. /\ UNCHANGED <<pc, retained, recent, notifier>>
          /\ outbox' = outbox \cup {s}
      BY <2>6 DEF Publish, Enqueue, PublishEnds, vars, noticeVars
    <3>2. s \in recent
      BY <2>a, <2>6, NoticesAssumption DEF Publish, PublishEnds, RecentInv
    <3>3. \A t \in Statuses: notices'[t] > 0 => notices[t] > 0
      BY <2>a, <2>6 DEF Publish, PublishEnds, vars, noticeVars
    <3> QED
      BY <3>1, <3>2, <3>3 DEF RecentInv, Quiet
  <2>7. ASSUME NEW s \in Statuses, Deliver(s)
        PROVE  RecentInv'
    BY <2>7 DEF Deliver, RecentInv, vars, noticeVars
  <2> QED
    BY <2>1, <2>2, <2>3, <2>4, <2>5, <2>6, <2>7, DeviceCases DEF MainGoesOn
<1>3. RecentInv => RecentStatusSettles
  BY DEF RecentInv, RecentStatusSettles
<1> QED
  BY <1>1, <1>2, <1>3, DeviceTypeCorrect, PTL DEF DeviceSpec

=============================================================================
