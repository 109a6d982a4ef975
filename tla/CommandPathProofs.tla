------------------------- MODULE CommandPathProofs --------------------------
(***************************************************************************)
(* Safety of CommandPath for any number of commands, lost links, restarts  *)
(* and losses of the session.                                              *)
(*                                                                         *)
(* DeliveryInv says where a command may be on its way: what has arrived is *)
(* in order, is kept by the broker or was lost with it, and, on a link, has*)
(* been sent and is not acknowledged.  OrderInv adds, for a command that   *)
(* may still act, that every newer one that has acted will act again after *)
(* it; commands that strayed or were lost are left out.                    *)
(*                                                                         *)
(* The last parts show that the path is a delivery in passes, as           *)
(* CommandContract has it, and what that contract is worth by itself.      *)
(***************************************************************************)
EXTENDS CommandPath, TLAPS

Increasing(q) ==
  \A i, j \in DOMAIN q: i < j /\ q[i] # Notice /\ q[j] # Notice => q[i] < q[j]

\* No message waits for a process that has not connected.
NobodyHome == pc \in {"down", "connecting"} => inbox = <<>>

DeliveryInv ==
  /\ NobodyHome
  /\ Increasing(inbox)
  /\ Arrived \subseteq session \cup lost
  /\ link => Arrived \subseteq sent \ done
  /\ ~ link => sent = {}
  /\ session \cap lost = {}
  /\ done \subseteq sent
  /\ sent \subseteq done \cup Arrived \cup strayed
  /\ \A s \in sent, u \in session \ sent: s < u
  /\ \A d \in done, a \in Arrived: d < a

-----------------------------------------------------------------------------
(* The inbox.                                                              *)

\* What an empty inbox holds.
LEMMA NothingArrived ==
  ASSUME inbox = <<>>
  PROVE  Arrived = {} /\ Increasing(inbox)
BY DEF Arrived, ToSet, Increasing

\* What a message adds to the inbox.
LEMMA MessageArrives ==
  ASSUME CommandTypeOK, Increasing(inbox), NEW m \in Commands \cup {Notice},
         inbox' = Append(inbox, m), m = Notice \/ \A a \in Arrived: a < m
  PROVE  /\ Arrived' = (Arrived \cup {m}) \ {Notice}
         /\ Increasing(inbox')
<1>1. inbox \in Seq(Commands \cup {Notice})
  BY DEF CommandTypeOK
<1>2. /\ Len(inbox') = Len(inbox) + 1
      /\ \A i \in 1..Len(inbox): inbox'[i] = inbox[i]
      /\ inbox'[Len(inbox) + 1] = m
      /\ DOMAIN inbox' = 1..(Len(inbox) + 1)
      /\ DOMAIN inbox = 1..Len(inbox)
      /\ Len(inbox) \in Nat
  BY <1>1
<1>3. Arrived' = (Arrived \cup {m}) \ {Notice}
  BY <1>2 DEF Arrived, ToSet
<1>4. ASSUME NEW i \in DOMAIN inbox', NEW j \in DOMAIN inbox',
             i < j, inbox'[i] # Notice, inbox'[j] # Notice
      PROVE  inbox'[i] < inbox'[j]
  <2>1. CASE j \in DOMAIN inbox
    BY <1>2, <1>4, <2>1 DEF Increasing
  <2>2. CASE j = Len(inbox) + 1
    <3>1. i \in DOMAIN inbox /\ inbox'[i] = inbox[i]
      BY <1>2, <1>4, <2>2
    <3>2. inbox[i] \in Arrived
      BY <1>4, <3>1 DEF Arrived, ToSet
    <3> QED
      BY <1>2, <1>4, <2>2, <3>1, <3>2
  <2> QED
    BY <1>2, <1>4, <2>1, <2>2
<1> QED
  BY <1>3, <1>4 DEF Increasing

\* What is left in the inbox when the callback of its head has returned.
LEMMA MessageHandled ==
  ASSUME CommandTypeOK, Increasing(inbox), inbox # <<>>, inbox' = Tail(inbox)
  PROVE  /\ Head(inbox) \in Commands \cup {Notice}
         /\ Arrived = (Arrived' \cup {Head(inbox)}) \ {Notice}
         /\ Increasing(inbox')
         /\ Head(inbox) # Notice => \A a \in Arrived': Head(inbox) < a
<1>1. inbox \in Seq(Commands \cup {Notice})
  BY DEF CommandTypeOK
<1>2. /\ Len(inbox) \in Nat \ {0}
      /\ DOMAIN inbox = 1..Len(inbox)
      /\ DOMAIN inbox' = 1..(Len(inbox) - 1)
      /\ \A i \in DOMAIN inbox': inbox'[i] = inbox[i + 1]
      /\ Head(inbox) = inbox[1]
  BY <1>1
<1>3. Head(inbox) \in Commands \cup {Notice}
  BY <1>1
<1>4. ToSet(inbox) = ToSet(inbox') \cup {Head(inbox)}
  <2>1. ASSUME NEW i \in DOMAIN inbox
        PROVE  inbox[i] \in ToSet(inbox') \cup {Head(inbox)}
    <3>1. CASE i = 1
      BY <1>2, <3>1
    <3>2. CASE i # 1
      <4>1. i - 1 \in DOMAIN inbox' /\ inbox'[i - 1] = inbox[i]
        BY <1>2, <2>1, <3>2
      <4> QED
        BY <4>1 DEF ToSet
    <3> QED
      BY <3>1, <3>2
  <2>2. ASSUME NEW i \in DOMAIN inbox'
        PROVE  inbox'[i] \in ToSet(inbox)
    <3>1. i + 1 \in DOMAIN inbox /\ inbox'[i] = inbox[i + 1]
      BY <1>2, <2>2
    <3> QED
      BY <3>1 DEF ToSet
  <2>3. Head(inbox) \in ToSet(inbox)
    BY <1>2 DEF ToSet
  <2> QED
    BY <2>1, <2>2, <2>3 DEF ToSet
<1>5. Increasing(inbox')
  <2> SUFFICES ASSUME NEW i \in DOMAIN inbox', NEW j \in DOMAIN inbox',
                      i < j, inbox'[i] # Notice, inbox'[j] # Notice
               PROVE  inbox'[i] < inbox'[j]
    BY DEF Increasing
  <2>1. i + 1 \in DOMAIN inbox /\ j + 1 \in DOMAIN inbox /\ i + 1 < j + 1
    BY <1>2
  <2> QED
    BY <1>2, <2>1 DEF Increasing
<1>6. ASSUME Head(inbox) # Notice, NEW a \in Arrived'
      PROVE  Head(inbox) < a
  <2>1. PICK i \in DOMAIN inbox': inbox'[i] = a
    BY <1>6 DEF Arrived, ToSet
  <2>2. i + 1 \in DOMAIN inbox /\ 1 \in DOMAIN inbox /\ 1 < i + 1 /\ inbox[i + 1] = a
    BY <1>2, <2>1
  <2> QED
    BY <1>2, <1>6, <2>2 DEF Increasing, Arrived
<1> QED
  BY <1>3, <1>4, <1>5, <1>6 DEF Arrived

-----------------------------------------------------------------------------
(* The steps, by what they do to the commands on their way.                *)

kept == <<session, count, lost, actVars>>

\* A link comes up.
LinkUp ==
  /\ ~ link /\ inbox = <<>>
  /\ link' = TRUE
  /\ UNCHANGED <<inbox, done, sent, kept>>

\* A link is cut.
LinkCut == Cut /\ UNCHANGED kept

\* The credential notification comes or is done with.
NoticeMoves ==
  /\ \/ inbox' = Append(inbox, Notice)
     \/ inbox # <<>> /\ Head(inbox) = Notice /\ inbox' = Tail(inbox)
  /\ UNCHANGED <<link, done, sent, kept>>

\* main() goes on.
Elsewhere == UNCHANGED <<link, inbox, done, sent, kept>>

\* A step publishes, sends, strays, acts, acknowledges or forgets a command,
\* moves a notification or the link, or does not concern the commands.
LEMMA CommandCases ==
  ASSUME CommandTypeOK, DeliveryInv, [CommandNext]_commandVars
  PROVE  \/ Publish
         \/ \E m \in Commands: Send(m) \/ Stray(m) \/ Act(m)
         \/ AckArrives \/ BrokerForgets
         \/ LinkUp \/ LinkCut \/ NoticeMoves \/ Elsewhere
<1>1. Connect \/ Reconnect => LinkUp
  BY DEF Connect, Reconnect, LinkUp, kept, brokerVars, CommandTypeOK, DeliveryInv, NobodyHome
<1>2. LinkDown \/ Ends => LinkCut
  BY DEF LinkDown, Ends, LinkCut, kept
<1>3. SendNotice \/ NoticeHandled => NoticeMoves
  BY DEF SendNotice, NoticeHandled, NoticeMoves, kept, brokerVars
<1>4. \A topic \in Topics: SubscribeTo(topic) => LinkCut \/ Elsewhere
  BY DEF SubscribeTo, LinkCut, Elsewhere, kept
<1>5. SubscribeCredentialStatus \/ SubscribePigateCommand => LinkCut \/ Elsewhere
  BY <1>4 DEF SubscribeCredentialStatus, SubscribePigateCommand, Topics
<1>6. Boot \/ StartSyncEnds \/ UNCHANGED commandVars => Elsewhere
  BY DEF Boot, StartSyncEnds, Elsewhere, kept, commandVars, clientVars, brokerVars
<1> QED
  BY <1>1, <1>2, <1>3, <1>5, <1>6 DEF CommandNext

-----------------------------------------------------------------------------
(* Type correctness and delivery.                                          *)

\* What is on its way has been published.
LEMMA ArrivedWerePublished ==
  ASSUME CommandTypeOK, DeliveryInv
  PROVE  Arrived \subseteq 1..count
BY DEF CommandTypeOK, DeliveryInv

\* A step keeps what main() and the link are.
LEMMA ProcessTypeStep ==
  ASSUME CommandTypeOK, [CommandNext]_commandVars
  PROVE  /\ pc' \in Stages
         /\ link' \in BOOLEAN /\ (link' => pc' \notin {"down", "connecting"})
         /\ routes' \subseteq Topics /\ subs' \subseteq Topics
<1>1. ASSUME UNCHANGED <<pc, link, routes, subs>>
      PROVE  /\ pc' \in Stages
             /\ link' \in BOOLEAN /\ (link' => pc' \notin {"down", "connecting"})
             /\ routes' \subseteq Topics /\ subs' \subseteq Topics
  BY <1>1 DEF CommandTypeOK
<1>2. Publish \/ SendNotice \/ NoticeHandled \/ AckArrives \/ UNCHANGED commandVars
        => UNCHANGED <<pc, link, routes, subs>>
  BY DEF Publish, SendNotice, NoticeHandled, AckArrives, commandVars, clientVars, brokerVars
<1>3. \A m \in Commands: Send(m) \/ Stray(m) \/ Act(m) => UNCHANGED <<pc, link, routes, subs>>
  BY DEF Send, Stray, Act, brokerVars
<1>4. CASE Boot \/ StartSyncEnds
  BY <1>4 DEF Boot, StartSyncEnds, clientVars, brokerVars, CommandTypeOK, Stages
<1>5. CASE Connect \/ Reconnect
  <2>1. link' \in BOOLEAN
    BY <1>5, Zenon DEF Connect, Reconnect
  <2> QED
    BY <1>5, <2>1 DEF Connect, Reconnect, brokerVars, CommandTypeOK, Stages
<1>6. CASE LinkDown \/ Ends
  <2>1. link' \in BOOLEAN /\ ~ link'
    BY <1>6, Zenon DEF LinkDown, Ends, Cut
  <2> QED
    BY <1>6, <2>1 DEF LinkDown, Ends, CommandTypeOK, Stages
<1>8. CASE BrokerForgets
  BY <1>8 DEF BrokerForgets, clientVars, CommandTypeOK
<1>7. CASE SubscribeCredentialStatus \/ SubscribePigateCommand
  <2>1. link' \in BOOLEAN
    BY <1>7, Zenon DEF SubscribeCredentialStatus, SubscribePigateCommand, SubscribeTo, Cut,
                       CommandTypeOK
  <2> QED
    BY <1>7, <2>1 DEF SubscribeCredentialStatus, SubscribePigateCommand, SubscribeTo,
                      CommandTypeOK, Stages, Topics
<1> QED
  BY <1>1, <1>2, <1>3, <1>4, <1>5, <1>6, <1>7, <1>8 DEF CommandNext

\* A step keeps the types of the commands on their way.
LEMMA CommandTypeStep ==
  ASSUME CommandTypeOK, DeliveryInv, [CommandNext]_commandVars
  PROVE  CommandTypeOK'
<1> USE CommandsAssumption
<1>0. /\ pc' \in Stages
      /\ link' \in BOOLEAN /\ (link' => pc' \notin {"down", "connecting"})
      /\ routes' \subseteq Topics /\ subs' \subseteq Topics
  BY ProcessTypeStep
<1>1. inbox \in Seq(Commands \cup {Notice})
  BY DEF CommandTypeOK
<1>2. inbox # <<>> => Tail(inbox) \in Seq(Commands \cup {Notice})
  BY <1>1
<1>3. \A m \in Commands \cup {Notice}: Append(inbox, m) \in Seq(Commands \cup {Notice})
  BY <1>1
<1>4. <<>> \in Seq(Commands \cup {Notice})
  OBVIOUS
<1>5. CASE Publish
  <2>1. count' \in 1..count' /\ 1..count \subseteq 1..count' /\ 0..count \subseteq 0..count'
    BY <1>5 DEF Publish, CommandTypeOK
  <2>2. session' \subseteq session \cup {count'} /\ lost' \subseteq lost \cup {count'}
    BY <1>5 DEF Publish
  <2>3. session \subseteq session' /\ UNCHANGED sent
    BY <1>5 DEF Publish
  <2>4. /\ count' \in 0..MaxCommands
        /\ UNCHANGED <<inbox, done, last, acted, strayed>>
    BY <1>5 DEF Publish, CommandTypeOK, clientVars, actVars
  <2> QED
    BY <1>0, <2>1, <2>2, <2>3, <2>4 DEF CommandTypeOK
<1>6. ASSUME NEW m \in Commands, Send(m)
      PROVE  CommandTypeOK'
  BY <1>0, <1>3, <1>6 DEF Send, CommandTypeOK, actVars
<1>7. ASSUME NEW m \in Commands, Stray(m) \/ Act(m)
      PROVE  CommandTypeOK'
  <2>1. m \in Arrived
    BY <1>1, <1>7 DEF Stray, Act, Arrived, ToSet, Notice, Commands
  <2>2. m \in 1..count
    BY <2>1, ArrivedWerePublished
  <2>3. CASE Stray(m)
    BY <1>0, <1>2, <2>2, <2>3 DEF Stray, CommandTypeOK, brokerVars
  <2>4. CASE Act(m)
    <3>1. done' \subseteq done \cup {m}
      BY <2>4 DEF Act
    <3>2. inbox' \in Seq(Commands \cup {Notice})
      BY <1>2, <2>4 DEF Act
    <3> QED
      BY <1>0, <2>2, <2>4, <3>1, <3>2 DEF Act, CommandTypeOK, brokerVars
  <2> QED
    BY <1>7, <2>3, <2>4
<1>8. CASE AckArrives
  BY <1>0, <1>8 DEF AckArrives, CommandTypeOK, actVars
<1>9. CASE BrokerForgets
  BY <1>0, <1>9 DEF BrokerForgets, CommandTypeOK, clientVars, actVars
<1>10. CASE LinkUp \/ Elsewhere
  BY <1>0, <1>10 DEF LinkUp, Elsewhere, kept, CommandTypeOK, actVars
<1>11. CASE LinkCut
  BY <1>0, <1>4, <1>11 DEF LinkCut, Cut, kept, CommandTypeOK, actVars
<1>12. CASE NoticeMoves
  BY <1>0, <1>2, <1>3, <1>12 DEF NoticeMoves, kept, CommandTypeOK, actVars
<1> QED
  BY <1>5, <1>6, <1>7, <1>8, <1>9, <1>10, <1>11, <1>12, CommandCases

\* An inbox is empty until the process has connected.
LEMMA NobodyHomeStep ==
  ASSUME CommandTypeOK, NobodyHome, [CommandNext]_commandVars
  PROVE  NobodyHome'
<1>1. CASE pc' \notin {"down", "connecting"}
  BY <1>1 DEF NobodyHome
<1>2. CASE Publish \/ AckArrives \/ BrokerForgets \/ Boot \/ UNCHANGED commandVars
  BY <1>2 DEF Publish, AckArrives, BrokerForgets, Boot, commandVars, clientVars, NobodyHome
<1>3. CASE SendNotice \/ LinkDown \/ \E m \in Commands: Send(m)
  BY <1>3 DEF SendNotice, LinkDown, Send, CommandTypeOK, NobodyHome
<1>4. CASE NoticeHandled \/ \E m \in Commands: Stray(m) \/ Act(m)
  BY <1>4 DEF NoticeHandled, Stray, Act, NobodyHome
<1>5. CASE Ends
  BY <1>5 DEF Ends, NobodyHome
<1>6. Connect \/ Reconnect \/ StartSyncEnds \/ SubscribeCredentialStatus \/ SubscribePigateCommand
        => pc' \notin {"down", "connecting"}
  BY DEF Connect, Reconnect, StartSyncEnds, SubscribeCredentialStatus, SubscribePigateCommand
<1> QED
  BY <1>1, <1>2, <1>3, <1>4, <1>5, <1>6 DEF CommandNext

\* A step keeps what is on its way in order, and where it belongs.
LEMMA DeliveryStep ==
  ASSUME CommandTypeOK, DeliveryInv, [CommandNext]_commandVars
  PROVE  DeliveryInv'
<1>0. NobodyHome'
  BY NobodyHomeStep DEF DeliveryInv
<1>a. /\ session \subseteq Int /\ sent \subseteq session /\ lost \subseteq Int
      /\ done \subseteq Int /\ strayed \subseteq Int /\ Arrived \subseteq Int
  BY DEF CommandTypeOK, DeliveryInv
<1>1. ASSUME UNCHANGED inbox
      PROVE  UNCHANGED Arrived /\ (Increasing(inbox) => Increasing(inbox'))
  BY <1>1 DEF Arrived
<1>2. CASE Publish
  <2>1. /\ UNCHANGED <<link, inbox, done, sent, strayed>>
        /\ session' \subseteq session \cup {count'} /\ lost' \subseteq lost \cup {count'}
        /\ session \subseteq session' /\ lost \subseteq lost'
        /\ session' = session \/ lost' = lost
    BY <1>2 DEF Publish, clientVars, actVars
  <2>2. count' \notin session \cup lost /\ \A s \in sent: s < count'
    BY <1>2 DEF Publish, CommandTypeOK
  <2> QED
    BY <1>0, <1>1, <2>1, <2>2 DEF DeliveryInv
<1>3. ASSUME NEW m \in Commands, Send(m)
      PROVE  DeliveryInv'
  <2>1. /\ link /\ m \in session \ sent
        /\ \A k \in session \ sent: m <= k
        /\ inbox' = Append(inbox, m) /\ sent' = sent \cup {m}
        /\ UNCHANGED <<link, done, session, lost, strayed>>
    BY <1>3 DEF Send, actVars
  <2>2. \A a \in Arrived: a < m
    BY <2>1 DEF DeliveryInv
  <2>3. Arrived' = Arrived \cup {m} /\ Increasing(inbox')
    BY <2>1, <2>2, MessageArrives DEF DeliveryInv, Commands, Notice, Arrived
  <2>4. \A s \in sent', u \in session' \ sent': s < u
    BY <1>a, <2>1 DEF DeliveryInv
  <2> QED
    BY <1>0, <1>a, <2>1, <2>3, <2>4 DEF DeliveryInv
<1>4. ASSUME NEW m \in Commands, Stray(m) \/ Act(m)
      PROVE  DeliveryInv'
  <2>1. /\ inbox # <<>> /\ Head(inbox) = m /\ inbox' = Tail(inbox)
        /\ UNCHANGED <<link, session, sent, lost>>
    BY <1>4 DEF Stray, Act, brokerVars
  <2>2. /\ Arrived = Arrived' \cup {m}
        /\ Increasing(inbox')
        /\ \A a \in Arrived': m < a
    BY <2>1, MessageHandled DEF DeliveryInv, Commands, Notice, Arrived
  <2>3. \/ strayed' = strayed \cup {m} /\ UNCHANGED done
        \/ UNCHANGED strayed /\ done' = IF link THEN done \cup {m} ELSE done
    BY <1>4 DEF Stray, Act
  <2>4. m \notin Arrived'
    BY <1>a, <2>2
  <2> QED
    BY <1>0, <1>a, <2>1, <2>2, <2>3, <2>4 DEF DeliveryInv
<1>5. CASE AckArrives
  <2>1. PICK m \in done: /\ done' = done \ {m} /\ session' = session \ {m}
                         /\ sent' = sent \ {m}
                         /\ link
    BY <1>5 DEF AckArrives
  <2>2. UNCHANGED <<link, inbox, lost, strayed>>
    BY <1>5 DEF AckArrives, actVars
  <2> QED
    BY <1>0, <1>1, <2>1, <2>2 DEF DeliveryInv
<1>6. CASE BrokerForgets
  <2>1. /\ ~ link /\ session' = {} /\ sent' = {} /\ lost' = lost \cup session
        /\ UNCHANGED <<link, inbox, done, strayed>>
    BY <1>6 DEF BrokerForgets, clientVars, actVars
  <2> QED
    BY <1>0, <1>1, <2>1 DEF DeliveryInv
<1>7. CASE LinkUp
  <2>1. Arrived = {} /\ sent = {} /\ UNCHANGED <<inbox, done, session, sent, lost, strayed>>
    BY <1>7, NothingArrived DEF LinkUp, kept, actVars, DeliveryInv
  <2> QED
    BY <1>0, <1>1, <2>1 DEF DeliveryInv
<1>8. CASE LinkCut
  <2>1. /\ ~ link' /\ sent' = {} /\ done' = {}
        /\ UNCHANGED <<session, lost, strayed>>
    BY <1>8 DEF LinkCut, Cut, kept, actVars
  <2>2. Arrived' \subseteq Arrived /\ Increasing(inbox')
    BY <1>8, <1>1, NothingArrived DEF LinkCut, Cut, Arrived, ToSet, Increasing, DeliveryInv
  <2> QED
    BY <1>0, <2>1, <2>2 DEF DeliveryInv
<1>9. CASE NoticeMoves
  <2>1. UNCHANGED <<link, done, session, sent, lost, strayed>>
    BY <1>9 DEF NoticeMoves, kept, actVars
  <2>2. Arrived' = Arrived /\ Increasing(inbox')
    BY <1>9, MessageArrives, MessageHandled DEF NoticeMoves, Arrived, DeliveryInv
  <2> QED
    BY <1>0, <2>1, <2>2 DEF DeliveryInv
<1>10. CASE Elsewhere
  <2>1. UNCHANGED <<link, inbox, done, session, sent, lost, strayed>>
    BY <1>10 DEF Elsewhere, kept, actVars
  <2> QED
    BY <1>0, <1>1, <2>1 DEF DeliveryInv
<1> QED
  BY <1>2, <1>3, <1>4, <1>5, <1>6, <1>7, <1>8, <1>9, <1>10, CommandCases

-----------------------------------------------------------------------------
(* Type correctness.                                                       *)

\* At first nothing is on its way.
LEMMA DeliveryStarts ==
  ASSUME CommandInit
  PROVE  CommandTypeOK /\ DeliveryInv
<1>1. link \in BOOLEAN /\ ~ link
  BY Zenon DEF CommandInit
<1>2. CommandTypeOK
  BY <1>1, CommandsAssumption DEF CommandInit, CommandTypeOK, Stages
<1>3. Arrived = {} /\ Increasing(inbox)
  BY NothingArrived DEF CommandInit
<1> QED
  BY <1>2, <1>3 DEF CommandInit, DeliveryInv, NobodyHome

\* What is on its way is in order, and where it belongs.
THEOREM DeliveryInOrder == CommandSpec => [](CommandTypeOK /\ DeliveryInv)
<1>1. CommandTypeOK /\ DeliveryInv /\ [CommandNext]_commandVars => (CommandTypeOK /\ DeliveryInv)'
  BY CommandTypeStep, DeliveryStep
<1> QED
  BY <1>1, DeliveryStarts, PTL DEF CommandSpec

\* Every state is well typed: there is a link only while the process has
\* connected, and the broker keeps and counts as sent only what was published.
THEOREM CommandTypeCorrect == CommandSpec => []CommandTypeOK
BY DeliveryInOrder, PTL

-----------------------------------------------------------------------------
(* No command vanishes, and none acts again after its acknowledgement.     *)

\* An acknowledgement is only under way for a command that has acted.
VanishInv == NoCommandVanishes /\ done \subseteq acted

\* A step keeps every published command accounted for.
LEMMA VanishStep ==
  ASSUME CommandTypeOK, DeliveryInv, VanishInv, [CommandNext]_commandVars
  PROVE  VanishInv'
<1> USE DEF VanishInv, NoCommandVanishes
<1>1. CASE Publish
  <2>1. 1..count' = 1..count \cup {count'}
    BY <1>1 DEF Publish, CommandTypeOK
  <2> QED
    BY <1>1, <2>1 DEF Publish, clientVars, actVars
<1>2. ASSUME NEW m \in Commands, Send(m) \/ Stray(m) \/ Act(m)
      PROVE  VanishInv'
  BY <1>2 DEF Send, Stray, Act, brokerVars, actVars
<1>3. CASE AckArrives
  BY <1>3 DEF AckArrives, actVars
<1>4. CASE BrokerForgets
  BY <1>4 DEF BrokerForgets, clientVars, actVars
<1>5. CASE LinkUp \/ NoticeMoves \/ Elsewhere
  BY <1>5 DEF LinkUp, NoticeMoves, Elsewhere, kept, actVars
<1>6. CASE LinkCut
  BY <1>6 DEF LinkCut, Cut, kept, actVars
<1> QED
  BY <1>1, <1>2, <1>3, <1>4, <1>5, <1>6, CommandCases

\* However many links, processes and sessions are lost: a published command has
\* acted, is kept for the gate, or was lost by the broker.
THEOREM NothingVanishes == CommandSpec => []NoCommandVanishes
<1>1. CommandInit => VanishInv
  BY DEF CommandInit, VanishInv, NoCommandVanishes
<1>2. CommandTypeOK /\ DeliveryInv /\ VanishInv /\ [CommandNext]_commandVars => VanishInv'
  BY VanishStep
<1>3. VanishInv => NoCommandVanishes
  BY DEF VanishInv
<1> QED
  BY <1>1, <1>2, <1>3, DeliveryInOrder, PTL DEF CommandSpec

\* Only a command that is not acknowledged acts.
THEOREM AcknowledgedStaysDone == CommandSpec => AckedStaysDone
<1>1. CommandTypeOK /\ DeliveryInv /\ [CommandNext]_commandVars
        => [\A m \in Commands: Act(m) => m \in session \cup lost]_commandVars
  <2> SUFFICES ASSUME CommandTypeOK, DeliveryInv, NEW m \in Commands, Act(m)
               PROVE  m \in session \cup lost
    OBVIOUS
  <2>1. inbox \in Seq(Commands \cup {Notice}) /\ inbox # <<>> /\ Head(inbox) = m
    BY DEF CommandTypeOK, Act
  <2>2. m \in Arrived
    BY <2>1 DEF Arrived, ToSet, Commands, Notice
  <2> QED
    BY <2>2 DEF DeliveryInv
<1> QED
  BY <1>1, DeliveryInOrder, PTL DEF CommandSpec, AckedStaysDone

-----------------------------------------------------------------------------
(* The newest command has the last word.                                   *)

Clean(m) == m \notin lost \cup strayed

\* The commands after k that have acted.
Newer(k) == {m \in acted: Clean(m) /\ m > k}

OrderInv ==
  /\ \A k \in session: Clean(k) => Newer(k) \subseteq session
  /\ \A k \in Pending: Clean(k) => Newer(k) \subseteq Pending
  /\ \A k \in Arrived \ (session \cup strayed): Newer(k) = {}
  /\ last \notin strayed \cup {0} => Newer(last) \subseteq Pending

\* A step keeps the order of the last word.
LEMMA OrderStep ==
  ASSUME CommandTypeOK, DeliveryInv, OrderInv, [CommandNext]_commandVars
  PROVE  OrderInv'
<1>a. /\ session \subseteq Int /\ sent \subseteq session /\ lost \subseteq Int
      /\ done \subseteq Int /\ strayed \subseteq Int /\ Arrived \subseteq Int
      /\ acted \subseteq Int /\ last \in Int
  BY DEF CommandTypeOK, DeliveryInv
<1>b. UNCHANGED inbox => UNCHANGED Arrived
  BY DEF Arrived
<1>c. ASSUME UNCHANGED <<acted, strayed, lost>>
      PROVE  \A k: Newer(k)' = Newer(k) /\ (Clean(k)' <=> Clean(k))
  BY <1>c DEF Newer, Clean
<1>1. CASE Publish
  <2>1. /\ UNCHANGED <<link, inbox, done, sent, acted, last, strayed>>
        /\ session \subseteq session' /\ session' \subseteq session \cup {count'}
        /\ lost' = lost \/ lost' = lost \cup {count'}
    BY <1>1 DEF Publish, clientVars, actVars
  <2>2. \A m \in acted: m # count' /\ ~ m > count'
    BY <1>1 DEF Publish, CommandTypeOK
  <2>3. \A k: Newer(k)' = Newer(k)
    <3>1. \A m \in acted: Clean(m)' <=> Clean(m)
      BY <2>1, <2>2 DEF Clean
    <3> QED
      BY <2>1, <3>1 DEF Newer
  <2>4. Newer(count') = {}
    BY <2>2 DEF Newer
  <2>5. Pending \subseteq Pending' /\ Pending' \subseteq Pending \cup {count'}
    BY <1>b, <2>1 DEF Pending
  <2>6. \A k: Clean(k)' => Clean(k)
    BY <2>1 DEF Clean
  <2> QED
    BY <1>b, <2>1, <2>3, <2>4, <2>5, <2>6 DEF OrderInv
<1>2. ASSUME NEW m \in Commands, Send(m)
      PROVE  OrderInv'
  <2>1. /\ link /\ m \in session \ sent
        /\ \A k \in session \ sent: m <= k
        /\ inbox' = Append(inbox, m) /\ sent' = sent \cup {m}
        /\ UNCHANGED <<link, session, lost, acted, last, strayed>>
    BY <1>2 DEF Send, actVars
  <2>2. Arrived' = Arrived \cup {m}
    BY <2>1, MessageArrives DEF DeliveryInv, Commands, Notice, Arrived
  <2>3. Pending' = Pending
    BY <2>1, <2>2 DEF Pending
  <2> QED
    BY <1>c, <2>1, <2>2, <2>3 DEF OrderInv
<1>3. ASSUME NEW m \in Commands, Stray(m)
      PROVE  OrderInv'
  <2>1. /\ inbox # <<>> /\ Head(inbox) = m /\ inbox' = Tail(inbox)
        /\ strayed' = strayed \cup {m}
        /\ UNCHANGED <<link, session, sent, lost, acted, last>>
    BY <1>3 DEF Stray, brokerVars
  <2>2. Arrived = Arrived' \cup {m} /\ \A a \in Arrived': m < a
    BY <2>1, MessageHandled DEF DeliveryInv, Commands, Notice, Arrived
  <2>3. \A k: Newer(k)' = Newer(k) \ {m}
    BY <2>1 DEF Newer, Clean
  <2>4. Pending \ {m} \subseteq Pending' /\ Pending' \subseteq Pending
    BY <2>1, <2>2 DEF Pending
  <2>5. \A k: Clean(k)' => Clean(k)
    BY <2>1 DEF Clean
  <2> QED
    BY <2>1, <2>2, <2>3, <2>4, <2>5 DEF OrderInv
<1>4. ASSUME NEW m \in Commands, Act(m)
      PROVE  OrderInv'
  <2>1. /\ inbox # <<>> /\ Head(inbox) = m /\ inbox' = Tail(inbox)
        /\ last' = m /\ acted' = acted \cup {m}
        /\ UNCHANGED <<link, session, sent, lost, strayed>>
    BY <1>4 DEF Act, brokerVars
  <2>2. Arrived = Arrived' \cup {m} /\ \A a \in Arrived': m < a
    BY <2>1, MessageHandled DEF DeliveryInv, Commands, Notice, Arrived
  <2>3. \A k: /\ Clean(k)' <=> Clean(k)
              /\ Newer(k) \subseteq Newer(k)'
              /\ Newer(k)' \subseteq Newer(k) \cup {m}
              /\ m \in Newer(k)' => Clean(m) /\ m > k
    BY <2>1 DEF Newer, Clean
  <2>4. Clean(m) => m \in session
    BY <2>2 DEF Clean, DeliveryInv
  <2>5. \A k \in session: Clean(k) => Newer(k)' \subseteq session
    BY <2>3, <2>4 DEF OrderInv
  <2>6. \A k \in Pending': Clean(k) => Newer(k)' \subseteq Pending'
    <3>1. CASE link
      <4>1. Pending' = Pending \ {m} /\ m \in sent
        BY <1>a, <2>1, <2>2, <3>1 DEF Pending, DeliveryInv
      <4>2. \A k \in Pending': m < k
        BY <2>1, <2>2, <3>1, <4>1 DEF Pending, DeliveryInv
      <4>3. \A k \in Pending': m \notin Newer(k)'
        <5>1. Pending \subseteq Int /\ m \in Int
          <6>1. Pending \subseteq session
            BY DEF Pending
          <6> QED
            BY <1>a, <2>2, <6>1
        <5>2. \A k \in Pending': ~ m > k
          BY <4>1, <4>2, <5>1
        <5> QED
          BY <2>3, <5>2
      <4> QED
        BY <2>3, <4>1, <4>3 DEF OrderInv
    <3>2. CASE ~ link
      BY <2>1, <2>5, <3>2 DEF Pending
    <3> QED
      BY <3>1, <3>2
  <2>7. \A k \in Arrived' \ (session \cup strayed): Newer(k)' = {}
    BY <1>a, <2>2, <2>3 DEF OrderInv
  <2>8. ASSUME m \notin strayed
        PROVE  Newer(m)' \subseteq Pending'
    <3>1. Newer(m)' = Newer(m) /\ m \notin Newer(m)
      BY <1>a, <2>1, <2>2 DEF Newer, Clean
    <3>2. CASE m \notin session
      BY <2>2, <2>8, <3>1, <3>2 DEF OrderInv
    <3>3. CASE m \in session
      <4>1. m \in Pending /\ Clean(m)
        BY <2>2, <2>8, <3>3 DEF Pending, Clean, DeliveryInv
      <4>2. Pending \ {m} \subseteq Pending'
        BY <2>1, <2>2 DEF Pending
      <4> QED
        BY <3>1, <4>1, <4>2 DEF OrderInv
    <3> QED
      BY <3>2, <3>3
  <2> QED
    BY <2>1, <2>3, <2>5, <2>6, <2>7, <2>8 DEF OrderInv
<1>5. CASE AckArrives
  <2>1. PICK m \in done: /\ \A d \in done: m <= d
                         /\ session' = session \ {m} /\ sent' = sent \ {m}
                         /\ link
    BY <1>5 DEF AckArrives
  <2>2. UNCHANGED <<link, inbox, lost, acted, last, strayed>>
    BY <1>5 DEF AckArrives, actVars
  <2>3. m \in sent /\ m \notin Arrived /\ Arrived \subseteq session'
    BY <1>a, <2>1 DEF DeliveryInv
  <2>4. Pending' = Pending
    BY <1>b, <2>1, <2>2, <2>3 DEF Pending
  <2>5. ASSUME NEW k \in session', Clean(k)
        PROVE  m \notin Newer(k)
    <3>1. CASE k \notin sent
      BY <1>a, <2>1, <2>3, <3>1 DEF DeliveryInv, Newer
    <3>2. CASE k \in sent
      <4>1. k \in done \cup Arrived
        BY <2>5, <3>2 DEF DeliveryInv, Clean
      <4> QED
        BY <1>a, <2>1, <4>1 DEF DeliveryInv, Newer
    <3> QED
      BY <3>1, <3>2
  <2> QED
    BY <1>b, <1>c, <2>1, <2>2, <2>3, <2>4, <2>5 DEF OrderInv
<1>6. CASE BrokerForgets
  <2>1. /\ ~ link /\ session' = {} /\ lost' = lost \cup session
        /\ UNCHANGED <<link, inbox, acted, last, strayed>>
    BY <1>6 DEF BrokerForgets, clientVars, actVars
  <2>2. \A k: Newer(k)' = Newer(k) \ session
    BY <2>1 DEF Newer, Clean
  <2>3. Pending = session /\ Pending' = {}
    BY <2>1 DEF Pending
  <2>4. \A k \in session \ strayed: Clean(k)
    BY DEF Clean, DeliveryInv
  <2> QED
    BY <1>b, <2>1, <2>2, <2>3, <2>4 DEF OrderInv
<1>7. CASE LinkUp
  <2>1. /\ ~ link /\ UNCHANGED <<inbox, session, sent, lost, acted, last, strayed>>
        /\ sent = {}
    BY <1>7 DEF LinkUp, kept, actVars, DeliveryInv
  <2>2. Pending' = Pending
    BY <2>1 DEF Pending
  <2> QED
    BY <1>b, <1>c, <2>1, <2>2 DEF OrderInv
<1>8. CASE LinkCut
  <2>1. ~ link' /\ UNCHANGED <<session, lost, acted, last, strayed>>
    BY <1>8 DEF LinkCut, Cut, kept, actVars
  <2>2. Pending' = session /\ Pending \subseteq session
    BY <2>1 DEF Pending
  <2>3. Arrived' \subseteq Arrived
    BY <1>8 DEF LinkCut, Cut, Arrived, ToSet
  <2> QED
    BY <1>c, <2>1, <2>2, <2>3 DEF OrderInv
<1>9. CASE NoticeMoves \/ Elsewhere
  <2>1. UNCHANGED <<link, session, sent, lost, acted, last, strayed>>
    BY <1>9 DEF NoticeMoves, Elsewhere, kept, actVars
  <2>2. Arrived' = Arrived
    BY <1>9, <1>b, MessageArrives, MessageHandled DEF NoticeMoves, Elsewhere, Arrived, DeliveryInv
  <2>3. Pending' = Pending
    BY <2>1, <2>2 DEF Pending
  <2> QED
    BY <1>c, <2>1, <2>2, <2>3 DEF OrderInv
<1> QED
  BY <1>1, <1>2, <1>3, <1>4, <1>5, <1>6, <1>7, <1>8, <1>9, CommandCases

\* When all kept commands have been sent and handled, the one that acted last
\* is the newest of those that acted, over any number of repetitions.
THEOREM LastWord == CommandSpec => []NewestHasTheLastWord
<1>1. CommandInit => OrderInv
  BY NothingArrived DEF CommandInit, OrderInv, Pending, Newer
<1>2. CommandTypeOK /\ DeliveryInv /\ OrderInv /\ [CommandNext]_commandVars => OrderInv'
  BY OrderStep
<1>3. ASSUME CommandTypeOK, OrderInv
      PROVE  NewestHasTheLastWord
  <2> SUFFICES ASSUME Settled, last \notin strayed \cup {0},
                      NEW m \in acted \ (lost \cup strayed)
               PROVE  m <= last
    BY DEF NewestHasTheLastWord
  <2>1. Pending = {}
    BY NothingArrived DEF Settled, Pending
  <2>2. Newer(last) = {}
    BY <1>3, <2>1 DEF OrderInv
  <2>3. m \in Int /\ last \in Int
    BY <1>3 DEF CommandTypeOK
  <2> QED
    BY <2>2, <2>3 DEF Newer, Clean
<1> QED
  BY <1>1, <1>2, <1>3, DeliveryInOrder, PTL DEF CommandSpec

-----------------------------------------------------------------------------
(* The path is a delivery in passes.                                       *)

\* What a callback takes from the inbox is due next, or comes late.
LEMMA HeadIsBrought ==
  ASSUME CommandTypeOK, DeliveryInv, NEW m \in Commands,
         inbox # <<>>, Head(inbox) = m, inbox' = Tail(inbox),
         UNCHANGED <<link, session, sent>>
  PROVE  m \in 1..count /\ Contract!Bring(m)
<1>1. Arrived = Arrived' \cup {m} /\ \A a \in Arrived': m < a
  BY MessageHandled DEF DeliveryInv, Commands, Notice, Arrived
<1>2. m \in 1..count
  BY <1>1, ArrivedWerePublished
<1>3. CASE m \notin session
  <2>1. m \in lost
    BY <1>1, <1>3 DEF DeliveryInv
  <2>2. Pending' = Pending
    BY <1>1, <1>3 DEF Pending
  <2> QED
    BY <1>2, <2>1, <2>2 DEF Contract!Bring
<1>4. CASE m \in session /\ ~ link
  <2>1. m \in Pending /\ Pending' = Pending
    BY <1>4 DEF Pending
  <2> QED
    BY <1>2, <2>1 DEF Contract!Bring
<1>5. CASE m \in session /\ link
  <2>1. m \in sent /\ m \in Int /\ session \subseteq Int
    BY <1>1, <1>2, <1>5 DEF DeliveryInv, CommandTypeOK
  <2>2. m \notin Arrived'
    BY <1>1, <2>1
  <2>3. m \in Pending /\ Pending' = Pending \ {m}
    BY <1>1, <1>5, <2>1, <2>2 DEF Pending
  <2>4. ASSUME NEW k \in Pending
        PROVE  m <= k
    <3>1. CASE k \in sent
      BY <1>1, <1>5, <2>1, <2>4, <3>1 DEF Pending
    <3>2. CASE k \notin sent
      BY <1>5, <2>1, <2>4, <3>2 DEF Pending, DeliveryInv
    <3> QED
      BY <3>1, <3>2
  <2> QED
    BY <1>2, <2>3, <2>4 DEF Contract!Bring
<1> QED
  BY <1>3, <1>4, <1>5

\* Every step is one of the contract, or none.
LEMMA ContractStep ==
  ASSUME CommandTypeOK, DeliveryInv, VanishInv, [CommandNext]_commandVars
  PROVE  [Contract!Next]_(Contract!deliveryVars)
<1> USE DEF Contract!Next
<1>b. UNCHANGED inbox => UNCHANGED Arrived
  BY DEF Arrived
<1>c. UNCHANGED <<session, count, lost, acted, strayed, last, Pending>>
        => UNCHANGED Contract!deliveryVars
  BY DEF Contract!deliveryVars
<1>1. CASE Publish
  <2>1. /\ count' = count + 1
        /\ UNCHANGED <<link, inbox, sent, acted, strayed, last>>
        /\ \/ session' = session \cup {count'} /\ UNCHANGED lost
           \/ lost' = lost \cup {count'} /\ UNCHANGED session
    BY <1>1 DEF Publish, clientVars, actVars
  <2>2. count' \notin sent
    BY <2>1 DEF CommandTypeOK
  <2>3. CASE session' = session \cup {count'} /\ UNCHANGED lost
    <3>1. Pending' = Pending \cup {count'}
      BY <1>b, <2>1, <2>2, <2>3 DEF Pending
    <3>2. Contract!Order
      BY <2>1, <2>3, <3>1 DEF Contract!Order
    <3> QED
      BY <3>2
  <2>4. CASE lost' = lost \cup {count'} /\ UNCHANGED session
    <3>1. Pending' = Pending
      BY <1>b, <2>1, <2>4 DEF Pending
    <3>2. Contract!Order
      BY <2>1, <2>4, <3>1 DEF Contract!Order
    <3> QED
      BY <3>2
  <2> QED
    BY <2>1, <2>3, <2>4
<1>2. ASSUME NEW m \in Commands, Send(m)
      PROVE  UNCHANGED Contract!deliveryVars
  <2>1. /\ link /\ m \in session \ sent
        /\ inbox' = Append(inbox, m) /\ sent' = sent \cup {m}
        /\ \A k \in session \ sent: m <= k
        /\ UNCHANGED <<link, session, count, lost, acted, strayed, last>>
    BY <1>2 DEF Send, actVars
  <2>2. Arrived' = Arrived \cup {m}
    BY <2>1, MessageArrives DEF DeliveryInv, Commands, Notice, Arrived
  <2>3. Pending' = Pending
    BY <2>1, <2>2 DEF Pending
  <2> QED
    BY <1>c, <2>1, <2>3
<1>3. ASSUME NEW m \in Commands, Stray(m)
      PROVE  Contract!Next
  <2>1. /\ inbox # <<>> /\ Head(inbox) = m /\ inbox' = Tail(inbox)
        /\ strayed' = strayed \cup {m}
        /\ UNCHANGED <<link, session, sent, count, lost, acted, last>>
    BY <1>3 DEF Stray, brokerVars
  <2>2. m \in 1..count /\ Contract!Bring(m)
    BY <2>1, HeadIsBrought
  <2>3. Contract!Miss(m)
    BY <2>1, <2>2 DEF Contract!Miss
  <2> QED
    BY <2>2, <2>3
<1>4. ASSUME NEW m \in Commands, Act(m)
      PROVE  Contract!Next
  <2>1. /\ inbox # <<>> /\ Head(inbox) = m /\ inbox' = Tail(inbox)
        /\ last' = m /\ acted' = acted \cup {m}
        /\ UNCHANGED <<link, session, sent, count, lost, strayed>>
    BY <1>4 DEF Act, brokerVars
  <2>2. m \in 1..count /\ Contract!Bring(m)
    BY <2>1, HeadIsBrought
  <2>3. Contract!Perform(m)
    BY <2>1, <2>2 DEF Contract!Perform
  <2> QED
    BY <2>2, <2>3
<1>5. CASE AckArrives
  <2>1. PICK m \in done: /\ \A d \in done: m <= d
                         /\ session' = session \ {m} /\ sent' = sent \ {m}
                         /\ link
    BY <1>5 DEF AckArrives
  <2>2. UNCHANGED <<link, inbox, count, lost, acted, last, strayed>>
    BY <1>5 DEF AckArrives, actVars
  <2>3. m \in sent /\ m \notin Arrived /\ m \in session /\ m \in acted /\ m \in 1..count
    BY <2>1 DEF DeliveryInv, VanishInv, CommandTypeOK
  <2>4. Pending' = Pending /\ m \notin Pending
    BY <1>b, <2>1, <2>2, <2>3 DEF Pending
  <2>5. ASSUME NEW k \in session, k < m
        PROVE  k \in strayed
    <3>1. k \in Int /\ m \in Int
      BY <2>3, <2>5 DEF CommandTypeOK
    <3>2. k \in sent
      BY <2>3, <2>5, <3>1 DEF DeliveryInv
    <3>3. k \notin done /\ k \notin Arrived
      BY <2>1, <2>5, <3>1 DEF DeliveryInv
    <3> QED
      BY <3>2, <3>3 DEF DeliveryInv
  <2>6. Contract!Confirm(m)
    BY <2>1, <2>2, <2>3, <2>4, <2>5 DEF Contract!Confirm
  <2> QED
    BY <2>3, <2>6
<1>6. CASE BrokerForgets
  <2>1. /\ session' = {} /\ lost' = lost \cup session
        /\ UNCHANGED <<count, acted, last, strayed>>
    BY <1>6 DEF BrokerForgets, clientVars, actVars
  <2>2. Pending' = {}
    BY <2>1 DEF Pending
  <2>3. Contract!Forget
    BY <2>1, <2>2 DEF Contract!Forget
  <2> QED
    BY <2>3
<1>7. CASE LinkUp
  <2>1. /\ ~ link /\ UNCHANGED <<session, sent, count, lost, acted, last, strayed>>
        /\ sent = {}
    BY <1>7 DEF LinkUp, kept, actVars, DeliveryInv
  <2>2. Pending' = Pending
    BY <2>1 DEF Pending
  <2> QED
    BY <1>c, <2>1, <2>2
<1>8. CASE LinkCut
  <2>1. ~ link' /\ UNCHANGED <<session, count, lost, acted, last, strayed>>
    BY <1>8 DEF LinkCut, Cut, kept, actVars
  <2>2. Pending' = session
    BY <2>1 DEF Pending
  <2>3. Contract!NewPass
    BY <2>1, <2>2 DEF Contract!NewPass
  <2> QED
    BY <2>3
<1>9. CASE NoticeMoves \/ Elsewhere
  <2>1. UNCHANGED <<link, session, sent, count, lost, acted, last, strayed>>
    BY <1>9 DEF NoticeMoves, Elsewhere, kept, actVars
  <2>2. Arrived' = Arrived
    BY <1>9, <1>b, MessageArrives, MessageHandled DEF NoticeMoves, Elsewhere, Arrived, DeliveryInv
  <2>3. Pending' = Pending
    BY <2>1, <2>2 DEF Pending
  <2> QED
    BY <1>c, <2>1, <2>3
<1> QED
  BY <1>1, <1>2, <1>3, <1>4, <1>5, <1>6, <1>7, <1>8, <1>9, CommandCases

\* Links, sessions, acknowledgements, handlers and callbacks together deliver
\* as CommandContract says: what is owed is performed before it is confirmed,
\* and each pass is in order.
THEOREM DeliversByContract == CommandSpec => KeepsCommandContract
<1>1. CommandInit => Contract!Init
  BY DEF CommandInit, Contract!Init, Pending
<1>2. CommandTypeOK /\ DeliveryInv /\ VanishInv /\ [CommandNext]_commandVars
        => [Contract!Next]_(Contract!deliveryVars)
  BY ContractStep
<1>3. CommandInit => VanishInv
  BY DEF CommandInit, VanishInv, NoCommandVanishes
<1>4. CommandTypeOK /\ DeliveryInv /\ VanishInv /\ [CommandNext]_commandVars => VanishInv'
  BY VanishStep
<1> QED
  BY <1>1, <1>2, <1>3, <1>4, DeliveryInOrder, PTL
     DEF CommandSpec, KeepsCommandContract, Contract!Spec

-----------------------------------------------------------------------------
(* What the contract is worth by itself.                                   *)

\* The commands newer than k that were performed, but for the disturbed ones.
Overtook(k) == {m \in acted \ Contract!Disturbed: m > k}

\* As long as a command may be performed once more, all that is newer and was
\* performed is owed, or due, as well, and will follow it.
PassInv ==
  /\ count \in Nat /\ acted \subseteq 1..count /\ lost \subseteq 1..count
  /\ session \subseteq 1..count /\ Pending \subseteq session /\ session \cap lost = {}
  /\ 1..count \subseteq session \cup acted \cup lost
  /\ \A k \in session \ strayed: Overtook(k) \subseteq session
  /\ \A k \in Pending \ strayed: Overtook(k) \subseteq Pending
  /\ last \in Contract!Disturbed \cup {0} \/ (last \in 1..count /\ Overtook(last) \subseteq Pending)

\* The contract alone keeps commands from vanishing and has passes settle: what
\* implements it needs no other argument.
THEOREM ContractSettles == KeepsCommandContract => []Contract!PassSettles
<1>1. Contract!Init => PassInv
  BY DEF Contract!Init, PassInv, Overtook
<1>2. PassInv /\ [Contract!Next]_(Contract!deliveryVars) => PassInv'
  <2> SUFFICES ASSUME PassInv, [Contract!Next]_(Contract!deliveryVars)
               PROVE  PassInv'
    OBVIOUS
  <2> USE DEF Contract!Disturbed
  <2>1. CASE Contract!Order
    <3>1. /\ count' = count + 1 /\ UNCHANGED <<acted, strayed, last>>
          /\ \/ session' = session \cup {count'} /\ Pending' = Pending \cup {count'} /\ lost' = lost
             \/ lost' = lost \cup {count'} /\ session' = session /\ Pending' = Pending
      BY <2>1 DEF Contract!Order
    <3>2. count' \in Nat /\ 1..count' = (1..count) \cup {count'} /\ count' \notin 1..count
      BY <3>1 DEF PassInv
    <3>3. \A k: Overtook(k)' \subseteq Overtook(k)
      BY <3>1 DEF Overtook
    <3>4. ASSUME NEW k \in Int, k = count'
          PROVE  Overtook(k)' = {}
      <4>1. \A j \in acted: j \in Int /\ ~ j > k
        BY <3>1, <3>4 DEF PassInv
      <4> QED
        BY <3>1, <4>1 DEF Overtook
    <3>5. Pending \subseteq Pending' /\ session \subseteq session'
      BY <3>1
    <3>6. /\ acted' \subseteq 1..count' /\ lost' \subseteq 1..count'
          /\ session' \subseteq 1..count' /\ Pending' \subseteq session'
          /\ session' \cap lost' = {} /\ 1..count' \subseteq session' \cup acted' \cup lost'
      BY <3>1, <3>2 DEF PassInv
    <3>7. \A k \in session' \ strayed: Overtook(k)' \subseteq session'
      BY <3>1, <3>2, <3>3, <3>4, <3>5 DEF PassInv
    <3>8. \A k \in Pending' \ strayed: Overtook(k)' \subseteq Pending'
      BY <3>1, <3>2, <3>3, <3>4, <3>5 DEF PassInv
    <3>9. \/ last' \in lost' \cup strayed' \cup {0}
          \/ last' \in 1..count' /\ Overtook(last)' \subseteq Pending'
      <4>1. Overtook(last)' \subseteq Overtook(last)
        BY <3>1 DEF Overtook
      <4> QED
        BY <3>1, <3>2, <3>5, <4>1 DEF PassInv
    <3> QED
      BY <3>1, <3>2, <3>6, <3>7, <3>8, <3>9 DEF PassInv
  <2>2. CASE Contract!NewPass
    BY <2>2 DEF Contract!NewPass, PassInv, Overtook
  <2>3. CASE Contract!Forget
    BY <2>3 DEF Contract!Forget, PassInv, Overtook
  <2>4. ASSUME NEW m \in 1..count, Contract!Perform(m)
        PROVE  PassInv'
    <3>1. /\ acted' = acted \cup {m} /\ last' = m
          /\ UNCHANGED <<count, session, lost, strayed>>
      BY <2>4 DEF Contract!Perform
    <3>2. /\ m \in Int /\ Pending \subseteq Int /\ session \subseteq Int /\ Pending \subseteq session
          /\ acted' \subseteq 1..count /\ 1..count \subseteq session \cup acted' \cup lost
      BY <3>1 DEF PassInv
    <3>3. Overtook(last)' \subseteq Overtook(m) \ {m}
      BY <3>1 DEF Overtook, PassInv
    <3>4. CASE m \in Pending /\ (\A k \in Pending: m <= k) /\ Pending' = Pending \ {m}
      <4>1. \A k \in Pending': k >= m
        BY <3>4 DEF PassInv
      <4>2. \A k \in Pending' \ strayed: Overtook(k)' \subseteq Pending'
        BY <3>1, <3>2, <3>4, <4>1 DEF PassInv, Overtook
      <4>3. \A k \in session \ strayed: Overtook(k)' \subseteq session
        BY <3>1, <3>2, <3>4 DEF PassInv, Overtook
      <4>4. m \in strayed \/ Overtook(last)' \subseteq Pending'
        BY <3>3, <3>4 DEF PassInv
      <4> QED
        BY <3>1, <3>2, <3>4, <4>2, <4>3, <4>4 DEF PassInv
    <3>5. CASE m \in Pending \cup lost /\ UNCHANGED Pending
      <4>1. \A k \in Pending \ strayed: Overtook(k)' \subseteq Pending
        BY <3>1, <3>2, <3>5 DEF PassInv, Overtook
      <4>2. \A k \in session \ strayed: Overtook(k)' \subseteq session
        BY <3>1, <3>2, <3>5 DEF PassInv, Overtook
      <4>3. m \in strayed \cup lost \/ Overtook(last)' \subseteq Pending
        BY <3>3, <3>5 DEF PassInv
      <4> QED
        BY <3>1, <3>2, <3>5, <4>1, <4>2, <4>3 DEF PassInv
    <3> QED
      BY <2>4, <3>4, <3>5 DEF Contract!Perform, Contract!Bring
  <2>5. ASSUME NEW m \in 1..count, Contract!Miss(m)
        PROVE  PassInv'
    BY <2>5 DEF Contract!Miss, Contract!Bring, PassInv, Overtook
  <2>6. ASSUME NEW m \in 1..count, Contract!Confirm(m)
        PROVE  PassInv'
    BY <2>6 DEF Contract!Confirm, PassInv, Overtook
  <2>7. CASE UNCHANGED Contract!deliveryVars
    BY <2>7 DEF Contract!deliveryVars, PassInv, Overtook
  <2> QED
    BY <2>1, <2>2, <2>3, <2>4, <2>5, <2>6, <2>7 DEF Contract!Next
<1>3. PassInv => Contract!PassSettles
  <2> SUFFICES ASSUME PassInv, Pending = {}, last \notin Contract!Disturbed \cup {0},
                      NEW m \in acted \ Contract!Disturbed
               PROVE  m <= last
    BY DEF Contract!PassSettles, PassInv
  <2>1. m \in Int /\ last \in Int /\ m \notin Overtook(last)
    BY DEF PassInv
  <2> QED
    BY <2>1 DEF Overtook
<1> QED
  BY <1>1, <1>2, <1>3, PTL DEF KeepsCommandContract, Contract!Spec

=============================================================================
