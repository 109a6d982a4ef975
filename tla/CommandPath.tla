---------------------------- MODULE CommandPath -----------------------------
(***************************************************************************)
(* How a command gets from the broker to the gate: the MQTT client of      *)
(* pigate/pkg/messenger/messanger.go in the gatecontroller process, its    *)
(* persistent session at the broker, and the callbacks.                    *)
(*                                                                         *)
(* The client connects with a fixed identifier and without a clean session,*)
(* so that the broker keeps its subscriptions and the commands it has not  *)
(* acknowledged; the library reconnects by itself.  The options were       *)
(* copied before OnConnect was assigned to them, so resubscribeAll is never*)
(* called and no reconnection subscribes to anything.  A handler, on the   *)
(* other hand, exists in the process only, from the Subscribe of main() on,*)
(* while the broker sends what it has kept as soon as the link is up.      *)
(*                                                                         *)
(* Callbacks run one at a time in the order of arrival.  The callback of a *)
(* credential notification synchronises for up to 30 s: its message stays  *)
(* at the head of the inbox, and commands wait behind it.                  *)
(*                                                                         *)
(* The broker sends a message once per connection, in order, and again     *)
(* after a reconnection when it has no acknowledgement.                    *)
(***************************************************************************)
EXTENDS Integers, SequencesExt

CONSTANT MaxCommands   \* bound: commands that are published

ASSUME CommandsAssumption == MaxCommands \in Nat

VARIABLES
  pc,        \* how far main() has come
  link,      \* is there a connection?
  routes,    \* topics with a handler in this process
  inbox,     \* messages that arrived, the head in its callback
  done,      \* commands acted upon whose acknowledgement is under way
  subs,      \* broker: topics the session is subscribed to
  session,   \* broker: commands kept for the session, not acknowledged
  sent,      \* broker: those sent on this connection
  count,     \* commands published; a command is its number
  \* History, read by properties only:
  last,      \* the command that acted last, 0 at first
  acted,     \* commands that have acted
  strayed,   \* commands that have arrived before there was a handler
  lost       \* commands the broker had no session for, or lost with it

clientVars == <<link, routes, inbox, done>>
brokerVars == <<subs, session, sent, count, lost>>
actVars == <<last, acted, strayed>>
commandVars == <<pc, clientVars, brokerVars, actVars>>

Stages == {"down", "connecting", "booting", "subscribeCredentials", "subscribeCommand", "serving"}
Topics == {"credentials", "command"}
Commands == 1..MaxCommands
Notice == 0   \* the credential notification among the messages

CommandTypeOK ==
  /\ pc \in Stages
  /\ link \in BOOLEAN /\ (link => pc \notin {"down", "connecting"})
  /\ routes \subseteq Topics /\ subs \subseteq Topics
  /\ inbox \in Seq(Commands \cup {Notice})
  /\ count \in 0..MaxCommands /\ last \in 0..count
  /\ session \subseteq 1..count /\ sent \subseteq session /\ done \subseteq 1..count
  /\ acted \subseteq 1..count /\ strayed \subseteq 1..count /\ lost \subseteq 1..count

CommandInit ==
  /\ pc = "down" /\ link = FALSE /\ routes = {}
  /\ inbox = <<>> /\ done = {}
  /\ subs = {} /\ session = {} /\ sent = {} /\ count = 0
  /\ last = 0 /\ acted = {} /\ strayed = {} /\ lost = {}

-----------------------------------------------------------------------------
(* The broker.                                                             *)

\* CommandOpen, CommandLockOpen or CommandClose of the status server.
Publish ==
  /\ count < MaxCommands
  /\ count' = count + 1
  /\ \/ "command" \in subs /\ session' = session \cup {count'} /\ UNCHANGED lost
     \/ "command" \notin subs /\ lost' = lost \cup {count'} /\ UNCHANGED session
  /\ UNCHANGED <<pc, clientVars, subs, sent, actVars>>

Send(m) ==
  /\ link /\ m \in session \ sent
  /\ \A k \in session \ sent: m <= k
  /\ sent' = sent \cup {m}
  /\ inbox' = Append(inbox, m)
  /\ UNCHANGED <<pc, link, routes, done, subs, session, count, lost, actVars>>

\* A notification of NotifyNewCredentials, or the one that is retained.
SendNotice ==
  /\ link /\ "credentials" \in subs
  /\ Notice \notin ToSet(inbox)
  /\ inbox' = Append(inbox, Notice)
  /\ UNCHANGED <<pc, link, routes, done, brokerVars, actVars>>

\* Acknowledgements arrive in the order in which they were sent.
AckArrives ==
  /\ link
  /\ \E m \in done:
       /\ \A k \in done: m <= k
       /\ done' = done \ {m}
       /\ session' = session \ {m}
       /\ sent' = sent \ {m}
  /\ UNCHANGED <<pc, link, routes, inbox, subs, count, lost, actVars>>

\* The broker is restarted, or the session has expired.
BrokerForgets ==
  /\ ~ link
  /\ subs' = {} /\ session' = {} /\ sent' = {}
  /\ lost' = lost \cup session
  /\ UNCHANGED <<pc, clientVars, count, actVars>>

-----------------------------------------------------------------------------
(* The connection.                                                         *)

\* Mutant of Connect: SetCleanSession(true).
ConnectClean ==
  /\ pc = "connecting"
  /\ pc' = "booting"
  /\ link' = TRUE
  /\ subs' = {} /\ session' = {}
  /\ UNCHANGED <<routes, inbox, done, sent, count, lost, actVars>>

\* NewMQTTClientWithCredentials and Connect(): the session of the process
\* before is taken over.
Connect ==
  /\ pc = "connecting"
  /\ pc' = "booting"
  /\ link' = TRUE
  /\ UNCHANGED <<routes, inbox, done, brokerVars, actVars>>

\* Acknowledgements under way are lost with the connection.  What has arrived
\* is still handled, or is dropped.
Cut ==
  /\ link' = FALSE
  /\ sent' = {} /\ done' = {}
  /\ inbox' \in {inbox, <<>>}

LinkDown ==
  /\ link
  /\ Cut
  /\ UNCHANGED <<pc, routes, subs, session, count, lost, actVars>>

\* Mutant of Reconnect: SetAutoReconnect(false).
ReconnectNever == FALSE /\ UNCHANGED commandVars

\* Mutant of Reconnect: also before main() has connected.
ReconnectEarly ==
  /\ ~ link /\ inbox = <<>>
  /\ link' = TRUE
  /\ UNCHANGED <<pc, routes, inbox, done, brokerVars, actVars>>

\* Mutant of Reconnect: callbacks of the connection before are not waited for.
ReconnectAtOnce ==
  /\ pc \notin {"down", "connecting"} /\ ~ link
  /\ link' = TRUE
  /\ UNCHANGED <<pc, routes, inbox, done, brokerVars, actVars>>

\* SetAutoReconnect, without resubscribeAll.  The library first waits for the
\* callbacks of the connection before.
Reconnect ==
  /\ pc \notin {"down", "connecting"} /\ ~ link
  /\ inbox = <<>>
  /\ link' = TRUE
  /\ UNCHANGED <<pc, routes, inbox, done, brokerVars, actVars>>

-----------------------------------------------------------------------------
(* main().                                                                 *)

Boot ==
  /\ pc = "down"
  /\ pc' = "connecting"
  /\ UNCHANGED <<clientVars, brokerVars, actVars>>

\* The start message and the synchronisation at start, for a minute at most,
\* with the link up and no handler.
StartSyncEnds ==
  /\ pc = "booting"
  /\ pc' = "subscribeCredentials"
  /\ UNCHANGED <<clientVars, brokerVars, actVars>>

\* The Subscribe of the library.  Without a connection it fails at once and
\* leaves nothing.  Otherwise the handler is there before SUBSCRIBE is sent,
\* which the broker carries out, or which is lost with the link and not sent
\* again.
SubscribeTo(topic) ==
  /\ \/ ~ link /\ UNCHANGED <<link, routes, inbox, done, subs, sent>>
     \/ /\ link
        /\ routes' = routes \cup {topic}
        /\ \/ subs' = subs \cup {topic} /\ UNCHANGED <<link, inbox, done, sent>>
           \/ Cut /\ UNCHANGED subs
  /\ UNCHANGED <<session, count, lost, actVars>>

\* SubscribeCredentialStatus, whose error main() does not look at.
SubscribeCredentialStatus ==
  /\ pc = "subscribeCredentials"
  /\ pc' = "subscribeCommand"
  /\ SubscribeTo("credentials")

\* SubscribePigateCommand, likewise.
SubscribePigateCommand ==
  /\ pc = "subscribeCommand"
  /\ pc' = "serving"
  /\ SubscribeTo("command")

\* log.Fatalf after 10 s without a broker, a crash, or a stop of the service.
Ends ==
  /\ pc # "down"
  /\ pc' = "down"
  /\ Cut /\ inbox' = <<>>
  /\ routes' = {}
  /\ UNCHANGED <<subs, session, count, lost, actVars>>

-----------------------------------------------------------------------------
(* The callbacks.                                                          *)

\* The callback of HandleUpdateNotification returns.
NoticeHandled ==
  /\ inbox # <<>> /\ Head(inbox) = Notice
  /\ inbox' = Tail(inbox)
  /\ UNCHANGED <<pc, link, routes, done, brokerVars, actVars>>

\* A command without a handler is dropped and not acknowledged.
Stray(m) ==
  /\ inbox # <<>> /\ Head(inbox) = m
  /\ "command" \notin routes
  /\ inbox' = Tail(inbox)
  /\ strayed' = strayed \cup {m}
  /\ UNCHANGED <<pc, link, routes, done, brokerVars, last, acted>>

\* Mutant of Act: SetOrderMatters(false), a goroutine per message.
ActUnordered(m) ==
  /\ m \in ToSet(inbox)
  /\ "command" \in routes
  /\ inbox' = SelectSeq(inbox, LAMBDA k: k # m)
  /\ last' = m
  /\ acted' = acted \cup {m}
  /\ done' = IF link THEN done \cup {m} ELSE done
  /\ UNCHANGED <<pc, link, routes, brokerVars, strayed>>

\* CommandHandler acts on the gate and returns; only then the library
\* acknowledges.
Act(m) ==
  /\ inbox # <<>> /\ Head(inbox) = m
  /\ "command" \in routes
  /\ inbox' = Tail(inbox)
  /\ last' = m
  /\ acted' = acted \cup {m}
  /\ done' = IF link THEN done \cup {m} ELSE done
  /\ UNCHANGED <<pc, link, routes, brokerVars, strayed>>

-----------------------------------------------------------------------------
CommandNext ==
  \/ Publish
  \/ \E m \in Commands: Send(m) \/ Stray(m) \/ Act(m)
  \/ SendNotice \/ NoticeHandled
  \/ AckArrives \/ BrokerForgets
  \/ Boot \/ Connect \/ StartSyncEnds
  \/ SubscribeCredentialStatus \/ SubscribePigateCommand \/ Ends
  \/ LinkDown \/ Reconnect

\* The library goes on trying to connect, the broker goes on sending, and a
\* callback returns, since a synchronisation has a deadline.  Nobody has to send
\* a command, and neither process, link nor broker has to fail or to last.
CommandFairness ==
  /\ WF_commandVars(Reconnect)
  /\ WF_commandVars(NoticeHandled)
  /\ \A m \in Commands: WF_commandVars(Send(m)) /\ WF_commandVars(Act(m))

CommandSpec == CommandInit /\ [][CommandNext]_commandVars /\ CommandFairness

-----------------------------------------------------------------------------
(* Properties.                                                             *)

\* A command that the broker has taken has acted on the gate, or is still kept
\* for it, unless the broker lost it or had nobody to keep it for: neither a
\* lost link, nor a crash between acting and acknowledging, nor an arrival
\* before there is a handler makes it vanish.
NoCommandVanishes == 1..count \subseteq session \cup acted \cup lost

Settled == link /\ inbox = <<>> /\ sent = session

\* Commands are repeated after a reconnection, but in order: when all that was
\* kept has been sent and handled, the command that acted last is the newest of
\* those that acted, so that a repeated "open" does not undo a later "close".
\* Out of turn are only commands that once came before their handler, and
\* act after some later reconnection or never again, and what the broker lost.
NewestHasTheLastWord ==
  Settled => last \in strayed \cup {0} \/ \A m \in acted \ (lost \cup strayed): m <= last

Arrived == ToSet(inbox) \ {Notice}

\* The kept commands that will act once more if the link lasts.
Pending == IF link THEN {k \in session: k \in sent => k \in Arrived} ELSE session

\* To whoever sends commands all this is a delivery in passes, each in order,
\* of what has not been confirmed: a pass is a connection, and a command is
\* confirmed when the broker has its acknowledgement.
Contract == INSTANCE CommandContract
              WITH owed <- session, due <- Pending, missed <- strayed
KeepsCommandContract == Contract!Spec

\* A command that was acknowledged never acts again.
AckedStaysDone ==
  [][\A m \in Commands: Act(m) => m \in session \cup lost]_commandVars

LinkLost == link /\ ~ link'

\* A command that is kept for a process with a handler acts at last, over any
\* number of lost links, unless the process ends, the broker forgets, or links
\* go on being lost for ever.
KeptCommandActs ==
  \A m \in Commands:
    \/ []<><<LinkLost>>_commandVars
    \/ (m \in session \ strayed /\ "command" \in routes) ~> (m \in acted \cup lost \/ pc = "down")

\* The comment in NewMQTTClientWithCredentials: "Restore previous
\* subscriptions".  A process that had subscribed and lost its link is
\* subscribed again in the end.
SubscriptionsRestored ==
  (pc = "serving" /\ ~ link /\ "command" \in routes) ~> ((link /\ "command" \in subs) \/ pc = "down")

=============================================================================
