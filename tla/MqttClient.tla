------------------------------ MODULE MqttClient ------------------------------
(***************************************************************************)
(* mqttClient.ClientStruct with the backlog of package queue: messages     *)
(* that cannot be published are kept, and sent by a routine of its own     *)
(* after each connection; routes are subscribed when they are added and    *)
(* after each connection; the availability of the client is announced.     *)
(*                                                                         *)
(* The connection manager and the broker are external: a connection may be *)
(* lost at any time, with a message of which no answer was received.  Then *)
(* the broker sends the will.  A new connection has no subscriptions.  An  *)
(* error may also come while the connection stays: the broker refuses, or  *)
(* its answer does not come in time.  The messages have a QoS of 1 or 2.   *)
(***************************************************************************)
EXTENDS Integers, SequencesExt, FiniteSetsExt

CONSTANTS
  Publishers,  \* routines that publish: the forwarders of the devices
  Routes,      \* topics that AddRoute is called with
  MaxLength,   \* MaxBacklogSize, 256 by default
  ErrsWhileUp, \* Publish and Subscribe also fail while the connection stays
  MaxMessages, \* bound on the messages published
  MaxUps       \* bound on the connections made

ASSUME LengthAssumption == MaxLength \in Int
ASSUME BoundsAssumption == MaxMessages \in Nat /\ MaxUps \in Nat \ {0} /\ ErrsWhileUp \in BOOLEAN

Ups == 1..MaxUps
Messages == [by : Publishers, nr : 1..MaxMessages]

VARIABLES
  up,            \* the connection manager is connected
  ups,           \* number of connections made
  announcing,    \* onConnectionUp is called and waits for the lock
  arrived,       \* the messages the broker has received
  brokerRoutes,  \* the subscriptions it has
  refused,       \* history: the routes whose last Subscribe on this connection failed
  availability,  \* the message it has retained for the client
  backlog,       \* publishBacklog
  publish,       \* publish[p]: where routine p is in Publish
  message,       \* message[p]: what it publishes, <<>> or <<message>>
  messages,      \* number of messages published
  drain,         \* drain[n]: the routine started by connection n
  dequeued,      \* dequeued[n]: what it has dequeued, <<>> or <<message>>
  dropped,       \* history: the messages it got an error for
  subscriptions, \* ClientStruct.subscriptions
  adding,        \* adding[r]: where AddRoute of r is
  stopping,      \* where Shutdown is
  unanswered     \* history: the messages that arrived without an answer

broker == <<arrived, unanswered, brokerRoutes, refused, availability>>
link == <<up, ups, announcing>>
publishers == <<publish, message, messages>>
drains == <<drain, dequeued, dropped>>
routes == <<subscriptions, adding>>
vars == <<link, broker, backlog, publishers, drains, routes, stopping>>

Init ==
  /\ up = FALSE /\ ups = 0 /\ announcing = FALSE
  /\ arrived = <<>> /\ unanswered = {} /\ brokerRoutes = {} /\ refused = {}
  /\ availability = "none"
  /\ backlog = <<>>
  /\ publish = [p \in Publishers |-> "idle"] /\ message = [p \in Publishers |-> <<>>]
  /\ messages = 0
  /\ drain = [n \in Ups |-> "new"] /\ dequeued = [n \in Ups |-> <<>>] /\ dropped = {}
  /\ subscriptions = {} /\ adding = [r \in Routes |-> "new"]
  /\ stopping = "no"

-----------------------------------------------------------------------------
\* Mutant: the length is compared before the value is added.
Enqueue_offByOne(q, m) ==
  IF MaxLength < 1 THEN q
  ELSE IF Len(q) + 1 >= MaxLength THEN Tail(Append(q, m)) ELSE Append(q, m)

\* Fifo.Enqueue
Enqueue(q, m) ==
  IF MaxLength < 1 THEN q
  ELSE IF Len(q) + 1 > MaxLength THEN Tail(Append(q, m)) ELSE Append(q, m)

-----------------------------------------------------------------------------
\* The connection manager, which does not connect again after Disconnect.
Connect ==
  /\ ~up /\ ups < MaxUps /\ ~announcing /\ stopping # "done"
  /\ up' = TRUE /\ ups' = ups + 1 /\ announcing' = TRUE
  /\ brokerRoutes' = {} /\ refused' = {}
  /\ UNCHANGED <<arrived, unanswered, availability, backlog, publishers, drains, routes, stopping>>

\* The end of a connection but for Disconnect; the broker sends the will.
Lose ==
  /\ up
  /\ up' = FALSE /\ availability' = "offline"

ConnectionLost ==
  /\ Lose
  /\ UNCHANGED <<ups, announcing, arrived, unanswered, brokerRoutes, refused, backlog, publishers,
                 drains, routes, stopping>>

\* ConnectionManager.Publish of m returns without an error.
Published(m) ==
  /\ up
  /\ arrived' = Append(arrived, m)
  /\ UNCHANGED <<link, unanswered, brokerRoutes, refused, availability>>

\* It returns an error: not connected, or the connection is lost while it waits
\* for an answer, or the broker refuses m, or no answer comes in time.
PublishFails(m) ==
  /\ \/ UNCHANGED <<arrived, unanswered>>
     \/ up /\ arrived' = Append(arrived, m) /\ unanswered' = unanswered \cup {m}
  /\ \/ Lose
     \/ (up => ErrsWhileUp) /\ UNCHANGED <<up, availability>>
  /\ UNCHANGED <<ups, announcing, brokerRoutes, refused>>

\* The availability message, whose error is only logged.
Announces(payload) ==
  availability' \in IF ~up THEN {availability}
                    ELSE {payload} \cup IF ErrsWhileUp THEN {availability} ELSE {}

\* ConnectionManager.Subscribe, whose error is only logged, or ignored.
Subscribes(rs) ==
  IF ~up THEN UNCHANGED <<brokerRoutes, refused>>
  ELSE \/ brokerRoutes' = brokerRoutes \cup rs /\ refused' = refused \ rs
       \/ ErrsWhileUp /\ refused' = refused \cup rs /\ UNCHANGED brokerRoutes

-----------------------------------------------------------------------------
\* Publish: called, its result, and the backlog where that is an error.
PublishCalled(p) ==
  /\ publish[p] = "idle" /\ messages < MaxMessages
  /\ messages' = messages + 1
  /\ message' = [message EXCEPT ![p] = <<[by |-> p, nr |-> messages']>>]
  /\ publish' = [publish EXCEPT ![p] = "send"]
  /\ UNCHANGED <<link, broker, backlog, drains, routes, stopping>>

PublishReturns(p) ==
  /\ publish[p] = "send"
  /\ \/ /\ Published(message[p][1])
        /\ publish' = [publish EXCEPT ![p] = "idle"]
        /\ message' = [message EXCEPT ![p] = <<>>]
     \/ /\ PublishFails(message[p][1])
        /\ publish' = [publish EXCEPT ![p] = "enqueue"] /\ UNCHANGED message
  /\ UNCHANGED <<backlog, messages, drains, routes, stopping>>

PublishKeeps(p) ==
  /\ publish[p] = "enqueue"
  /\ backlog' = Enqueue(backlog, message[p][1])
  /\ publish' = [publish EXCEPT ![p] = "idle"]
  /\ message' = [message EXCEPT ![p] = <<>>]
  /\ UNCHANGED <<link, broker, messages, drains, routes, stopping>>

-----------------------------------------------------------------------------
\* AddRoute has the lock until it returns.
RouteLock == \E r \in Routes : adding[r] = "locked"

\* Mutant: subscribed and then, in another critical section, listed.
AddRoute_unlisted(r) ==
  /\ adding[r] = "new" /\ ~RouteLock
  /\ adding' = [adding EXCEPT ![r] = "locked"]
  /\ UNCHANGED <<link, broker, backlog, publishers, drains, subscriptions, stopping>>

AddRoute(r) ==
  /\ adding[r] = "new" /\ ~RouteLock
  /\ subscriptions' = subscriptions \cup {r}
  /\ adding' = [adding EXCEPT ![r] = "locked"]
  /\ UNCHANGED <<link, broker, backlog, publishers, drains, stopping>>

\* The result of Subscribe is ignored.
AddRouteReturns(r) ==
  /\ adding[r] = "locked"
  /\ Subscribes({r})
  /\ adding' = [adding EXCEPT ![r] = "done"]
  /\ UNCHANGED <<link, arrived, unanswered, availability, backlog, publishers, drains,
                 subscriptions, stopping>>

\* onConnectionUp: subscribe under the lock, start the routine that publishes.
OnConnectionUp ==
  /\ announcing /\ ~RouteLock
  /\ Subscribes(subscriptions)
  /\ announcing' = FALSE
  /\ drain' = [drain EXCEPT ![ups] = "online"]
  /\ UNCHANGED <<up, ups, arrived, unanswered, availability, backlog, publishers,
                 dequeued, dropped, routes, stopping>>

\* That routine: online, then the backlog until it is empty.
DrainOnline(n) ==
  /\ drain[n] = "online"
  /\ Announces("online")
  /\ drain' = [drain EXCEPT ![n] = "loop"]
  /\ UNCHANGED <<link, arrived, unanswered, brokerRoutes, refused, backlog, publishers, dequeued,
                 dropped, routes, stopping>>

\* Mutant: the message stays in the backlog while it is sent.
DrainTakes_keeps(n) ==
  /\ drain[n] = "loop" /\ backlog # <<>>
  /\ dequeued' = [dequeued EXCEPT ![n] = <<Head(backlog)>>]
  /\ drain' = [drain EXCEPT ![n] = "send"]
  /\ UNCHANGED <<link, broker, backlog, publishers, dropped, routes, stopping>>

DrainTakes(n) ==
  /\ drain[n] = "loop" /\ backlog # <<>>
  /\ dequeued' = [dequeued EXCEPT ![n] = <<Head(backlog)>>] /\ backlog' = Tail(backlog)
  /\ drain' = [drain EXCEPT ![n] = "send"]
  /\ UNCHANGED <<link, broker, publishers, dropped, routes, stopping>>

\* "cannot publish backlog, truncating"
DrainSends(n) ==
  /\ drain[n] = "send"
  /\ \/ Published(dequeued[n][1]) /\ UNCHANGED dropped
     \/ PublishFails(dequeued[n][1]) /\ dropped' = dropped \cup {dequeued[n][1]}
  /\ dequeued' = [dequeued EXCEPT ![n] = <<>>]
  /\ drain' = [drain EXCEPT ![n] = "loop"]
  /\ UNCHANGED <<backlog, publishers, routes, stopping>>

DrainEnds(n) ==
  /\ drain[n] = "loop" /\ backlog = <<>>
  /\ drain' = [drain EXCEPT ![n] = "done"]
  /\ UNCHANGED <<link, broker, backlog, publishers, dequeued, dropped, routes, stopping>>

-----------------------------------------------------------------------------
\* Shutdown: offline, with a second of time, then Disconnect, which the broker
\* sends no will for.
StopOffline ==
  /\ stopping = "no"
  /\ Announces("offline")
  /\ stopping' = "disconnect"
  /\ UNCHANGED <<link, arrived, unanswered, brokerRoutes, refused, backlog, publishers, drains,
                 routes>>

StopDisconnect ==
  /\ stopping = "disconnect"
  /\ up' = FALSE
  /\ stopping' = "done"
  /\ UNCHANGED <<ups, announcing, broker, backlog, publishers, drains, routes>>

Next ==
  \/ Connect \/ ConnectionLost \/ OnConnectionUp \/ StopOffline \/ StopDisconnect
  \/ \E p \in Publishers : PublishCalled(p) \/ PublishReturns(p) \/ PublishKeeps(p)
  \/ \E r \in Routes : AddRoute(r) \/ AddRouteReturns(r)
  \/ \E n \in Ups : DrainOnline(n) \/ DrainTakes(n) \/ DrainSends(n) \/ DrainEnds(n)

Spec == Init /\ [][Next]_vars

-----------------------------------------------------------------------------
\* Every variable has its type.
TypeOK ==
  /\ up \in BOOLEAN /\ ups \in 0..MaxUps /\ announcing \in BOOLEAN
  /\ unanswered \subseteq Messages /\ arrived \in Seq(Messages) /\ backlog \in Seq(Messages)
  /\ Len(backlog) <= MaxLength \/ backlog = <<>>
  /\ brokerRoutes \subseteq Routes /\ refused \subseteq Routes /\ subscriptions \subseteq Routes
  /\ availability \in {"none", "online", "offline"}
  /\ publish \in [Publishers -> {"idle", "send", "enqueue"}]
  /\ message \in [Publishers -> {<<>>} \cup {<<m>> : m \in Messages}]
  /\ messages \in 0..MaxMessages
  /\ drain \in [Ups -> {"new", "online", "loop", "send", "done"}] /\ dropped \subseteq Messages
  /\ dequeued \in [Ups -> {<<>>} \cup {<<m>> : m \in Messages}]
  /\ adding \in [Routes -> {"new", "locked", "done"}]
  /\ stopping \in {"no", "disconnect", "done"}

\* The numbers of the messages that have arrived or can still do so.
Known ==
  {m.nr : m \in ToSet(arrived) \cup ToSet(backlog)
                \cup (UNION {ToSet(message[p]) : p \in Publishers})
                \cup (UNION {ToSet(dequeued[n]) : n \in Ups})}

\* A backlog that is long enough loses no message, however publishers, drains and
\* connections interleave and wherever an error comes; but for one thing: an error
\* for a message of the backlog, "cannot publish backlog, truncating".
KeptUnlessTruncated ==
  messages <= MaxLength => 1..messages = Known \cup {m.nr : m \in dropped}

\* A message arrives once, unless it arrived without an answer and was sent again:
\* though several connections drain the backlog while publishers refill it.
ArrivesOnce ==
  \A i, j \in DOMAIN arrived :
    arrived[i] = arrived[j] /\ arrived[i] \notin unanswered => i = j

\* Whatever AddRoute and the loss of connections do to each other: with a
\* connection that is announced, every route is subscribed, but for those whose
\* Subscribe failed on this very connection; nobody tries again before the next.
RoutesSubscribed ==
  up /\ ~announcing =>
    \A r \in Routes : adding[r] = "done" => r \in brokerRoutes \cup refused

\* README.md:404, "sends `offline` when it properly shuts down": what the broker has
\* retained after Shutdown is not online.
OfflineAfterShutdown == stopping = "done" => availability # "online"
=============================================================================
