---------------------------- MODULE Mqtt_proofs ----------------------------
(***************************************************************************)
(* Theorems of MqttClient for any number of publishers, routes, messages   *)
(* and connections and any size of the backlog, and of MqttDevice for any  *)
(* topics, registers, values and routines.                                 *)
(***************************************************************************)
EXTENDS MqttClient, MqttDevice, FiniteSetTheorems, SequenceTheorems, TLAPS

USE LengthAssumption, BoundsAssumption

-----------------------------------------------------------------------------
(* Routes.                                                                 *)

\* A route is listed before AddRoute subscribes it, under one lock with
\* onConnectionUp, which subscribes what is listed.
RoutesInv ==
  /\ adding \in [Routes -> {"new", "locked", "done"}]
  /\ \A r \in Routes : adding[r] # "new" => r \in subscriptions
  /\ RoutesSubscribed

\* The broker keeps its subscriptions in all steps that are not named here.
LEMMA OthersKeepRoutes ==
  ASSUME RoutesInv, Next,
         ~ Connect, ~ OnConnectionUp, ~ \E r \in Routes : AddRoute(r) \/ AddRouteReturns(r)
  PROVE  UNCHANGED <<brokerRoutes, refused, subscriptions, adding, announcing>> /\ (up' => up)
BY DEF Next, ConnectionLost, StopOffline, StopDisconnect, PublishCalled, PublishReturns,
       PublishKeeps, DrainOnline, DrainTakes, DrainSends, DrainEnds, Published, PublishFails,
       Lose, link, broker, publishers, drains, routes

LEMMA RoutesStep == RoutesInv /\ [Next]_vars => RoutesInv'
<1> SUFFICES ASSUME RoutesInv, [Next]_vars PROVE RoutesInv'
  OBVIOUS
<1>1. CASE Connect
  BY <1>1 DEF Connect, RoutesInv, RoutesSubscribed, routes
<1>2. CASE OnConnectionUp
  BY <1>2 DEF OnConnectionUp, Subscribes, RoutesInv, RoutesSubscribed, routes
<1>3. ASSUME NEW r \in Routes, AddRoute(r) PROVE RoutesInv'
  BY <1>3 DEF AddRoute, RoutesInv, RoutesSubscribed, link, broker
<1>4. ASSUME NEW r \in Routes, AddRouteReturns(r) PROVE RoutesInv'
  BY <1>4 DEF AddRouteReturns, Subscribes, RoutesInv, RoutesSubscribed, link
<1>5. CASE Next /\ ~ Connect /\ ~ OnConnectionUp
           /\ ~ \E r \in Routes : AddRoute(r) \/ AddRouteReturns(r)
  BY <1>5, OthersKeepRoutes DEF RoutesInv, RoutesSubscribed
<1>6. CASE UNCHANGED vars
  BY <1>6 DEF vars, link, broker, routes, RoutesInv, RoutesSubscribed
<1> QED
  BY <1>1, <1>2, <1>3, <1>4, <1>5, <1>6

\* With an announced connection every route is subscribed, or its Subscribe failed on this
\* connection, for any routes and any number of connections: AddRoute and onConnectionUp
\* exclude each other.
THEOREM KeepsRoutes == Spec => []RoutesSubscribed
<1>1. Init => RoutesInv
  BY DEF Init, RoutesInv, RoutesSubscribed
<1>2. RoutesInv => RoutesSubscribed
  BY DEF RoutesInv
<1> QED
  BY <1>1, <1>2, RoutesStep, PTL DEF Spec

-----------------------------------------------------------------------------
(* Types.                                                                  *)

Slots == {<<>>} \cup {<<m>> : m \in Messages}

\* A routine that is in Publish, or sends from the backlog, has a message; the routine
\* of a connection is started once, by onConnectionUp.
SlotInv ==
  /\ TypeOK
  /\ \A p \in Publishers : publish[p] # "idle" <=> message[p] # <<>>
  /\ \A n \in Ups : drain[n] = "send" <=> dequeued[n] # <<>>
  /\ \A n \in Ups : n > ups \/ (announcing /\ n = ups) => drain[n] = "new"

LEMMA SlotFacts ==
  /\ <<>> \in Slots /\ \A m \in Messages : <<m>> \in Slots /\ <<m>> # <<>> /\ <<m>>[1] = m
  /\ \A x \in Slots : x # <<>> => x[1] \in Messages /\ x = <<x[1]>>
BY DEF Slots

LEMMA MessageFacts ==
  /\ \A m \in Messages : m.nr \in Nat \ {0} /\ m.nr <= MaxMessages
  /\ \A p \in Publishers, k \in 1..MaxMessages :
       /\ [by |-> p, nr |-> k] \in Messages /\ [by |-> p, nr |-> k].nr = k
BY DEF Messages

LEMMA HeadTailFacts ==
  ASSUME NEW S, NEW q \in Seq(S), q # <<>>
  PROVE  /\ Head(q) \in S /\ Tail(q) \in Seq(S) /\ Len(q) >= 1 /\ Len(Tail(q)) = Len(q) - 1
         /\ Head(q) = q[1] /\ \A i \in 1..(Len(q) - 1) : Tail(q)[i] = q[i + 1]
OBVIOUS

LEMMA AppendFacts ==
  ASSUME NEW S, NEW q \in Seq(S), NEW e \in S
  PROVE  /\ Append(q, e) \in Seq(S) /\ Len(Append(q, e)) = Len(q) + 1
         /\ Append(q, e)[Len(q) + 1] = e /\ Append(q, e) # <<>>
         /\ \A i \in 1..Len(q) : Append(q, e)[i] = q[i]
OBVIOUS

Bounded(q) == Len(q) <= MaxLength \/ q = <<>>

\* The backlog grows by the value, or by nothing, or loses the oldest for it.
LEMMA EnqueueFacts ==
  ASSUME NEW q \in Seq(Messages), NEW m \in Messages, Bounded(q)
  PROVE  LET e == Enqueue(q, m)
         IN /\ e \in Seq(Messages) /\ Bounded(e)
            /\ Len(q) < MaxLength => e = Append(q, m)
            /\ \/ e = q
               \/ /\ Len(e) = Len(q) + 1 /\ e[Len(q) + 1] = m
                  /\ \A i \in 1..Len(q) : e[i] = q[i]
               \/ /\ Len(e) = Len(q) /\ Len(q) >= 1 /\ e[Len(q)] = m
                  /\ \A i \in 1..(Len(q) - 1) : e[i] = q[i + 1]
<1> DEFINE a == Append(q, m)
<1>1. /\ a \in Seq(Messages) /\ Len(a) = Len(q) + 1 /\ a[Len(q) + 1] = m /\ a # <<>>
      /\ \A i \in 1..Len(q) : a[i] = q[i]
  BY AppendFacts
<1>2. Len(q) \in Nat
  OBVIOUS
<1> HIDE DEF a
<1>3. /\ Tail(a) \in Seq(Messages) /\ Len(Tail(a)) = Len(q)
      /\ \A i \in 1..Len(q) : Tail(a)[i] = a[i + 1]
  BY <1>1, <1>2, HeadTailFacts
<1>4. Enqueue(q, m) = IF MaxLength < 1 THEN q ELSE IF Len(q) + 1 > MaxLength THEN Tail(a) ELSE a
  BY DEF Enqueue, a
<1>5. CASE MaxLength < 1
  BY <1>2, <1>4, <1>5 DEF Bounded
<1>6. CASE MaxLength >= 1 /\ Len(q) + 1 > MaxLength
  <2>1. Len(q) = MaxLength
    BY <1>2, <1>6 DEF Bounded
  <2>2. Enqueue(q, m) = Tail(a) /\ Tail(a)[Len(q)] = m
        /\ \A i \in 1..(Len(q) - 1) : Tail(a)[i] = q[i + 1]
    BY <1>1, <1>2, <1>3, <1>4, <1>6, <2>1
  <2> QED
    BY <1>2, <1>3, <1>6, <2>1, <2>2 DEF Bounded
<1>7. CASE MaxLength >= 1 /\ Len(q) + 1 <= MaxLength
  <2>1. Enqueue(q, m) = a
    BY <1>2, <1>4, <1>7
  <2> QED
    BY <1>1, <1>2, <1>7, <2>1 DEF Bounded, a
<1> QED
  BY <1>2, <1>5, <1>6, <1>7

LEMMA SlotInit == Init => SlotInv
<1> SUFFICES ASSUME Init PROVE SlotInv
  OBVIOUS
<1>1. message \in [Publishers -> Slots] /\ dequeued \in [Ups -> Slots]
  BY SlotFacts DEF Init
<1>2. /\ \A p \in Publishers : publish[p] = "idle" /\ message[p] = <<>>
      /\ \A n \in Ups : drain[n] = "new" /\ dequeued[n] = <<>>
  BY DEF Init
<1>3. backlog = <<>> /\ arrived = <<>> /\ <<>> \in Seq(Messages)
  BY DEF Init
<1>4. ups \in 0..MaxUps /\ messages \in 0..MaxMessages
  BY DEF Init
<1>6. up \in BOOLEAN /\ announcing \in BOOLEAN
  BY DEF Init
<1>7. /\ unanswered \subseteq Messages /\ dropped \subseteq Messages
      /\ brokerRoutes \subseteq Routes /\ refused \subseteq Routes /\ subscriptions \subseteq Routes
  BY DEF Init
<1>5. /\ publish \in [Publishers -> {"idle", "send", "enqueue"}]
      /\ drain \in [Ups -> {"new", "online", "loop", "send", "done"}]
      /\ adding \in [Routes -> {"new", "locked", "done"}]
      /\ availability \in {"none", "online", "offline"} /\ stopping \in {"no", "disconnect", "done"}
  BY DEF Init
<1> QED
  BY <1>1, <1>2, <1>3, <1>4, <1>5, <1>6, <1>7 DEF SlotInv, TypeOK, Slots

LEMMA LinkType ==
  ASSUME TypeOK, NEW m \in Messages, Published(m) \/ PublishFails(m)
  PROVE  /\ up' \in BOOLEAN /\ ups' = ups /\ announcing' = announcing
         /\ unanswered' \subseteq Messages /\ arrived' \in Seq(Messages)
         /\ brokerRoutes' = brokerRoutes /\ refused' = refused
         /\ availability' \in {"none", "online", "offline"}
<1>1. Append(arrived, m) \in Seq(Messages)
  BY AppendFacts DEF TypeOK
<1>2. CASE Published(m)
  BY <1>1, <1>2 DEF Published, link, TypeOK
<1>3. CASE PublishFails(m)
  BY <1>1, <1>3 DEF PublishFails, Lose, TypeOK
<1> QED
  BY <1>2, <1>3

LEMMA AnnouncesType ==
  ASSUME TypeOK, NEW w \in {"online", "offline"}, Announces(w)
  PROVE  availability' \in {"none", "online", "offline"}
BY DEF Announces, TypeOK

LEMMA SubscribesType ==
  ASSUME TypeOK, NEW rs \in SUBSET Routes, Subscribes(rs)
  PROVE  brokerRoutes' \subseteq Routes /\ refused' \subseteq Routes
BY DEF Subscribes, TypeOK

LEMMA SlotStep == SlotInv /\ [Next]_vars => SlotInv'
<1> SUFFICES ASSUME SlotInv, [Next]_vars PROVE SlotInv'
  OBVIOUS
<1> USE DEF SlotInv, TypeOK, Slots, link, broker, publishers, drains, routes
<1>1. CASE Connect
  <2>1. ups' \in 0..MaxUps
    BY <1>1 DEF Connect
  <2>2. brokerRoutes' = {} /\ refused' = {} /\ up' = TRUE /\ announcing' = TRUE
    BY <1>1 DEF Connect
  <2>3. UNCHANGED <<unanswered, arrived, availability, backlog, publish, message, messages,
                    drain, dequeued, dropped, subscriptions, adding, stopping>>
    BY <1>1 DEF Connect
  <2>4. ups' = ups + 1
    BY <1>1 DEF Connect
  <2> QED
    BY <2>1, <2>2, <2>3, <2>4 DEF Ups
<1>12. CASE OnConnectionUp
  <2>1. ups \in Ups => drain[ups] = "new"
    BY <1>12 DEF OnConnectionUp
  <2>2. brokerRoutes' \subseteq Routes /\ refused' \subseteq Routes
    BY <1>12, SubscribesType DEF OnConnectionUp
  <2>3. /\ announcing' = FALSE /\ drain' = [drain EXCEPT ![ups] = "online"]
        /\ UNCHANGED <<up, ups, arrived, unanswered, availability, backlog, publish, message,
                       messages, dequeued, dropped, subscriptions, adding, stopping>>
    BY <1>12 DEF OnConnectionUp
  <2>4. drain' \in [Ups -> {"new", "online", "loop", "send", "done"}]
    BY <2>3
  <2>5. \A n \in Ups : drain'[n] = IF n = ups THEN "online" ELSE drain[n]
    BY <2>3
  <2>6. TypeOK'
    BY <2>2, <2>3, <2>4
  <2>7. \A n \in Ups : drain'[n] = "send" <=> dequeued'[n] # <<>>
    BY <2>1, <2>3, <2>5
  <2>8. \A n \in Ups : n > ups' \/ (announcing' /\ n = ups') => drain'[n] = "new"
    BY <2>3, <2>5 DEF Ups
  <2> QED
    BY <2>3, <2>6, <2>7, <2>8
<1>13. CASE StopOffline
  <2>1. /\ UNCHANGED <<link, arrived, unanswered, brokerRoutes, refused, backlog, publishers,
                       drains, routes>>
        /\ availability' \in {"none", "online", "offline"} /\ stopping' = "disconnect"
    BY <1>13, AnnouncesType DEF StopOffline
  <2> QED
    BY <2>1
<1>2. CASE ConnectionLost \/ StopDisconnect
  <2>2. /\ UNCHANGED <<ups, announcing, arrived, brokerRoutes, refused, unanswered, backlog,
                       publish, message, messages, drain, dequeued, dropped, subscriptions,
                       adding>>
        /\ up' = FALSE
    BY <1>2 DEF ConnectionLost, Lose, StopDisconnect
  <2>3. availability' \in {"none", "online", "offline"} /\ stopping' \in {"no", "disconnect", "done"}
    BY <1>2 DEF ConnectionLost, Lose, StopDisconnect
  <2> QED
    BY <2>2, <2>3
<1>3. ASSUME NEW p \in Publishers, PublishCalled(p) PROVE SlotInv'
  <2>1. messages' \in 1..MaxMessages /\ messages' = messages + 1
    BY <1>3 DEF PublishCalled
  <2>2. <<[by |-> p, nr |-> messages']>> \in Slots /\ <<[by |-> p, nr |-> messages']>> # <<>>
    BY <2>1, MessageFacts, SlotFacts
  <2> QED
    BY <1>3, <2>1, <2>2 DEF PublishCalled
<1>4. ASSUME NEW p \in Publishers, PublishReturns(p) PROVE SlotInv'
  <2>1. message[p][1] \in Messages
    BY <1>4, SlotFacts DEF PublishReturns
  <2>2. Published(message[p][1]) \/ PublishFails(message[p][1])
    BY <1>4 DEF PublishReturns
  <2>3. /\ up' \in BOOLEAN /\ ups' = ups /\ announcing' = announcing
        /\ unanswered' \subseteq Messages /\ arrived' \in Seq(Messages)
        /\ brokerRoutes' = brokerRoutes /\ refused' = refused
        /\ availability' \in {"none", "online", "offline"}
    BY <2>1, <2>2, LinkType
  <2>4. \/ /\ message' = message /\ publish' = [publish EXCEPT ![p] = "enqueue"]
        \/ /\ message' = [message EXCEPT ![p] = <<>>] /\ publish' = [publish EXCEPT ![p] = "idle"]
    BY <1>4 DEF PublishReturns
  <2>5. UNCHANGED <<backlog, messages, drain, dequeued, dropped, subscriptions, adding, stopping>>
        /\ publish[p] = "send"
    BY <1>4 DEF PublishReturns
  <2> QED
    BY <2>3, <2>4, <2>5
<1>5. ASSUME NEW p \in Publishers, PublishKeeps(p) PROVE SlotInv'
  <2>1. message[p][1] \in Messages
    BY <1>5, SlotFacts DEF PublishKeeps
  <2>2. backlog' \in Seq(Messages) /\ Bounded(backlog')
    BY <1>5, <2>1, EnqueueFacts DEF PublishKeeps, Bounded
  <2> QED
    BY <1>5, <2>2 DEF PublishKeeps, Bounded
<1>6. ASSUME NEW r \in Routes, AddRoute(r) \/ AddRouteReturns(r) PROVE SlotInv'
  <2>1. brokerRoutes' \subseteq Routes /\ refused' \subseteq Routes
    BY <1>6, SubscribesType DEF AddRoute, AddRouteReturns
  <2> QED
    BY <1>6, <2>1 DEF AddRoute, AddRouteReturns
<1>7. ASSUME NEW n \in Ups, DrainOnline(n) PROVE SlotInv'
  <2>1. availability' \in {"none", "online", "offline"}
    BY <1>7, AnnouncesType DEF DrainOnline
  <2> QED
    BY <1>7, <2>1 DEF DrainOnline
<1>8. ASSUME NEW n \in Ups, DrainTakes(n) PROVE SlotInv'
  <2>1. Head(backlog) \in Messages /\ Tail(backlog) \in Seq(Messages) /\ Bounded(Tail(backlog))
    BY <1>8, HeadTailFacts DEF DrainTakes, Bounded
  <2>2. <<Head(backlog)>> \in Slots /\ <<Head(backlog)>> # <<>>
    BY <2>1, SlotFacts
  <2> QED
    BY <1>8, <2>1, <2>2 DEF DrainTakes, Bounded
<1>9. ASSUME NEW n \in Ups, DrainSends(n) PROVE SlotInv'
  <2>1. dequeued[n][1] \in Messages
    BY <1>9, SlotFacts DEF DrainSends
  <2>2. Published(dequeued[n][1]) \/ PublishFails(dequeued[n][1])
    BY <1>9 DEF DrainSends
  <2>3. /\ up' \in BOOLEAN /\ ups' = ups /\ announcing' = announcing
        /\ unanswered' \subseteq Messages /\ arrived' \in Seq(Messages)
        /\ brokerRoutes' = brokerRoutes /\ refused' = refused
        /\ availability' \in {"none", "online", "offline"}
    BY <2>1, <2>2, LinkType
  <2>4. /\ UNCHANGED <<backlog, publish, message, messages, subscriptions, adding, stopping>>
        /\ dequeued' = [dequeued EXCEPT ![n] = <<>>] /\ drain' = [drain EXCEPT ![n] = "loop"]
        /\ dropped' \subseteq Messages
    BY <1>9, <2>1 DEF DrainSends
  <2>5. drain[n] = "send" /\ drain' \in [Ups -> {"new", "online", "loop", "send", "done"}]
        /\ dequeued' \in [Ups -> Slots]
    BY <1>9, <2>4 DEF DrainSends
  <2>6. TypeOK'
    BY <2>3, <2>4, <2>5
  <2> QED
    BY <2>3, <2>4, <2>5, <2>6
<1>10. ASSUME NEW n \in Ups, DrainEnds(n) PROVE SlotInv'
  BY <1>10 DEF DrainEnds
<1>11. CASE UNCHANGED vars
  BY <1>11 DEF vars
<1> QED
  BY <1>1, <1>2, <1>3, <1>4, <1>5, <1>6, <1>7, <1>8, <1>9, <1>10, <1>11, <1>12, <1>13
  DEF Next

\* The variables of the client, its backlog and the broker keep their types; the backlog
\* is never longer than MaxBacklogSize.
THEOREM TypeCorrect == Spec => []TypeOK
<1>1. SlotInv => TypeOK
  BY DEF SlotInv
<1> QED
  BY <1>1, SlotInit, SlotStep, PTL DEF Spec

-----------------------------------------------------------------------------
(* Messages.                                                               *)

\* Where the message of number k waits: in a routine's hands, or in the backlog.
At(x, k) == x # <<>> /\ x[1].nr = k
Backlogged(k) == \E i \in 1..Len(backlog) : backlog[i].nr = k
Arrived(k) == \E i \in 1..Len(arrived) : arrived[i].nr = k
InHand(k) ==
  \/ \E p \in Publishers : At(message[p], k)
  \/ \E n \in Ups : At(dequeued[n], k)

\* A message waits at one place.
OnePlace ==
  /\ \A i, j \in 1..Len(backlog) : backlog[i].nr = backlog[j].nr => i = j
  /\ \A p, q \in Publishers, k \in Nat : At(message[p], k) /\ At(message[q], k) => p = q
  /\ \A n, l \in Ups, k \in Nat : At(dequeued[n], k) /\ At(dequeued[l], k) => n = l
  /\ \A p \in Publishers, n \in Ups, k \in Nat : ~ (At(message[p], k) /\ At(dequeued[n], k))
  /\ \A k \in Nat : ~ (InHand(k) /\ Backlogged(k))

\* The numbers given so far.
Numbered ==
  \A k \in Nat : InHand(k) \/ Backlogged(k) \/ Arrived(k) => k \in 1..messages

\* What has arrived and still waits has not been answered.
WaitsUnanswered ==
  \A i \in 1..Len(arrived) :
    InHand(arrived[i].nr) \/ Backlogged(arrived[i].nr) => arrived[i] \in unanswered

PlaceInv == OnePlace /\ Numbered /\ WaitsUnanswered /\ ArrivesOnce

messageVars == <<arrived, unanswered, backlog, message, messages, dequeued, dropped>>

LEMMA PlaceInit == Init => PlaceInv
BY DEF Init, PlaceInv, OnePlace, Numbered, WaitsUnanswered, ArrivesOnce, At, Backlogged, InHand,
       Arrived

\* The steps of connections, routes and Shutdown leave messages alone.
LEMMA OthersKeepMessages ==
  ASSUME Next,
         ~ \E p \in Publishers : PublishCalled(p) \/ PublishReturns(p) \/ PublishKeeps(p),
         ~ \E n \in Ups : DrainTakes(n) \/ DrainSends(n)
  PROVE  UNCHANGED messageVars
BY DEF Next, Connect, ConnectionLost, OnConnectionUp, StopOffline, StopDisconnect, AddRoute,
       AddRouteReturns, DrainOnline, DrainEnds, Lose, link, broker, publishers, drains, routes,
       messageVars

LEMMA CalledPlace ==
  ASSUME SlotInv, PlaceInv, NEW p \in Publishers, PublishCalled(p)
  PROVE  PlaceInv'
<1>1. /\ messages \in Nat /\ messages' = messages + 1 /\ message[p] = <<>>
      /\ message' = [message EXCEPT ![p] = <<[by |-> p, nr |-> messages + 1]>>]
      /\ UNCHANGED <<arrived, unanswered, backlog, dequeued>>
      /\ message \in [Publishers -> Slots]
  BY DEF PublishCalled, SlotInv, TypeOK, Slots, broker, drains
<1>2. \A q \in Publishers, k \in Nat :
        At(message'[q], k) <=> IF q = p THEN k = messages + 1 ELSE At(message[q], k)
  BY <1>1 DEF At
<1>3. \A k \in Nat : /\ InHand(k)' <=> InHand(k) \/ k = messages + 1
                     /\ Backlogged(k)' <=> Backlogged(k)
                     /\ Arrived(k)' <=> Arrived(k)
  BY <1>1, <1>2 DEF InHand, Backlogged, Arrived, At
<1>4. ~ InHand(messages + 1) /\ ~ Backlogged(messages + 1) /\ ~ Arrived(messages + 1)
  BY <1>1 DEF PlaceInv, Numbered
<1>5. /\ \A q \in Publishers : ~ At(message[q], messages + 1)
      /\ \A n \in Ups : ~ At(dequeued[n], messages + 1)
  BY <1>4 DEF InHand
<1>6. OnePlace'
  <2>1. /\ \A q, r \in Publishers, k \in Nat : At(message[q], k) /\ At(message[r], k) => q = r
        /\ \A q \in Publishers, n \in Ups, k \in Nat : ~ (At(message[q], k) /\ At(dequeued[n], k))
        /\ \A k \in Nat : ~ (InHand(k) /\ Backlogged(k))
    BY DEF PlaceInv, OnePlace
  <2>2. \A q, r \in Publishers, k \in Nat : At(message'[q], k) /\ At(message'[r], k) => q = r
    BY <1>2, <1>5, <2>1
  <2>3. \A q \in Publishers, n \in Ups, k \in Nat : ~ (At(message'[q], k) /\ At(dequeued[n], k))
    BY <1>2, <1>5, <2>1
  <2>4. \A k \in Nat : ~ (InHand(k)' /\ Backlogged(k)')
    BY <1>3, <1>4, <2>1
  <2> QED
    BY <1>1, <2>2, <2>3, <2>4 DEF PlaceInv, OnePlace, At
<1>7. Numbered'
  BY <1>1, <1>3 DEF PlaceInv, Numbered
<1>8. WaitsUnanswered' /\ ArrivesOnce'
  <2>1. \A i \in 1..Len(arrived) : arrived[i].nr \in Nat /\ arrived[i].nr # messages + 1
    BY <1>4, MessageFacts, ElementOfSeq DEF Arrived, SlotInv, TypeOK
  <2> QED
    BY <1>1, <1>3, <2>1 DEF PlaceInv, WaitsUnanswered, ArrivesOnce
<1> QED
  BY <1>6, <1>7, <1>8 DEF PlaceInv

\* What the broker has, after a message has arrived or not.
LEMMA SentFacts ==
  ASSUME SlotInv, NEW m \in Messages, Published(m) \/ PublishFails(m)
  PROVE  \/ arrived' = arrived /\ unanswered' = unanswered
         \/ /\ arrived' = Append(arrived, m) /\ arrived \in Seq(Messages)
            /\ Len(arrived') = Len(arrived) + 1 /\ arrived'[Len(arrived) + 1] = m
            /\ \A i \in 1..Len(arrived) : arrived'[i] = arrived[i]
            /\ unanswered' = unanswered \/ unanswered' = unanswered \cup {m}
<1>1. arrived \in Seq(Messages)
  BY DEF SlotInv, TypeOK
<1>2. \/ arrived' = arrived /\ unanswered' = unanswered
      \/ /\ arrived' = Append(arrived, m)
         /\ unanswered' = unanswered \/ unanswered' = unanswered \cup {m}
  BY DEF Published, PublishFails, Lose, broker
<1> QED
  BY <1>1, <1>2, AppendFacts

\* A message in hand arrives, or its sender fails without the broker's knowing of it.
\* Where it arrives with an answer it is in hand no longer.
LEMMA SentPlace ==
  ASSUME SlotInv, PlaceInv, NEW m \in Messages, Published(m) \/ PublishFails(m), InHand(m.nr),
         UNCHANGED <<backlog, messages>>,
         \A k \in Nat : InHand(k)' => InHand(k),
         OnePlace',
         arrived' = arrived \/ m \in unanswered' \/ ~ InHand(m.nr)'
  PROVE  PlaceInv'
<1>1. m.nr \in Nat /\ \A i \in 1..Len(arrived) : arrived[i] \in Messages /\ arrived[i].nr \in Nat
  BY MessageFacts, ElementOfSeq DEF SlotInv, TypeOK
<1>2. /\ Len(arrived) \in Nat
      /\ \A k \in Nat : /\ Backlogged(k)' <=> Backlogged(k)
                         /\ ~ (InHand(k) /\ Backlogged(k))
  BY DEF SlotInv, TypeOK, Backlogged, PlaceInv, OnePlace
<1>3. \A i \in 1..Len(arrived) : arrived[i].nr = m.nr => arrived[i] \in unanswered
  BY DEF PlaceInv, WaitsUnanswered
<1>4. CASE arrived' = arrived /\ unanswered' = unanswered
  BY <1>1, <1>2, <1>4 DEF PlaceInv, Numbered, WaitsUnanswered, ArrivesOnce, Arrived
<1>5. CASE /\ arrived' = Append(arrived, m) /\ arrived \in Seq(Messages)
           /\ Len(arrived') = Len(arrived) + 1 /\ arrived'[Len(arrived) + 1] = m
           /\ \A i \in 1..Len(arrived) : arrived'[i] = arrived[i]
           /\ unanswered' = unanswered \/ unanswered' = unanswered \cup {m}
  <2>1. \A k \in Nat : Arrived(k)' <=> Arrived(k) \/ k = m.nr
    BY <1>1, <1>2, <1>5 DEF Arrived
  <2>2. Numbered'
    BY <1>2, <2>1 DEF PlaceInv, Numbered
  <2>3. unanswered \subseteq unanswered' /\ (~ InHand(m.nr)' \/ m \in unanswered')
    <3>1. arrived' # arrived
      BY <1>2, <1>5
    <3> QED
      BY <1>5, <3>1
  <2>4. WaitsUnanswered'
    BY <1>1, <1>2, <1>5, <2>3 DEF PlaceInv, WaitsUnanswered
  <2>5. ArrivesOnce'
    BY <1>1, <1>2, <1>3, <1>5, <2>3 DEF PlaceInv, ArrivesOnce
  <2> QED
    BY <2>2, <2>4, <2>5 DEF PlaceInv
<1> QED
  BY <1>4, <1>5, SentFacts

LEMMA ReturnsPlace ==
  ASSUME SlotInv, PlaceInv, NEW p \in Publishers, PublishReturns(p)
  PROVE  PlaceInv'
<1>1. PICK m \in Messages : message[p] = <<m>>
  BY SlotFacts DEF PublishReturns, SlotInv, TypeOK, Slots
<1>2. m.nr \in Nat /\ message[p][1] = m /\ message \in [Publishers -> Slots]
  BY <1>1, MessageFacts DEF SlotInv, TypeOK, Slots
<1>3. /\ UNCHANGED <<backlog, messages, dequeued>>
      /\ \/ Published(m) /\ message' = [message EXCEPT ![p] = <<>>]
         \/ PublishFails(m) /\ message' = message
  BY <1>2 DEF PublishReturns, drains
<1>4. \A q \in Publishers, k \in Nat : At(message'[q], k) => At(message[q], k)
  BY <1>2, <1>3 DEF At
<1>5. /\ At(message[p], m.nr) /\ InHand(m.nr)
      /\ \A k \in Nat : InHand(k)' => InHand(k)
  BY <1>1, <1>2, <1>3, <1>4 DEF InHand, At
<1>6. OnePlace'
  BY <1>3, <1>4, <1>5 DEF PlaceInv, OnePlace, Backlogged
<1>7. CASE Published(m) /\ message' = [message EXCEPT ![p] = <<>>]
  <2>1. \A q \in Publishers : ~ At(message'[q], m.nr)
    <3>1. \A q \in Publishers : q # p => ~ At(message[q], m.nr)
      BY <1>2, <1>5 DEF PlaceInv, OnePlace
    <3>2. message'[p] = <<>>
      BY <1>2, <1>7
    <3> QED
      BY <1>2, <1>4, <3>1, <3>2 DEF At
  <2>2. \A n \in Ups : ~ At(dequeued'[n], m.nr)
    BY <1>2, <1>3, <1>5 DEF PlaceInv, OnePlace
  <2>3. ~ InHand(m.nr)'
    BY <2>1, <2>2 DEF InHand
  <2> QED
    BY <1>3, <1>5, <1>6, <1>7, <2>3, SentPlace
<1>8. CASE PublishFails(m)
  <2>1. arrived' = arrived \/ m \in unanswered'
    BY <1>8 DEF PublishFails, broker
  <2> QED
    BY <1>3, <1>5, <1>6, <1>8, <2>1, SentPlace
<1> QED
  BY <1>3, <1>7, <1>8

LEMMA SendsPlace ==
  ASSUME SlotInv, PlaceInv, NEW n \in Ups, DrainSends(n)
  PROVE  PlaceInv'
<1>1. PICK m \in Messages : dequeued[n] = <<m>>
  BY SlotFacts DEF DrainSends, SlotInv, TypeOK, Slots
<1>2. m.nr \in Nat /\ dequeued[n][1] = m /\ dequeued \in [Ups -> Slots]
  BY <1>1, MessageFacts DEF SlotInv, TypeOK, Slots
<1>3. /\ UNCHANGED <<backlog, messages, message>>
      /\ Published(m) \/ PublishFails(m)
      /\ dequeued' = [dequeued EXCEPT ![n] = <<>>]
  BY <1>2 DEF DrainSends, publishers
<1>4. \A l \in Ups, k \in Nat : At(dequeued'[l], k) => At(dequeued[l], k)
  BY <1>2, <1>3 DEF At
<1>5. /\ At(dequeued[n], m.nr) /\ InHand(m.nr)
      /\ \A k \in Nat : InHand(k)' => InHand(k)
  BY <1>1, <1>2, <1>3, <1>4 DEF InHand, At
<1>6. OnePlace'
  BY <1>3, <1>4, <1>5 DEF PlaceInv, OnePlace, Backlogged
<1>7. ~ InHand(m.nr)'
  <2>1. \A l \in Ups : ~ At(dequeued'[l], m.nr)
    <3>1. \A l \in Ups : l # n => ~ At(dequeued[l], m.nr)
      BY <1>2, <1>5 DEF PlaceInv, OnePlace
    <3>2. dequeued'[n] = <<>>
      BY <1>2, <1>3
    <3> QED
      BY <1>2, <1>4, <3>1, <3>2 DEF At
  <2>2. \A p \in Publishers : ~ At(message'[p], m.nr)
    BY <1>2, <1>3, <1>5 DEF PlaceInv, OnePlace
  <2> QED
    BY <2>1, <2>2 DEF InHand
<1> QED
  BY <1>3, <1>5, <1>6, <1>7, SentPlace

LEMMA KeepsPlace ==
  ASSUME SlotInv, PlaceInv, NEW p \in Publishers, PublishKeeps(p)
  PROVE  PlaceInv'
<1>1. PICK m \in Messages : message[p] = <<m>>
  BY SlotFacts DEF PublishKeeps, SlotInv, TypeOK, Slots
<1>2. /\ m.nr \in Nat /\ message[p][1] = m /\ message \in [Publishers -> Slots]
      /\ backlog \in Seq(Messages) /\ Bounded(backlog) /\ Len(backlog) \in Nat
  BY <1>1, MessageFacts DEF SlotInv, TypeOK, Slots, Bounded
<1>3. /\ backlog' = Enqueue(backlog, m) /\ message' = [message EXCEPT ![p] = <<>>]
      /\ UNCHANGED <<arrived, unanswered, messages, dequeued>>
  BY <1>2 DEF PublishKeeps, broker, drains
<1>4. \/ backlog' = backlog
      \/ /\ Len(backlog') = Len(backlog) + 1 /\ backlog'[Len(backlog) + 1] = m
         /\ \A i \in 1..Len(backlog) : backlog'[i] = backlog[i]
      \/ /\ Len(backlog') = Len(backlog) /\ Len(backlog) >= 1 /\ backlog'[Len(backlog)] = m
         /\ \A i \in 1..(Len(backlog) - 1) : backlog'[i] = backlog[i + 1]
  BY <1>2, <1>3, EnqueueFacts
<1>5. At(message[p], m.nr) /\ InHand(m.nr) /\ ~ Backlogged(m.nr)
  BY <1>1, <1>2 DEF InHand, At, PlaceInv, OnePlace
<1>6. /\ \A q \in Publishers, k \in Nat : At(message'[q], k) => q # p /\ At(message[q], k)
      /\ \A n \in Ups, k \in Nat : At(dequeued'[n], k) => At(dequeued[n], k)
  BY <1>2, <1>3 DEF At
<1>7. \A k \in Nat : InHand(k)' => InHand(k) /\ k # m.nr
  <2>1. \A q \in Publishers : q # p => ~ At(message[q], m.nr)
    BY <1>2, <1>5 DEF PlaceInv, OnePlace
  <2>2. \A n \in Ups : ~ At(dequeued[n], m.nr)
    BY <1>2, <1>5 DEF PlaceInv, OnePlace
  <2> QED
    BY <1>6, <2>1, <2>2 DEF InHand
<1>8. \A k \in Nat : Backlogged(k)' => Backlogged(k) \/ k = m.nr
  BY <1>2, <1>4 DEF Backlogged
<1>9. \A i, j \in 1..Len(backlog') : backlog'[i].nr = backlog'[j].nr => i = j
  <2>1. \A i \in 1..Len(backlog) : backlog[i].nr # m.nr
    BY <1>5 DEF Backlogged
  <2>2. \A i, j \in 1..Len(backlog) : backlog[i].nr = backlog[j].nr => i = j
    BY DEF PlaceInv, OnePlace
  <2>3. CASE backlog' = backlog
    BY <2>2, <2>3
  <2>4. CASE /\ Len(backlog') = Len(backlog) + 1 /\ backlog'[Len(backlog) + 1] = m
             /\ \A i \in 1..Len(backlog) : backlog'[i] = backlog[i]
    BY <1>2, <2>1, <2>2, <2>4
  <2>5. CASE /\ Len(backlog') = Len(backlog) /\ Len(backlog) >= 1 /\ backlog'[Len(backlog)] = m
             /\ \A i \in 1..(Len(backlog) - 1) : backlog'[i] = backlog[i + 1]
    BY <1>2, <2>1, <2>2, <2>5
  <2> QED
    BY <1>4, <2>3, <2>4, <2>5
<1>10. OnePlace'
  BY <1>6, <1>7, <1>8, <1>9 DEF PlaceInv, OnePlace
<1>11. Numbered' /\ WaitsUnanswered' /\ ArrivesOnce'
  <2>1. \A i \in 1..Len(arrived) : arrived[i].nr \in Nat
    BY MessageFacts, ElementOfSeq DEF SlotInv, TypeOK
  <2>2. \A k \in Nat : Arrived(k)' <=> Arrived(k)
    BY <1>3 DEF Arrived
  <2>3. \A k \in Nat : InHand(k)' \/ Backlogged(k)' => InHand(k) \/ Backlogged(k)
    BY <1>5, <1>7, <1>8
  <2> QED
    BY <1>3, <2>1, <2>2, <2>3 DEF PlaceInv, Numbered, WaitsUnanswered, ArrivesOnce
<1> QED
  BY <1>10, <1>11 DEF PlaceInv

LEMMA TakesPlace ==
  ASSUME SlotInv, PlaceInv, NEW n \in Ups, DrainTakes(n)
  PROVE  PlaceInv'
<1>1. PICK m \in Messages : m = Head(backlog)
  BY HeadTailFacts DEF DrainTakes, SlotInv, TypeOK
<1>2. /\ m.nr \in Nat /\ dequeued \in [Ups -> Slots] /\ dequeued[n] = <<>> /\ <<m>> # <<>>
      /\ backlog \in Seq(Messages) /\ Len(backlog) \in Nat /\ <<m>>[1] = m
  BY MessageFacts DEF DrainTakes, SlotInv, TypeOK, Slots
<1>3. /\ Len(backlog) >= 1 /\ backlog[1] = m /\ Len(backlog') = Len(backlog) - 1
      /\ \A i \in 1..(Len(backlog) - 1) : backlog'[i] = backlog[i + 1]
  BY <1>1, <1>2, HeadTailFacts DEF DrainTakes
<1>4. /\ dequeued' = [dequeued EXCEPT ![n] = <<m>>]
      /\ UNCHANGED <<arrived, unanswered, messages, message>>
  BY <1>1 DEF DrainTakes, broker, publishers
<1>5. Backlogged(m.nr) /\ ~ InHand(m.nr)
  BY <1>2, <1>3 DEF Backlogged, PlaceInv, OnePlace
<1>6. \A l \in Ups, k \in Nat :
        At(dequeued'[l], k) <=> IF l = n THEN k = m.nr ELSE At(dequeued[l], k)
  BY <1>2, <1>4 DEF At
<1>7. \A q \in Publishers, k \in Nat : At(message'[q], k) <=> At(message[q], k)
  BY <1>4 DEF At
<1>8. \A k \in Nat : InHand(k)' => InHand(k) \/ k = m.nr
  BY <1>6, <1>7 DEF InHand
<1>9. \A i, j \in 1..Len(backlog) : backlog[i].nr = backlog[j].nr => i = j
  BY DEF PlaceInv, OnePlace
<1>10. \A k \in Nat : Backlogged(k)' => Backlogged(k) /\ k # m.nr
  BY <1>2, <1>3, <1>9 DEF Backlogged
<1>11. \A i, j \in 1..Len(backlog') : backlog'[i].nr = backlog'[j].nr => i = j
  BY <1>2, <1>3, <1>9
<1>12. OnePlace'
  <2>1. /\ \A q \in Publishers : ~ At(message[q], m.nr)
        /\ \A l \in Ups : ~ At(dequeued[l], m.nr)
    BY <1>5 DEF InHand
  <2>2. /\ \A q, r \in Publishers, k \in Nat : At(message[q], k) /\ At(message[r], k) => q = r
        /\ \A l, o \in Ups, k \in Nat : At(dequeued[l], k) /\ At(dequeued[o], k) => l = o
        /\ \A q \in Publishers, l \in Ups, k \in Nat : ~ (At(message[q], k) /\ At(dequeued[l], k))
        /\ \A k \in Nat : ~ (InHand(k) /\ Backlogged(k))
    BY DEF PlaceInv, OnePlace
  <2>3. \A q, r \in Publishers, k \in Nat : At(message'[q], k) /\ At(message'[r], k) => q = r
    BY <1>7, <2>2
  <2>4. \A l, o \in Ups, k \in Nat : At(dequeued'[l], k) /\ At(dequeued'[o], k) => l = o
    BY <1>6, <2>1, <2>2
  <2>5. \A q \in Publishers, l \in Ups, k \in Nat : ~ (At(message'[q], k) /\ At(dequeued'[l], k))
    BY <1>6, <1>7, <2>1, <2>2
  <2>6. \A k \in Nat : ~ (InHand(k)' /\ Backlogged(k)')
    BY <1>8, <1>10, <2>2
  <2> QED
    BY <1>11, <2>3, <2>4, <2>5, <2>6 DEF OnePlace
<1>13. Numbered' /\ WaitsUnanswered' /\ ArrivesOnce'
  <2>1. \A i \in 1..Len(arrived) : arrived[i].nr \in Nat
    BY MessageFacts, ElementOfSeq DEF SlotInv, TypeOK
  <2>2. \A k \in Nat : Arrived(k)' <=> Arrived(k)
    BY <1>4 DEF Arrived
  <2>3. \A k \in Nat : InHand(k)' \/ Backlogged(k)' => InHand(k) \/ Backlogged(k)
    BY <1>5, <1>8, <1>10
  <2> QED
    BY <1>4, <2>1, <2>2, <2>3 DEF PlaceInv, Numbered, WaitsUnanswered, ArrivesOnce
<1> QED
  BY <1>12, <1>13 DEF PlaceInv

LEMMA PlaceStep == SlotInv /\ PlaceInv /\ [Next]_vars => PlaceInv'
<1> SUFFICES ASSUME SlotInv, PlaceInv, [Next]_vars PROVE PlaceInv'
  OBVIOUS
<1>1. CASE UNCHANGED messageVars
  BY <1>1 DEF messageVars, PlaceInv, OnePlace, Numbered, WaitsUnanswered, ArrivesOnce, At,
       Backlogged, InHand, Arrived
<1>2. vars' = vars => UNCHANGED messageVars
  BY DEF vars, broker, publishers, drains, messageVars
<1> QED
  BY <1>1, <1>2, OthersKeepMessages, CalledPlace, ReturnsPlace, KeepsPlace, TakesPlace, SendsPlace

\* No message arrives twice, unless it was sent again for want of an answer: any number
\* of routines publish, fail and drain one backlog, and each message is in the hands of
\* one of them or in the backlog once.
THEOREM NeverTwice == Spec => []ArrivesOnce
<1>1. PlaceInv => ArrivesOnce
  BY DEF PlaceInv
<1> QED
  BY <1>1, SlotInit, SlotStep, PlaceInit, PlaceStep, PTL DEF Spec

-----------------------------------------------------------------------------
(* What is kept.                                                           *)

\* The number of a message of the backlog that got an error.
Lost(k) == \E m \in dropped : m.nr = k

KeptInv ==
  /\ \A k \in Nat : Lost(k) => k \in 1..messages
  /\ messages <= MaxLength =>
       \A k \in 1..messages : InHand(k) \/ Backlogged(k) \/ Arrived(k) \/ Lost(k)

LEMMA KeptInit == Init => KeptInv
BY DEF Init, KeptInv, Lost

\* The numbers of the backlog differ: there are fewer than messages when one is in hand.
LEMMA BacklogHasRoom ==
  ASSUME SlotInv, PlaceInv, NEW k \in Nat, InHand(k)
  PROVE  Len(backlog) < messages
<1> DEFINE f == [i \in 1..Len(backlog) |-> backlog[i].nr]
<1>1. messages \in Nat /\ k \in 1..messages /\ ~ Backlogged(k) /\ Len(backlog) \in Nat
  BY DEF SlotInv, TypeOK, PlaceInv, Numbered, OnePlace
<1>2. \A i \in 1..Len(backlog) : backlog[i].nr \in (1..messages) \ {k}
  BY <1>1, MessageFacts, ElementOfSeq DEF SlotInv, TypeOK, PlaceInv, Numbered, Backlogged
<1>3. f \in Injection(1..Len(backlog), (1..messages) \ {k})
  BY <1>2 DEF Injection, IsInjective, PlaceInv, OnePlace
<1> HIDE DEF f
<1>4. IsFiniteSet(1..messages) /\ Cardinality(1..messages) = messages
  <2>1. 1 \in Int /\ messages \in Int
    BY <1>1
  <2>2. /\ IsFiniteSet(1..messages)
        /\ Cardinality(1..messages) = IF 1 > messages THEN 0 ELSE messages - 1 + 1
    BY <2>1, FS_Interval, Zenon
  <2> QED
    BY <1>1, <2>2
<1>5. /\ IsFiniteSet((1..messages) \ {k})
      /\ Cardinality((1..messages) \ {k}) = messages - 1
  <2>1. /\ IsFiniteSet((1..messages) \ {k})
        /\ Cardinality((1..messages) \ {k}) =
             IF k \in 1..messages THEN Cardinality(1..messages) - 1 ELSE Cardinality(1..messages)
    BY <1>4, FS_RemoveElement, Zenon
  <2> QED
    BY <1>1, <1>4, <2>1
<1>6. Cardinality(1..Len(backlog)) <= messages - 1
  BY <1>3, <1>5, FS_Injection
<1>7. Cardinality(1..Len(backlog)) = Len(backlog)
  <2>1. 1 \in Int /\ Len(backlog) \in Int
    BY <1>1
  <2>2. Cardinality(1..Len(backlog)) = IF 1 > Len(backlog) THEN 0 ELSE Len(backlog) - 1 + 1
    BY <2>1, FS_Interval, Zenon
  <2> QED
    BY <1>1, <2>2
<1> QED
  BY <1>1, <1>6, <1>7

LEMMA SentArrives ==
  ASSUME SlotInv, NEW m \in Messages, Published(m) \/ PublishFails(m)
  PROVE  (\A k \in Nat : Arrived(k) => Arrived(k)') /\ (Published(m) => Arrived(m.nr)')
<1>1. Len(arrived) \in Nat /\ arrived \in Seq(Messages)
  BY DEF SlotInv, TypeOK
<1>2. CASE arrived' = arrived /\ PublishFails(m) /\ ~ Published(m)
  BY <1>2 DEF Arrived
<1>3. CASE /\ Len(arrived') = Len(arrived) + 1 /\ arrived'[Len(arrived) + 1] = m
           /\ \A i \in 1..Len(arrived) : arrived'[i] = arrived[i]
  BY <1>1, <1>3 DEF Arrived
<1>4. Published(m) => arrived' # arrived
  <2>1. Published(m) => arrived' = Append(arrived, m)
    BY DEF Published
  <2>2. Len(Append(arrived, m)) = Len(arrived) + 1
    BY <1>1, AppendFacts
  <2> QED
    BY <1>1, <2>1, <2>2
<1> QED
  BY <1>2, <1>3, <1>4, SentFacts

LEMMA KeptStep == SlotInv /\ PlaceInv /\ KeptInv /\ [Next]_vars => KeptInv'
<1> SUFFICES ASSUME SlotInv, PlaceInv, KeptInv, [Next]_vars PROVE KeptInv'
  OBVIOUS
<1>10. ASSUME NEW n \in Ups, DrainSends(n)
       PROVE  \E m \in Messages : /\ dequeued[n] = <<m>> /\ m.nr \in 1..messages
                                  /\ messages' = messages
                                  /\ \/ Published(m) /\ dropped' = dropped
                                     \/ PublishFails(m) /\ dropped' = dropped \cup {m}
  <2>1. PICK m \in Messages : dequeued[n] = <<m>>
    BY <1>10, SlotFacts DEF DrainSends, SlotInv, TypeOK, Slots
  <2>2. m.nr \in Nat /\ dequeued[n] # <<>> /\ dequeued[n][1] = m
    BY <2>1, MessageFacts
  <2>3. InHand(m.nr)
    BY <2>1, <2>2 DEF InHand, At
  <2>4. m.nr \in 1..messages
    BY <2>2, <2>3 DEF PlaceInv, Numbered
  <2> QED
    BY <1>10, <2>1, <2>2, <2>4 DEF DrainSends, publishers
<1>11. \A k \in Nat : (Lost(k) => Lost(k)') /\ (Lost(k)' => k \in 1..messages')
  <2>1. \A k \in Nat : Lost(k) => k \in 1..messages
    BY DEF KeptInv
  <2>2. messages \in Nat
    BY DEF SlotInv, TypeOK
  <2>3. CASE dropped' = dropped /\ messages' \in {messages, messages + 1}
    BY <2>1, <2>2, <2>3 DEF Lost
  <2>4. ASSUME NEW n \in Ups, DrainSends(n)
        PROVE  \A k \in Nat : (Lost(k) => Lost(k)') /\ (Lost(k)' => k \in 1..messages')
    BY <1>10, <2>1, <2>4 DEF Lost
  <2>5. ASSUME NEW p \in Publishers, PublishCalled(p) \/ PublishReturns(p) \/ PublishKeeps(p)
        PROVE  dropped' = dropped /\ messages' \in {messages, messages + 1}
    BY <2>5 DEF PublishCalled, PublishReturns, PublishKeeps, drains
  <2>6. ASSUME NEW n \in Ups, DrainTakes(n)
        PROVE  dropped' = dropped /\ messages' = messages
    BY <2>6 DEF DrainTakes, publishers
  <2>7. UNCHANGED messageVars => dropped' = dropped /\ messages' = messages
    BY DEF messageVars
  <2>8. vars' = vars => UNCHANGED messageVars
    BY DEF vars, broker, publishers, drains, messageVars
  <2> QED
    BY <2>3, <2>4, <2>5, <2>6, <2>7, <2>8, OthersKeepMessages
<1> SUFFICES ASSUME messages' <= MaxLength
             PROVE  \A k \in 1..messages' : InHand(k)' \/ Backlogged(k)' \/ Arrived(k)' \/ Lost(k)'
  BY <1>11 DEF KeptInv
<1>0. /\ messages \in Nat /\ backlog \in Seq(Messages) /\ arrived \in Seq(Messages)
      /\ message \in [Publishers -> Slots] /\ dequeued \in [Ups -> Slots]
  BY DEF SlotInv, TypeOK, Slots
<1>1. messages <= MaxLength =>
        \A k \in 1..messages : InHand(k) \/ Backlogged(k) \/ Arrived(k) \/ Lost(k)
  BY <1>0 DEF KeptInv
<1>2. CASE UNCHANGED messageVars
  BY <1>1, <1>2 DEF messageVars, At, Backlogged, InHand, Arrived, Lost
<1>3. ASSUME NEW p \in Publishers, PublishCalled(p)
      PROVE  \A k \in 1..messages' : InHand(k)' \/ Backlogged(k)' \/ Arrived(k)' \/ Lost(k)'
  <2>1. /\ messages' = messages + 1 /\ message[p] = <<>>
        /\ message' = [message EXCEPT ![p] = <<[by |-> p, nr |-> messages + 1]>>]
        /\ UNCHANGED <<arrived, backlog, dequeued>>
    BY <1>3 DEF PublishCalled, SlotInv, broker, drains
  <2>2. /\ At(message'[p], messages + 1)
        /\ \A q \in Publishers, k \in Nat : At(message[q], k) => At(message'[q], k)
    BY <1>0, <2>1 DEF At
  <2>3. \A k \in Nat : InHand(k) \/ k = messages + 1 => InHand(k)'
    BY <2>1, <2>2 DEF InHand
  <2>4. \A k \in Nat : (Backlogged(k) => Backlogged(k)') /\ (Arrived(k) => Arrived(k)')
    BY <2>1 DEF Backlogged, Arrived
  <2> QED
    BY <1>0, <1>1, <1>11, <2>1, <2>3, <2>4
<1>4. ASSUME NEW p \in Publishers, PublishReturns(p)
      PROVE  \A k \in 1..messages' : InHand(k)' \/ Backlogged(k)' \/ Arrived(k)' \/ Lost(k)'
  <2>1. PICK m \in Messages : message[p] = <<m>>
    BY <1>4, SlotFacts DEF PublishReturns, SlotInv, TypeOK, Slots
  <2>2. m.nr \in Nat /\ message[p][1] = m
    BY <2>1, MessageFacts
  <2>3. /\ UNCHANGED <<backlog, messages, dequeued>>
        /\ \/ Published(m) /\ message' = [message EXCEPT ![p] = <<>>]
           \/ PublishFails(m) /\ message' = message
    BY <1>4, <2>2 DEF PublishReturns, drains
  <2>4. /\ \A k \in Nat : Arrived(k) => Arrived(k)'
        /\ Published(m) => Arrived(m.nr)'
    BY <2>3, SentArrives DEF Published
  <2>5. \A k \in Nat : InHand(k) => InHand(k)' \/ Arrived(k)'
    BY <1>0, <2>2, <2>3, <2>4 DEF InHand, At
  <2> QED
    BY <1>0, <1>1, <1>11, <2>3, <2>4, <2>5 DEF Backlogged
<1>5. ASSUME NEW p \in Publishers, PublishKeeps(p)
      PROVE  \A k \in 1..messages' : InHand(k)' \/ Backlogged(k)' \/ Arrived(k)' \/ Lost(k)'
  <2>1. PICK m \in Messages : message[p] = <<m>>
    BY <1>5, SlotFacts DEF PublishKeeps, SlotInv, TypeOK, Slots
  <2>2. m.nr \in Nat /\ message[p][1] = m /\ <<m>> # <<>>
    BY <2>1, MessageFacts
  <2>3. /\ backlog' = Enqueue(backlog, m) /\ message' = [message EXCEPT ![p] = <<>>]
        /\ UNCHANGED <<arrived, messages, dequeued>>
    BY <1>5, <2>2 DEF PublishKeeps, broker, drains
  <2>4. InHand(m.nr)
    BY <2>1, <2>2 DEF InHand, At
  <2>5. Len(backlog) < MaxLength /\ Bounded(backlog)
    BY <1>0, <2>2, <2>3, <2>4, BacklogHasRoom DEF SlotInv, TypeOK, Bounded
  <2>6. backlog' = Append(backlog, m)
    BY <1>0, <2>3, <2>5, EnqueueFacts
  <2>7. /\ Len(backlog') = Len(backlog) + 1 /\ backlog'[Len(backlog) + 1] = m
        /\ \A i \in 1..Len(backlog) : backlog'[i] = backlog[i]
    BY <1>0, <2>6, AppendFacts
  <2>8. Backlogged(m.nr)' /\ \A k \in Nat : Backlogged(k) => Backlogged(k)'
    BY <1>0, <2>7 DEF Backlogged
  <2>9. \A k \in Nat : InHand(k) => InHand(k)' \/ k = m.nr
    BY <1>0, <2>2, <2>3 DEF InHand, At
  <2> QED
    BY <1>0, <1>1, <1>11, <2>3, <2>8, <2>9 DEF Arrived
<1>6. ASSUME NEW n \in Ups, DrainTakes(n)
      PROVE  \A k \in 1..messages' : InHand(k)' \/ Backlogged(k)' \/ Arrived(k)' \/ Lost(k)'
  <2>1. PICK m \in Messages : m = Head(backlog)
    BY <1>6, HeadTailFacts DEF DrainTakes, SlotInv, TypeOK
  <2>2. m.nr \in Nat /\ dequeued[n] = <<>> /\ <<m>> # <<>> /\ <<m>>[1] = m /\ Len(backlog) \in Nat
    BY <1>0, <1>6, MessageFacts DEF DrainTakes, SlotInv
  <2>3. /\ Len(backlog) >= 1 /\ backlog[1] = m /\ Len(backlog') = Len(backlog) - 1
        /\ \A i \in 1..(Len(backlog) - 1) : backlog'[i] = backlog[i + 1]
    BY <1>0, <1>6, <2>1, HeadTailFacts DEF DrainTakes
  <2>4. /\ dequeued' = [dequeued EXCEPT ![n] = <<m>>]
        /\ UNCHANGED <<arrived, messages, message>>
    BY <1>6, <2>1 DEF DrainTakes, broker, publishers
  <2>5. \A k \in Nat : Backlogged(k) => Backlogged(k)' \/ k = m.nr
    <3>1. \A i \in 1..Len(backlog) :
            i = 1 \/ (i - 1 \in 1..Len(backlog') /\ backlog'[i - 1] = backlog[i])
      BY <2>2, <2>3
    <3> QED
      BY <2>2, <2>3, <3>1 DEF Backlogged
  <2>6. \A k \in Nat : InHand(k) \/ k = m.nr => InHand(k)'
    BY <1>0, <2>2, <2>4 DEF InHand, At
  <2> QED
    BY <1>0, <1>1, <1>11, <2>4, <2>5, <2>6 DEF Arrived
<1>7. ASSUME NEW n \in Ups, DrainSends(n)
      PROVE  \A k \in 1..messages' : InHand(k)' \/ Backlogged(k)' \/ Arrived(k)' \/ Lost(k)'
  <2>1. PICK m \in Messages : dequeued[n] = <<m>>
    BY <1>7, SlotFacts DEF DrainSends, SlotInv, TypeOK, Slots
  <2>2. m.nr \in Nat /\ dequeued[n][1] = m
    BY <2>1, MessageFacts
  <2>3. /\ UNCHANGED <<backlog, messages, message>>
        /\ Published(m) \/ PublishFails(m)
        /\ dequeued' = [dequeued EXCEPT ![n] = <<>>]
    BY <1>7, <2>2 DEF DrainSends, publishers
  <2>4. /\ \A k \in Nat : Arrived(k) => Arrived(k)'
        /\ Arrived(m.nr)' \/ Lost(m.nr)'
    BY <1>7, <2>1, <2>2, <2>3, <1>10, SentArrives DEF DrainSends, Lost
  <2>5. \A k \in Nat : InHand(k) => InHand(k)' \/ k = m.nr
    BY <1>0, <2>2, <2>3 DEF InHand, At
  <2>6. \A k \in Nat : Backlogged(k) => Backlogged(k)'
    BY <2>3 DEF Backlogged
  <2>7. \A k \in 1..messages : InHand(k) \/ Backlogged(k) \/ Arrived(k) \/ Lost(k)
    BY <1>1, <2>3
  <2>8. ASSUME NEW k \in 1..messages
        PROVE  InHand(k)' \/ Backlogged(k)' \/ Arrived(k)' \/ Lost(k)'
    <3>1. k \in Nat
      BY <1>0
    <3> QED
      BY <3>1, <1>11, <2>4, <2>5, <2>6, <2>7
  <2> QED
    BY <2>3, <2>8
<1>8. vars' = vars => UNCHANGED messageVars
  BY DEF vars, broker, publishers, drains, messageVars
<1> QED
  BY <1>2, <1>3, <1>4, <1>5, <1>6, <1>7, <1>8, OthersKeepMessages

LEMMA KnownFacts ==
  ASSUME SlotInv
  PROVE  /\ Known \subseteq Nat
         /\ \A k \in Nat : k \in Known <=> InHand(k) \/ Backlogged(k) \/ Arrived(k)
<1> DEFINE A == ToSet(arrived)
           B == ToSet(backlog)
           M == UNION {ToSet(message[p]) : p \in Publishers}
           D == UNION {ToSet(dequeued[n]) : n \in Ups}
<1>1. /\ \A p \in Publishers : message[p] \in Slots
      /\ \A n \in Ups : dequeued[n] \in Slots
      /\ arrived \in Seq(Messages) /\ backlog \in Seq(Messages)
  BY DEF SlotInv, TypeOK, Slots
<1>2. \A x \in Slots : ToSet(x) = IF x = <<>> THEN {} ELSE {x[1]}
  <2> TAKE x \in Slots
  <2>1. CASE x = <<>>
    BY <2>1 DEF ToSet
  <2>2. CASE x # <<>>
    <3>1. PICK m \in Messages : x = <<m>>
      BY <2>2 DEF Slots
    <3> QED
      BY <3>1 DEF ToSet
  <2> QED
    BY <2>1, <2>2
<1>3. \A m : m \in A <=> \E i \in 1..Len(arrived) : m = arrived[i]
  BY <1>1 DEF ToSet
<1>4. \A m : m \in B <=> \E i \in 1..Len(backlog) : m = backlog[i]
  BY <1>1 DEF ToSet
<1>5. \A m : m \in M <=> \E p \in Publishers : message[p] # <<>> /\ m = message[p][1]
  BY <1>1, <1>2
<1>6. \A m : m \in D <=> \E n \in Ups : dequeued[n] # <<>> /\ m = dequeued[n][1]
  BY <1>1, <1>2
<1>7. Known = {m.nr : m \in A \cup B \cup M \cup D}
  BY DEF Known
<1> HIDE DEF A, B, M, D
<1>8. A \cup B \cup M \cup D \subseteq Messages
  <2>1. A \subseteq Messages /\ B \subseteq Messages
    BY <1>1, <1>3, <1>4, ElementOfSeq
  <2>2. M \subseteq Messages /\ D \subseteq Messages
    BY <1>1, <1>5, <1>6, SlotFacts
  <2> QED
    BY <2>1, <2>2
<1>9. Known \subseteq Nat
  BY <1>7, <1>8, MessageFacts
<1>10. \A k \in Nat : k \in Known <=> \E m \in A \cup B \cup M \cup D : m.nr = k
  BY <1>7
<1> QED
  BY <1>3, <1>4, <1>5, <1>6, <1>9, <1>10 DEF InHand, At, Backlogged, Arrived

\* With no more messages than the backlog has room for, every message has arrived, is in
\* the backlog, or is in the hands of a routine that will put it there, or it was of the
\* backlog and got an error: for any publishers and connections, wherever errors come.
THEOREM LosesNothing == Spec => []KeptUnlessTruncated
<1>1. SlotInv /\ PlaceInv /\ KeptInv => KeptUnlessTruncated
  <2> SUFFICES ASSUME SlotInv, PlaceInv, KeptInv, messages <= MaxLength
               PROVE  1..messages = Known \cup {m.nr : m \in dropped}
    BY DEF KeptUnlessTruncated
  <2> DEFINE D == {m.nr : m \in dropped}
  <2>1. messages \in Nat /\ Known \subseteq Nat /\ dropped \subseteq Messages
    BY KnownFacts DEF SlotInv, TypeOK
  <2>2. D \subseteq Nat /\ \A k \in Nat : k \in D <=> Lost(k)
    BY <2>1, MessageFacts DEF Lost
  <2>3. 1..messages \subseteq Nat
    BY <2>1
  <2> HIDE DEF Known, D
  <2>4. \A k \in Nat : k \in Known \/ k \in D <=> k \in 1..messages
    BY <2>1, <2>2, <2>3, KnownFacts DEF PlaceInv, Numbered, KeptInv
  <2>5. 1..messages = Known \cup D
    BY <2>1, <2>2, <2>3, <2>4, Zenon
  <2> QED
    BY <2>5 DEF D
<1> QED
  BY <1>1, SlotInit, SlotStep, PlaceInit, PlaceStep, KeptInit, KeptStep, PTL DEF Spec

-----------------------------------------------------------------------------
(* The availability of an MQTT device.                                     *)

USE NoneAssumption, BoundAssumption

\* What may be on the way to the device.
AvailabilityMessages == [kind : {"availability"}, topic : Topics, val : BOOLEAN]

InboxMessages ==
  AvailabilityMessages
    \cup [kind : {"realtime"}, name : Names, val : Vals]
    \cup [kind : {"telemetry"}, vals : [Names -> Vals]]
    \cup [kind : {"structure"}, names : SUBSET Names]

\* A message about the availability of topic t.
About(m, t) == m.kind = "availability" /\ m.topic = t

\* The last message of a sequence about topic t says w; or there is none.
LastAbout(q, t, w) ==
  \E i \in 1..Len(q) : /\ About(q[i], t) /\ q[i].val = w
                       /\ \A k \in (i + 1)..Len(q) : ~About(q[k], t)
NoneAbout(q, t) == \A i \in 1..Len(q) : ~About(q[i], t)

\* The types of the variables that have to do with availability.
MirrorTypes ==
  /\ setting.names \subseteq Names /\ structure \subseteq Names
  /\ remote \in [Names -> Vals] /\ online \in [Topics -> BOOLEAN]
  /\ snapshot \in {<<>>} \cup {<<s>> : s \in [Names -> Vals]}
  /\ inbox \in Seq(InboxMessages) /\ avail \subseteq Topics

\* A subscribed topic is known as it is retained, or the last message about it
\* on the way says so.
TopicKnown(t) ==
  \/ LastAbout(inbox, t, online[t])
  \/ NoneAbout(inbox, t) /\ (t \in avail) = online[t]

\* The inductive invariant: all topics are known, once subscribed.
AvailableInv ==
  /\ MirrorTypes
  /\ "availability" \in subscribed => \A t \in Topics : TopicKnown(t)
  /\ available # None => available = (avail = Topics)

\* What arrives and what is handled, and the last message about a topic.
LEMMA AboutAppended ==
  ASSUME NEW q \in Seq(InboxMessages), NEW m \in InboxMessages, NEW t, NEW w
  PROVE  /\ Append(q, m) \in Seq(InboxMessages)
         /\ About(m, t) /\ m.val = w => LastAbout(Append(q, m), t, w)
         /\ ~About(m, t) /\ LastAbout(q, t, w) => LastAbout(Append(q, m), t, w)
         /\ ~About(m, t) /\ NoneAbout(q, t) => NoneAbout(Append(q, m), t)
<1>0. Append(q, m) \in Seq(InboxMessages) /\ Len(q) \in Nat
  OBVIOUS
<1>. PICK r \in Seq(InboxMessages), n \in Nat : r = Append(q, m) /\ n = Len(q)
  BY <1>0, Zenon
<1>1. Len(r) = n + 1 /\ r[n + 1] = m /\ \A i \in 1..n : r[i] = q[i]
  OBVIOUS
<1>2. About(m, t) /\ m.val = w => LastAbout(r, t, w)
  BY <1>1 DEF LastAbout
<1>3. ~About(m, t) /\ LastAbout(q, t, w) => LastAbout(r, t, w)
  BY <1>1 DEF LastAbout
<1>4. ~About(m, t) /\ NoneAbout(q, t) => NoneAbout(r, t)
  BY <1>1 DEF NoneAbout
<1>. QED BY <1>2, <1>3, <1>4

LEMMA AboutTaken ==
  ASSUME NEW q \in Seq(InboxMessages), q # <<>>, NEW t, NEW w
  PROVE  /\ Tail(q) \in Seq(InboxMessages) /\ Head(q) \in InboxMessages
         /\ NoneAbout(q, t) => NoneAbout(Tail(q), t) /\ ~About(Head(q), t)
         /\ LastAbout(q, t, w) =>
              \/ LastAbout(Tail(q), t, w)
              \/ NoneAbout(Tail(q), t) /\ About(Head(q), t) /\ Head(q).val = w
<1>0. /\ Tail(q) \in Seq(InboxMessages) /\ Len(Tail(q)) \in Nat /\ Head(q) \in InboxMessages
  OBVIOUS
<1>. PICK r \in Seq(InboxMessages), n \in Nat, h \in InboxMessages :
       r = Tail(q) /\ n = Len(r) /\ h = Head(q)
  BY <1>0, Zenon
<1>1. Len(q) = n + 1 /\ q[1] = h /\ \A i \in 1..n : r[i] = q[i + 1]
  OBVIOUS
<1>2. NoneAbout(q, t) => NoneAbout(r, t) /\ ~About(h, t)
  BY <1>1 DEF NoneAbout
<1>3. ASSUME LastAbout(q, t, w)
      PROVE  LastAbout(r, t, w) \/ (NoneAbout(r, t) /\ About(h, t) /\ h.val = w)
  <2>1. PICK i \in 1..(n + 1) : /\ About(q[i], t) /\ q[i].val = w
                                /\ \A k \in (i + 1)..(n + 1) : ~About(q[k], t)
    BY <1>1, <1>3 DEF LastAbout
  <2>2. \A k \in i..n : ~About(r[k], t)
    BY <1>1, <2>1
  <2>3. CASE i = 1
    BY <1>1, <2>1, <2>2, <2>3 DEF NoneAbout
  <2>4. CASE i # 1
    <3>1. PICK p \in 1..n : p + 1 = i
      BY <2>4
    <3>2. About(r[p], t) /\ r[p].val = w /\ \A k \in (p + 1)..n : ~About(r[k], t)
      BY <1>1, <2>1, <2>2, <3>1
    <3>. QED BY <3>2 DEF LastAbout
  <2>. QED BY <2>3, <2>4
<1>. QED BY <1>2, <1>3

\* A finite set as a sequence: each element at one place.
LEMMA SetAsSeq ==
  ASSUME NEW S, IsFiniteSet(S)
  PROVE  /\ SetToSeq(S) \in Seq(S) /\ Len(SetToSeq(S)) = Cardinality(S)
         /\ \A x \in S : \E i \in 1..Cardinality(S) : SetToSeq(S)[i] = x
         /\ \A i, k \in 1..Cardinality(S) : SetToSeq(S)[i] = SetToSeq(S)[k] => i = k
<1>0. PICK n \in Nat : n = Cardinality(S)
  BY FS_CardinalityType
<1>1. ExistsBijection(1..n, S)
  BY <1>0, FS_CardinalityType
<1>2. PICK g : g \in Bijection(1..n, S)
  BY <1>1 DEF ExistsBijection
<1>3. g \in [1..n -> S] /\ IsInjective(g)
  BY <1>2 DEF Bijection, Injection
<1>4. PICK f : f = SetToSeq(S)
  OBVIOUS
<1>5. f \in [1..n -> S] /\ IsInjective(f)
  BY <1>0, <1>3, <1>4, Zenon DEF SetToSeq
<1>6. f \in Injection(1..n, S)
  BY <1>5 DEF Injection
<1>7. Cardinality(1..n) = n
  BY FS_Interval
<1>8. f \in Surjection(1..n, S)
  BY <1>0, <1>6, <1>7, FS_Injection, Zenon
<1>9. \A x \in S : \E i \in 1..n : f[i] = x
  BY <1>8 DEF Surjection
<1>10. \A i, k \in 1..n : f[i] = f[k] => i = k
  BY <1>5 DEF IsInjective
<1>11. f \in Seq(S) /\ Len(f) = n
  BY <1>5
<1>. QED BY <1>0, <1>4, <1>9, <1>10, <1>11

\* Messages that follow and are not about the topic disturb nothing.
LEMMA AboutFollowed ==
  ASSUME NEW p \in Seq(InboxMessages), NEW q \in Seq(InboxMessages), NEW t, NEW w,
         NoneAbout(q, t)
  PROVE  /\ p \o q \in Seq(InboxMessages)
         /\ LastAbout(p, t, w) => LastAbout(p \o q, t, w)
         /\ NoneAbout(p, t) => NoneAbout(p \o q, t)
<1>0. p \o q \in Seq(InboxMessages)
  OBVIOUS
<1>. PICK r \in Seq(InboxMessages) : r = p \o q
  BY <1>0, Zenon
<1>1. /\ Len(r) = Len(p) + Len(q) /\ Len(p) \in Nat /\ Len(q) \in Nat
      /\ \A k \in 1..Len(r) : r[k] = IF k <= Len(p) THEN p[k] ELSE q[k - Len(p)]
  OBVIOUS
<1>2. ASSUME NEW k \in (Len(p) + 1)..Len(r) PROVE ~About(r[k], t)
  <2>1. k - Len(p) \in 1..Len(q) /\ r[k] = q[k - Len(p)]
    BY <1>1
  <2>. QED BY <2>1 DEF NoneAbout
<1>3. ASSUME LastAbout(p, t, w) PROVE LastAbout(r, t, w)
  <2>1. PICK i \in 1..Len(p) : /\ About(p[i], t) /\ p[i].val = w
                               /\ \A k \in (i + 1)..Len(p) : ~About(p[k], t)
    BY <1>3 DEF LastAbout
  <2>2. i \in 1..Len(r) /\ r[i] = p[i]
    BY <1>1
  <2>3. ASSUME NEW k \in (i + 1)..Len(r) PROVE ~About(r[k], t)
    <3>1. CASE k <= Len(p)
      <4>1. k \in (i + 1)..Len(p) /\ r[k] = p[k]
        BY <1>1, <3>1
      <4>. QED BY <2>1, <4>1
    <3>2. CASE ~(k <= Len(p))
      BY <1>1, <1>2, <3>2
    <3>. QED BY <3>1, <3>2
  <2>4. About(r[i], t) /\ r[i].val = w
    BY <2>1, <2>2
  <2>. QED BY <2>2, <2>3, <2>4, Zenon DEF LastAbout
<1>4. ASSUME NoneAbout(p, t) PROVE NoneAbout(r, t)
  <2>. SUFFICES ASSUME NEW k \in 1..Len(r) PROVE ~About(r[k], t)
    BY DEF NoneAbout
  <2>1. CASE k <= Len(p)
    BY <1>1, <1>4, <2>1 DEF NoneAbout
  <2>2. CASE ~(k <= Len(p))
    BY <1>1, <1>2, <2>2
  <2>. QED BY <2>1, <2>2
<1>. QED BY <1>3, <1>4

\* The places of a sequence have elements of its set.
LEMMA PlacesInSet ==
  ASSUME NEW S, NEW q \in Seq(S)
  PROVE  Len(q) \in Nat /\ \A k \in 1..Len(q) : q[k] \in S
OBVIOUS

\* What the broker sends on a subscription: each topic once, as it is retained.
LEMMA RetainedFacts ==
  ASSUME MirrorTypes, NEW K
  PROVE  /\ Retained(K) \in Seq(InboxMessages)
         /\ "availability" \in K => \A t \in Topics : LastAbout(Retained(K), t, online[t])
         /\ "availability" \notin K => \A t \in Topics : NoneAbout(Retained(K), t)
<1>. DEFINE a(t) == [kind |-> "availability", topic |-> t, val |-> online[t]]
            b(n) == [kind |-> "realtime", name |-> n, val |-> remote[n]]
            S == {[kind |-> "structure", names |-> structure]}
<1>. PICK N : N = setting.names
  OBVIOUS
<1>. PICK A : A = IF "availability" \in K THEN {a(t) : t \in Topics} ELSE {}
  OBVIOUS
<1>. PICK B : B = IF "realtime" \in K /\ setting.retains THEN {b(n) : n \in N} ELSE {}
  OBVIOUS
<1>. PICK C : C = IF "structure" \in K /\ structure # {} THEN S ELSE {}
  OBVIOUS
<1>1. IsFiniteSet(A) /\ IsFiniteSet(B) /\ IsFiniteSet(C)
  <2>0. IsFiniteSet(N)
    BY FS_Subset DEF MirrorTypes
  <2>1. IsFiniteSet({a(t) : t \in Topics}) /\ IsFiniteSet({b(n) : n \in N})
    <3>1. PICK f : f = [t \in Topics |-> a(t)]
      OBVIOUS
    <3>2. PICK g : g = [n \in N |-> b(n)]
      OBVIOUS
    <3>3. IsFiniteSet({f[t] : t \in Topics}) /\ IsFiniteSet({g[n] : n \in N})
      <4>1. f \in Surjection(Topics, {f[t] : t \in Topics})
        BY <3>1 DEF Surjection
      <4>2. g \in Surjection(N, {g[n] : n \in N})
        BY <3>2 DEF Surjection
      <4>. QED BY <2>0, <4>1, <4>2, FS_Surjection, Zenon
    <3>4. {f[t] : t \in Topics} = {a(t) : t \in Topics} /\ {g[n] : n \in N} = {b(n) : n \in N}
      BY <3>1, <3>2
    <3>. QED BY <3>3, <3>4
  <2>2. IsFiniteSet({}) /\ IsFiniteSet(S)
    BY FS_EmptySet, FS_Singleton
  <2>. QED BY <2>1, <2>2
<1>2. A \subseteq AvailabilityMessages /\ \A m \in B : m \in InboxMessages /\ m.kind = "realtime"
  BY DEF MirrorTypes, AvailabilityMessages, InboxMessages
<1>3. \A m \in A : m \in InboxMessages
  BY <1>2 DEF InboxMessages
<1>4. \A m \in C : m \in InboxMessages /\ m.kind = "structure"
  BY DEF MirrorTypes, InboxMessages
<1>. PICK p, q, c : p = SetToSeq(A) /\ q = SetToSeq(B) /\ c = SetToSeq(C)
  OBVIOUS
<1>5. Retained(K) = p \o q \o c
  BY DEF Retained
<1>6. /\ p \in Seq(A) /\ q \in Seq(B) /\ c \in Seq(C)
      /\ \A x \in A : \E i \in 1..Len(p) : p[i] = x
      /\ \A i, k \in 1..Len(p) : p[i] = p[k] => i = k
      /\ Len(p) = Cardinality(A)
  BY <1>1, SetAsSeq
<1>7. p \in Seq(InboxMessages) /\ q \in Seq(InboxMessages) /\ c \in Seq(InboxMessages)
  BY <1>2, <1>3, <1>4, <1>6
<1>8. p \o q \in Seq(InboxMessages) /\ p \o q \o c \in Seq(InboxMessages)
  BY <1>7
<1>13. /\ Len(p) \in Nat /\ \A k \in 1..Len(p) : p[k] \in A
       /\ \A k \in 1..Len(q) : q[k] \in B
       /\ \A k \in 1..Len(c) : c[k] \in C
  BY <1>6, PlacesInSet
<1>9. ASSUME NEW t \in Topics PROVE NoneAbout(q, t) /\ NoneAbout(c, t)
  <2>1. \A m \in B : ~About(m, t)
    BY <1>2 DEF About
  <2>2. \A m \in C : ~About(m, t)
    BY <1>4 DEF About
  <2>. QED BY <1>13, <2>1, <2>2 DEF NoneAbout
<1>10. ASSUME "availability" \in K, NEW t \in Topics PROVE LastAbout(p, t, online[t])
  <2>1. a(t) \in A /\ \A m \in A : About(m, t) => m = a(t)
    BY <1>10 DEF About
  <2>2. PICK i \in 1..Len(p) : p[i] = a(t)
    BY <1>6, <2>1
  <2>6. \A k \in 1..Len(p) : p[k] = p[i] => k = i
    BY <1>6
  <2>3. \A k \in 1..Len(p) : k # i => ~About(p[k], t)
    BY <1>13, <2>1, <2>2, <2>6
  <2>4. About(p[i], t) /\ p[i].val = online[t]
    BY <2>2 DEF About
  <2>5. ASSUME NEW k \in (i + 1)..Len(p) PROVE ~About(p[k], t)
    <3>1. k \in 1..Len(p) /\ k # i
      BY <1>13
    <3>. QED BY <2>3, <3>1
  <2>. QED BY <2>4, <2>5 DEF LastAbout
<1>11. ASSUME "availability" \notin K, NEW t \in Topics PROVE NoneAbout(p, t)
  <2>1. A = {}
    BY <1>11
  <2>. QED BY <1>13, <2>1 DEF NoneAbout
<1>. HIDE DEF a, b, S
<1>12. ASSUME NEW t \in Topics
       PROVE  /\ "availability" \in K => LastAbout(p \o q \o c, t, online[t])
              /\ "availability" \notin K => NoneAbout(p \o q \o c, t)
  <2>. PICK w : w = online[t]
    OBVIOUS
  <2>. PICK r \in Seq(InboxMessages) : r = p \o q
    BY <1>8, Zenon
  <2>3. NoneAbout(q, t) /\ NoneAbout(c, t)
    BY <1>9
  <2>1. /\ LastAbout(p, t, w) => LastAbout(r, t, w)
        /\ NoneAbout(p, t) => NoneAbout(r, t)
    BY <1>7, <2>3, AboutFollowed
  <2>2. /\ LastAbout(r, t, w) => LastAbout(r \o c, t, w)
        /\ NoneAbout(r, t) => NoneAbout(r \o c, t)
    BY <1>7, <2>3, AboutFollowed
  <2>. QED BY <1>10, <1>11, <2>1, <2>2
<1>. QED BY <1>5, <1>8, <1>12

\* What the broker sends on a subscription comes after what is on the way.
LEMMA AboutConcatenated ==
  ASSUME NEW p \in Seq(InboxMessages), NEW q \in Seq(InboxMessages), NEW t, NEW w,
         LastAbout(q, t, w)
  PROVE  LastAbout(p \o q, t, w)
<1>1. PICK i \in 1..Len(q) : /\ About(q[i], t) /\ q[i].val = w
                             /\ \A k \in (i + 1)..Len(q) : ~About(q[k], t)
  BY DEF LastAbout
<1>0. p \o q \in Seq(InboxMessages)
  OBVIOUS
<1>. PICK r \in Seq(InboxMessages) : r = p \o q
  BY <1>0, Zenon
<1>2. /\ Len(r) = Len(p) + Len(q) /\ Len(p) \in Nat /\ Len(q) \in Nat
      /\ \A k \in 1..Len(q) : r[Len(p) + k] = q[k]
  OBVIOUS
<1>. PICK n \in Nat : n = Len(p) + i
  BY <1>2
<1>3. n \in 1..Len(r) /\ r[n] = q[i]
  BY <1>2
<1>4. ASSUME NEW k \in (n + 1)..Len(r) PROVE ~About(r[k], t)
  <2>1. k - Len(p) \in (i + 1)..Len(q) /\ k = Len(p) + (k - Len(p))
    BY <1>2
  <2>2. r[k] = q[k - Len(p)]
    BY <1>2, <2>1
  <2>. QED BY <1>1, <2>1, <2>2
<1>. QED BY <1>1, <1>3, <1>4 DEF LastAbout

LEMMA AvailableInit == MirrorInit => AvailableInv
BY SettingsAssumption DEF MirrorInit, AvailableInv, MirrorTypes

\* A message of another kind than availability disturbs nothing.
LEMMA OtherAppended ==
  ASSUME AvailableInv, NEW m \in InboxMessages, m.kind # "availability",
         inbox' = inbox \/ inbox' = Append(inbox, m),
         UNCHANGED <<setting, online, subscribed, avail, available>>, structure' \subseteq Names,
         remote' \in [Names -> Vals], snapshot' \in {<<>>} \cup {<<s>> : s \in [Names -> Vals]}
  PROVE  AvailableInv'
<1>1. inbox \in Seq(InboxMessages)
  BY DEF AvailableInv, MirrorTypes
<1>2. inbox' \in Seq(InboxMessages)
  BY <1>1, AboutAppended
<1>3. MirrorTypes'
  BY <1>2 DEF AvailableInv, MirrorTypes
<1>4. ASSUME NEW t \in Topics, TopicKnown(t) PROVE TopicKnown(t)'
  <2>1. CASE inbox' = inbox
    BY <1>4, <2>1 DEF TopicKnown
  <2>2. CASE inbox' = Append(inbox, m)
    <3>. PICK w : w = online[t]
      OBVIOUS
    <3>1. ~About(m, t)
      BY DEF About
    <3>2. LastAbout(inbox, t, w) => LastAbout(Append(inbox, m), t, w)
      BY <1>1, <3>1, AboutAppended
    <3>3. NoneAbout(inbox, t) => NoneAbout(Append(inbox, m), t)
      BY <1>1, <3>1, AboutAppended
    <3>. QED BY <1>4, <2>2, <3>2, <3>3 DEF TopicKnown
  <2>. QED BY <2>1, <2>2
<1>. QED BY <1>3, <1>4 DEF AvailableInv

LEMMA AvailableStep == AvailableInv /\ [MirrorNext]_mirrorVars => AvailableInv'
<1>. SUFFICES ASSUME AvailableInv, [MirrorNext]_mirrorVars PROVE AvailableInv'
  OBVIOUS
<1>0. MirrorTypes
  BY DEF AvailableInv
<1>1. ASSUME NEW n \in Names, NEW v \in Vals, RemoteValue(n, v) PROVE AvailableInv'
  <2>. PICK m : m = [kind |-> "realtime", name |-> n, val |-> v]
    OBVIOUS
  <2>1. m \in InboxMessages /\ m.kind # "availability"
    BY DEF InboxMessages
  <2>2. inbox' = inbox \/ inbox' = Append(inbox, m)
    BY <1>1 DEF RemoteValue, Send
  <2>3. UNCHANGED <<setting, structure, online, subscribed, avail, available, snapshot>>
    BY <1>1 DEF RemoteValue, valueVars
  <2>4. remote' \in [Names -> Vals]
    BY <1>0, <1>1 DEF RemoteValue, MirrorTypes
  <2>. QED BY <1>0, <2>1, <2>2, <2>3, <2>4, OtherAppended DEF MirrorTypes
<1>2. CASE RemoteTelemetry
  <2>. PICK m : m = [kind |-> "telemetry", vals |-> snapshot[1]]
    OBVIOUS
  <2>1. m \in InboxMessages /\ m.kind # "availability"
    BY <1>0, <1>2 DEF InboxMessages, MirrorTypes, RemoteTelemetry
  <2>2. inbox' = inbox \/ inbox' = Append(inbox, m)
    BY <1>2 DEF RemoteTelemetry, Send
  <2>3. UNCHANGED <<setting, structure, online, subscribed, avail, available, remote>> /\ snapshot' = <<>>
    BY <1>2 DEF RemoteTelemetry, valueVars
  <2>. QED BY <1>0, <2>1, <2>2, <2>3, OtherAppended DEF MirrorTypes
<1>3. ASSUME NEW batch \in SUBSET Names, RemoteStructure(batch) PROVE AvailableInv'
  <2>. PICK m : m = [kind |-> "structure", names |-> batch]
    OBVIOUS
  <2>1. m \in InboxMessages /\ m.kind # "availability"
    BY DEF InboxMessages
  <2>2. inbox' = inbox \/ inbox' = Append(inbox, m)
    BY <1>3 DEF RemoteStructure, Send
  <2>3. /\ UNCHANGED <<setting, online, subscribed, avail, available, remote, snapshot>>
        /\ structure' \subseteq Names
    BY <1>3 DEF RemoteStructure, valueVars
  <2>. QED BY <1>0, <2>1, <2>2, <2>3, OtherAppended DEF MirrorTypes
<1>4. ASSUME UNCHANGED <<setting, structure, online, subscribed, avail, available, remote, inbox>>,
             snapshot' \in {<<>>} \cup {<<s>> : s \in [Names -> Vals]}
      PROVE  AvailableInv'
  BY <1>4 DEF AvailableInv, MirrorTypes, TopicKnown
<1>5. CASE RemoteSnapshot
  BY <1>0, <1>4, <1>5 DEF RemoteSnapshot, linkVars, valueVars, MirrorTypes
<1>6. ASSUME NEW s \in Topics, RemoteAvailable(s) PROVE AvailableInv'
  <2>. PICK w \in BOOLEAN : w = ~online[s]
    OBVIOUS
  <2>. PICK m : m = [kind |-> "availability", topic |-> s, val |-> w]
    OBVIOUS
  <2>1. m \in InboxMessages
    BY DEF InboxMessages, AvailabilityMessages
  <2>2. /\ online' = [online EXCEPT ![s] = w]
        /\ inbox' = IF "availability" \in subscribed THEN Append(inbox, m) ELSE inbox
        /\ UNCHANGED <<setting, structure, remote, snapshot, subscribed, avail, available>>
    BY <1>6 DEF RemoteAvailable, Send, valueVars
  <2>3. MirrorTypes'
    BY <1>0, <2>1, <2>2, AboutAppended DEF MirrorTypes
  <2>4. ASSUME "availability" \in subscribed, NEW t \in Topics PROVE TopicKnown(t)'
    <3>1. inbox' = Append(inbox, m) /\ inbox \in Seq(InboxMessages) /\ TopicKnown(t)
      BY <1>0, <2>2, <2>4 DEF AvailableInv, MirrorTypes
    <3>2. CASE t = s
      <4>1. About(m, t) /\ m.val = w /\ online'[t] = w
        BY <1>0, <2>2, <3>2 DEF About, MirrorTypes
      <4>2. LastAbout(Append(inbox, m), t, w)
        BY <2>1, <3>1, <4>1, AboutAppended
      <4>. QED BY <3>1, <4>1, <4>2 DEF TopicKnown
    <3>3. CASE t # s
      <4>. PICK u : u = online[t]
        OBVIOUS
      <4>1. ~About(m, t) /\ online'[t] = u
        BY <2>2, <3>3 DEF About
      <4>2. /\ LastAbout(inbox, t, u) => LastAbout(Append(inbox, m), t, u)
            /\ NoneAbout(inbox, t) => NoneAbout(Append(inbox, m), t)
        BY <2>1, <3>1, <4>1, AboutAppended
      <4>. QED BY <2>2, <3>1, <4>1, <4>2 DEF TopicKnown
    <3>. QED BY <3>2, <3>3
  <2>. QED BY <2>2, <2>3, <2>4 DEF AvailableInv
<1>7. ASSUME NEW K, SubscribesTo(K),
             UNCHANGED <<setting, structure, remote, online, snapshot, avail, available>>
      PROVE  AvailableInv'
  <2>. PICK r : r = Retained(K)
    OBVIOUS
  <2>1. inbox \in Seq(InboxMessages) /\ r \in Seq(InboxMessages)
    BY <1>0, RetainedFacts DEF MirrorTypes
  <2>2. CASE subscribed' = subscribed \cup K /\ inbox' = inbox \o r
    <3>1. MirrorTypes'
      BY <1>0, <1>7, <2>1, <2>2 DEF MirrorTypes
    <3>2. ASSUME "availability" \in subscribed', NEW t \in Topics PROVE TopicKnown(t)'
      <4>. PICK w : w = online[t]
        OBVIOUS
      <4>1. CASE "availability" \in K
        <5>1. LastAbout(inbox \o r, t, w)
          BY <1>0, <2>1, <4>1, RetainedFacts, AboutConcatenated
        <5>. QED BY <1>7, <2>2, <5>1 DEF TopicKnown
      <4>2. CASE "availability" \notin K
        <5>1. TopicKnown(t)
          BY <2>2, <3>2, <4>2 DEF AvailableInv
        <5>2. NoneAbout(r, t)
          BY <1>0, <4>2, RetainedFacts
        <5>3. /\ LastAbout(inbox, t, w) => LastAbout(inbox \o r, t, w)
              /\ NoneAbout(inbox, t) => NoneAbout(inbox \o r, t)
          BY <2>1, <5>2, AboutFollowed
        <5>. QED BY <1>7, <2>2, <5>1, <5>3 DEF TopicKnown
      <4>. QED BY <4>1, <4>2
    <3>. QED BY <1>7, <3>1, <3>2 DEF AvailableInv
  <2>3. CASE UNCHANGED <<subscribed, inbox>>
    BY <1>7, <2>3 DEF AvailableInv, MirrorTypes, TopicKnown
  <2>. QED BY <1>7, <2>2, <2>3 DEF SubscribesTo
<1>15. ASSUME NEW j \in Routines, SetupSubscription(j) PROVE AvailableInv'
  <2>1. PICK K : SubscribesTo(K)
    BY <1>15 DEF SetupSubscription
  <2>2. UNCHANGED <<setting, structure, remote, online, snapshot, avail, available>>
    BY <1>15 DEF SetupSubscription, remoteVars, valueVars
  <2>. QED BY <1>7, <2>1, <2>2
<1>16. CASE Connected
  <2>1. PICK K : SubscribesTo(K)
    BY <1>16 DEF Connected
  <2>2. UNCHANGED <<setting, structure, remote, online, snapshot, avail, available>>
    BY <1>16 DEF Connected, remoteVars, valueVars
  <2>. QED BY <1>7, <2>1, <2>2
<1>17. CASE ConnectionLoses
  <2>1. /\ subscribed' = {} /\ \E k \in 0..Len(inbox) : inbox' = SubSeq(inbox, 1, k)
        /\ UNCHANGED <<setting, structure, remote, online, snapshot, avail, available>>
    BY <1>17 DEF ConnectionLoses, remoteVars
  <2>2. inbox \in Seq(InboxMessages)
    BY <1>0 DEF MirrorTypes
  <2>3. inbox' \in Seq(InboxMessages)
    BY <2>1, <2>2
  <2>4. MirrorTypes'
    BY <1>0, <2>1, <2>3 DEF MirrorTypes
  <2>. QED BY <2>1, <2>4 DEF AvailableInv
<1>8. CASE inbox # <<>> /\ inbox' = Tail(inbox) /\ Head(inbox).kind # "availability"
             /\ UNCHANGED <<setting, structure, remote, online, snapshot, subscribed, avail, available>>
  <2>1. inbox \in Seq(InboxMessages)
    BY <1>0 DEF MirrorTypes
  <2>2. MirrorTypes'
    BY <1>0, <1>8, <2>1, AboutTaken DEF MirrorTypes
  <2>3. ASSUME NEW t \in Topics, TopicKnown(t) PROVE TopicKnown(t)'
    <3>. PICK w, q : w = online[t] /\ q = Tail(inbox)
      OBVIOUS
    <3>1. ~About(Head(inbox), t)
      BY <1>8 DEF About
    <3>2. LastAbout(q, t, w) \/ (NoneAbout(q, t) /\ (t \in avail) = w)
      BY <1>8, <2>1, <2>3, <3>1, AboutTaken DEF TopicKnown
    <3>. QED BY <1>8, <3>2 DEF TopicKnown
  <2>. QED BY <1>8, <2>2, <2>3 DEF AvailableInv
<1>9. CASE HandleAvailable
  <2>. PICK m \in InboxMessages : m = Head(inbox)
    BY <1>0, <1>9, AboutTaken DEF HandleAvailable, Takes, MirrorTypes
  <2>1. inbox \in Seq(InboxMessages) /\ inbox # <<>> /\ inbox' = Tail(inbox)
    BY <1>0, <1>9 DEF HandleAvailable, Takes, MirrorTypes
  <2>2. m.kind = "availability" /\ m.topic \in Topics /\ m.val \in BOOLEAN
    BY <1>9 DEF HandleAvailable, Takes, InboxMessages, AvailabilityMessages
  <2>3. /\ avail' = IF m.val THEN avail \cup {m.topic} ELSE avail \ {m.topic}
        /\ available' = (Cardinality(avail') = Cardinality(Topics))
        /\ UNCHANGED <<setting, structure, remote, online, snapshot, subscribed>>
    BY <1>9 DEF HandleAvailable, Takes, remoteVars
  <2>4. avail' \subseteq Topics
    BY <1>0, <2>2, <2>3 DEF MirrorTypes
  <2>5. available' = (avail' = Topics)
    <3>. PICK s \in SUBSET Topics : s = avail'
      BY <2>4
    <3>1. IsFiniteSet(Topics)
      OBVIOUS
    <3>2. (Cardinality(s) = Cardinality(Topics)) <=> (s = Topics)
      BY <3>1, FS_Subset
    <3>3. (Cardinality(s) = Cardinality(Topics)) = (s = Topics)
      BY <3>2
    <3>. QED BY <2>3, <3>3
  <2>6. MirrorTypes'
    BY <1>0, <2>1, <2>3, <2>4, AboutTaken DEF MirrorTypes
  <2>7. ASSUME NEW t \in Topics, TopicKnown(t) PROVE TopicKnown(t)'
    <3>. PICK w \in BOOLEAN : w = online[t]
      BY <1>0 DEF MirrorTypes
    <3>. PICK q : q = Tail(inbox)
      OBVIOUS
    <3>1. /\ NoneAbout(inbox, t) => NoneAbout(q, t) /\ ~About(m, t)
          /\ LastAbout(inbox, t, w) =>
               LastAbout(q, t, w) \/ (NoneAbout(q, t) /\ About(m, t) /\ m.val = w)
      BY <2>1, AboutTaken
    <3>2. \/ LastAbout(q, t, w)
          \/ NoneAbout(q, t) /\ ~About(m, t) /\ (t \in avail) = w
          \/ NoneAbout(q, t) /\ About(m, t) /\ m.val = w
      BY <2>7, <3>1 DEF TopicKnown
    <3>. PICK b : b = (t \in avail')
      OBVIOUS
    <3>. PICK c : c = (t \in avail)
      OBVIOUS
    <3>3. ~About(m, t) => b = c
      BY <2>2, <2>3 DEF About
    <3>4. About(m, t) => b = m.val
      BY <2>2, <2>3 DEF About
    <3>5. LastAbout(q, t, w) \/ (NoneAbout(q, t) /\ b = w)
      <4>1. CASE LastAbout(q, t, w)
        BY <4>1
      <4>2. CASE NoneAbout(q, t) /\ ~About(m, t) /\ (t \in avail) = w
        <5>1. c = w
          BY <4>2
        <5>2. b = w
          BY <3>3, <4>2, <5>1, Zenon
        <5>. QED BY <4>2, <5>2, Zenon
      <4>3. CASE NoneAbout(q, t) /\ About(m, t) /\ m.val = w
        <5>1. b = w
          BY <3>4, <4>3, Zenon
        <5>. QED BY <4>3, <5>1, Zenon
      <4>. QED BY <3>2, <4>1, <4>2, <4>3, Zenon
    <3>. QED BY <2>1, <2>3, <3>5 DEF TopicKnown
  <2>. QED BY <2>3, <2>5, <2>6, <2>7 DEF AvailableInv
<1>10. ASSUME HandleStructure \/ HandleTelemetry \/ HandleRealtime PROVE AvailableInv'
  <2>1. /\ inbox # <<>> /\ inbox' = Tail(inbox) /\ Head(inbox).kind # "availability"
        /\ UNCHANGED <<setting, structure, remote, online, snapshot, subscribed, avail, available>>
    BY <1>10 DEF HandleStructure, HandleTelemetry, HandleRealtime, Takes, remoteVars, valueVars
  <2>. QED BY <1>8, <2>1
<1>. DEFINE Others == UNCHANGED <<setting, structure, online, subscribed, avail, available,
                                   remote, inbox, snapshot>>
<1>11. ASSUME NEW j \in Routines,
              \/ LoadSetup(j) \/ StoreSetup(j) \/ StartCommander(j) \/ UpdateRegisters(j)
              \/ Commander(j) \/ SendInitial(j)
       PROVE  Others
  BY <1>11 DEF LoadSetup, StoreSetup, StartCommander, UpdateRegisters, Commander,
               SubscribeCommands, ForwardCommand, ResetCommand, SendInitial,
               remoteVars, linkVars, valueVars
<1>22. ASSUME Storage \/ RemoteTurns PROVE Others
  BY <1>22 DEF Storage, StorageTakes, StorageSends, RemoteTurns, remoteVars, linkVars, valueVars
<1>12. ASSUME NEW n \in Names, NEW v \in CommandVals, Issue(n, v)
       PROVE  Others
  BY <1>12 DEF Issue, remoteVars, linkVars, valueVars
<1>13. ASSUME Others
       PROVE  AvailableInv'
  BY <1>0, <1>4, <1>13 DEF MirrorTypes
<1>14. CASE UNCHANGED mirrorVars
  BY <1>13, <1>14 DEF mirrorVars, remoteVars, linkVars, valueVars
<1>18. ASSUME NEW j \in Routines, Routine(j) \/ Commander(j) \/ SendInitial(j)
       PROVE  AvailableInv'
  BY <1>11, <1>13, <1>15, <1>18 DEF Routine
<1>19. CASE Storage
  BY <1>13, <1>19, <1>22
<1>20. CASE Remote
  BY <1>1, <1>2, <1>3, <1>5, <1>6, <1>13, <1>20, <1>22 DEF Remote
<1>21. CASE Handle
  BY <1>9, <1>10, <1>21 DEF Handle
<1>. QED
  BY <1>12, <1>13, <1>14, <1>16, <1>17, <1>18, <1>19, <1>20, <1>21 DEF MirrorNext

\* AvailabilityFollows, for any topics, values and set-ups: what the handlers know
\* when they have handled all messages is what is retained.
THEOREM FollowsTopics == MirrorSpec => []AvailabilityFollows
<1>1. AvailableInv => AvailabilityFollows
  <2>. SUFFICES ASSUME AvailableInv, "availability" \in subscribed, NEW t \in Topics
                PROVE  WillBeOnline(t) = online[t]
    BY DEF AvailableInv, AvailabilityFollows
  <2>. PICK w, q : w = online[t] /\ q = inbox
    OBVIOUS
  <2>. PICK of : of = {i \in 1..Len(q) : About(q[i], t)}
    OBVIOUS
  <2>1. WillBeOnline(t) = IF of = {} THEN t \in avail
                          ELSE q[CHOOSE i \in of : \A k \in of : k <= i].val
    BY DEF WillBeOnline, About
  <2>2. CASE NoneAbout(q, t) /\ (t \in avail) = w
    <3>1. of = {}
      BY <2>2 DEF NoneAbout
    <3>. QED BY <2>1, <2>2, <3>1
  <2>3. CASE LastAbout(q, t, w)
    <3>1. PICK i \in 1..Len(q) : /\ About(q[i], t) /\ q[i].val = w
                                 /\ \A k \in (i + 1)..Len(q) : ~About(q[k], t)
      BY <2>3 DEF LastAbout
    <3>2. Len(q) \in Nat
      BY DEF AvailableInv, MirrorTypes
    <3>3. i \in of /\ \A k \in of : k <= i
      BY <3>1, <3>2
    <3>4. of \subseteq Int
      BY <3>2
    <3>5. ASSUME NEW x \in of, \A k \in of : k <= x PROVE x = i
      BY <3>3, <3>4, <3>5
    <3>6. (CHOOSE x \in of : \A k \in of : k <= x) = i
      BY <3>3, <3>5
    <3>. QED BY <2>1, <3>1, <3>3, <3>6
  <2>. QED BY <2>2, <2>3 DEF AvailableInv, TopicKnown
<1>. QED BY <1>1, AvailableInit, AvailableStep, PTL DEF MirrorSpec
=============================================================================
