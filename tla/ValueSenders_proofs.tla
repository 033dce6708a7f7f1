------------------------ MODULE ValueSenders_proofs ------------------------
(***************************************************************************)
(* Theorems of ValueSenders for all registers, values, views, capacities   *)
(* of the channel and senders.                                             *)
(***************************************************************************)
EXTENDS ValueSenders, SequenceTheorems, TLAPS

Msgs == [key : Wanted, val : AnyVal \ {None}]

\* What q has of k, and whether v is the newest of it.
Has(q, k) == \E i \in 1..Len(q) : q[i].key = k
NewestIn(q, k, v) ==
  \E i \in 1..Len(q) : /\ q[i].key = k /\ q[i].val = v
                       /\ \A j \in 1..Len(q) : q[j].key = k => j <= i

\* What has left the channel: with the routine, the sender, the outside.
Relays == Sends({"telemetry", "availability"})
Beyond(k) ==
  IF Relays /\ hand # None THEN hand
  ELSE IF Sends({"telemetry"}) THEN told
  ELSE IF pending[k] # None THEN pending[k]
  ELSE IF writing[k] # None THEN writing[k]
  ELSE shown[k]

Latest(k) ==
  IF filling.key = k THEN filling.val = values[k]
  ELSE IF Has(queue, k) THEN NewestIn(queue, k, values[k])
  ELSE Beyond(k) = values[k]

Types ==
  /\ sender \in Senders
  /\ values \in Values /\ pending \in Values /\ writing \in Values /\ shown \in Values
  /\ filling \in Msgs \cup {none} /\ queue \in Seq(Msgs) /\ initial \subseteq Msgs
  /\ known \in [sender : SUBSET Keys, new : SUBSET Keys, browser : SUBSET Keys]
  /\ hand \in AnyVal /\ told \in AnyVal

\* Who uses which variable, and when.
Roles ==
  /\ hand # None \/ told # None => Relays
  /\ pending # Nothing => Sends({"delayed", "ws"})
  /\ Sends({"delayed"}) => \A k \in Keys \ Numbers : pending[k] = None
  /\ writing # Nothing => Sends({"ws"}) /\ pc \in {"writing", "left"}

\* Before it has subscribed a sender has nothing.
Fresh ==
  pc = "idle" =>
    /\ sub = "new" /\ filling = none /\ queue = <<>> /\ initial = {}
    /\ hand = None /\ told = None
    /\ pending = Nothing /\ writing = Nothing /\ shown = Nothing

\* An initial value that waits is that of the storage, or it is overtaken.
InitialIsCurrent ==
  \A i \in initial : i.key \notin overtaken => i.val = values[i.key] /\ filling.key # i.key

Tracks ==
  sub = "open" =>
    \A k \in Wanted \ overtaken : (\A i \in initial : i.key # k) => Latest(k)

Having(f) == {k \in Keys : f[k] # None}

\* Each register the sender handles has been announced or is about to be.
Announced ==
  Sends({"ws"}) =>
    /\ Having(shown) \subseteq known.browser
    /\ Having(writing) \cup Having(pending) \subseteq known.sender
    /\ known.sender \subseteq known.browser \cup known.new
    /\ pc # "idle" => public \/ user

SenderInv == Types /\ Roles /\ Fresh /\ InitialIsCurrent /\ Tracks /\ Announced

-----------------------------------------------------------------------------
\* Lemmas about the channel.
LEMMA AppendNewest ==
  ASSUME NEW S, NEW q \in Seq(S), NEW m \in S, NEW k
  PROVE  /\ m.key = k => Has(Append(q, m), k) /\ NewestIn(Append(q, m), k, m.val)
         /\ m.key # k => /\ Has(Append(q, m), k) <=> Has(q, k)
                         /\ \A v : NewestIn(q, k, v) => NewestIn(Append(q, m), k, v)
<1>. DEFINE a == Append(q, m)
<1>1. /\ Len(q) \in Nat /\ Len(a) = Len(q) + 1 /\ a[Len(q) + 1] = m
      /\ \A i \in 1..Len(q) : a[i] = q[i]
  BY AppendProperties, LenProperties
<1>. HIDE DEF a
<1>2. ASSUME m.key = k PROVE Has(a, k) /\ NewestIn(a, k, m.val)
  <2>1. Len(a) \in 1..Len(a) /\ a[Len(a)] = m /\ \A j \in 1..Len(a) : j <= Len(a)
    BY <1>1
  <2>. QED BY <1>2, <2>1 DEF Has, NewestIn
<1>3. ASSUME m.key # k PROVE Has(a, k) <=> Has(q, k)
  <2>1. \A i \in 1..Len(a) : a[i].key = k => i \in 1..Len(q) /\ a[i] = q[i]
    BY <1>1, <1>3
  <2>2. \A i \in 1..Len(q) : i \in 1..Len(a) /\ a[i] = q[i]
    BY <1>1
  <2>. QED BY <2>1, <2>2 DEF Has
<1>4. ASSUME m.key # k, NEW v, NewestIn(q, k, v) PROVE NewestIn(a, k, v)
  <2>1. PICK i \in 1..Len(q) : /\ q[i].key = k /\ q[i].val = v
                               /\ \A j \in 1..Len(q) : q[j].key = k => j <= i
    BY <1>4 DEF NewestIn
  <2>2. i \in 1..Len(a) /\ a[i] = q[i]
    BY <1>1
  <2>3. ASSUME NEW j \in 1..Len(a), a[j].key = k PROVE j <= i
    <3>1. j \in 1..Len(q) /\ a[j] = q[j]
      BY <1>1, <1>4, <2>3
    <3>. QED BY <2>1, <2>3, <3>1
  <2>. QED BY <2>1, <2>2, <2>3 DEF NewestIn
<1>. QED BY <1>2, <1>3, <1>4 DEF a

LEMMA TailNewest ==
  ASSUME NEW S, NEW q \in Seq(S), q # <<>>, NEW k, NEW v
  PROVE  /\ NewestIn(q, k, v) /\ Has(Tail(q), k) => NewestIn(Tail(q), k, v)
         /\ NewestIn(q, k, v) /\ ~ Has(Tail(q), k) => Head(q).key = k /\ Head(q).val = v
         /\ Has(q, k) /\ Head(q).key # k => Has(Tail(q), k)
         /\ Has(Tail(q), k) => Has(q, k)
<1>. DEFINE t == Tail(q)
<1>1. /\ Len(q) \in Nat \ {0} /\ Len(t) = Len(q) - 1 /\ Head(q) = q[1]
      /\ \A i \in 1..Len(t) : t[i] = q[i + 1]
  BY HeadTailProperties, EmptySeq
<1>. HIDE DEF t
<1>2. \A i \in 1..Len(t) : i + 1 \in 1..Len(q)
  BY <1>1
<1>3. \A i \in 1..Len(q) : i = 1 \/ (i - 1 \in 1..Len(t) /\ t[i - 1] = q[i])
  BY <1>1
<1>4. ASSUME NewestIn(q, k, v)
      PROVE  /\ Has(t, k) => NewestIn(t, k, v)
             /\ ~ Has(t, k) => Head(q).key = k /\ Head(q).val = v
  <2>1. PICK i \in 1..Len(q) : /\ q[i].key = k /\ q[i].val = v
                               /\ \A j \in 1..Len(q) : q[j].key = k => j <= i
    BY <1>4 DEF NewestIn
  <2>2. ASSUME Has(t, k) PROVE NewestIn(t, k, v)
    <3>1. PICK h \in 1..Len(t) : t[h].key = k
      BY <2>2 DEF Has
    <3>2. h + 1 <= i
      BY <1>1, <1>2, <2>1, <3>1
    <3>3. i - 1 \in 1..Len(t) /\ t[i - 1] = q[i]
      BY <1>1, <1>3, <3>1, <3>2
    <3>4. ASSUME NEW j \in 1..Len(t), t[j].key = k PROVE j <= i - 1
      <4>1. j + 1 \in 1..Len(q) /\ q[j + 1].key = k
        BY <1>1, <1>2, <3>4
      <4>. QED BY <2>1, <4>1
    <3>. QED BY <2>1, <3>3, <3>4 DEF NewestIn
  <2>3. ASSUME ~ Has(t, k) PROVE i = 1
    BY <1>3, <2>1, <2>3 DEF Has
  <2>. QED BY <1>1, <2>1, <2>2, <2>3
<1>5. Has(q, k) /\ Head(q).key # k => Has(t, k)
  BY <1>1, <1>3 DEF Has
<1>6. Has(t, k) => Has(q, k)
  BY <1>1, <1>2 DEF Has
<1>. QED BY <1>4, <1>5, <1>6 DEF t

LEMMA NewestMember ==
  ASSUME NEW q, NEW k, NEW v, NewestIn(q, k, v)
  PROVE  Has(q, k)
BY DEF NewestIn, Has

\* Newest is what Latest says of it.
LEMMA NewestIsLatest ==
  ASSUME Types, NEW k \in Keys, Latest(k)
  PROVE  Newest(k) = values[k]
<1>. DEFINE At == {i \in 1..Len(queue) : queue[i].key = k}
            top == CHOOSE i \in At : \A j \in At : j <= i
<1>1. CASE filling.key = k
  BY <1>1 DEF Newest, Latest
<1>2. CASE filling.key # k /\ Has(queue, k)
  <2>1. PICK i \in 1..Len(queue) :
          /\ queue[i].key = k /\ queue[i].val = values[k]
          /\ \A j \in 1..Len(queue) : queue[j].key = k => j <= i
    BY <1>2 DEF Latest, NewestIn
  <2>2. i \in At /\ \A j \in At : j <= i
    BY <2>1
  <2>3. top \in At /\ \A j \in At : j <= top
    BY <2>2
  <2>4. Len(queue) \in Nat
    BY LenProperties DEF Types
  <2>5. top = i
    <3>1. At \subseteq Int
      BY <2>4
    <3>. HIDE DEF At, top
    <3>. QED BY <2>2, <2>3, <3>1
  <2>6. Newest(k) = queue[top].val
    BY <1>2, <2>2 DEF Newest
  <2>. QED BY <2>1, <2>5, <2>6
<1>3. CASE filling.key # k /\ ~ Has(queue, k)
  <2>1. At = {}
    BY <1>3 DEF Has
  <2>2. Newest(k) = IF Relays /\ hand # None THEN hand
                    ELSE IF Sends({"telemetry"}) THEN told
                    ELSE Over(pending, Over(writing, shown))[k]
    BY <1>3, <2>1 DEF Newest, Relays
  <2>3. Over(pending, Over(writing, shown))[k] =
          IF pending[k] # None THEN pending[k]
          ELSE IF writing[k] # None THEN writing[k] ELSE shown[k]
    BY DEF Over
  <2>4. Beyond(k) = values[k]
    BY <1>3 DEF Latest
  <2>. QED BY <2>2, <2>3, <2>4 DEF Beyond
<1>. QED BY <1>1, <1>2, <1>3

-----------------------------------------------------------------------------
LEMMA SenderInit == Init => SenderInv
<1>. SUFFICES ASSUME Init PROVE SenderInv
  OBVIOUS
<1>. USE DEF Init
<1>1. Nothing \in Values
  BY DEF Nothing, Values, AnyVal
<1>2. Types
  BY <1>1 DEF Types, AnyVal, none
<1>3. Roles /\ Fresh /\ InitialIsCurrent /\ Tracks
  BY DEF Roles, Fresh, InitialIsCurrent, Tracks, Nothing
<1>4. Announced
  BY DEF Announced, Having, Nothing
<1>. QED BY <1>2, <1>3, <1>4 DEF SenderInv

\* A sender stays what it is.
LEMMA SameSender ==
  ASSUME sender' = sender
  PROVE  Wanted' = Wanted /\ Msgs' = Msgs /\ Relays' = Relays
BY DEF Wanted, Msgs, Relays, Sends

LEMMA NoneIsNoKey == none.key \notin Keys /\ none.val = None
BY ValueAssumption DEF none

LEMMA WantedType == Types => Wanted \subseteq Keys
BY ViewAssumption, SenderAssumption DEF Types, Wanted, Sends, Keys

LEMMA MsgType ==
  ASSUME Types, NEW m \in Msgs
  PROVE  m.key \in Wanted /\ m.key \in Keys /\ m.val \in AnyVal /\ m.val # None
BY WantedType DEF Msgs

\* The head of the channel.
LEMMA HeadType ==
  ASSUME Types, queue # <<>>
  PROVE  Head(queue) \in Msgs /\ Tail(queue) \in Seq(Msgs)
BY HeadTailProperties DEF Types

LEMMA OfType ==
  ASSUME NEW k \in Keys
  PROVE  Of(k) \subseteq AnyVal \ {None}
BY ValueAssumption DEF Of, AnyVal

LEMMA OverType ==
  ASSUME NEW f \in Values, NEW g \in Values
  PROVE  Over(f, g) \in Values
BY DEF Over, Values

LEMMA NothingType == Nothing \in Values /\ \A k \in Keys : Nothing[k] = None
BY DEF Nothing, Values, AnyVal

-----------------------------------------------------------------------------
LEMMA TypesStep == SenderInv /\ Next => Types'
<1>. SUFFICES ASSUME SenderInv, Next PROVE Types'
  OBVIOUS
<1>. USE DEF SenderInv
<1>0. Types /\ None \in AnyVal
  BY DEF AnyVal
<1>1. ASSUME NEW k \in Keys, NEW v \in Of(k), Fill(k, v) PROVE Types'
  <2>1. v \in AnyVal /\ v # None
    BY OfType
  <2>2. filling' \in Msgs \cup {none}
    BY <1>1, <2>1 DEF Fill, Msgs
  <2>3. values' \in Values
    BY <1>0, <1>1, <2>1 DEF Fill, Types, Values
  <2>4. Msgs' = Msgs
    BY <1>1, SameSender DEF Fill
  <2>. QED BY <1>0, <1>1, <2>2, <2>3, <2>4 DEF Fill, Types, ws
<1>2. ASSUME Forward \/ SendInitial \/ RelayAvailable PROVE Types'
  <2>1. Msgs' = Msgs
    BY <1>2, SameSender DEF Forward, SendInitial, RelayAvailable
  <2>2. queue' \in Seq(Msgs) /\ initial' \subseteq Msgs /\ filling' \in Msgs \cup {none}
    BY <1>0, <1>2, AppendProperties, HeadType DEF Forward, SendInitial, RelayAvailable, Types
  <2>3. hand' \in AnyVal
    BY <1>0, <1>2, HeadType, MsgType DEF Forward, SendInitial, RelayAvailable, Types
  <2>. QED BY <1>0, <1>2, <2>1, <2>2, <2>3 DEF Forward, SendInitial, RelayAvailable, Types, ws
<1>3. ASSUME Close \/ Cancel \/ Leave \/ TakeNil \/ AuthMessage \/ WriteFails PROVE Types'
  <2>1. Msgs' = Msgs
    BY <1>3, SameSender DEF Close, Cancel, Leave, TakeNil, AuthMessage, WriteFails
  <2>. QED BY <1>0, <1>3, <2>1
           DEF Close, Cancel, Leave, TakeNil, AuthMessage, WriteFails, Types, ws, storage
<1>4. ASSUME StartRealtime \/ StartAvailability \/ StartWs PROVE Types'
  <2>1. Msgs' = Msgs /\ Avail \in Keys
    BY <1>4, SameSender DEF StartRealtime, StartAvailability, StartWs, Keys
  <2>2. initial' \subseteq Msgs
    <3>1. Wanted \subseteq Keys
      BY <1>0, WantedType
    <3>2. \A x \in Wanted : values[x] \in AnyVal
      BY <1>0, <3>1 DEF Types, Values
    <3>. QED BY <1>0, <1>4, <3>2 DEF StartRealtime, StartAvailability, StartWs, Msgs, Types
  <2>3. writing' \in Values /\ hand' \in AnyVal
    BY <1>0, <1>4, <2>1 DEF StartRealtime, StartAvailability, StartWs, Types, Values, ws
  <2>4. known' \in [sender : SUBSET Keys, new : SUBSET Keys, browser : SUBSET Keys]
    BY <1>0, <1>4, ViewAssumption
    DEF StartRealtime, StartAvailability, StartWs, Types, ws, Present
  <2>. QED BY <1>0, <1>4, <2>1, <2>2, <2>3, <2>4
           DEF StartRealtime, StartAvailability, StartWs, Types, ws
<1>5. ASSUME PublishValue \/ TakeUpdate \/ TakeChange PROVE Types'
  <2>1. Msgs' = Msgs /\ queue # <<>>
    BY <1>5, SameSender DEF PublishValue, TakeUpdate, TakeChange
  <2>2. queue' \in Seq(Msgs) /\ Head(queue).key \in Keys /\ Head(queue).val \in AnyVal
    BY <1>0, <1>5, <2>1, HeadType, MsgType DEF PublishValue, TakeUpdate, TakeChange
  <2>3. pending' \in Values /\ shown' \in Values
    BY <1>0, <1>5, <2>2 DEF PublishValue, TakeUpdate, TakeChange, Types, Values
  <2>4. known' \in [sender : SUBSET Keys, new : SUBSET Keys, browser : SUBSET Keys]
    <3>1. CASE TakeChange /\ Head(queue).key \notin known.sender
      BY <1>0, <2>2, <3>1 DEF TakeChange, Types
    <3>2. CASE ~ TakeChange \/ Head(queue).key \in known.sender
      BY <1>0, <1>5, <3>2 DEF PublishValue, TakeUpdate, TakeChange, Types, ws
    <3>. QED BY <3>1, <3>2
  <2>. QED BY <1>0, <1>5, <2>1, <2>2, <2>3, <2>4
           DEF PublishValue, TakeUpdate, TakeChange, Types, ws
<1>6. ASSUME TakeAvailable PROVE Types'
  <2>1. Msgs' = Msgs /\ Avail \in Keys
    BY <1>6, SameSender DEF TakeAvailable, Keys
  <2>. QED BY <1>0, <1>6, <2>1 DEF TakeAvailable, Types, Values, ws, storage
<1>7. ASSUME Tick \/ WriteDone PROVE Types'
  <2>1. Msgs' = Msgs
    BY <1>7, SameSender DEF Tick, TickUpdates, SendTelemetry, TickWs, WriteDone
  <2>2. shown' \in Values /\ pending' \in Values /\ writing' \in Values
    BY <1>0, <1>7, OverType, NothingType
    DEF Tick, TickUpdates, SendTelemetry, TickWs, WriteDone, Types, Values, ws
  <2>3. known' \in [sender : SUBSET Keys, new : SUBSET Keys, browser : SUBSET Keys]
    BY <1>0, <1>7 DEF Tick, TickUpdates, SendTelemetry, TickWs, WriteDone, Types, ws
  <2>. QED BY <1>0, <1>7, <2>1, <2>2, <2>3
           DEF Tick, TickUpdates, SendTelemetry, TickWs, WriteDone, Types, storage, ws
<1>. QED BY <1>1, <1>2, <1>3, <1>4, <1>5, <1>6, <1>7 DEF Next, Main

LEMMA RolesStep == SenderInv /\ Next => Roles' /\ Fresh'
<1>. SUFFICES ASSUME SenderInv, Next PROVE Roles' /\ Fresh'
  OBVIOUS
<1>. USE DEF SenderInv, Roles, Fresh, Sends, Relays
<1>1. ASSUME NEW k \in Keys, NEW v \in Of(k), Fill(k, v) PROVE Roles' /\ Fresh'
  BY <1>1 DEF Fill, ws, MutexFree
<1>2. ASSUME Forward \/ SendInitial \/ Close \/ Cancel PROVE Roles' /\ Fresh'
  BY <1>2 DEF Forward, SendInitial, Close, Cancel, ws, storage
<1>3. ASSUME RelayAvailable \/ TakeAvailable \/ StartAvailability PROVE Roles' /\ Fresh'
  BY <1>3 DEF RelayAvailable, TakeAvailable, StartAvailability, ws, storage
<1>4. ASSUME StartRealtime \/ StartWs PROVE Roles' /\ Fresh'
  BY <1>4 DEF StartRealtime, StartWs, ws
<1>5. ASSUME PublishValue \/ TakeUpdate \/ TakeChange PROVE Roles' /\ Fresh'
  <2>1. Head(queue).key \in Keys
    BY <1>5, HeadType, MsgType DEF PublishValue, TakeUpdate, TakeChange
  <2>2. \A k \in Keys \ Numbers : Sends({"delayed"}) => pending'[k] = None
    BY <1>5, <2>1 DEF PublishValue, TakeUpdate, TakeChange, Types, Values
  <2>. QED BY <1>5, <2>2 DEF PublishValue, TakeUpdate, TakeChange, ws
<1>6. ASSUME Tick PROVE Roles' /\ Fresh'
  BY <1>6, NothingType DEF Tick, TickUpdates, SendTelemetry, TickWs, ws, storage
<1>7. ASSUME Leave \/ TakeNil \/ AuthMessage \/ WriteDone \/ WriteFails PROVE Roles' /\ Fresh'
  BY <1>7 DEF Leave, TakeNil, AuthMessage, WriteDone, WriteFails, ws, storage
<1>. QED BY <1>1, <1>2, <1>3, <1>4, <1>5, <1>6, <1>7 DEF Next, Main

-----------------------------------------------------------------------------
LEMMA InitialStep == SenderInv /\ Next => InitialIsCurrent'
<1>. SUFFICES ASSUME SenderInv, Next PROVE InitialIsCurrent'
  OBVIOUS
<1>. USE DEF SenderInv, InitialIsCurrent
<1>1. ASSUME NEW k \in Keys, NEW v \in Of(k), Fill(k, v) PROVE InitialIsCurrent'
  <2>1. SUFFICES ASSUME NEW i \in initial, i.key \notin overtaken'
                 PROVE  values'[i.key] = i.val /\ filling'.key # i.key
    BY <1>1 DEF Fill
  <2>2. i.key # k /\ i.key \notin overtaken
    BY <1>1, <2>1 DEF Fill
  <2>3. i.key \in Keys
    BY MsgType DEF Types
  <2>. QED BY <1>1, <2>1, <2>2, <2>3, NoneIsNoKey DEF Fill, Types, Values
<1>2. ASSUME Forward PROVE InitialIsCurrent'
  <2>1. \A i \in initial : i.key \in Keys
    BY MsgType DEF Types
  <2>. QED BY <1>2, <2>1, NoneIsNoKey DEF Forward
<1>3. ASSUME StartRealtime PROVE InitialIsCurrent'
  <2>1. \A i \in initial' : i.val = values[i.key] /\ i.key \in Keys
    BY <1>3, WantedType DEF StartRealtime
  <2>. QED BY <1>3, <2>1, NoneIsNoKey DEF StartRealtime, MutexFree
<1>4. CASE UNCHANGED <<values, filling, overtaken>> /\ initial' \subseteq initial
  BY <1>4
<1>5. \/ \E k \in Keys : \E v \in Of(k) : Fill(k, v)
      \/ Forward \/ StartRealtime
      \/ UNCHANGED <<values, filling, overtaken>> /\ initial' \subseteq initial
  BY DEF Next, Main, Tick, SendInitial, Close, PublishValue, TakeUpdate, StartAvailability,
         TakeAvailable, StartWs, TakeChange, TickUpdates, SendTelemetry, TickWs,
         RelayAvailable, Cancel, Leave, TakeNil, AuthMessage, WriteDone, WriteFails, storage
<1>. QED BY <1>1, <1>2, <1>3, <1>4, <1>5

LEMMA AnnouncedStep == SenderInv /\ Next => Announced'
<1>. SUFFICES ASSUME SenderInv, Next, sender' = "ws" PROVE Announced'
  BY DEF Announced, Sends
<1>. USE DEF SenderInv, Announced, Having
<1>0. sender = "ws" /\ public' = public /\ Sends({"ws"}) /\ ~ Sends({"delayed"})
      /\ ~ Sends({"immediate"}) /\ ~ Sends({"immediate", "delayed"})
      /\ ~ Sends({"telemetry"}) /\ ~ Sends({"telemetry", "availability"})
  BY DEF Sends, Next, Main, Tick, Fill, Forward, SendInitial, Close, StartRealtime, PublishValue,
         TakeUpdate, StartAvailability, TakeAvailable, StartWs, TakeChange, TickUpdates,
         SendTelemetry, TickWs, RelayAvailable, Cancel, Leave, TakeNil, AuthMessage,
         WriteDone, WriteFails
<1>1. ASSUME StartWs PROVE Announced'
  <2>1. known' = [known EXCEPT !.sender = Present, !.new = Present]
    BY <1>1 DEF StartWs
  <2>2. known'.sender = Present /\ known'.new = Present /\ known'.browser = known.browser
    BY <2>1 DEF Types
  <2>3. Having(writing') = Present
    BY <1>1, ViewAssumption DEF StartWs, Present
  <2>4. Having(pending') = {} /\ Having(shown') = {}
    BY <1>1, NothingType DEF StartWs, Fresh
  <2>. QED BY <1>1, <2>2, <2>3, <2>4 DEF StartWs
<1>2. ASSUME WriteDone PROVE Announced'
  <2>1. /\ known'.sender = known.sender
        /\ known'.browser = known.browser \cup known.new
    BY <1>2 DEF WriteDone, Types
  <2>2. Having(shown') \subseteq Having(shown) \cup Having(writing)
    BY <1>2 DEF WriteDone, Over
  <2>3. Having(writing') = {} /\ pending' = pending
    BY <1>2, NothingType DEF WriteDone
  <2>. QED BY <1>0, <1>2, <2>1, <2>2, <2>3 DEF WriteDone
<1>3. ASSUME TakeChange PROVE Announced'
  <2>1. /\ known.sender \cup {Head(queue).key} \subseteq known'.sender
        /\ known'.browser = known.browser
        /\ known'.sender \subseteq known'.browser \cup known'.new
    <3>1. CASE Head(queue).key \in known.sender
      BY <1>0, <1>3, <3>1 DEF TakeChange
    <3>2. CASE Head(queue).key \notin known.sender
      <4>1. known' = [known EXCEPT !.sender = @ \cup {Head(queue).key},
                                   !.new = @ \cup {Head(queue).key}]
        BY <1>3, <3>2 DEF TakeChange
      <4>2. /\ known'.sender = known.sender \cup {Head(queue).key}
            /\ known'.new = known.new \cup {Head(queue).key}
            /\ known'.browser = known.browser
        BY <4>1 DEF Types
      <4>. QED BY <1>0, <4>2
    <3>. QED BY <3>1, <3>2
  <2>2. Having(pending') \subseteq Having(pending) \cup {Head(queue).key}
    BY <1>3 DEF TakeChange, Types, Values
  <2>. QED BY <1>0, <1>3, <2>1, <2>2 DEF TakeChange
<1>4. ASSUME TickWs PROVE Announced'
  <2>1. /\ known' = known /\ shown' = shown /\ user' = user /\ pc # "idle"
        /\ (writing' = writing \/ writing' = pending) /\ (pending' = pending \/ pending' = Nothing)
    BY <1>4 DEF TickWs
  <2>2. Having(pending') \subseteq Having(pending)
    BY <2>1, NothingType
  <2>. QED BY <1>0, <2>1, <2>2
<1>5. CASE /\ UNCHANGED <<shown, writing, pending, known>>
           /\ (pc' # "idle" => pc # "idle") /\ (user => user')
  BY <1>0, <1>5
<1>6. \/ StartWs \/ WriteDone \/ TakeChange \/ TickWs
      \/ /\ UNCHANGED <<shown, writing, pending, known>>
         /\ (pc' # "idle" => pc # "idle") /\ (user => user')
  BY <1>0
  DEF Next, Main, Tick, Fill, Forward, SendInitial, Close, StartRealtime, PublishValue,
      TakeUpdate, StartAvailability, TakeAvailable, TickUpdates, SendTelemetry,
      RelayAvailable, Cancel, Leave, TakeNil, AuthMessage, WriteFails, storage, ws
<1>. QED BY <1>1, <1>2, <1>3, <1>4, <1>5, <1>6

-----------------------------------------------------------------------------
\* A message is appended to the channel.
LEMMA Appended ==
  ASSUME Types, NEW m \in Msgs, queue' = Append(queue, m), NEW k,
         values' = values, filling'.key # k, Beyond(k)' = Beyond(k),
         IF m.key = k THEN m.val = values[k] ELSE filling.key # k /\ Latest(k)
  PROVE  Latest(k)'
<1>1. queue \in Seq(Msgs)
  BY DEF Types
<1>2. CASE m.key = k
  <2>1. Has(queue', k) /\ NewestIn(queue', k, values'[k])
    BY <1>1, <1>2, AppendNewest
  <2>. QED BY <2>1 DEF Latest, Has, NewestIn
<1>3. CASE m.key # k
  <2>1. Has(queue', k) <=> Has(queue, k)
    BY <1>1, <1>3, AppendNewest
  <2>2. NewestIn(queue, k, values[k]) => NewestIn(queue', k, values'[k])
    BY <1>1, <1>3, AppendNewest
  <2>. QED BY <1>3, <2>1, <2>2 DEF Latest, Has, NewestIn
<1>. QED BY <1>2, <1>3

\* The head of the channel is taken, and is now what has left it.
LEMMA Taken ==
  ASSUME Types, queue # <<>>, queue' = Tail(queue), NEW k,
         UNCHANGED <<values, filling>>, Latest(k),
         IF Head(queue).key = k THEN Beyond(k)' = Head(queue).val
                                ELSE Beyond(k)' = Beyond(k)
  PROVE  Latest(k)'
<1>. DEFINE v == values[k]
<1>1. queue \in Seq(Msgs)
  BY DEF Types
<1>2. /\ NewestIn(queue, k, v) /\ Has(queue', k) => NewestIn(queue', k, v)
      /\ NewestIn(queue, k, v) /\ ~ Has(queue', k) => Head(queue).key = k /\ Head(queue).val = v
      /\ Has(queue, k) /\ Head(queue).key # k => Has(queue', k)
      /\ Has(queue', k) => Has(queue, k)
  BY <1>1, TailNewest
<1>3. Head(queue).key = k => Has(queue, k)
  <2>1. 1 \in 1..Len(queue) /\ Head(queue) = queue[1]
    BY <1>1, EmptySeq
  <2>. QED BY <2>1 DEF Has
<1>4. Latest(k)' <=>
        IF filling.key = k THEN filling.val = v
        ELSE IF Has(queue', k) THEN NewestIn(queue', k, v)
        ELSE Beyond(k)' = v
  BY DEF Latest, Has, NewestIn
<1>5. IF filling.key = k THEN filling.val = v
      ELSE IF Has(queue, k) THEN NewestIn(queue, k, v)
      ELSE Beyond(k) = v
  BY DEF Latest
<1>. HIDE DEF v
<1>. QED BY <1>2, <1>3, <1>4, <1>5

\* Nothing changes but, perhaps, where the value is that has left the channel.
LEMMA Passed ==
  ASSUME NEW k, UNCHANGED <<values, filling, queue>>, Latest(k), Beyond(k)' = Beyond(k)
  PROVE  Latest(k)'
BY DEF Latest, Has, NewestIn

-----------------------------------------------------------------------------
\* What is said of a key k the sender wants, which no change has overtaken and
\* no initial value waits for after the step.
LEMMA TracksStep == SenderInv /\ Next => Tracks'
<1>. SUFFICES ASSUME SenderInv, Next, sub' = "open", NEW k \in Wanted' \ overtaken',
                     \A i \in initial' : i.key # k
              PROVE  Latest(k)'
  BY DEF Tracks
<1>. USE DEF SenderInv
<1>1. sender' = sender /\ overtaken \subseteq overtaken'
  BY DEF Next, Main, Tick, Fill, Forward, SendInitial, Close, StartRealtime, PublishValue,
         TakeUpdate, StartAvailability, TakeAvailable, StartWs, TakeChange, TickUpdates,
         SendTelemetry, TickWs, RelayAvailable, Cancel, Leave, TakeNil, AuthMessage,
         WriteDone, WriteFails, storage
<1>2. k \in Wanted /\ k \in Keys /\ k \notin overtaken
  BY <1>1, SameSender, WantedType
<1>3. sub = "open" /\ initial \subseteq initial' => Latest(k)
  BY <1>2 DEF Tracks
<1>4. filling = none => filling.key # k
  BY <1>2, NoneIsNoKey
<1>5. ASSUME NEW x \in Keys, NEW v \in Of(x), Fill(x, v) PROVE Latest(k)'
  <2>1. Latest(k) /\ sub = "open" /\ filling = none
    BY <1>3, <1>5 DEF Fill, MutexFree
  <2>2. CASE x = k
    <3>1. filling' = [key |-> k, val |-> v]
      BY <1>2, <1>5, <2>1, <2>2 DEF Fill
    <3>2. values'[k] = v
      BY <1>5, <2>2 DEF Fill, Types, Values
    <3>. QED BY <3>1, <3>2 DEF Latest
  <2>3. CASE x # k
    <3>1. filling'.key # k
      BY <1>2, <1>5, <2>3, NoneIsNoKey DEF Fill
    <3>2. values'[k] = values[k] /\ queue' = queue
      BY <1>2, <1>5, <2>3 DEF Fill, Types, Values
    <3>3. Beyond(k)' = Beyond(k)
      BY <1>5 DEF Fill, ws, Beyond, Relays, Sends
    <3>. QED BY <1>4, <2>1, <3>1, <3>2, <3>3 DEF Latest, Has, NewestIn
  <2>. QED BY <2>2, <2>3
<1>6. ASSUME Forward PROVE Latest(k)'
  <2>1. Latest(k) /\ filling \in Msgs
    BY <1>3, <1>6 DEF Forward, Types
  <2>2. filling'.key # k /\ values' = values /\ queue' = Append(queue, filling)
    BY <1>2, <1>6, NoneIsNoKey DEF Forward
  <2>3. Beyond(k)' = Beyond(k)
    BY <1>6 DEF Forward, ws, Beyond, Relays, Sends
  <2>4. filling.key = k => filling.val = values[k]
    BY <2>1 DEF Latest
  <2>. QED BY <2>1, <2>2, <2>3, <2>4, Appended
<1>7. ASSUME SendInitial PROVE Latest(k)'
  <2>1. PICK m \in initial : queue' = Append(queue, m) /\ initial' = initial \ {m}
    BY <1>7 DEF SendInitial
  <2>2. m \in Msgs /\ UNCHANGED <<values, filling>> /\ sub = "open"
    BY <1>7 DEF SendInitial, Types
  <2>3. Beyond(k)' = Beyond(k)
    BY <1>7 DEF SendInitial, ws, Beyond, Relays, Sends
  <2>4. CASE m.key = k
    <3>1. m.val = values[k] /\ filling'.key # k
      BY <1>2, <2>1, <2>2, <2>4 DEF InitialIsCurrent
    <3>. QED BY <2>1, <2>2, <2>3, <2>4, <3>1, Appended
  <2>5. CASE m.key # k
    <3>1. Latest(k)
      BY <1>2, <2>1, <2>2, <2>5 DEF Tracks
    <3>2. CASE filling.key = k
      BY <2>2, <3>1, <3>2 DEF Latest
    <3>3. CASE filling.key # k
      BY <2>1, <2>2, <2>3, <2>5, <3>1, <3>3, Appended
    <3>. QED BY <3>2, <3>3
  <2>. QED BY <2>4, <2>5
<1>8. ASSUME StartRealtime \/ StartAvailability \/ StartWs PROVE Latest(k)'
  <2>1. pc = "idle" /\ UNCHANGED <<values, filling, queue>>
    BY <1>8 DEF StartRealtime, StartAvailability, StartWs
  <2>2. /\ filling = none /\ queue = <<>> /\ hand = None /\ told = None
        /\ pending[k] = None /\ writing[k] = None /\ shown[k] = None
    BY <1>2, <2>1, NothingType DEF Fresh
  <2>3. filling'.key # k /\ ~ Has(queue', k)
    BY <1>4, <2>1, <2>2 DEF Has
  <2>4. Beyond(k)' = values[k]
    <3>1. CASE StartRealtime
      <4>1. values[k] = None
        <5>1. initial' = {[key |-> x, val |-> values[x]] : x \in {y \in Wanted : values[y] # None}}
          BY <3>1 DEF StartRealtime
        <5>2. values[k] # None => [key |-> k, val |-> values[k]] \in initial'
          BY <1>2, <5>1
        <5>. QED BY <5>2
      <4>. QED BY <2>2, <3>1, <4>1 DEF StartRealtime, ws, Beyond, Relays, Sends
    <3>2. CASE StartAvailability
      <4>1. k = Avail /\ hand' = values[k]
        BY <1>2, <3>2, SenderAssumption DEF StartAvailability, Wanted, Sends
      <4>. QED BY <2>2, <3>2, <4>1 DEF StartAvailability, ws, Beyond, Relays, Sends
    <3>3. CASE StartWs
      <4>1. k \in ViewKeys /\ writing'[k] = values[k]
        BY <1>2, <3>3 DEF StartWs, Wanted, Sends
      <4>. QED BY <2>2, <3>3, <4>1 DEF StartWs, Beyond, Relays, Sends
    <3>. QED BY <1>8, <3>1, <3>2, <3>3
  <2>. QED BY <2>1, <2>3, <2>4 DEF Latest
<1>9. ASSUME PublishValue \/ TakeUpdate \/ TakeChange \/ RelayAvailable PROVE Latest(k)'
  <2>1. /\ queue # <<>> /\ queue' = Tail(queue) /\ UNCHANGED <<values, filling>>
        /\ Latest(k)
    BY <1>3, <1>9 DEF PublishValue, TakeUpdate, TakeChange, RelayAvailable
  <2>2. /\ Head(queue).key \in Wanted /\ Head(queue).key \in Keys
        /\ Head(queue).val # None
    BY <2>1, HeadType, MsgType
  <2>3. ASSUME PublishValue
        PROVE  Beyond(k)' = IF Head(queue).key = k THEN Head(queue).val ELSE Beyond(k)
    <3>1. pending[k] = None /\ writing[k] = None
      BY <1>2, <2>3, NothingType DEF PublishValue, Roles, Sends
    <3>2. shown'[k] = IF Head(queue).key = k THEN Head(queue).val ELSE shown[k]
      BY <1>2, <2>3 DEF PublishValue, Types, Values
    <3>. QED BY <2>3, <3>1, <3>2 DEF PublishValue, ws, Beyond, Relays, Sends
  <2>4. ASSUME TakeUpdate
        PROVE  Beyond(k)' = IF Head(queue).key = k THEN Head(queue).val ELSE Beyond(k)
    <3>1. writing[k] = None /\ (k \notin Numbers => pending[k] = None)
      BY <1>2, <2>4, NothingType DEF TakeUpdate, Roles, Sends
    <3>2. CASE Head(queue).key \in Numbers
      <4>1. shown' = shown
            /\ pending'[k] = IF Head(queue).key = k THEN Head(queue).val ELSE pending[k]
        BY <1>2, <2>4, <3>2 DEF TakeUpdate, Types, Values
      <4>. QED BY <2>2, <2>4, <3>1, <4>1 DEF TakeUpdate, ws, Beyond, Relays, Sends
    <3>3. CASE Head(queue).key \notin Numbers
      <4>1. pending' = pending
            /\ shown'[k] = IF Head(queue).key = k THEN Head(queue).val ELSE shown[k]
        BY <1>2, <2>4, <3>3 DEF TakeUpdate, Types, Values
      <4>. QED BY <2>4, <3>1, <3>3, <4>1 DEF TakeUpdate, ws, Beyond, Relays, Sends
    <3>. QED BY <3>2, <3>3
  <2>5. ASSUME TakeChange
        PROVE  Beyond(k)' = IF Head(queue).key = k THEN Head(queue).val ELSE Beyond(k)
    <3>1. pending'[k] = IF Head(queue).key = k THEN Head(queue).val ELSE pending[k]
      BY <1>2, <2>5 DEF TakeChange, Types, Values
    <3>. QED BY <2>2, <2>5, <3>1 DEF TakeChange, Beyond, Relays, Sends
  <2>6. ASSUME RelayAvailable
        PROVE  Beyond(k)' = IF Head(queue).key = k THEN Head(queue).val ELSE Beyond(k)
    <3>1. k = Head(queue).key
      BY <1>2, <2>2, <2>6 DEF RelayAvailable, Wanted, Sends
    <3>. QED BY <2>2, <2>6, <3>1 DEF RelayAvailable, Beyond, Relays, Sends
  <2>. QED BY <1>9, <2>1, <2>3, <2>4, <2>5, <2>6, Taken
<1>10. ASSUME TakeAvailable \/ WriteDone \/ Tick PROVE Latest(k)'
  <2>1. UNCHANGED <<values, filling, queue>> /\ Latest(k)
    BY <1>3, <1>10 DEF TakeAvailable, WriteDone, Tick, TickUpdates, SendTelemetry, TickWs, storage
  <2>2. ASSUME TakeAvailable PROVE Beyond(k)' = Beyond(k)
    <3>1. k = Avail /\ pending[k] = None /\ writing[k] = None
      BY <1>2, <2>2, NothingType DEF TakeAvailable, Wanted, Roles, Sends
    <3>2. ~ Sends({"telemetry"}) => shown'[k] = hand
      BY <2>2, <3>1 DEF TakeAvailable, Types, Values, Keys, Sends
    <3>. QED BY <2>2, <3>1, <3>2 DEF TakeAvailable, ws, Beyond, Relays, Sends
  <2>3. ASSUME WriteDone PROVE Beyond(k)' = Beyond(k)
    <3>1. writing'[k] = None
          /\ shown'[k] = IF writing[k] # None THEN writing[k] ELSE shown[k]
      BY <1>2, <2>3, NothingType DEF WriteDone, Over
    <3>. QED BY <2>3, <3>1 DEF WriteDone, storage, Beyond, Relays, Sends
  <2>4. ASSUME TickUpdates PROVE Beyond(k)' = Beyond(k)
    <3>1. writing[k] = None /\ pending'[k] = None
          /\ shown'[k] = IF pending[k] # None THEN pending[k] ELSE shown[k]
      BY <1>2, <2>4, NothingType DEF TickUpdates, Over, Roles, Sends
    <3>. QED BY <2>4, <3>1 DEF TickUpdates, ws, storage, Beyond, Relays, Sends
  <2>5. ASSUME SendTelemetry PROVE Beyond(k)' = Beyond(k)
    BY <2>5 DEF SendTelemetry, storage, Beyond, Relays, Sends
  <2>6. ASSUME TickWs PROVE Beyond(k)' = Beyond(k)
    <3>1. writing[k] = None
      BY <1>2, <2>6, NothingType DEF TickWs, Roles
    <3>. QED BY <1>2, <2>6, <3>1, NothingType DEF TickWs, storage, Beyond, Relays, Sends
  <2>. QED BY <1>10, <2>1, <2>2, <2>3, <2>4, <2>5, <2>6, Passed DEF Tick
<1>11. ASSUME Cancel \/ Leave \/ TakeNil \/ AuthMessage \/ WriteFails PROVE Latest(k)'
  <2>1. UNCHANGED <<values, filling, queue>> /\ Latest(k)
    BY <1>3, <1>11 DEF Cancel, Leave, TakeNil, AuthMessage, WriteFails, storage
  <2>2. Beyond(k)' = Beyond(k)
    BY <1>11 DEF Cancel, Leave, TakeNil, AuthMessage, WriteFails, storage, ws, Beyond, Relays, Sends
  <2>. QED BY <2>1, <2>2, Passed
<1>12. ~ Close
  BY DEF Close
<1>. QED BY <1>5, <1>6, <1>7, <1>8, <1>9, <1>10, <1>11, <1>12 DEF Next, Main

-----------------------------------------------------------------------------
LEMMA SenderKnows == SenderInv => KnowsLatest
<1>. SUFFICES ASSUME SenderInv PROVE KnowsLatest
  OBVIOUS
<1>. USE DEF SenderInv
<1>1. ASSUME sub = "open", NEW k \in Wanted \ overtaken, \A i \in initial : i.key # k
      PROVE  Newest(k) = values[k]
  BY <1>1, WantedType, NewestIsLatest DEF Tracks
<1>2. Sends({"ws"}) => /\ {k \in Keys : shown[k] # None} \subseteq known.browser
                       /\ shown # Nothing => public \/ user
  BY DEF Announced, Having, Fresh
<1>. QED BY <1>1, <1>2 DEF KnowsLatest

LEMMA SenderInvariant == Spec => []SenderInv
<1>1. SenderInv /\ [Next]_vars => SenderInv'
  <2>1. SenderInv /\ Next => SenderInv'
    BY TypesStep, RolesStep, InitialStep, TracksStep, AnnouncedStep DEF SenderInv
  <2>2. SenderInv /\ UNCHANGED vars => SenderInv'
    <3>. SUFFICES ASSUME SenderInv, UNCHANGED vars PROVE SenderInv'
      OBVIOUS
    <3>. USE DEF vars, SenderInv
    <3>1. Types' /\ Roles' /\ Fresh'
      BY SameSender DEF Types, Roles, Fresh, Relays, Sends
    <3>2. InitialIsCurrent' /\ Announced'
      BY DEF InitialIsCurrent, Announced, Sends
    <3>3. Tracks'
      <4>1. \A k : Beyond(k)' = Beyond(k)
        BY DEF Beyond, Relays, Sends
      <4>. QED BY <4>1, SameSender, Passed DEF Tracks
    <3>. QED BY <3>1, <3>2, <3>3
  <2>. QED BY <2>1, <2>2
<1>. QED BY <1>1, SenderInit, PTL DEF Spec

\* Whatever the sender, the registers and the capacity: between the storage and
\* the broker or the browser no change is lost or overtaken by an older one, and
\* a browser is shown nothing it may not see or has not been told of.
THEOREM NothingLost == Spec => []KnowsLatest
BY SenderInvariant, SenderKnows, PTL
=============================================================================
