---------------------------- MODULE ValueSenders ----------------------------
(***************************************************************************)
(* What brings the values of the state storage to the outside: one sender  *)
(* at a time out of the realtime forwarder (immediate or delayed update    *)
(* mode), the telemetry forwarder, the availability forwarder and the      *)
(* websocket of a view, each on a subscription of its own.                 *)
(*                                                                         *)
(* The storage is the one of ValueStorage in fewer steps: a change is      *)
(* saved, then forwarded under the mutex as soon as there is room in the   *)
(* channel.  The broker, or the browser, is what has been shown to it.     *)
(***************************************************************************)
EXTENDS Integers, Sequences

CONSTANTS
  Numbers,    \* number registers
  Others,     \* enumerations and texts
  Vals,       \* their values
  None,       \* no value
  ViewKeys,   \* what the view of the websocket has (getViewValueFilter)
  Cap,        \* capacity of outputChannel, 128 in the code
  Senders     \* the senders to choose from

Avail == "Available"
Keys == Numbers \cup Others \cup {Avail}

ASSUME ValueAssumption ==
  None \notin Vals \cup {"offline", "online"} \cup Keys /\ Avail \notin Numbers \cup Others
ASSUME ViewAssumption == ViewKeys \subseteq Keys
ASSUME CapAssumption == Cap \in Nat \ {0}
ASSUME SenderAssumption ==
  Senders \subseteq {"immediate", "delayed", "telemetry", "availability", "ws"}

Of(k) == IF k = Avail THEN {"offline", "online"} ELSE Vals
AnyVal == Vals \cup {"offline", "online", None}
Values == [Keys -> AnyVal]
Nothing == [k \in Keys |-> None]

VARIABLES
  sender,     \* which one this is
  public,     \* ws: views[].IsPublic
  values,     \* ValueStorage.state
  filling,    \* the change being forwarded, with the mutex held; or none
  sub,        \* its subscription: "new", "open" or "closed"
  initial,    \* initial values not sent yet (SubscribeSendInitial)
  queue,      \* outputChannel
  cancelled,  \* the context of the sender
  pc,         \* "idle", "receive", "writing", "left" or "panicked"
  hand,       \* availability: what its routine offers on availChan, or None
  told,       \* availability: the last one taken from availChan
  pending,    \* updates, newValues: kept until the tick
  writing,    \* ws: the values of the message being written
  ticking,    \* ws: tickerRunning
  known,      \* ws: registers announced: [sender, and not yet sent, browser]
  user,       \* ws: an allowed user has presented a token
  shown,      \* what the broker or the browser has
  overtaken   \* history: keys changed while their initial value waited

vars == <<sender, public, values, filling, sub, initial, queue, cancelled, pc, hand,
          told, pending, writing, ticking, known, user, shown, overtaken>>
storage == <<values, filling, sub, initial, queue, overtaken>>
ws == <<writing, ticking, known, user>>

none == [key |-> None, val |-> None]

Init ==
  /\ sender \in Senders /\ public \in (IF sender = "ws" THEN BOOLEAN ELSE {FALSE})
  /\ values = Nothing /\ filling = none /\ sub = "new" /\ initial = {} /\ queue = <<>>
  /\ cancelled = FALSE /\ pc = "idle" /\ hand = None /\ told = None
  /\ pending = Nothing /\ writing = Nothing /\ ticking = FALSE
  /\ known = [sender |-> {}, new |-> {}, browser |-> {}]
  /\ user = FALSE /\ shown = Nothing /\ overtaken = {}

Sends(kinds) == sender \in kinds

\* The filters of the subscriptions.
Wanted ==
  CASE Sends({"immediate", "delayed"}) -> Keys \ {Avail}   \* createDeviceAndRegisterValueFilter
    [] Sends({"telemetry", "availability"}) -> {Avail}     \* SubscribeAvailableSendInitial
    [] Sends({"ws"}) -> ViewKeys                           \* getViewValueFilter

MutexFree == filling = none

\* Bound: only values that concern the sender change.
Relevant == IF Sends({"telemetry"}) THEN Keys ELSE Wanted

\* One map of values laid over another.
Over(new, old) == [k \in Keys |-> IF new[k] # None THEN new[k] ELSE old[k]]

-----------------------------------------------------------------------------
\* A device fills a changed value.
Fill(k, v) ==
  /\ MutexFree /\ k \in Relevant /\ values[k] # v
  /\ values' = [values EXCEPT ![k] = v]
  /\ filling' = IF sub = "open" /\ k \in Wanted THEN [key |-> k, val |-> v] ELSE none
  /\ overtaken' = IF \E i \in initial : i.key = k THEN overtaken \cup {k} ELSE overtaken
  /\ UNCHANGED <<sender, public, sub, initial, queue, cancelled, pc, hand, told, pending, ws, shown>>

Forward ==
  /\ filling # none /\ Len(queue) < Cap
  /\ queue' = Append(queue, filling)
  /\ filling' = none
  /\ UNCHANGED <<sender, public, values, sub, initial, cancelled, pc, hand, told, pending, ws, shown, overtaken>>

\* sendInitialAndCleanupValueSubscription
SendInitial ==
  /\ sub = "open" /\ Len(queue) < Cap
  /\ \E v \in initial : queue' = Append(queue, v) /\ initial' = initial \ {v}
  /\ UNCHANGED <<sender, public, values, filling, sub, cancelled, pc, hand, told, pending, ws, shown, overtaken>>

Close ==
  /\ sub = "open" /\ cancelled /\ MutexFree
  /\ sub' = "closed" /\ initial' = {}
  /\ UNCHANGED <<sender, public, values, filling, queue, cancelled, pc, hand, told, pending, ws, shown, overtaken>>

\* The mqtt client is shut down, the request of the websocket ends.
Cancel ==
  /\ ~cancelled
  /\ cancelled' = TRUE
  /\ UNCHANGED <<sender, public, storage, pc, hand, told, pending, ws, shown>>

-----------------------------------------------------------------------------
\* The routine subscribes with the mutex: SendInitial for the realtime modes.
StartRealtime ==
  /\ Sends({"immediate", "delayed"}) /\ pc = "idle" /\ MutexFree
  /\ sub' = "open" /\ pc' = "receive"
  /\ initial' = {[key |-> k, val |-> values[k]] : k \in {x \in Wanted : values[x] # None}}
  /\ UNCHANGED <<sender, public, values, filling, queue, cancelled, hand, told, pending, ws, shown, overtaken>>

\* realtimeImmediateModeRoutine: ranges over Drain().
PublishValue ==
  /\ Sends({"immediate"}) /\ pc = "receive" /\ queue # <<>>
  /\ shown' = [shown EXCEPT ![Head(queue).key] = Head(queue).val]
  /\ queue' = Tail(queue)
  /\ UNCHANGED <<sender, public, values, filling, sub, initial, cancelled, pc, hand, told, pending, ws, overtaken>>

\* Mutant: the first update of the interval is kept.
TakeUpdate_keepsFirst ==
  /\ Sends({"delayed"}) /\ pc = "receive" /\ queue # <<>>
  /\ LET v == Head(queue)
     IN IF v.key \in Numbers
          THEN /\ pending' = IF pending[v.key] = None THEN [pending EXCEPT ![v.key] = v.val] ELSE pending
               /\ UNCHANGED shown
          ELSE shown' = [shown EXCEPT ![v.key] = v.val] /\ UNCHANGED pending
  /\ queue' = Tail(queue)
  /\ UNCHANGED <<sender, public, values, filling, sub, initial, cancelled, pc, hand, told, ws, overtaken>>

\* realtimeDelayedUpdateModeRoutine: numbers wait for the tick.
TakeUpdate ==
  /\ Sends({"delayed"}) /\ pc = "receive" /\ queue # <<>>
  /\ LET v == Head(queue)
     IN IF v.key \in Numbers
          THEN pending' = [pending EXCEPT ![v.key] = v.val] /\ UNCHANGED shown
          ELSE shown' = [shown EXCEPT ![v.key] = v.val] /\ UNCHANGED pending
  /\ queue' = Tail(queue)
  /\ UNCHANGED <<sender, public, values, filling, sub, initial, cancelled, pc, hand, told, ws, overtaken>>

TickUpdates ==
  /\ Sends({"delayed"}) /\ pc = "receive" /\ pending # Nothing
  /\ shown' = Over(pending, shown) /\ pending' = Nothing
  /\ UNCHANGED <<sender, public, storage, cancelled, pc, hand, told, ws>>

\* A receive from the closed channel gives a nil value, and the select may take
\* that case when ctx.Done() is ready too.
TakeNil ==
  /\ Sends({"delayed"}) /\ pc = "receive" /\ sub = "closed" /\ queue = <<>>
  /\ pc' = "panicked"
  /\ UNCHANGED <<sender, public, storage, cancelled, hand, told, pending, ws, shown>>

\* At ctx.Done(), or at the end of the channel for a loop that drains it.
Leave ==
  /\ pc = "receive"
  /\ IF Sends({"immediate", "ws"}) THEN sub = "closed" /\ queue = <<>> ELSE cancelled
  /\ pc' = "left"
  /\ UNCHANGED <<sender, public, storage, cancelled, hand, told, pending, ws, shown>>

-----------------------------------------------------------------------------
\* SubscribeAvailableSendInitial: a routine passes on what the channel brings.
StartAvailability ==
  /\ Sends({"telemetry", "availability"}) /\ pc = "idle" /\ MutexFree
  /\ sub' = "open" /\ pc' = "receive"
  /\ hand' = values[Avail]
  /\ UNCHANGED <<sender, public, values, filling, initial, queue, cancelled, told, pending, ws, shown, overtaken>>

RelayAvailable ==
  /\ Sends({"telemetry", "availability"}) /\ hand = None /\ queue # <<>>
  /\ hand' = Head(queue).val
  /\ queue' = Tail(queue)
  /\ UNCHANGED <<sender, public, values, filling, sub, initial, cancelled, pc, told, pending, ws, shown, overtaken>>

\* Mutant: nothing is taken any more once the device is offline.
TakeAvailable_untilOffline ==
  /\ Sends({"telemetry", "availability"}) /\ pc = "receive" /\ hand # None /\ told # "offline"
  /\ told' = hand /\ hand' = None
  /\ shown' = IF Sends({"availability"}) THEN [shown EXCEPT ![Avail] = hand] ELSE shown
  /\ UNCHANGED <<sender, public, storage, cancelled, pc, pending, ws>>

\* The unbuffered availChan; runAvailabilityForwarder publishes at once.
TakeAvailable ==
  /\ Sends({"telemetry", "availability"}) /\ pc = "receive" /\ hand # None
  /\ told' = hand /\ hand' = None
  /\ shown' = IF Sends({"availability"}) THEN [shown EXCEPT ![Avail] = hand] ELSE shown
  /\ UNCHANGED <<sender, public, storage, cancelled, pc, pending, ws>>

\* runTelemetryForwarder at a tick; GetStateFiltered waits for the mutex.
SendTelemetry ==
  /\ Sends({"telemetry"}) /\ pc = "receive" /\ told = "online" /\ MutexFree
  /\ shown' = [values EXCEPT ![Avail] = None]
  /\ UNCHANGED <<sender, public, storage, cancelled, pc, hand, told, pending, ws>>

-----------------------------------------------------------------------------
\* setupValuesWs: a text message with a token; only one of an allowed user
\* counts (isViewAuthenticatedByUser).
AuthMessage ==
  /\ Sends({"ws"}) /\ ~user /\ ~cancelled
  /\ user' = TRUE
  /\ UNCHANGED <<sender, public, storage, cancelled, pc, hand, told, pending, writing, ticking, known, shown>>

Present == {k \in ViewKeys : values[k] # None}

\* startValueSenderOnce, and the start of wsValuesSender: the initial values.
StartWs ==
  /\ Sends({"ws"}) /\ pc = "idle" /\ MutexFree /\ (public \/ user)
  /\ sub' = "open" /\ pc' = "writing"
  /\ writing' = [k \in Keys |-> IF k \in ViewKeys THEN values[k] ELSE None]
  /\ known' = [known EXCEPT !.sender = Present, !.new = Present]
  /\ UNCHANGED <<sender, public, values, filling, initial, queue, cancelled, hand, told, pending,
                 ticking, user, shown, overtaken>>

\* wsSendResponse returns: the browser has the message.
WriteDone ==
  /\ Sends({"ws"}) /\ pc = "writing"
  /\ pc' = "receive"
  /\ shown' = Over(writing, shown) /\ writing' = Nothing
  /\ known' = [known EXCEPT !.new = {}, !.browser = known.browser \cup known.new]
  /\ ticking' = TRUE
  /\ UNCHANGED <<sender, public, storage, cancelled, hand, told, pending, user>>

\* The connection is broken: the sender returns, its subscription stays until
\* the reader has seen it too.
WriteFails ==
  /\ Sends({"ws"}) /\ pc = "writing"
  /\ pc' = "left"
  /\ UNCHANGED <<sender, public, storage, cancelled, hand, told, pending, ws, shown>>

\* Mutant: a value that finds the ticker stopped does not start it.
TakeChange_noTicker ==
  /\ Sends({"ws"}) /\ pc = "receive" /\ queue # <<>>
  /\ LET v == Head(queue)
     IN /\ pending' = [pending EXCEPT ![v.key] = v.val]
        /\ known' = IF v.key \in known.sender THEN known
                      ELSE [known EXCEPT !.sender = @ \cup {v.key}, !.new = @ \cup {v.key}]
  /\ queue' = Tail(queue)
  /\ UNCHANGED <<sender, public, values, filling, sub, initial, cancelled, pc, hand, told, ticking,
                 writing, user, shown, overtaken>>

TakeChange ==
  /\ Sends({"ws"}) /\ pc = "receive" /\ queue # <<>>
  /\ LET v == Head(queue)
     IN /\ pending' = [pending EXCEPT ![v.key] = v.val]
        /\ known' = IF v.key \in known.sender THEN known
                      ELSE [known EXCEPT !.sender = @ \cup {v.key}, !.new = @ \cup {v.key}]
  /\ ticking' = TRUE
  /\ queue' = Tail(queue)
  /\ UNCHANGED <<sender, public, values, filling, sub, initial, cancelled, pc, hand, told,
                 writing, user, shown, overtaken>>

\* At a tick the changes are sent; without one the ticker is stopped.
TickWs ==
  /\ Sends({"ws"}) /\ pc = "receive" /\ ticking
  /\ IF pending # Nothing
       THEN writing' = pending /\ pending' = Nothing /\ pc' = "writing" /\ UNCHANGED ticking
       ELSE ticking' = FALSE /\ UNCHANGED <<writing, pending, pc>>
  /\ UNCHANGED <<sender, public, storage, cancelled, hand, told, known, user, shown>>

-----------------------------------------------------------------------------
Main == \/ StartRealtime \/ PublishValue \/ TakeUpdate
        \/ StartAvailability \/ TakeAvailable
        \/ StartWs \/ TakeChange
Tick == TickUpdates \/ SendTelemetry \/ TickWs
Next ==
  \/ \E k \in Keys : \E v \in Of(k) : Fill(k, v)
  \/ Forward \/ SendInitial \/ Close \/ Main \/ Tick \/ RelayAvailable
  \/ Cancel \/ Leave \/ TakeNil \/ AuthMessage \/ WriteDone \/ WriteFails

Spec == Init /\ [][Next]_vars

\* Routines run, and a select takes each case that is ready again and again;
\* who waits for the mutex or for room gets its turn.  A write to a websocket has
\* no deadline: only once its context is cancelled it must return.
Fairness ==
  /\ SF_vars(Forward) /\ SF_vars(SendInitial) /\ SF_vars(Close) /\ SF_vars(Main) /\ SF_vars(Tick)
  /\ WF_vars(RelayAvailable) /\ WF_vars(cancelled /\ (WriteDone \/ WriteFails))

FairSpec == Spec /\ Fairness
-----------------------------------------------------------------------------
\* Every variable has its type.
TypeOK ==
  /\ sender \in Senders /\ public \in BOOLEAN
  /\ values \in Values /\ sub \in {"new", "open", "closed"}
  /\ filling.key \in Keys \cup {None} /\ filling.val \in AnyVal
  /\ Len(queue) <= Cap /\ \A i \in 1..Len(queue) : queue[i].key \in Wanted
  /\ \A i \in initial : i.key \in Wanted
  /\ cancelled \in BOOLEAN /\ pc \in {"idle", "receive", "writing", "left", "panicked"}
  /\ hand \in Of(Avail) \cup {None} /\ told \in Of(Avail) \cup {None}
  /\ pending \in Values /\ writing \in Values /\ shown \in Values
  /\ ticking \in BOOLEAN /\ user \in BOOLEAN
  /\ known \in [{"sender", "new", "browser"} -> SUBSET Keys] /\ overtaken \subseteq Keys

Newest(k) ==
  LET At == {i \in 1..Len(queue) : queue[i].key = k}
      relayed == Sends({"telemetry", "availability"})
  IN IF filling.key = k THEN filling.val
     ELSE IF At # {} THEN queue[CHOOSE i \in At : \A j \in At : j <= i].val
     ELSE IF relayed /\ hand # None THEN hand
     ELSE IF Sends({"telemetry"}) THEN told
     ELSE Over(pending, Over(writing, shown))[k]

\* No change is lost between the storage and the broker or the browser: of all
\* that is on its way the newest is the value in the storage.  Not so for a value
\* that changes while the initial one still waits to be sent (SubscribeSendInitial).
\* What a browser has of a view that is not public, an allowed user asked for,
\* and it was told of each register before, or with, its first value.
KnowsLatest ==
  /\ sub = "open" =>
       \A k \in Wanted \ overtaken :
         (\A i \in initial : i.key # k) => Newest(k) = values[k]
  /\ Sends({"ws"}) =>
       /\ {k \in Keys : shown[k] # None} \subseteq known.browser
       /\ shown # Nothing => public \/ user

Serves(k) ==
  CASE Sends({"telemetry"}) -> k # Avail /\ values[Avail] = "online"
    [] Sends({"ws"}) -> k \in ViewKeys /\ (public \/ user)
    [] OTHER -> k \in Wanted

\* Each write to the browser ends.
WritesEnd == []<>(pc # "writing")

\* A value that stays is shown, if only the browser goes on reading: a change is
\* never stuck in a map, a channel or a routine.
CatchesUp ==
  WritesEnd =>
    \A k \in Keys : \A v \in Of(k) :
      values[k] = v ~> (shown[k] = v \/ values[k] # v \/ ~Serves(k) \/ k \in overtaken
                        \/ cancelled \/ pc = "left")

Departed == pc \in {"left", "panicked"} /\ Len(queue) = Cap
Stalled == pc = "writing" /\ Len(queue) = Cap

\* The storage, and with it every device, waits forever only for a sender that
\* has returned while its channel was full (the telemetry, availability and
\* delayed senders at ctx.Done(), the websocket after a failed write), or for a
\* browser that neither reads nor leaves.
BlockedByDeparted ==
  /\ WritesEnd => (filling # none ~> (filling = none \/ Departed))
  /\ filling # none ~> (filling = none \/ Departed \/ Stalled)
=============================================================================
