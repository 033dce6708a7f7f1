---------------------------- MODULE ValueStorage ----------------------------
(***************************************************************************)
(* dataflow.ValueStorage: the map of the last value of every register,     *)
(* filled through a bounded channel, updated by one main routine, which    *)
(* forwards each change to the bounded channel of every subscription that  *)
(* wants it.  One routine per subscription sends the initial values and    *)
(* removes and closes the subscription when its context is cancelled.      *)
(*                                                                         *)
(* Producers are the callers of Fill.  A consumer keeps a view: the last   *)
(* value it knows of each key.  A draining consumer ranges over Drain()    *)
(* until the channel is closed; the others select on ctx.Done() as well    *)
(* and leave when it is cancelled.                                         *)
(***************************************************************************)
EXTENDS Integers, SequencesExt

CONSTANTS
  Keys,         \* StateKey: a device and a register name
  Vals,         \* values a register can have
  Null,         \* the NullRegisterValue; in a map: no entry
  Producers,    \* routines that call Fill
  Subs,         \* subscriptions
  WithInitial,  \* those made by SubscribeSendInitial, the others ReturnInitial
  Drains,       \* those whose consumer ranges until the channel is closed
  Filter,       \* Filter[s]: the keys subscription s lets through
  InputCap,     \* capacity of inputChannel, 32 in the code
  OutCap        \* subscriptionDefaultCap, 128 in the code

ASSUME NullAssumption == Null \notin Vals \cup Keys
ASSUME SubsAssumption == WithInitial \subseteq Subs /\ Drains \subseteq Subs
ASSUME FilterAssumption == Filter \in [Subs -> SUBSET Keys]
ASSUME CapAssumption == InputCap \in Nat \ {0} /\ OutCap \in Nat \ {0}

ValueSet == [key : Keys, val : Vals \cup {Null}]
Maps == [Keys -> Vals \cup {Null}]
Empty == [k \in Keys |-> Null]

VARIABLES
  state,      \* ValueStorage.state
  input,      \* inputChannel
  wg,         \* inputWaitGroup
  fill,       \* fill[p]: the value producer p is in Fill with, or none
  mainPc,     \* the main routine: it holds the mutex while it forwards
  cur,        \* newValue of the main routine, or none
  next,       \* position in the list of the subscription to forward to next
  list,       \* subscriptions
  subPc,      \* the routine of each subscription
  toSend,     \* initial values this routine has not sent yet
  out,        \* outputChannel of each subscription
  cancelled,  \* the subscription's context is cancelled
  shutdown,   \* the storage's context is cancelled
  consumer,   \* "reading" or "left"
  view,       \* what the consumer knows
  accepted    \* history: the last value of each key sent to inputChannel

none == [key |-> Null, val |-> Null]

storage == <<state, input, wg, mainPc, cur, next, shutdown>>
subscriptions == <<list, subPc, toSend, out, cancelled, consumer, view>>
vars == <<state, input, wg, fill, mainPc, cur, next, list, subPc, toSend, out,
          cancelled, shutdown, consumer, view, accepted>>

Init ==
  /\ state = Empty /\ input = <<>> /\ wg = 0
  /\ fill = [p \in Producers |-> none]
  /\ mainPc = "recv" /\ cur = none /\ next = 1 /\ shutdown = FALSE
  /\ list = <<>>
  /\ subPc = [s \in Subs |-> "new"]
  /\ toSend = [s \in Subs |-> {}]
  /\ out = [s \in Subs |-> <<>>]
  /\ cancelled = [s \in Subs |-> FALSE]
  /\ consumer = [s \in Subs |-> "reading"]
  /\ view = [s \in Subs |-> Empty]
  /\ accepted = Empty

\* Every critical section but forwarding is one step; it waits for the mutex.
MutexFree == mainPc # "forward"

-----------------------------------------------------------------------------
\* Mutant: the value is not counted before it is sent.
FillAdd_uncounted(p) ==
  /\ fill[p] = none
  /\ \E v \in ValueSet : fill' = [fill EXCEPT ![p] = v]
  /\ UNCHANGED <<state, input, wg, mainPc, cur, next, shutdown, subscriptions, accepted>>

\* Fill: count the value, then send it, waiting for room in the channel.
FillAdd(p) ==
  /\ fill[p] = none
  /\ \E v \in ValueSet : fill' = [fill EXCEPT ![p] = v]
  /\ wg' = wg + 1
  /\ UNCHANGED <<state, input, mainPc, cur, next, shutdown, subscriptions, accepted>>

FillSend(p) ==
  /\ fill[p] # none
  /\ Len(input) < InputCap
  /\ input' = Append(input, fill[p])
  /\ accepted' = [accepted EXCEPT ![fill[p].key] = fill[p].val]
  /\ fill' = [fill EXCEPT ![p] = none]
  /\ UNCHANGED <<state, wg, mainPc, cur, next, shutdown, subscriptions>>

-----------------------------------------------------------------------------
\* mainStorageRoutine
MainReceive ==
  /\ mainPc = "recv" /\ input # <<>>
  /\ cur' = Head(input) /\ input' = Tail(input)
  /\ mainPc' = "lock"
  /\ UNCHANGED <<state, wg, fill, next, shutdown, subscriptions, accepted>>

\* updateState: an entry equal to the new value is no change; a null value
\* removes the entry, and counts as a change when there is none too.
Unchanged(v) == v.val # Null /\ state[v.key] = v.val

\* Mutant: the mutex is kept when nothing has changed.
MainSkip_keepsMutex ==
  /\ mainPc = "lock" /\ Unchanged(cur)
  /\ mainPc' = "blocked"
  /\ UNCHANGED <<state, input, wg, fill, cur, next, shutdown, subscriptions, accepted>>

MainSkip ==
  /\ mainPc = "lock" /\ Unchanged(cur)
  /\ wg' = wg - 1
  /\ mainPc' = "recv" /\ cur' = none
  /\ UNCHANGED <<state, input, fill, next, shutdown, subscriptions, accepted>>

MainUpdate ==
  /\ mainPc = "lock" /\ ~Unchanged(cur)
  /\ state' = [state EXCEPT ![cur.key] = cur.val]
  /\ mainPc' = "forward" /\ next' = 1
  /\ UNCHANGED <<input, wg, fill, cur, shutdown, subscriptions, accepted>>

\* Mutant: a value for a full channel is dropped.
MainForward_drops ==
  /\ mainPc = "forward" /\ next <= Len(list)
  /\ LET s == list[next]
     IN out' = IF cur.key \in Filter[s] /\ Len(out[s]) < OutCap
                 THEN [out EXCEPT ![s] = Append(out[s], cur)] ELSE out
  /\ next' = next + 1
  /\ UNCHANGED <<state, input, wg, fill, mainPc, cur, shutdown, list, subPc, toSend,
                 cancelled, consumer, view, accepted>>

\* forwardToSubscriptions, one element of the list: the send waits for room.
MainForward ==
  /\ mainPc = "forward" /\ next <= Len(list)
  /\ LET s == list[next]
     IN \/ /\ cur.key \notin Filter[s]
           /\ UNCHANGED out
        \/ /\ cur.key \in Filter[s]
           /\ Len(out[s]) < OutCap
           /\ out' = [out EXCEPT ![s] = Append(out[s], cur)]
  /\ next' = next + 1
  /\ UNCHANGED <<state, input, wg, fill, mainPc, cur, shutdown, list, subPc, toSend,
                 cancelled, consumer, view, accepted>>

MainUnlock ==
  /\ mainPc = "forward" /\ next > Len(list)
  /\ wg' = wg - 1
  /\ mainPc' = "recv" /\ cur' = none /\ next' = 1
  /\ UNCHANGED <<state, input, fill, shutdown, subscriptions, accepted>>

\* Shutdown, and the main routine seeing it.
Shutdown ==
  /\ ~shutdown
  /\ shutdown' = TRUE
  /\ UNCHANGED <<state, input, wg, fill, mainPc, cur, next, subscriptions, accepted>>

MainStop ==
  /\ mainPc = "recv" /\ shutdown
  /\ mainPc' = "stopped"
  /\ UNCHANGED <<state, input, wg, fill, cur, next, shutdown, subscriptions, accepted>>

-----------------------------------------------------------------------------
\* The values of the keys a subscription lets through, present in the map.
Snapshot(s) ==
  {v \in ValueSet : v.key \in Filter[s] /\ v.val # Null /\ state[v.key] = v.val}

\* newSubscription, and the routine of the subscription started.  With
\* SubscribeReturnInitial the caller knows the snapshot at once.
Subscribe(s) ==
  /\ subPc[s] = "new" /\ MutexFree
  /\ list' = Append(list, s)
  /\ subPc' = [subPc EXCEPT ![s] = "sending"]
  /\ IF s \in WithInitial
       THEN toSend' = [toSend EXCEPT ![s] = Snapshot(s)] /\ UNCHANGED view
       ELSE /\ view' = [view EXCEPT ![s] =
                          [k \in Keys |-> IF k \in Filter[s] THEN state[k] ELSE Null]]
            /\ UNCHANGED toSend
  /\ UNCHANGED <<storage, fill, out, cancelled, consumer, accepted>>

\* sendInitialAndCleanupValueSubscription: one initial value, in any order.
SendInitial(s) ==
  /\ subPc[s] = "sending" /\ Len(out[s]) < OutCap
  /\ \E v \in toSend[s] :
       /\ out' = [out EXCEPT ![s] = Append(out[s], v)]
       /\ toSend' = [toSend EXCEPT ![s] = toSend[s] \ {v}]
  /\ UNCHANGED <<storage, fill, list, subPc, cancelled, consumer, view, accepted>>

\* Mutant: the channel is closed without the removal from the list.
SeeCancel_keepsListed(s) ==
  /\ subPc[s] = "sending" /\ cancelled[s]
  /\ subPc' = [subPc EXCEPT ![s] = "removed"]
  /\ UNCHANGED <<storage, fill, list, toSend, out, cancelled, consumer, view, accepted>>

\* Mutant: cleanup waits until the consumer has gone.
SeeCancel_waitsForConsumer(s) ==
  /\ subPc[s] = "sending" /\ cancelled[s] /\ consumer[s] = "left"
  /\ subPc' = [subPc EXCEPT ![s] = "cleanup"]
  /\ UNCHANGED <<storage, fill, list, toSend, out, cancelled, consumer, view, accepted>>

\* ctx.Done() seen while sending or after.
SeeCancel(s) ==
  /\ subPc[s] = "sending" /\ cancelled[s]
  /\ subPc' = [subPc EXCEPT ![s] = "cleanup"]
  /\ UNCHANGED <<storage, fill, list, toSend, out, cancelled, consumer, view, accepted>>

\* The deferred cleanup: remove under the lock, then close the channel.
RemoveElem(s) ==
  /\ subPc[s] = "cleanup" /\ MutexFree
  /\ \E i \in 1..Len(list) : list[i] = s /\ list' = RemoveAt(list, i)
  /\ subPc' = [subPc EXCEPT ![s] = "removed"]
  /\ UNCHANGED <<storage, fill, toSend, out, cancelled, consumer, view, accepted>>

Close(s) ==
  /\ subPc[s] = "removed"
  /\ subPc' = [subPc EXCEPT ![s] = "closed"]
  /\ UNCHANGED <<storage, fill, list, toSend, out, cancelled, consumer, view, accepted>>

-----------------------------------------------------------------------------
\* The consumer takes a value.
Consume(s) ==
  /\ consumer[s] = "reading" /\ out[s] # <<>>
  /\ view' = [view EXCEPT ![s][Head(out[s]).key] = Head(out[s]).val]
  /\ out' = [out EXCEPT ![s] = Tail(out[s])]
  /\ UNCHANGED <<storage, fill, list, subPc, toSend, cancelled, consumer, accepted>>

\* The owner of the subscription cancels its context.
Cancel(s) ==
  /\ subPc[s] # "new" /\ ~cancelled[s]
  /\ cancelled' = [cancelled EXCEPT ![s] = TRUE]
  /\ UNCHANGED <<storage, fill, list, subPc, toSend, out, consumer, view, accepted>>

\* A draining consumer leaves at the end of the channel, another at ctx.Done().
Leave(s) ==
  /\ consumer[s] = "reading"
  /\ IF s \in Drains THEN subPc[s] = "closed" /\ out[s] = <<>> ELSE cancelled[s]
  /\ consumer' = [consumer EXCEPT ![s] = "left"]
  /\ UNCHANGED <<storage, fill, list, subPc, toSend, out, cancelled, view, accepted>>

-----------------------------------------------------------------------------
Main == \/ MainReceive \/ MainSkip \/ MainUpdate \/ MainForward \/ MainUnlock \/ MainStop

Next ==
  \/ Main \/ Shutdown
  \/ \E p \in Producers : FillAdd(p) \/ FillSend(p)
  \/ \E s \in Subs : \/ Subscribe(s) \/ SendInitial(s) \/ SeeCancel(s)
                     \/ RemoveElem(s) \/ Close(s)
                     \/ Consume(s) \/ Cancel(s) \/ Leave(s)

Spec == Init /\ [][Next]_vars

\* Every routine runs; a writer waiting for a sync.RWMutex and a sender waiting
\* for room in a channel get their turn; select takes a ready case in time.
Fairness ==
  /\ WF_vars(Main)
  /\ \A p \in Producers : SF_vars(FillSend(p))
  /\ \A s \in Subs : /\ SF_vars(RemoveElem(s)) /\ WF_vars(Close(s)) /\ WF_vars(SeeCancel(s))
                     /\ WF_vars(Consume(s))

FairSpec == Spec /\ Fairness

-----------------------------------------------------------------------------
\* Every variable has its type.
TypeOK ==
  /\ state \in Maps /\ accepted \in Maps
  /\ input \in Seq(ValueSet) /\ Len(input) <= InputCap
  /\ wg \in Int
  /\ fill \in [Producers -> ValueSet \cup {none}]
  /\ mainPc \in {"recv", "lock", "forward", "stopped"}
  /\ cur \in ValueSet \cup {none}
  /\ (cur = none) <=> (mainPc \in {"recv", "stopped"})
  /\ next \in Nat \ {0}
  /\ list \in Seq(Subs)
  /\ subPc \in [Subs -> {"new", "sending", "cleanup", "removed", "closed"}]
  /\ toSend \in [Subs -> SUBSET ValueSet]
  /\ out \in [Subs -> Seq(ValueSet)]
  /\ \A s \in Subs : Len(out[s]) <= OutCap
  /\ cancelled \in [Subs -> BOOLEAN] /\ shutdown \in BOOLEAN
  /\ consumer \in [Subs -> {"reading", "left"}]
  /\ view \in [Subs -> Maps]

Listed(s) == \E i \in 1..Len(list) : list[i] = s

\* The main routine has yet to forward cur to s.
Pending(s) == mainPc = "forward" /\ \E i \in next..Len(list) : list[i] = s

\* What the consumer will know of key k when it has taken all of its channel.
Knows(s, k, v) ==
  \/ \E i \in 1..Len(out[s]) :
       /\ out[s][i] = [key |-> k, val |-> v]
       /\ \A j \in (i + 1)..Len(out[s]) : out[s][j].key # k
  \/ view[s][k] = v /\ \A i \in 1..Len(out[s]) : out[s][i].key # k

\* SubscribeReturnInitial loses, repeats and reorders nothing: the snapshot and
\* the queued changes always lead the consumer to the state of the map, but for
\* the one change being forwarded; whatever the interleaving of the calls.
UpToDate(s) ==
  \A k \in Filter[s] : ~(Pending(s) /\ cur.key = k) => Knows(s, k, state[k])

SnapshotThenChanges == \A s \in Subs \ WithInitial : Listed(s) => UpToDate(s)

\* The main routine never sends on a closed channel, which would panic: a
\* subscription in the list is open.  (Cleanup against forwarding.)
ListedIsOpen ==
  \A s \in Subs : Listed(s) <=> subPc[s] \in {"sending", "cleanup"}

\* When Wait returns, every value whose Fill has been called is in the map and
\* forwarded: the wait group counts a value until its last send, and is never
\* counted below zero, which would panic.
WaitMeansDone ==
  /\ wg >= 0
  /\ wg = 0 => /\ state = accepted /\ input = <<>> /\ MutexFree
               /\ \A p \in Producers : fill[p] = none

\* Back-pressure ends: with draining consumers every Fill returns unless the
\* storage was shut down.
FillReturns ==
  \A p \in Producers : fill[p] # none ~> (fill[p] = none \/ shutdown)

\* A cancelled subscription is removed and closed, though the main routine holds
\* the lock while it waits for room in that very channel.
CancelCloses == \A s \in Subs : cancelled[s] ~> subPc[s] = "closed"
=============================================================================
