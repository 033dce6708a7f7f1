----------------------------- MODULE RegisterDb -----------------------------
(***************************************************************************)
(* dataflow.RegisterDb: the map of the registers of a device.  AddStruct   *)
(* holds the lock while it sends every new or changed register to the      *)
(* bounded channels of the subscriptions.  One routine per subscription    *)
(* sends the registers known at the start, without a look at the context,  *)
(* then waits for ctx.Done(), removes the subscription and closes it.      *)
(*                                                                         *)
(* A consumer selects on ctx.Done() and its channel.  Some look the        *)
(* register up in the database (GetByName) before they receive again.      *)
(***************************************************************************)
EXTENDS Integers, Sequences, SequencesExt

CONSTANTS
  Names,      \* names of registers
  Kinds,      \* all that Equals compares besides the name
  Nil,        \* no register
  Subs,       \* subscriptions
  Lookers,    \* those whose consumer calls GetByName
  Filter,     \* Filter[s]: the registers subscription s lets through
  Cap,        \* capacity of outputChannel, 16 in the code
  MaxSaves    \* bound: registers handed to AddStruct

Registers == [name : Names, kind : Kinds]

ASSUME RegisterAssumption == Nil \notin Registers
ASSUME SubscriptionAssumption == Lookers \subseteq Subs /\ Filter \in [Subs -> SUBSET Registers]
ASSUME CapacityAssumption == Cap \in Nat \ {0} /\ MaxSaves \in Nat

VARIABLES
  registers,  \* RegisterDb.registers
  adding,     \* what AddStruct has yet to handle; it holds the lock
  next,       \* position of the next subscription to send to; 0: not saved
  list,       \* subscriptions
  subPc,      \* the routine of each subscription
  initial,    \* the initial registers it has not sent yet
  queue,      \* outputChannel
  cancelled,  \* the context of the subscription
  consumer,   \* "receive", "lookup" or "left"
  held,       \* the register the consumer looks up
  seen,       \* history: the registers received
  overtaken,  \* history: names changed while their initial register waited
  saved       \* history: number of registers handed to AddStruct

adder == <<registers, adding, next, saved>>
consumers == <<consumer, held, seen>>
dbVars == <<adder, list, subPc, initial, queue, cancelled, consumers, overtaken>>

DbInit ==
  /\ registers = [n \in Names |-> Nil] /\ adding = <<>> /\ next = 0 /\ saved = 0
  /\ list = <<>>
  /\ subPc \in [Subs -> {"new", "off"}]   \* off: not configured
  /\ initial = [s \in Subs |-> {}]
  /\ queue = [s \in Subs |-> <<>>]
  /\ cancelled = [s \in Subs |-> FALSE]
  /\ consumer = [s \in Subs |-> "receive"]
  /\ held = [s \in Subs |-> Nil]
  /\ seen = [s \in Subs |-> {}]
  /\ overtaken = [s \in Subs |-> {}]

LockFree == adding = <<>>

-----------------------------------------------------------------------------
\* AddStruct of a batch of registers.
AddStruct(batch) ==
  /\ LockFree /\ batch # <<>>
  /\ saved + Len(batch) <= MaxSaves
  /\ adding' = batch /\ saved' = saved + Len(batch)
  /\ UNCHANGED <<registers, next, list, subPc, initial, queue, cancelled, consumers, overtaken>>

\* An equal register is skipped, another saved and then sent.
AddSkip ==
  /\ adding # <<>> /\ next = 0
  /\ registers[Head(adding).name] = Head(adding)
  /\ adding' = Tail(adding)
  /\ UNCHANGED <<registers, next, saved, list, subPc, initial, queue, cancelled, consumers, overtaken>>

AddSave ==
  /\ adding # <<>> /\ next = 0
  /\ registers[Head(adding).name] # Head(adding)
  /\ registers' = [registers EXCEPT ![Head(adding).name] = Head(adding)]
  /\ next' = 1
  /\ UNCHANGED <<adding, saved, list, subPc, initial, queue, cancelled, consumers, overtaken>>

Waiting(s, n) == \E r \in initial[s] : r.name = n

\* One subscription: the send waits for room in its channel.
AddForward ==
  /\ next \in 1..Len(list)
  /\ LET s == list[next]
         r == Head(adding)
     IN IF r \in Filter[s]
          THEN /\ Len(queue[s]) < Cap
               /\ queue' = [queue EXCEPT ![s] = Append(queue[s], r)]
               /\ overtaken' = IF Waiting(s, r.name)
                                 THEN [overtaken EXCEPT ![s] = overtaken[s] \cup {r.name}]
                                 ELSE overtaken
          ELSE UNCHANGED <<queue, overtaken>>
  /\ next' = next + 1
  /\ UNCHANGED <<registers, adding, saved, list, subPc, initial, cancelled, consumers>>

\* Mutant: the lock is kept after the last register.
AddNext_keepsLock ==
  /\ next > Len(list) /\ Len(adding) > 1
  /\ adding' = Tail(adding) /\ next' = 0
  /\ UNCHANGED <<registers, saved, list, subPc, initial, queue, cancelled, consumers, overtaken>>

AddNext ==
  /\ next > Len(list)
  /\ adding' = Tail(adding) /\ next' = 0
  /\ UNCHANGED <<registers, saved, list, subPc, initial, queue, cancelled, consumers, overtaken>>

-----------------------------------------------------------------------------
\* getFilteredUnlocked
Filtered(s) == {r \in Filter[s] : registers[r.name] = r}

\* Mutant: listed, but without the registers known already.
Subscribe_noInitial(s) ==
  /\ subPc[s] = "new" /\ LockFree
  /\ list' = Append(list, s)
  /\ initial' = initial
  /\ subPc' = [subPc EXCEPT ![s] = "sending"]
  /\ UNCHANGED <<adder, queue, cancelled, consumers, overtaken>>

\* Mutant: the lock is not taken.
Subscribe_unlocked(s) ==
  /\ subPc[s] = "new"
  /\ list' = Append(list, s)
  /\ initial' = [initial EXCEPT ![s] = Filtered(s)]
  /\ subPc' = [subPc EXCEPT ![s] = "sending"]
  /\ UNCHANGED <<adder, queue, cancelled, consumers, overtaken>>

\* Subscribe, and its routine started.
Subscribe(s) ==
  /\ subPc[s] = "new" /\ LockFree
  /\ list' = Append(list, s)
  /\ initial' = [initial EXCEPT ![s] = Filtered(s)]
  /\ subPc' = [subPc EXCEPT ![s] = "sending"]
  /\ UNCHANGED <<adder, queue, cancelled, consumers, overtaken>>

\* Go visits the elements of a map in any order.
SendInitial(s) ==
  /\ subPc[s] = "sending" /\ Len(queue[s]) < Cap
  /\ \E r \in initial[s] :
       /\ initial' = [initial EXCEPT ![s] = initial[s] \ {r}]
       /\ queue' = [queue EXCEPT ![s] = Append(queue[s], r)]
  /\ UNCHANGED <<adder, list, subPc, cancelled, consumers, overtaken>>

\* A context is cancelled; S are the subscriptions made with it.
Cancel(S) ==
  /\ \E s \in S : ~cancelled[s]
  /\ cancelled' = [s \in Subs |-> cancelled[s] \/ s \in S]
  /\ UNCHANGED <<adder, list, subPc, initial, queue, consumers, overtaken>>

\* After <-ctx.Done(): removed under the lock, then closed.
Unsubscribe(s) ==
  /\ subPc[s] = "sending" /\ initial[s] = {} /\ cancelled[s] /\ LockFree
  /\ \E i \in 1..Len(list) : list[i] = s /\ list' = RemoveAt(list, i)
  /\ subPc' = [subPc EXCEPT ![s] = "closed"]
  /\ UNCHANGED <<adder, initial, queue, cancelled, consumers, overtaken>>

-----------------------------------------------------------------------------
\* The consumer takes a register.  Left out: from the closed channel, before it
\* returns at ctx.Done(), it may also take registers without a name, which it looks
\* up in vain or publishes with a client that is shut down.
Receive(s) ==
  /\ consumer[s] = "receive" /\ queue[s] # <<>>
  /\ LET r == Head(queue[s])
     IN /\ queue' = [queue EXCEPT ![s] = Tail(queue[s])]
        /\ seen' = [seen EXCEPT ![s] = seen[s] \cup {r}]
        /\ IF s \in Lookers
             THEN /\ consumer' = [consumer EXCEPT ![s] = "lookup"]
                  /\ held' = [held EXCEPT ![s] = r]
             ELSE UNCHANGED <<consumer, held>>
  /\ UNCHANGED <<adder, list, subPc, initial, cancelled, overtaken>>

\* GetByName waits for the lock.
Look(s) ==
  /\ consumer[s] = "lookup" /\ LockFree
  /\ consumer' = [consumer EXCEPT ![s] = "receive"]
  /\ held' = [held EXCEPT ![s] = Nil]
  /\ UNCHANGED <<adder, list, subPc, initial, queue, cancelled, seen, overtaken>>

\* The consumer returns at ctx.Done().
Leave(s) ==
  /\ consumer[s] = "receive" /\ cancelled[s]
  /\ consumer' = [consumer EXCEPT ![s] = "left"]
  /\ UNCHANGED <<adder, list, subPc, initial, queue, cancelled, held, seen, overtaken>>

-----------------------------------------------------------------------------
Batches == UNION {[1..k -> Registers] : k \in 1..2}   \* bound: two at a time

Adder == AddSkip \/ AddSave \/ AddForward \/ AddNext

DbNext ==
  \/ \E batch \in Batches : AddStruct(batch)
  \/ Adder
  \/ \E S \in SUBSET Subs : Cancel(S)
  \/ \E s \in Subs : \/ Subscribe(s) \/ SendInitial(s) \/ Unsubscribe(s)
                     \/ Receive(s) \/ Look(s) \/ Leave(s)

DbSpec == DbInit /\ [][DbNext]_dbVars
-----------------------------------------------------------------------------
\* Every variable has its type.
DbTypeOK ==
  /\ registers \in [Names -> Registers \cup {Nil}]
  /\ \A n \in Names : registers[n] # Nil => registers[n].name = n
  /\ adding \in Seq(Registers) /\ next \in Nat /\ saved \in Nat
  /\ next # 0 => adding # <<>> /\ registers[Head(adding).name] = Head(adding)
  /\ list \in Seq(Subs)
  /\ subPc \in [Subs -> {"off", "new", "sending", "closed"}]
  /\ initial \in [Subs -> SUBSET Registers]
  /\ queue \in [Subs -> Seq(Registers)]
  /\ \A s \in Subs : Len(queue[s]) <= Cap
  /\ cancelled \in [Subs -> BOOLEAN]
  /\ consumer \in [Subs -> {"receive", "lookup", "left"}]
  /\ held \in [Subs -> Registers \cup {Nil}]
  /\ seen \in [Subs -> SUBSET Registers]
  /\ overtaken \in [Subs -> SUBSET Names]

Listed(s) == \E i \in 1..Len(list) : list[i] = s

\* AddStruct has yet to send its register to s.
Pending(s) == next # 0 /\ \E i \in next..Len(list) : list[i] = s

Queued(s, r) == \E i \in 1..Len(queue[s]) : queue[s][i] = r

\* AddStruct never sends on a closed channel, which would panic.
ListedIsOpen == \A s \in Subs : Listed(s) <=> subPc[s] = "sending"

\* The snapshot at the start and the changes after it leave no gap: the present
\* form of each register a subscription wants has been received by it, waits in
\* its channel, is to be sent as an initial one, or is being sent.
NothingLost ==
  \A s \in Subs : Listed(s) =>
    \A n \in Names :
      registers[n] \in Filter[s] =>
        \/ registers[n] \in seen[s] \cup initial[s]
        \/ Queued(s, registers[n])
        \/ Pending(s) /\ Head(adding) = registers[n]

\* AddStruct, or the routine of a subscription, waits for room in a channel that
\* its consumer does not empty: it has left, or it waits for the lock.
Stuck(s) ==
  /\ Len(queue[s]) = Cap
  /\ \/ next \in 1..Len(list) /\ list[next] = s /\ Head(adding) \in Filter[s]
     \/ initial[s] # {}
  /\ consumer[s] = "left" \/ (consumer[s] = "lookup" /\ ~LockFree)

\* A device that hands no more registers to AddStruct than a channel takes is
\* never blocked by a consumer that has left or that calls GetByName.
BlockedNeedsBurst == \A s \in Subs : Stuck(s) => saved > Cap
=============================================================================
