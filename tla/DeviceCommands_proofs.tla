------------------------ MODULE DeviceCommands_proofs ------------------------
(***************************************************************************)
(* Theorems of DeviceCommands for all registers, values, capacities,       *)
(* numbers of runs and bursts of commands.                                 *)
(***************************************************************************)
EXTENDS DeviceCommands, SequenceTheorems, TLAPS

USE NullAssumption, CapAssumption, OutcomesAssumption, BoundsAssumption,
    IntervalAssumption, RangeAssumption

-----------------------------------------------------------------------------
\* The wait before a retry is a number, whatever has overflowed.
LEMMA RetryType == ASSUME NEW n \in Nat PROVE getRestartInterval(n) \in Int
<1>. DEFINE x == RestartInterval * BackoffFactor(n)
<1>1. x \in Int
  <2>1. BackoffFactor(n) \in Int
    BY DEF BackoffFactor
  <2>. QED BY <2>1
<1>2. Wrapped(x) \in Int
  BY <1>1 DEF Wrapped
<1>. QED BY <1>2 DEF getRestartInterval

LEMMA HeadTailType ==
  ASSUME NEW S, NEW q \in Seq(S), q # <<>>
  PROVE  /\ Head(q) \in S /\ Tail(q) \in Seq(S) /\ Len(Tail(q)) = Len(q) - 1
         /\ Head(q) = q[1] /\ \A i \in 1..(Len(q) - 1) : Tail(q)[i] = q[i + 1]
OBVIOUS

LEMMA AppendType ==
  ASSUME NEW S, NEW q \in Seq(S), NEW e \in S
  PROVE  /\ Append(q, e) \in Seq(S) /\ Len(Append(q, e)) = Len(q) + 1
         /\ Append(q, e)[Len(q) + 1] = e
         /\ \A i \in 1..Len(q) : Append(q, e)[i] = q[i]
OBVIOUS

\* A command, a reset and nothing are told apart by their value.
LEMMA Kinds ==
  /\ \A v \in CommandSet : v.val # Null /\ v.reg \in Regs /\ v.val \in Vals /\ v.id \in 1..MaxIssues
  /\ \A v \in SentSet : v.reg \in Regs /\ (v \in CommandSet <=> v.val # Null)
  /\ nothing.val = Null /\ nothing \notin CommandSet
BY DEF CommandSet, ResetSet, SentSet, nothing

-----------------------------------------------------------------------------
\* Where the routines are, and which subscription is the next.
Control ==
  /\ Up => subs >= 1
  /\ dpc # "connect" => rpc = "run"
  /\ (rpc # "done" /\ dpc \in {"connect", "subscribe"}) => subs < MaxSubs
  /\ \A i \in 1..MaxSubs : i > subs => queue[i] = <<>>

LEMMA InitType == Init => TypeOK /\ Control
<1>. SUFFICES ASSUME Init PROVE TypeOK /\ Control
  OBVIOUS
<1>1. RestarterTypeOK
  <2>1. cancelled \in BOOLEAN /\ joined \in BOOLEAN
    BY Zenon DEF Init, RestarterInit
  <2>. QED BY <2>1 DEF Init, RestarterInit, RestarterTypeOK
<1>2. commands \in [Regs -> CommandSet \cup {nothing}] /\ queue \in [1..MaxSubs -> Seq(CommandSet)]
  BY DEF Init
<1>3. avail \in BOOLEAN
  BY Zenon DEF Init
<1>4. TypeOK
  BY <1>1, <1>2, <1>3 DEF Init, TypeOK
<1>5. Control
  BY DEF Init, Control, Up, RestarterInit
<1>. QED BY <1>4, <1>5

\* The steps of the restarter keep its types.
LEMMA FailsType ==
  ASSUME RestarterTypeOK, NEW immediate \in BOOLEAN, ServiceFails(immediate)
  PROVE  RestarterTypeOK' /\ rpc = "run" /\ rpc' = "backoff"
<1>1. errorsInARow' \in 0..MaxErrors
  BY DEF RestarterTypeOK, ServiceFails
<1>2. retryIn' \in Int
  BY <1>1, RetryType DEF ServiceFails
<1>. QED BY <1>1, <1>2 DEF RestarterTypeOK, ServiceFails

LEMMA RestarterStepType ==
  ASSUME RestarterTypeOK, Start \/ Retry \/ GiveUp \/ Shutdown \/ ShutdownReturns
  PROVE  RestarterTypeOK'
BY DEF RestarterTypeOK, Start, Retry, GiveUp, Shutdown, ShutdownReturns

LEMMA StepType == TypeOK /\ Control /\ [Next]_vars => TypeOK' /\ Control'
<1>. SUFFICES ASSUME TypeOK, Control, [Next]_vars PROVE TypeOK' /\ Control'
  OBVIOUS
<1>. USE DEF rvars, dvars
<1>1. CASE Issue
  <2>. PICK r \in Regs, v \in Vals :
         /\ input' = Append(input, [reg |-> r, val |-> v, id |-> issued'])
         /\ lastIssued' = [lastIssued EXCEPT ![r] = v]
         /\ asked' = IF Up THEN asked \cup {r} ELSE asked
    BY <1>1 DEF Issue
  <2>1. issued' \in 1..MaxIssues /\ issued' = issued + 1
    BY <1>1 DEF Issue, TypeOK
  <2>2. [reg |-> r, val |-> v, id |-> issued'] \in SentSet
    BY <2>1 DEF SentSet, CommandSet
  <2>3. input' \in Seq(SentSet) /\ Len(input') <= InCap
    BY <1>1, <2>2, AppendType DEF Issue, TypeOK
  <2>4. lastIssued' \in [Regs -> Vals \cup {Null}] /\ asked' \subseteq Regs
    BY DEF TypeOK
  <2>5. RestarterTypeOK'
    BY <1>1 DEF Issue, TypeOK, RestarterTypeOK
  <2>6. TypeOK'
    BY <1>1, <2>1, <2>3, <2>4, <2>5 DEF Issue, TypeOK
  <2>. QED BY <1>1, <2>6 DEF Issue, Control, Up
<1>2. CASE StorageTake
  <2>. DEFINE v == Head(input)
  <2>1. /\ v \in SentSet /\ Tail(input) \in Seq(SentSet)
        /\ Len(Tail(input)) = Len(input) - 1
    BY <1>2, HeadTailType DEF StorageTake, TypeOK
  <2>2. PICK equal \in BOOLEAN :
          /\ equal = (v.val # Null /\ commands[v.reg].val = v.val)
          /\ commands' = IF equal THEN commands
                         ELSE [commands EXCEPT ![v.reg] = IF v.val = Null THEN nothing ELSE v]
          /\ forwarding' = IF equal THEN nothing ELSE v
          /\ taken' = IF v.val = Null THEN taken ELSE v.id
    BY <1>2 DEF StorageTake
  <2>. HIDE DEF v
  <2>3. v.reg \in Regs /\ (v.val # Null => v \in CommandSet /\ v.id \in 1..MaxIssues)
    BY <2>1, Kinds
  <2>4. commands' \in [Regs -> CommandSet \cup {nothing}]
    BY <2>2, <2>3 DEF TypeOK
  <2>5. forwarding' \in SentSet \cup {nothing} /\ taken' \in 0..MaxIssues
    BY <2>1, <2>2, <2>3 DEF TypeOK
  <2>6. input' \in Seq(SentSet) /\ Len(input') <= InCap
    BY <1>2, <2>1 DEF StorageTake, TypeOK, v
  <2>7. RestarterTypeOK'
    BY <1>2 DEF StorageTake, TypeOK, RestarterTypeOK
  <2>8. TypeOK'
    BY <1>2, <2>4, <2>5, <2>6, <2>7 DEF StorageTake, TypeOK
  <2>. QED BY <1>2, <2>8 DEF StorageTake, Control, Up
<1>3. CASE StorageForward
  <2>. DEFINE to == IF forwarding.val = Null THEN {} ELSE listed
  <2>1. /\ \A i \in to : i \in 1..subs /\ Len(queue[i]) < OutCap /\ forwarding \in CommandSet
        /\ queue' = [i \in 1..MaxSubs |->
                       IF i \in to THEN Append(queue[i], forwarding) ELSE queue[i]]
    BY <1>3, Kinds DEF StorageForward, TypeOK
  <2>. HIDE DEF to
  <2>2. ASSUME NEW i \in 1..MaxSubs
        PROVE  /\ queue'[i] \in Seq(CommandSet) /\ Len(queue'[i]) <= OutCap
               /\ i > subs => queue'[i] = queue[i]
    <3>1. CASE i \in to
      BY <2>1, <3>1, AppendType DEF TypeOK
    <3>2. CASE i \notin to
      BY <2>1, <3>2 DEF TypeOK
    <3>. QED BY <3>1, <3>2
  <2>3. queue' \in [1..MaxSubs -> Seq(CommandSet)]
    BY <2>1, <2>2
  <2>4. RestarterTypeOK'
    BY <1>3 DEF StorageForward, TypeOK, RestarterTypeOK
  <2>5. TypeOK'
    BY <1>3, <2>2, <2>3, <2>4 DEF StorageForward, TypeOK
  <2>. QED BY <1>3, <2>2, <2>5 DEF StorageForward, Control, Up
<1>4. CASE Unlist
  <2>1. RestarterTypeOK'
    BY <1>4 DEF Unlist, TypeOK, RestarterTypeOK
  <2>. QED BY <1>4, <2>1 DEF Unlist, TypeOK, Control, Up
<1>5. CASE Connect
  <2>1. RestarterTypeOK'
    BY <1>5 DEF Connect, TypeOK, RestarterTypeOK
  <2>2. avail' \in BOOLEAN
    BY <1>5, Zenon DEF Connect
  <2>. QED BY <1>5, <2>1, <2>2 DEF Connect, TypeOK, Control, Up
<1>6. CASE ConnectFails
  <2>1. RestarterTypeOK' /\ rpc = "run" /\ rpc' = "backoff"
    BY <1>6, FailsType DEF ConnectFails, TypeOK
  <2>. QED BY <1>6, <2>1 DEF ConnectFails, TypeOK, Control, Up
<1>7. CASE Subscribe
  <2>1. RestarterTypeOK'
    BY <1>7 DEF Subscribe, TypeOK, RestarterTypeOK
  <2>2. subs' \in 1..MaxSubs /\ subs' = subs + 1 /\ listed' \subseteq 1..subs'
    BY <1>7 DEF Subscribe, TypeOK, Control
  <2>. QED BY <1>7, <2>1, <2>2 DEF Subscribe, TypeOK, Control, Up
<1>8. CASE LoopStops
  <2>1. RestarterTypeOK' /\ rpc' = "done"
    BY <1>8 DEF LoopStops, ServiceStops, TypeOK, RestarterTypeOK
  <2>2. avail' \in BOOLEAN
    BY <1>8, Zenon DEF LoopStops
  <2>. QED BY <1>8, <2>1, <2>2 DEF LoopStops, TypeOK, Control, Up
<1>9. CASE PollFails
  <2>1. RestarterTypeOK' /\ rpc' = "backoff"
    BY <1>9, FailsType DEF PollFails, TypeOK
  <2>2. avail' \in BOOLEAN
    BY <1>9, Zenon DEF PollFails
  <2>. QED BY <1>9, <2>1, <2>2 DEF PollFails, TypeOK, Control, Up
<1>10. CASE TakeCommand
  <2>. DEFINE q == queue[subs]
  <2>1. subs \in 1..MaxSubs /\ q \in Seq(CommandSet) /\ q # <<>> /\ Len(q) <= OutCap
    BY <1>10 DEF TakeCommand, TypeOK, Control, Up
  <2>2. Head(q) \in CommandSet /\ Tail(q) \in Seq(CommandSet) /\ Len(Tail(q)) = Len(q) - 1
    BY <2>1, HeadTailType
  <2>3. queue' = [queue EXCEPT ![subs] = Tail(q)] /\ executing' = Head(q)
    BY <1>10 DEF TakeCommand
  <2>. HIDE DEF q
  <2>4. /\ queue' \in [1..MaxSubs -> Seq(CommandSet)]
        /\ \A i \in 1..MaxSubs : Len(queue'[i]) <= OutCap /\ (i > subs => queue'[i] = queue[i])
    BY <2>1, <2>2, <2>3 DEF TypeOK
  <2>5. /\ executing'.reg \in Regs /\ executing'.val \in Vals
        /\ executing'.id \in 0..MaxIssues /\ executing' # nothing
    BY <2>2, <2>3, Kinds
  <2>6. RestarterTypeOK'
    BY <1>10 DEF TakeCommand, TypeOK, RestarterTypeOK
  <2>7. TypeOK'
    BY <1>10, <2>2, <2>3, <2>4, <2>5, <2>6 DEF TakeCommand, TypeOK
  <2>. QED BY <1>10, <2>4, <2>7 DEF TakeCommand, Control, Up
<1>11. CASE ExecEnds
  <2>1. RestarterTypeOK'
    BY <1>11 DEF ExecEnds, TypeOK, RestarterTypeOK
  <2>2. executing.reg \in Regs
    BY <1>11, Kinds DEF ExecEnds, TypeOK
  <2>3. kept' \subseteq Regs
    BY <1>11, <2>2 DEF ExecEnds, TypeOK
  <2>. QED BY <1>11, <2>1, <2>3 DEF ExecEnds, TypeOK, Control, Up
<1>12. CASE Reset
  <2>1. executing.reg \in Regs
    BY <1>12, Kinds DEF Reset, TypeOK
  <2>2. [reg |-> executing.reg, val |-> Null, id |-> 0] \in SentSet
    BY <2>1 DEF SentSet, ResetSet
  <2>3. input' \in Seq(SentSet) /\ Len(input') <= InCap
    BY <1>12, <2>2, AppendType DEF Reset, TypeOK
  <2>4. RestarterTypeOK'
    BY <1>12 DEF Reset, TypeOK, RestarterTypeOK
  <2>. QED BY <1>12, <2>3, <2>4 DEF Reset, TypeOK, Control, Up
<1>13. CASE RestarterStep
  <2>1. RestarterTypeOK'
    BY <1>13, RestarterStepType DEF RestarterStep, TypeOK
  <2>2. \/ rpc' = rpc \/ rpc = "new" \/ rpc = "backoff"
    BY <1>13 DEF RestarterStep, Start, Retry, GiveUp, Shutdown, ShutdownReturns
  <2>. QED BY <1>13, <2>1, <2>2 DEF RestarterStep, TypeOK, Control, Up
<1>14. CASE UNCHANGED vars
  <2>1. RestarterTypeOK'
    BY <1>14 DEF vars, TypeOK, RestarterTypeOK
  <2>. QED BY <1>14, <2>1 DEF vars, TypeOK, Control, Up
<1>15. CASE Close
  <2>1. RestarterTypeOK'
    BY <1>15 DEF Close, TypeOK, RestarterTypeOK
  <2>. QED BY <1>15, <2>1 DEF Close, TypeOK, Control, Up
<1>16. CASE TakeNil
  <2>1. RestarterTypeOK'
    BY <1>16 DEF TakeNil, TypeOK, RestarterTypeOK
  <2>2. executing = nothing /\ rpc = "run"
    BY <1>16 DEF TakeNil, TypeOK, Control
  <2>. QED BY <1>16, <2>1, <2>2 DEF TakeNil, TypeOK, Control, Up
<1>. QED BY <1>1, <1>2, <1>3, <1>4, <1>5, <1>6, <1>7, <1>8, <1>9, <1>10, <1>11, <1>12, <1>13,
            <1>14, <1>15, <1>16 DEF Next

\* Every variable of a device, its restarter and the command storage has its
\* type: in particular no channel holds more than its capacity.
THEOREM TypeCorrect == Spec => []TypeOK
<1>1. TypeOK /\ Control /\ [Next]_vars => (TypeOK /\ Control)'
  BY StepType
<1>. QED BY InitType, <1>1, PTL DEF Spec

-----------------------------------------------------------------------------
(* Commands keep the order they were issued in on their way through the    *)
(* storage: in inputChannel, in the main routine, in the channel of this   *)
(* run, in execCommand.                                                    *)

\* The commands in a channel are in order, all above the id lo, up to hi.
Ordered(q, lo, hi) ==
  /\ \A i \in 1..Len(q) : q[i].val # Null => q[i].id > lo /\ q[i].id <= hi
  /\ \A i, j \in 1..Len(q) :
       i < j /\ q[i].val # Null /\ q[j].val # Null => q[i].id < q[j].id

InOrder ==
  /\ taken <= issued /\ since <= taken /\ lastId <= taken
  /\ Ordered(input, taken, issued)
  /\ forwarding.val # Null =>
       forwarding.id > since /\ forwarding.id > lastId /\ forwarding.id <= taken
  /\ Up => /\ Ordered(queue[subs], since, taken)
           /\ Ordered(queue[subs], lastId, taken)
           /\ forwarding.val # Null => Ordered(queue[subs], 0, forwarding.id - 1)
  /\ executing # nothing => executing.id > since

LEMMA OrderedAppend ==
  ASSUME NEW q \in Seq(SentSet), NEW lo \in Int, NEW hi \in Int, NEW v \in SentSet,
         Ordered(q, lo, hi), NEW top \in Int, top >= hi,
         v.val # Null => v.id > hi /\ v.id > lo /\ v.id <= top
  PROVE  Ordered(Append(q, v), lo, top)
<1>1. /\ Len(Append(q, v)) = Len(q) + 1 /\ Append(q, v)[Len(q) + 1] = v
      /\ \A i \in 1..Len(q) : Append(q, v)[i] = q[i]
  BY AppendType
<1>2. \A i \in 1..Len(q) : q[i] \in SentSet /\ (q[i].val # Null => q[i].id \in Int)
  BY DEF SentSet, CommandSet, ResetSet
<1>3. v.val # Null => v.id \in Int
  BY DEF SentSet, CommandSet, ResetSet
<1>. HIDE DEF SentSet
<1>4. ASSUME NEW i \in 1..(Len(q) + 1), Append(q, v)[i].val # Null
      PROVE  Append(q, v)[i].id > lo /\ Append(q, v)[i].id <= top
  BY <1>1, <1>2, <1>3, <1>4 DEF Ordered
<1>5. ASSUME NEW i \in 1..(Len(q) + 1), NEW j \in 1..(Len(q) + 1), i < j,
             Append(q, v)[i].val # Null, Append(q, v)[j].val # Null
      PROVE  Append(q, v)[i].id < Append(q, v)[j].id
  BY <1>1, <1>2, <1>3, <1>5 DEF Ordered
<1>. QED BY <1>1, <1>4, <1>5 DEF Ordered

LEMMA OrderedTail ==
  ASSUME NEW q \in Seq(SentSet), NEW lo \in Int, NEW hi \in Int, q # <<>>, Ordered(q, lo, hi)
  PROVE  /\ Ordered(Tail(q), lo, hi)
         /\ Head(q).val # Null => /\ Ordered(Tail(q), Head(q).id, hi)
                                  /\ Head(q).id > lo /\ Head(q).id <= hi
BY HeadTailType DEF Ordered

LEMMA OrderedWiden ==
  ASSUME NEW q \in Seq(SentSet), NEW lo \in Int, NEW hi \in Int, NEW top \in Int, hi <= top,
         Ordered(q, lo, hi)
  PROVE  Ordered(q, lo, top)
<1>1. ASSUME NEW i \in 1..Len(q), q[i].val # Null
      PROVE  q[i].id > lo /\ q[i].id <= top
  <2>1. q[i] \in SentSet /\ q[i].id \in Int
    BY <1>1 DEF SentSet, CommandSet, ResetSet
  <2>2. q[i].id > lo /\ q[i].id <= hi
    BY <1>1 DEF Ordered
  <2>. QED BY <2>1, <2>2
<1>2. \A i, j \in 1..Len(q) :
        i < j /\ q[i].val # Null /\ q[j].val # Null => q[i].id < q[j].id
  BY Zenon DEF Ordered
<1>. QED BY <1>1, <1>2 DEF Ordered

LEMMA StepOrder == TypeOK /\ Control /\ InOrder /\ [Next]_vars => InOrder'
<1>. SUFFICES ASSUME TypeOK, Control, InOrder, [Next]_vars PROVE InOrder'
  OBVIOUS
<1>. USE DEF rvars, dvars
<1>0. /\ {issued, taken, since, lastId} \subseteq Int
      /\ input \in Seq(SentSet) /\ forwarding \in SentSet \cup {nothing}
      /\ Up => /\ subs \in 1..MaxSubs /\ queue[subs] \in Seq(CommandSet)
               /\ queue[subs] \in Seq(SentSet)
  BY DEF TypeOK, Control, SentSet
<1>1. CASE Issue
  <2>. PICK r \in Regs, v \in Vals : input' = Append(input, [reg |-> r, val |-> v, id |-> issued'])
    BY <1>1 DEF Issue
  <2>1. issued' = issued + 1 /\ issued' \in 1..MaxIssues
    BY <1>1 DEF Issue, TypeOK
  <2>. DEFINE c == [reg |-> r, val |-> v, id |-> issued']
  <2>2. c \in SentSet /\ c.id = issued'
    BY <2>1 DEF SentSet, CommandSet
  <2>. HIDE DEF c
  <2>3. Ordered(Append(input, c), taken, issued')
    <3>1. Ordered(input, taken, issued) /\ issued' >= issued
      BY <1>0, <2>1 DEF InOrder
    <3>2. c.val # Null => c.id > issued /\ c.id > taken /\ c.id <= issued'
      BY <1>0, <2>1, <2>2 DEF InOrder
    <3>3. taken \in Int /\ issued \in Int /\ issued' \in Int
      BY <1>0, <2>1
    <3>. QED BY <1>0, <2>2, <3>1, <3>2, <3>3, OrderedAppend, Zenon
  <2>. QED BY <1>0, <1>1, <2>1, <2>3 DEF Issue, InOrder, Up, c
<1>2. CASE StorageTake
  <2>. DEFINE v == Head(input)
  <2>1. /\ input # <<>> /\ input' = Tail(input)
        /\ forwarding' = nothing \/ forwarding' = v
        /\ taken' = IF v.val = Null THEN taken ELSE v.id
    BY <1>2 DEF StorageTake
  <2>2. /\ Ordered(Tail(input), taken, issued)
        /\ v.val # Null => Ordered(Tail(input), v.id, issued) /\ v.id > taken /\ v.id <= issued
    BY <1>0, <2>1, OrderedTail DEF InOrder
  <2>3. v \in SentSet /\ (v.val # Null => v.id \in Int)
    BY <1>0, <2>1, HeadTailType, Kinds
  <2>. HIDE DEF v
  <2>4. Ordered(input', taken', issued) /\ taken' >= taken /\ taken' <= issued
    BY <1>0, <2>1, <2>2, <2>3 DEF InOrder
  <2>5. forwarding'.val # Null => forwarding' = v /\ forwarding'.id = taken' /\ taken' > taken
    BY <2>1, <2>2, <2>3, Kinds
  <2>6. ASSUME Up
        PROVE  /\ Ordered(queue[subs], since, taken') /\ Ordered(queue[subs], lastId, taken')
               /\ forwarding'.val # Null => Ordered(queue[subs], 0, taken' - 1)
    <3>1. /\ Ordered(queue[subs], since, taken) /\ Ordered(queue[subs], lastId, taken)
          /\ taken' \in Int
      BY <1>0, <2>1, <2>3, <2>6 DEF InOrder
    <3>2. Ordered(queue[subs], since, taken') /\ Ordered(queue[subs], lastId, taken')
      BY <1>0, <2>4, <2>6, <3>1, OrderedWiden
    <3>3. Ordered(queue[subs], 0, taken)
      BY <1>0, <2>6, <3>1, Kinds DEF Ordered
    <3>4. taken' > taken => Ordered(queue[subs], 0, taken' - 1)
      BY <1>0, <2>6, <3>1, <3>3, OrderedWiden
    <3>. QED BY <2>5, <3>2, <3>4
  <2>7. /\ queue' = queue /\ subs' = subs /\ since' = since /\ lastId' = lastId
        /\ executing' = executing /\ issued' = issued /\ (Up' => Up)
    BY <1>2 DEF StorageTake, Up
  <2>8. forwarding'.val # Null => forwarding'.id > since /\ forwarding'.id > lastId
    BY <1>0, <2>3, <2>5 DEF InOrder
  <2>9. /\ taken' <= issued' /\ since' <= taken' /\ lastId' <= taken'
        /\ forwarding'.val # Null => forwarding'.id <= taken'
    <3>1. taken' \in Int
      BY <1>0, <2>1, <2>3
    <3>. QED BY <1>0, <2>4, <2>5, <2>7, <3>1 DEF InOrder
  <2>10. forwarding'.val # Null => forwarding'.id - 1 = taken' - 1
    BY <2>5
  <2>11. executing' # nothing => executing'.id > since'
    BY <2>7 DEF InOrder
  <2>. QED BY <2>4, <2>6, <2>7, <2>8, <2>9, <2>10, <2>11 DEF InOrder
<1>3. CASE StorageForward
  <2>1. /\ \A i \in 1..MaxSubs :
             queue'[i] = queue[i] \/ (queue'[i] = Append(queue[i], forwarding) /\ forwarding.val # Null)
        /\ forwarding' = nothing /\ input' = input /\ subs' = subs /\ since' = since
        /\ lastId' = lastId /\ executing' = executing /\ issued' = issued /\ taken' = taken
        /\ Up' = Up
    BY <1>3 DEF StorageForward, Up, TypeOK
  <2>2. ASSUME Up
        PROVE  Ordered(queue'[subs], since, taken) /\ Ordered(queue'[subs], lastId, taken)
    <3>. DEFINE q == queue[subs]
    <3>1. Ordered(q, since, taken) /\ Ordered(q, lastId, taken) /\ q \in Seq(SentSet)
      BY <1>0, <2>2 DEF InOrder
    <3>2. CASE queue'[subs] = Append(q, forwarding) /\ forwarding.val # Null
      <4>1. /\ forwarding \in SentSet /\ forwarding.id \in Int /\ forwarding.id - 1 \in Int
            /\ forwarding.id > since /\ forwarding.id > lastId /\ forwarding.id <= taken
            /\ Ordered(q, 0, forwarding.id - 1)
        BY <1>0, <2>2, <3>2, Kinds DEF InOrder
      <4>. HIDE DEF q
      <4>2. Ordered(q, since, forwarding.id - 1) /\ Ordered(q, lastId, forwarding.id - 1)
        BY <3>1, <4>1 DEF Ordered
      <4>3. /\ since \in Int /\ lastId \in Int /\ taken \in Int
            /\ taken >= forwarding.id - 1 /\ forwarding.id > forwarding.id - 1
        BY <1>0, <4>1
      <4>4. Ordered(Append(q, forwarding), since, taken)
        BY <3>1, <4>1, <4>2, <4>3, OrderedAppend, Zenon
      <4>5. Ordered(Append(q, forwarding), lastId, taken)
        BY <3>1, <4>1, <4>2, <4>3, OrderedAppend, Zenon
      <4>. QED BY <3>2, <4>4, <4>5
    <3>. QED BY <1>0, <2>1, <2>2, <3>1, <3>2
  <2>. QED BY <1>0, <2>1, <2>2, Kinds DEF InOrder
<1>4. CASE Unlist
  BY <1>4 DEF Unlist, InOrder, Up
<1>5. CASE Connect
  BY <1>5 DEF Connect, InOrder, Up
<1>6. CASE ConnectFails
  BY <1>6 DEF ConnectFails, InOrder, Up
<1>7. CASE Subscribe
  <2>1. queue'[subs'] = <<>> /\ forwarding = nothing /\ executing' = nothing
    BY <1>7 DEF Subscribe, Control, TypeOK, MutexFree
  <2>2. Ordered(<<>>, since', taken) /\ Ordered(<<>>, lastId, taken)
    BY DEF Ordered
  <2>. QED BY <1>0, <1>7, <2>1, <2>2, Kinds DEF Subscribe, InOrder, Up
<1>8. CASE LoopStops
  BY <1>8 DEF LoopStops, InOrder, Up
<1>9. CASE PollFails
  BY <1>9 DEF PollFails, InOrder, Up
<1>10. CASE TakeCommand
  <2>. DEFINE q == queue[subs]
  <2>1. Up /\ q # <<>> /\ q \in Seq(CommandSet) /\ q \in Seq(SentSet) /\ subs \in 1..MaxSubs
    BY <1>0, <1>10 DEF TakeCommand, Up
  <2>2. /\ executing' = Head(q) /\ queue'[subs] = Tail(q) /\ lastId' = Head(q).id
        /\ subs' = subs /\ since' = since /\ taken' = taken /\ issued' = issued /\ Up'
        /\ input' = input /\ forwarding' = forwarding
    BY <1>10, <2>1 DEF TakeCommand, Up, TypeOK
  <2>3. Head(q) \in CommandSet /\ Head(q).val # Null /\ Head(q).id \in Int
    BY <2>1, HeadTailType, Kinds
  <2>4. /\ Ordered(q, since, taken) /\ Ordered(q, lastId, taken)
        /\ forwarding.val # Null => Ordered(q, 0, forwarding.id - 1) /\ forwarding.id \in Int
    BY <1>0, <2>1, Kinds DEF InOrder
  <2>. HIDE DEF q
  <2>5. /\ Ordered(Tail(q), since, taken) /\ Ordered(Tail(q), Head(q).id, taken)
        /\ Head(q).id > since /\ Head(q).id <= taken
    BY <1>0, <2>1, <2>3, <2>4, OrderedTail
  <2>6. forwarding.val # Null =>
          Ordered(Tail(q), 0, forwarding.id - 1) /\ Head(q).id <= forwarding.id - 1
    BY <2>1, <2>3, <2>4, OrderedTail
  <2>7. /\ Ordered(queue'[subs'], since', taken') /\ Ordered(queue'[subs'], lastId', taken')
        /\ forwarding'.val # Null => Ordered(queue'[subs'], 0, forwarding'.id - 1)
    BY <2>2, <2>5, <2>6
  <2>8. executing'.id > since' /\ lastId' <= taken'
    BY <2>2, <2>5
  <2>9. forwarding'.val # Null =>
          forwarding'.id > since' /\ forwarding'.id > lastId' /\ forwarding'.id <= taken'
    BY <1>0, <2>2, <2>3, <2>4, <2>6 DEF InOrder
  <2>10. taken' <= issued' /\ since' <= taken' /\ Ordered(input', taken', issued')
    BY <2>2 DEF InOrder
  <2>. QED BY <2>7, <2>8, <2>9, <2>10 DEF InOrder
<1>11. CASE ExecEnds
  BY <1>11 DEF ExecEnds, InOrder, Up
<1>12. CASE Reset
  <2>. DEFINE c == [reg |-> executing.reg, val |-> Null, id |-> 0]
  <2>1. c \in SentSet /\ c.val = Null
    BY <1>12, Kinds DEF Reset, TypeOK, SentSet, ResetSet
  <2>2. input' = Append(input, c)
    BY <1>12 DEF Reset
  <2>. HIDE DEF c
  <2>3. Ordered(Append(input, c), taken, issued)
    <3>1. Ordered(input, taken, issued) /\ issued >= issued /\ taken \in Int /\ issued \in Int
      BY <1>0 DEF InOrder
    <3>. QED BY <1>0, <2>1, <3>1, OrderedAppend, Zenon
  <2>. QED BY <1>12, <2>2, <2>3 DEF Reset, InOrder, Up
<1>13. CASE RestarterStep
  BY <1>13 DEF RestarterStep, InOrder, Up
<1>14. CASE UNCHANGED vars
  BY <1>14 DEF vars, InOrder, Up
<1>15. CASE Close \/ TakeNil
  BY <1>15 DEF Close, TakeNil, InOrder, Up
<1>. QED BY <1>1, <1>2, <1>3, <1>4, <1>5, <1>6, <1>7, <1>8, <1>9, <1>10, <1>11, <1>12, <1>13,
            <1>14, <1>15 DEF Next

LEMMA InitOrder == Init => InOrder
BY DEF Init, InOrder, Ordered, Up, nothing

LEMMA AllInOrder == Spec => [](TypeOK /\ Control /\ InOrder)
<1>1. TypeOK /\ Control /\ InOrder /\ [Next]_vars => (TypeOK /\ Control /\ InOrder)'
  BY StepType, StepOrder
<1>. QED BY InitType, InitOrder, <1>1, PTL DEF Spec

\* A command the storage had taken before the device's current run subscribed
\* is not executed in it: commands given while a device is down are not
\* carried out when it comes back.
THEOREM NeverStale == Spec => []NoStaleExecution
<1>1. InOrder => NoStaleExecution
  BY DEF InOrder, NoStaleExecution
<1>. QED BY AllInOrder, <1>1, PTL

\* Over all runs of the device, each command is executed at most once, and none
\* after a command issued later.
THEOREM OnceInOrder == Spec => ExecutedOnceInOrder
<1>1. TypeOK /\ Control /\ InOrder /\ [Next]_vars =>
        [dpc # "exec" /\ dpc' = "exec" => executing'.id > lastId]_vars
  <2>. SUFFICES ASSUME TypeOK, Control, InOrder, Next, dpc # "exec", dpc' = "exec"
                PROVE  executing'.id > lastId
    OBVIOUS
  <2>1. TakeCommand
    BY DEF Next, Issue, StorageTake, StorageForward, Unlist, Close, Connect, ConnectFails,
           Subscribe, LoopStops, PollFails, TakeNil, ExecEnds, Reset, RestarterStep, dvars
  <2>. DEFINE q == queue[subs]
  <2>2. Up /\ q # <<>> /\ executing' = Head(q)
    BY <2>1 DEF TakeCommand, Up
  <2>3. q \in Seq(CommandSet) /\ q \in Seq(SentSet) /\ {lastId, taken} \subseteq Int
    BY <2>2 DEF TypeOK, Control, SentSet
  <2>4. Head(q).val # Null
    BY <2>2, <2>3, HeadTailType, Kinds
  <2>5. Ordered(q, lastId, taken)
    BY <2>2 DEF InOrder
  <2>. HIDE DEF q
  <2>. QED BY <2>2, <2>3, <2>4, <2>5, OrderedTail
<1>. QED BY AllInOrder, <1>1, PTL DEF Spec, ExecutedOnceInOrder

-----------------------------------------------------------------------------
(* Each value on its way was issued, or is the reset that has taken the    *)
(* place of one that was.                                                  *)

InForwarding == IF MutexFree THEN 0 ELSE 1
InQueue == IF Up THEN Len(queue[subs]) ELSE 0
InDevice == IF dpc \in {"exec", "reset"} THEN 1 ELSE 0
OnTheWay == Len(input) + InForwarding + InQueue + InDevice

LEMMA PartsType ==
  TypeOK /\ Control =>
    issued \in Nat /\ Len(input) \in Nat /\ InForwarding \in Nat /\ InQueue \in Nat /\ InDevice \in Nat
<1>. SUFFICES ASSUME TypeOK, Control
              PROVE  /\ issued \in Nat /\ Len(input) \in Nat
                     /\ InForwarding \in Nat /\ InQueue \in Nat /\ InDevice \in Nat
  OBVIOUS
<1>1. Up => queue[subs] \in Seq(CommandSet)
  BY DEF TypeOK, Control
<1>. QED BY <1>1 DEF TypeOK, InForwarding, InQueue, InDevice

LEMMA StepOnTheWay ==
  TypeOK /\ Control /\ OnTheWay <= issued /\ [Next]_vars => (OnTheWay <= issued)'
<1>. SUFFICES ASSUME TypeOK, Control, OnTheWay <= issued, [Next]_vars
              PROVE  (OnTheWay <= issued)'
  OBVIOUS
<1>. USE DEF rvars, dvars
<1>0. /\ issued \in Nat /\ Len(input) \in Nat /\ InForwarding \in Nat /\ InQueue \in Nat /\ InDevice \in Nat
      /\ Len(input) + InForwarding + InQueue + InDevice <= issued
  BY PartsType DEF OnTheWay
<1>1. CASE Issue
  <2>1. issued' = issued + 1 /\ Len(input)' = Len(input) + 1
    BY <1>1 DEF Issue, TypeOK
  <2>2. InForwarding' = InForwarding /\ InQueue' = InQueue /\ InDevice' = InDevice
    BY <1>1 DEF Issue, InForwarding, InQueue, InDevice, MutexFree, Up
  <2>. QED BY <1>0, <2>1, <2>2 DEF OnTheWay
<1>2. CASE StorageTake
  <2>1. issued' = issued /\ Len(input)' = Len(input) - 1
    BY <1>2 DEF StorageTake, TypeOK
  <2>2. InForwarding = 0 /\ InForwarding' \in 0..1
    BY <1>2 DEF StorageTake, InForwarding, MutexFree
  <2>3. InQueue' = InQueue /\ InDevice' = InDevice
    BY <1>2 DEF StorageTake, InQueue, InDevice, Up
  <2>. QED BY <1>0, <2>1, <2>2, <2>3 DEF OnTheWay
<1>3. CASE StorageForward
  <2>1. InForwarding = 1 /\ InForwarding' = 0
    BY <1>3 DEF StorageForward, InForwarding, MutexFree
  <2>2. InQueue' = InQueue \/ InQueue' = InQueue + 1
    <3>. DEFINE to == IF forwarding.val = Null THEN {} ELSE listed
    <3>1. /\ queue' = [i \in 1..MaxSubs |->
                         IF i \in to THEN Append(queue[i], forwarding) ELSE queue[i]]
          /\ subs' = subs /\ (Up' <=> Up)
      BY <1>3 DEF StorageForward, Up
    <3>. HIDE DEF to
    <3>2. CASE Up
      <4>1. subs \in 1..MaxSubs /\ queue[subs] \in Seq(CommandSet)
        BY <3>2 DEF TypeOK, Control
      <4>2. queue'[subs] = queue[subs] \/ queue'[subs] = Append(queue[subs], forwarding)
        BY <3>1, <4>1
      <4>3. Len(Append(queue[subs], forwarding)) = Len(queue[subs]) + 1
        BY <4>1
      <4>. QED BY <3>1, <3>2, <4>2, <4>3 DEF InQueue
    <3>. QED BY <3>1, <3>2 DEF InQueue
  <2>3. issued' = issued /\ Len(input)' = Len(input) /\ InDevice' = InDevice
    BY <1>3 DEF StorageForward, InDevice
  <2>. QED BY <1>0, <2>1, <2>2, <2>3 DEF OnTheWay
<1>4. CASE Unlist
  BY <1>0, <1>4 DEF Unlist, OnTheWay, InForwarding, InQueue, InDevice, MutexFree, Up
<1>5. CASE Connect
  BY <1>0, <1>5 DEF Connect, OnTheWay, InForwarding, InQueue, InDevice, MutexFree, Up
<1>6. CASE ConnectFails
  BY <1>0, <1>6 DEF ConnectFails, OnTheWay, InForwarding, InQueue, InDevice, MutexFree, Up
<1>7. CASE Subscribe
  <2>1. queue[subs + 1] = <<>> /\ queue' = queue /\ subs' = subs + 1
    BY <1>7 DEF Subscribe, Control, TypeOK
  <2>2. InQueue' = 0 /\ InDevice' = 0
    BY <1>7, <2>1 DEF Subscribe, InQueue, InDevice, Up
  <2>3. issued' = issued /\ Len(input)' = Len(input) /\ InForwarding' = InForwarding
    BY <1>7 DEF Subscribe, InForwarding, MutexFree
  <2>. QED BY <1>0, <2>2, <2>3 DEF OnTheWay
<1>8. CASE LoopStops \/ PollFails
  <2>1. InQueue' = 0 /\ InDevice' = 0
    BY <1>8 DEF LoopStops, PollFails, InQueue, InDevice, Up
  <2>2. issued' = issued /\ Len(input)' = Len(input) /\ InForwarding' = InForwarding
    BY <1>8 DEF LoopStops, PollFails, InForwarding, MutexFree
  <2>. QED BY <1>0, <2>1, <2>2 DEF OnTheWay
<1>9. CASE TakeCommand
  <2>1. subs \in 1..MaxSubs /\ queue[subs] \in Seq(CommandSet) /\ queue[subs] # <<>>
    BY <1>9 DEF TakeCommand, TypeOK, Control, Up
  <2>2. queue'[subs] = Tail(queue[subs]) /\ subs' = subs
    BY <1>9, <2>1 DEF TakeCommand, TypeOK
  <2>3. Len(Tail(queue[subs])) = Len(queue[subs]) - 1
    BY <2>1
  <2>4. InQueue' = InQueue - 1
    BY <1>9, <2>2, <2>3 DEF TakeCommand, InQueue, Up
  <2>5. InDevice = 0 /\ InDevice' = 1
    BY <1>9 DEF TakeCommand, InDevice
  <2>6. issued' = issued /\ Len(input)' = Len(input) /\ InForwarding' = InForwarding
    BY <1>9 DEF TakeCommand, InForwarding, MutexFree
  <2>. QED BY <1>0, <2>4, <2>5, <2>6 DEF OnTheWay
<1>10. CASE ExecEnds
  <2>1. InDevice = 1 /\ InDevice' \in 0..1 /\ InQueue' = InQueue
    BY <1>10 DEF ExecEnds, InDevice, InQueue, Up
  <2>2. issued' = issued /\ Len(input)' = Len(input) /\ InForwarding' = InForwarding
    BY <1>10 DEF ExecEnds, InForwarding, MutexFree
  <2>. QED BY <1>0, <2>1, <2>2 DEF OnTheWay
<1>11. CASE Reset
  <2>1. InDevice = 1 /\ InDevice' = 0 /\ InQueue' = InQueue
    BY <1>11 DEF Reset, InDevice, InQueue, Up
  <2>2. Len(input)' = Len(input) + 1
    BY <1>11 DEF Reset, TypeOK
  <2>3. issued' = issued /\ InForwarding' = InForwarding
    BY <1>11 DEF Reset, InForwarding, MutexFree
  <2>. QED BY <1>0, <2>1, <2>2, <2>3 DEF OnTheWay
<1>12. CASE RestarterStep
  BY <1>0, <1>12 DEF RestarterStep, OnTheWay, InForwarding, InQueue, InDevice, MutexFree, Up
<1>13. CASE UNCHANGED vars
  BY <1>0, <1>13 DEF vars, OnTheWay, InForwarding, InQueue, InDevice, MutexFree, Up
<1>14. CASE Close
  BY <1>0, <1>14 DEF Close, OnTheWay, InForwarding, InQueue, InDevice, MutexFree, Up
<1>15. CASE TakeNil
  <2>1. InQueue' = 0 /\ InDevice' = 0
    BY <1>15 DEF TakeNil, InQueue, InDevice, Up
  <2>2. issued' = issued /\ Len(input)' = Len(input) /\ InForwarding' = InForwarding
    BY <1>15 DEF TakeNil, InForwarding, MutexFree
  <2>. QED BY <1>0, <2>1, <2>2 DEF OnTheWay
<1>. QED BY <1>1, <1>2, <1>3, <1>4, <1>5, <1>6, <1>7, <1>8, <1>9, <1>10, <1>11, <1>12, <1>13,
            <1>14, <1>15 DEF Next

\* The device and the storage wait for each other only in a burst of commands
\* that fills both channels and two more: 162 commands with the capacities of
\* the code, none of them reset.
THEOREM BurstNeeded == Spec => []CircularWaitNeedsBurst
<1>1. Init => OnTheWay <= issued
  BY DEF Init, OnTheWay, InForwarding, InQueue, InDevice, Up, MutexFree
<1>2. /\ TypeOK /\ Control /\ OnTheWay <= issued /\ [Next]_vars
      => (TypeOK /\ Control /\ OnTheWay <= issued)'
  BY StepType, StepOnTheWay
<1>3. TypeOK /\ OnTheWay <= issued => CircularWaitNeedsBurst
  BY Kinds DEF TypeOK, OnTheWay, InForwarding, InQueue, InDevice, CircularWaitNeedsBurst,
               CircularWait, Up, MutexFree
<1>. QED BY InitType, <1>1, <1>2, <1>3, PTL DEF Spec

-----------------------------------------------------------------------------
(* The newest command on each register, from inputChannel to its execution. *)

IsFor(v, r) == v.reg = r /\ v.val # Null
IsResetOf(v, r) == v.reg = r /\ v.val = Null
HasFor(q, r) == \E i \in 1..Len(q) : IsFor(q[i], r)

\* The last command on r in q has the value x.
LastFor(q, r, x) ==
  \E i \in 1..Len(q) : /\ IsFor(q[i], r) /\ q[i].val = x
                       /\ \A j \in 1..Len(q) : IsFor(q[j], r) => j <= i

HasReset(q, r) == \E i \in 1..Len(q) : IsResetOf(q[i], r)

\* Each reset of r in q has a command on r behind it.
LastIsCommand(q, r) ==
  \A i \in 1..Len(q) : IsResetOf(q[i], r) => \E j \in i..Len(q) : IsFor(q[j], r)

LEMMA AppendFor ==
  ASSUME NEW q \in Seq(SentSet), NEW v \in SentSet, NEW r
  PROVE  /\ HasFor(Append(q, v), r) <=> IsFor(v, r) \/ HasFor(q, r)
         /\ \A x : LastFor(Append(q, v), r, x) <=> IF IsFor(v, r) THEN v.val = x ELSE LastFor(q, r, x)
         /\ HasReset(Append(q, v), r) <=> IsResetOf(v, r) \/ HasReset(q, r)
         /\ IsFor(v, r) => LastIsCommand(Append(q, v), r)
         /\ ~IsResetOf(v, r) /\ LastIsCommand(q, r) => LastIsCommand(Append(q, v), r)
<1>. DEFINE p == Append(q, v)
<1>1. /\ Len(p) = Len(q) + 1 /\ p[Len(q) + 1] = v /\ Len(q) \in Nat
      /\ \A i \in 1..Len(q) : p[i] = q[i]
  BY AppendType
<1>. HIDE DEF p
<1>2. HasFor(p, r) <=> IsFor(v, r) \/ HasFor(q, r)
  BY <1>1 DEF HasFor
<1>3. HasReset(p, r) <=> IsResetOf(v, r) \/ HasReset(q, r)
  BY <1>1 DEF HasReset
<1>4. ASSUME NEW x PROVE LastFor(p, r, x) <=> IF IsFor(v, r) THEN v.val = x ELSE LastFor(q, r, x)
  <2>1. CASE IsFor(v, r)
    BY <1>1, <2>1 DEF LastFor
  <2>2. CASE ~IsFor(v, r)
    BY <1>1, <2>2 DEF LastFor
  <2>. QED BY <2>1, <2>2
<1>5. IsFor(v, r) => LastIsCommand(p, r)
  BY <1>1 DEF LastIsCommand
<1>6. ~IsResetOf(v, r) /\ LastIsCommand(q, r) => LastIsCommand(p, r)
  <2>. SUFFICES ASSUME ~IsResetOf(v, r), LastIsCommand(q, r), NEW i \in 1..Len(p), IsResetOf(p[i], r)
                PROVE  \E j \in i..Len(p) : IsFor(p[j], r)
    BY DEF LastIsCommand
  <2>1. i \in 1..Len(q) /\ IsResetOf(q[i], r)
    BY <1>1
  <2>2. PICK j \in i..Len(q) : IsFor(q[j], r)
    BY <2>1 DEF LastIsCommand
  <2>. QED BY <1>1, <2>1, <2>2
<1>. QED BY <1>2, <1>3, <1>4, <1>5, <1>6 DEF p

LEMMA TailFor ==
  ASSUME NEW q \in Seq(SentSet), q # <<>>, NEW r
  PROVE  /\ HasFor(q, r) <=> IsFor(Head(q), r) \/ HasFor(Tail(q), r)
         /\ \A x : LastFor(q, r, x) <=> IF HasFor(Tail(q), r) THEN LastFor(Tail(q), r, x)
                                        ELSE IsFor(Head(q), r) /\ Head(q).val = x
         /\ HasReset(q, r) <=> IsResetOf(Head(q), r) \/ HasReset(Tail(q), r)
         /\ LastIsCommand(q, r) => LastIsCommand(Tail(q), r)
         /\ LastIsCommand(q, r) /\ IsResetOf(Head(q), r) => HasFor(Tail(q), r)
<1>. DEFINE p == Tail(q)
            h == Head(q)
<1>1. /\ Len(q) \in Nat \ {0} /\ Len(p) = Len(q) - 1 /\ h = q[1]
      /\ \A i \in 1..Len(p) : p[i] = q[i + 1]
      /\ \A i \in 2..Len(q) : q[i] = p[i - 1]
  BY HeadTailType
<1>. HIDE DEF p, h
<1>2. HasFor(q, r) <=> IsFor(h, r) \/ HasFor(p, r)
  BY <1>1 DEF HasFor
<1>3. HasReset(q, r) <=> IsResetOf(h, r) \/ HasReset(p, r)
  BY <1>1 DEF HasReset
<1>4. ASSUME NEW x
      PROVE  LastFor(q, r, x) <=> IF HasFor(p, r) THEN LastFor(p, r, x) ELSE IsFor(h, r) /\ h.val = x
  <2>1. CASE ~HasFor(p, r)
    <3>1. \A i \in 2..Len(q) : ~IsFor(q[i], r)
      BY <1>1, <2>1 DEF HasFor
    <3>. QED BY <1>1, <2>1, <3>1 DEF LastFor
  <2>2. ASSUME HasFor(p, r), LastFor(p, r, x) PROVE LastFor(q, r, x)
    <3>1. PICK i \in 1..Len(p) : /\ IsFor(p[i], r) /\ p[i].val = x
                                 /\ \A j \in 1..Len(p) : IsFor(p[j], r) => j <= i
      BY <2>2 DEF LastFor
    <3>2. ASSUME NEW j \in 1..Len(q), IsFor(q[j], r) PROVE j <= i + 1
      <4>1. CASE j = 1
        BY <4>1
      <4>2. CASE j # 1
        <5>1. j - 1 \in 1..Len(p) /\ p[j - 1] = q[j]
          BY <1>1, <4>2
        <5>. QED BY <3>1, <3>2, <5>1
      <4>. QED BY <4>1, <4>2
    <3>3. i + 1 \in 1..Len(q) /\ q[i + 1] = p[i]
      BY <1>1
    <3>. QED BY <3>1, <3>2, <3>3 DEF LastFor
  <2>3. ASSUME HasFor(p, r), LastFor(q, r, x) PROVE LastFor(p, r, x)
    <3>1. PICK i \in 1..Len(q) : /\ IsFor(q[i], r) /\ q[i].val = x
                                 /\ \A j \in 1..Len(q) : IsFor(q[j], r) => j <= i
      BY <2>3 DEF LastFor
    <3>2. PICK k \in 1..Len(p) : IsFor(p[k], r)
      BY <2>3 DEF HasFor
    <3>3. k + 1 \in 1..Len(q) /\ q[k + 1] = p[k]
      BY <1>1
    <3>4. i - 1 \in 1..Len(p) /\ p[i - 1] = q[i]
      BY <1>1, <3>1, <3>2, <3>3
    <3>5. ASSUME NEW j \in 1..Len(p), IsFor(p[j], r) PROVE j <= i - 1
      <4>1. j + 1 \in 1..Len(q) /\ q[j + 1] = p[j]
        BY <1>1
      <4>. QED BY <3>1, <3>5, <4>1
    <3>. QED BY <3>1, <3>4, <3>5 DEF LastFor
  <2>. QED BY <2>1, <2>2, <2>3
<1>5. ASSUME LastIsCommand(q, r) PROVE LastIsCommand(p, r)
  <2>. SUFFICES ASSUME NEW i \in 1..Len(p), IsResetOf(p[i], r)
                PROVE  \E j \in i..Len(p) : IsFor(p[j], r)
    BY DEF LastIsCommand
  <2>1. i + 1 \in 1..Len(q) /\ q[i + 1] = p[i]
    BY <1>1
  <2>2. PICK j \in (i + 1)..Len(q) : IsFor(q[j], r)
    BY <1>5, <2>1 DEF LastIsCommand
  <2>3. j - 1 \in i..Len(p) /\ p[j - 1] = q[j]
    BY <1>1, <2>2
  <2>. QED BY <2>2, <2>3
<1>6. ASSUME LastIsCommand(q, r), IsResetOf(h, r) PROVE HasFor(p, r)
  <2>1. PICK j \in 1..Len(q) : IsFor(q[j], r)
    BY <1>1, <1>6 DEF LastIsCommand
  <2>2. ~IsFor(h, r)
    BY <1>6 DEF IsFor, IsResetOf
  <2>. QED BY <1>1, <2>1, <2>2 DEF HasFor
<1>. QED BY <1>2, <1>3, <1>4, <1>5, <1>6 DEF p, h

LEMMA EmptyFor == ASSUME NEW r PROVE ~HasFor(<<>>, r) /\ ~HasReset(<<>>, r)
BY DEF HasFor, HasReset

-----------------------------------------------------------------------------
\* An entry that this run has seen come; the others are Leftover.
Entered(r) == commands[r] # nothing /\ commands[r].id > since

\* The newest command on r that the storage has let through to this run has the
\* value x, or it is executed, and x is what was executed last.
Newest(r, x) ==
  IF IsFor(forwarding, r) THEN forwarding.val = x
  ELSE IF HasFor(queue[subs], r) THEN LastFor(queue[subs], r, x)
  ELSE lastExec[r] = x

\* This run has seen a command on r, or will.
InRun(r) == IsFor(forwarding, r) \/ HasFor(queue[subs], r) \/ r \in handled

Kept == \A r \in Regs : commands[r] # nothing => commands[r].id <= taken /\ commands[r].reg = r
Alive == Up /\ ~cancelled => subs \in listed
Fresh == Up => \A r \in Regs : InRun(r) => ~Leftover(r)
ExecutedHandled == executing # nothing => executing.reg \in handled
Stored == Up /\ ~cancelled => \A r \in Regs : Entered(r) => Newest(r, commands[r].val)

\* The command last issued is still to be taken, or is the newest taken; or an
\* equal one left in the storage by an earlier run has swallowed it.
Asked ==
  Up /\ ~cancelled =>
    \A r \in asked :
      /\ Leftover(r) => LastIsCommand(input, r)
      /\ IF HasFor(input, r) THEN LastFor(input, r, lastIssued[r])
         ELSE Newest(r, lastIssued[r]) \/ (Leftover(r) /\ commands[r].val = lastIssued[r])

Followed == Kept /\ Alive /\ Fresh /\ ExecutedHandled /\ Stored /\ Asked

LEMMA InitFollowed == Init => Followed
BY DEF Init, Followed, Kept, Alive, Fresh, ExecutedHandled, Stored, Asked, Up, nothing

\* Newest, InRun and the entries are as before where what they are made of is.
LEMMA SameFollowed ==
  ASSUME UNCHANGED <<forwarding, queue, subs, lastExec, commands, since>>, NEW r
  PROVE  /\ \A x : Newest(r, x)' <=> Newest(r, x)
         /\ handled' = handled => (InRun(r)' <=> InRun(r))
         /\ Leftover(r)' <=> Leftover(r)
         /\ Entered(r)' <=> Entered(r)
BY DEF Newest, InRun, Leftover, Entered

LEMMA IssueFollowed == TypeOK /\ Followed /\ Issue => Followed'
<1>. SUFFICES ASSUME TypeOK, Followed, Issue PROVE Followed'
  OBVIOUS
<1>. PICK r0 \in Regs, v \in Vals :
       /\ input' = Append(input, [reg |-> r0, val |-> v, id |-> issued'])
       /\ lastIssued' = [lastIssued EXCEPT ![r0] = v]
       /\ asked' = IF Up THEN asked \cup {r0} ELSE asked
  BY DEF Issue
<1>. DEFINE c == [reg |-> r0, val |-> v, id |-> issued']
<1>1. /\ issued' \in 1..MaxIssues /\ cancelled' = cancelled /\ Up' = Up
      /\ UNCHANGED <<forwarding, queue, subs, lastExec, commands, since, handled, taken,
                     executing, listed>>
  BY DEF Issue, TypeOK, Up, rvars
<1>2. c \in SentSet /\ c.val = v /\ c.reg = r0 /\ IsFor(c, r0) /\ input \in Seq(SentSet)
  BY <1>1 DEF SentSet, CommandSet, IsFor, TypeOK
<1>3. input' = Append(input, c)
  OBVIOUS
<1>. HIDE DEF c
<1>4. ASSUME NEW r \in asked', Up, ~cancelled
      PROVE  /\ Leftover(r)' => LastIsCommand(input', r)
             /\ IF HasFor(input', r) THEN LastFor(input', r, lastIssued'[r])
                ELSE Newest(r, lastIssued[r])' \/ (Leftover(r)' /\ commands'[r].val = lastIssued'[r])
  <2>1. CASE r = r0
    <3>1. lastIssued'[r] = v
      BY <2>1 DEF TypeOK
    <3>. QED BY <1>2, <1>3, <2>1, <3>1, AppendFor
  <2>2. CASE r # r0
    <3>1. r \in asked /\ lastIssued'[r] = lastIssued[r]
      BY <1>4, <2>2 DEF TypeOK
    <3>2. ~IsFor(c, r) /\ ~IsResetOf(c, r)
      BY <1>2, <2>2 DEF IsFor, IsResetOf
    <3>3. /\ HasFor(input', r) <=> HasFor(input, r)
          /\ LastFor(input', r, lastIssued[r]) <=> LastFor(input, r, lastIssued[r])
          /\ LastIsCommand(input, r) => LastIsCommand(input', r)
      BY <1>2, <1>3, <3>2, AppendFor
    <3>4. Newest(r, lastIssued[r])' <=> Newest(r, lastIssued[r])
      BY <1>1, <3>1 DEF Newest
    <3>5. Leftover(r)' <=> Leftover(r)
      BY <1>1, SameFollowed
    <3>6. /\ Leftover(r) => LastIsCommand(input, r)
          /\ IF HasFor(input, r) THEN LastFor(input, r, lastIssued[r])
             ELSE Newest(r, lastIssued[r]) \/ (Leftover(r) /\ commands[r].val = lastIssued[r])
      BY <1>4, <3>1 DEF Followed, Asked
    <3>. QED BY <1>1, <3>1, <3>3, <3>4, <3>5, <3>6
  <2>. QED BY <2>1, <2>2
<1>5. Asked'
  BY <1>1, <1>4 DEF Asked
<1>6. Kept' /\ Alive' /\ ExecutedHandled'
  BY <1>1 DEF Followed, Kept, Alive, ExecutedHandled
<1>7. Fresh'
  BY <1>1, SameFollowed DEF Followed, Fresh
<1>8. Stored'
  <2>1. ASSUME NEW r \in Regs PROVE Newest(r, commands[r].val)' <=> Newest(r, commands[r].val)
    BY <1>1 DEF Newest
  <2>. QED BY <1>1, <2>1, SameFollowed DEF Followed, Stored
<1>. QED BY <1>5, <1>6, <1>7, <1>8 DEF Followed

LEMMA TakeFollowed == TypeOK /\ InOrder /\ Followed /\ StorageTake => Followed'
<1>. SUFFICES ASSUME TypeOK, InOrder, Followed, StorageTake PROVE Followed'
  OBVIOUS
<1>. PICK v : v = Head(input)
  OBVIOUS
<1>1. /\ input # <<>> /\ input \in Seq(SentSet) /\ v \in SentSet /\ input' = Tail(input)
      /\ v.reg \in Regs /\ (v.val # Null => v \in CommandSet /\ v.id \in Int)
  BY HeadTailType, Kinds DEF StorageTake, TypeOK
<1>2. PICK equal \in BOOLEAN :
        /\ equal = (v.val # Null /\ commands[v.reg].val = v.val)
        /\ commands' = IF equal THEN commands
                       ELSE [commands EXCEPT ![v.reg] = IF v.val = Null THEN nothing ELSE v]
        /\ forwarding' = IF equal THEN nothing ELSE v
        /\ taken' = IF v.val = Null THEN taken ELSE v.id
  BY DEF StorageTake
<1>3. /\ forwarding = nothing /\ cancelled' = cancelled /\ Up' = Up
      /\ UNCHANGED <<queue, subs, lastExec, since, handled, executing, listed, asked, lastIssued>>
  BY DEF StorageTake, MutexFree, rvars, Up
<1>4. v.val # Null => v.id > taken
  BY <1>1, OrderedTail DEF InOrder, TypeOK
<1>5. {taken, since} \subseteq Int /\ since <= taken
  BY DEF TypeOK, InOrder
<1>6. \A r \in Regs : commands[r] # nothing => commands[r] \in CommandSet /\ commands[r].id \in Int
                                              /\ commands[r].val # Null
  BY Kinds DEF TypeOK
<1>7. \A r \in Regs : ~IsFor(nothing, r)
  BY Kinds DEF IsFor
<1>8. asked \subseteq Regs /\ commands \in [Regs -> CommandSet \cup {nothing}]
  BY DEF TypeOK
<1>9. CASE equal
  <2>1. v.val # Null /\ commands[v.reg].val = v.val /\ commands' = commands /\ forwarding' = forwarding
        /\ taken' = v.id /\ commands[v.reg] # nothing
    BY <1>2, <1>3, <1>9, Kinds
  <2>2. ASSUME NEW r PROVE /\ \A x : Newest(r, x)' <=> Newest(r, x)
                           /\ InRun(r)' <=> InRun(r)
                           /\ Leftover(r)' <=> Leftover(r)
                           /\ Entered(r)' <=> Entered(r)
    BY <1>3, <2>1, SameFollowed
  <2>3. ASSUME NEW r \in asked, Up, ~cancelled
        PROVE  /\ Leftover(r) => LastIsCommand(input', r)
               /\ IF HasFor(input', r) THEN LastFor(input', r, lastIssued[r])
                  ELSE Newest(r, lastIssued[r]) \/ (Leftover(r) /\ commands[r].val = lastIssued[r])
    <3>1. /\ Leftover(r) => LastIsCommand(input, r)
          /\ IF HasFor(input, r) THEN LastFor(input, r, lastIssued[r])
             ELSE Newest(r, lastIssued[r]) \/ (Leftover(r) /\ commands[r].val = lastIssued[r])
      BY <2>3 DEF Followed, Asked
    <3>2. CASE HasFor(input', r) \/ ~HasFor(input, r)
      BY <1>1, <3>1, <3>2, TailFor
    <3>3. CASE ~HasFor(input', r) /\ HasFor(input, r)
      <4>1. IsFor(v, r) /\ v.val = lastIssued[r] /\ (Leftover(r) => LastIsCommand(input', r))
        BY <1>1, <3>1, <3>3, TailFor
      <4>2. v.reg = r /\ commands[r].val = lastIssued[r] /\ commands[r] # nothing
        BY <2>1, <4>1 DEF IsFor
      <4>3. CASE Leftover(r)
        BY <3>3, <4>1, <4>2, <4>3
      <4>4. CASE ~Leftover(r)
        <5>1. Entered(r)
          BY <1>1, <1>5, <1>6, <4>2, <4>4 DEF Leftover, Entered
        <5>2. Newest(r, commands[r].val)
          BY <1>1, <2>3, <4>2, <5>1 DEF Followed, Stored
        <5>. QED BY <3>3, <4>1, <4>2, <4>4, <5>2
      <4>. QED BY <4>3, <4>4
    <3>. QED BY <3>2, <3>3
  <2>4. Asked'
    <3>1. ASSUME NEW r \in asked
          PROVE  (Newest(r, lastIssued[r])' <=> Newest(r, lastIssued[r]))
      BY <1>3, <2>1 DEF Newest
    <3>. QED BY <1>3, <2>1, <2>2, <2>3, <3>1 DEF Asked
  <2>5. Stored'
    <3>1. ASSUME NEW r \in Regs PROVE Newest(r, commands[r].val)' <=> Newest(r, commands[r].val)
      BY <1>3, <2>1 DEF Newest
    <3>. QED BY <1>3, <2>2, <3>1 DEF Followed, Stored
  <2>6. Kept'
    BY <1>1, <1>4, <1>5, <1>6, <2>1 DEF Followed, Kept
  <2>. QED BY <1>3, <2>2, <2>4, <2>5, <2>6 DEF Followed, Alive, Fresh, ExecutedHandled
<1>10. CASE ~equal
  <2>1. /\ forwarding' = v
        /\ commands' = [commands EXCEPT ![v.reg] = IF v.val = Null THEN nothing ELSE v]
        /\ \A r \in Regs : r # v.reg => commands'[r] = commands[r]
        /\ commands'[v.reg] = IF v.val = Null THEN nothing ELSE v
    BY <1>1, <1>2, <1>8, <1>10
  <2>2. ASSUME NEW r \in Regs, ~IsFor(v, r)
        PROVE  /\ \A x : Newest(r, x)' <=> Newest(r, x)
               /\ InRun(r)' <=> InRun(r)
    BY <1>3, <1>7, <2>1, <2>2 DEF Newest, InRun
  <2>3. ASSUME NEW r \in Regs, r # v.reg
        PROVE  /\ Leftover(r)' <=> Leftover(r)
               /\ Entered(r)' <=> Entered(r)
    BY <1>3, <2>1, <2>3 DEF Leftover, Entered
  <2>4. v.val = Null => ~Leftover(v.reg)' /\ ~Entered(v.reg)'
    BY <2>1 DEF Leftover, Entered
  <2>5. v.val # Null => /\ ~Leftover(v.reg)' /\ Newest(v.reg, v.val)' /\ IsFor(v, v.reg)
                        /\ \A x : Newest(v.reg, x)' <=> v.val = x
    BY <1>1, <1>3, <1>4, <1>5, <2>1 DEF Leftover, Newest, IsFor
  <2>6. Kept'
    BY <1>1, <1>2, <1>4, <1>5, <1>6, <2>1 DEF Followed, Kept
  <2>7. Fresh'
    <3>. SUFFICES ASSUME Up, NEW r \in Regs, InRun(r)' PROVE ~Leftover(r)'
      BY <1>3 DEF Fresh
    <3>1. CASE r = v.reg
      <4>1. v.val = Null => ~Leftover(r)'
        BY <2>4, <3>1
      <4>. QED BY <2>5, <3>1, <4>1
    <3>2. CASE r # v.reg
      <4>1. ~IsFor(v, r)
        BY <3>2 DEF IsFor
      <4>. QED BY <2>2, <2>3, <3>2, <4>1 DEF Followed, Fresh
    <3>. QED BY <3>1, <3>2
  <2>8. Stored'
    <3>. SUFFICES ASSUME Up, ~cancelled, NEW r \in Regs, Entered(r)'
                  PROVE  Newest(r, commands[r].val)'
      BY <1>3 DEF Stored
    <3>1. CASE r = v.reg
      <4>1. v.val # Null /\ commands'[r] = v
        BY <2>1, <2>4, <3>1
      <4>. QED BY <1>3, <2>1, <2>5, <3>1, <4>1 DEF Newest
    <3>2. CASE r # v.reg
      <4>1. ~IsFor(v, r) /\ commands'[r] = commands[r] /\ Entered(r)
        BY <2>1, <2>3, <3>2 DEF IsFor
      <4>2. Newest(r, commands[r].val)
        BY <4>1 DEF Followed, Stored
      <4>. QED BY <1>3, <1>7, <2>1, <4>1, <4>2 DEF Newest
    <3>. QED BY <3>1, <3>2
  <2>9. Asked'
    <3>. SUFFICES ASSUME Up, ~cancelled, NEW r \in asked
                  PROVE  /\ Leftover(r)' => LastIsCommand(input', r)
                         /\ IF HasFor(input', r) THEN LastFor(input', r, lastIssued[r])
                            ELSE \/ Newest(r, lastIssued[r])'
                                 \/ Leftover(r)' /\ commands'[r].val = lastIssued'[r]
      BY <1>3 DEF Asked
    <3>0. r \in Regs /\ lastIssued' = lastIssued
      BY <1>3, <1>8
    <3>1. /\ Leftover(r) => LastIsCommand(input, r)
          /\ IF HasFor(input, r) THEN LastFor(input, r, lastIssued[r])
             ELSE Newest(r, lastIssued[r]) \/ (Leftover(r) /\ commands[r].val = lastIssued[r])
      BY DEF Followed, Asked
    <3>2. CASE r # v.reg
      <4>1. ~IsFor(v, r) /\ ~IsResetOf(v, r) /\ commands'[r] = commands[r]
        BY <2>1, <3>0, <3>2 DEF IsFor, IsResetOf
      <4>2. /\ HasFor(input', r) <=> HasFor(input, r)
            /\ HasFor(input', r) => (LastFor(input, r, lastIssued[r]) <=> LastFor(input', r, lastIssued[r]))
            /\ LastIsCommand(input, r) => LastIsCommand(input', r)
        BY <1>1, <4>1, TailFor
      <4>3. Newest(r, lastIssued[r])' <=> Newest(r, lastIssued[r])
        BY <1>3, <1>7, <2>1, <3>0, <4>1 DEF Newest
      <4>. QED BY <2>3, <3>0, <3>1, <3>2, <4>1, <4>2, <4>3
    <3>3. CASE r = v.reg /\ v.val # Null
      <4>1. IsFor(v, r) /\ ~Leftover(r)'
        BY <2>5, <3>3
      <4>2. IF HasFor(input', r) THEN LastFor(input', r, lastIssued[r]) ELSE v.val = lastIssued[r]
        BY <1>1, <3>1, <4>1, TailFor
      <4>3. v.val = lastIssued[r] => Newest(r, lastIssued[r])'
        BY <2>1, <3>0, <4>1 DEF Newest
      <4>. QED BY <4>1, <4>2, <4>3
    <3>4. CASE r = v.reg /\ v.val = Null
      <4>1. ~IsFor(v, r) /\ IsResetOf(v, r) /\ ~Leftover(r)'
        BY <2>4, <3>4 DEF IsFor, IsResetOf
      <4>2. /\ HasFor(input', r) <=> HasFor(input, r)
            /\ HasFor(input', r) => (LastFor(input, r, lastIssued[r]) <=> LastFor(input', r, lastIssued[r]))
            /\ LastIsCommand(input, r) => HasFor(input', r)
        BY <1>1, <4>1, TailFor
      <4>3. Newest(r, lastIssued[r])' <=> Newest(r, lastIssued[r])
        BY <1>3, <1>7, <2>1, <3>0, <4>1 DEF Newest
      <4>. QED BY <3>1, <4>1, <4>2, <4>3
    <3>. QED BY <3>2, <3>3, <3>4
  <2>. QED BY <1>3, <2>6, <2>7, <2>8, <2>9 DEF Followed, Alive, ExecutedHandled
<1>. QED BY <1>9, <1>10

LEMMA ForwardFollowed == TypeOK /\ Control /\ Followed /\ StorageForward => Followed'
<1>. SUFFICES ASSUME TypeOK, Control, Followed, StorageForward PROVE Followed'
  OBVIOUS
<1>1. /\ forwarding' = nothing /\ cancelled' = cancelled /\ Up' = Up
      /\ UNCHANGED <<commands, input, subs, lastExec, since, handled, executing, listed, asked,
                     lastIssued, taken>>
  BY DEF StorageForward, rvars, Up
<1>2. \A r \in Regs : ~IsFor(nothing, r)
  BY Kinds DEF IsFor
<1>3. ASSUME Up
      PROVE  /\ subs \in 1..MaxSubs /\ queue[subs] \in Seq(SentSet) /\ forwarding \in SentSet
             /\ \/ queue'[subs] = Append(queue[subs], forwarding) /\ forwarding.val # Null
                \/ queue'[subs] = queue[subs] /\ (subs \notin listed \/ forwarding.val = Null)
  <2>1. subs \in 1..MaxSubs /\ queue[subs] \in Seq(CommandSet) /\ forwarding \in SentSet
    BY <1>3 DEF TypeOK, Control, StorageForward
  <2>2. queue[subs] \in Seq(SentSet)
    BY <2>1 DEF SentSet
  <2>. QED BY <2>1, <2>2 DEF StorageForward
<1>4. ASSUME Up, NEW r \in Regs PROVE InRun(r)' => InRun(r)
  <2>1. HasFor(queue'[subs], r) => IsFor(forwarding, r) \/ HasFor(queue[subs], r)
    <3>1. CASE queue'[subs] = Append(queue[subs], forwarding)
      <4>1. HasFor(Append(queue[subs], forwarding), r) <=> IsFor(forwarding, r) \/ HasFor(queue[subs], r)
        BY <1>3, <1>4, AppendFor, Zenon
      <4>. QED BY <3>1, <4>1
    <3>. QED BY <1>3, <1>4, <3>1
  <2>2. ~IsFor(forwarding', r)
    BY <1>1, <1>2
  <2>. QED BY <1>1, <2>1, <2>2 DEF InRun
<1>5. ASSUME Up, subs \in listed, NEW r \in Regs, NEW x
      PROVE  (Newest(r, x)' <=> Newest(r, x))
  <2>1. ~IsFor(forwarding', r) /\ (forwarding.val = Null => ~IsFor(forwarding, r))
    BY <1>1, <1>2 DEF IsFor
  <2>2. CASE queue'[subs] = Append(queue[subs], forwarding) /\ forwarding.val # Null
    <3>1. /\ HasFor(queue'[subs], r) <=> IsFor(forwarding, r) \/ HasFor(queue[subs], r)
          /\ LastFor(queue'[subs], r, x) <=>
               IF IsFor(forwarding, r) THEN forwarding.val = x ELSE LastFor(queue[subs], r, x)
      BY <1>3, <1>5, <2>2, AppendFor
    <3>. QED BY <1>1, <2>1, <3>1 DEF Newest
  <2>3. CASE queue'[subs] = queue[subs] /\ forwarding.val = Null
    BY <1>1, <2>1, <2>3 DEF Newest
  <2>. QED BY <1>3, <1>5, <2>2, <2>3
<1>6. ASSUME NEW r PROVE (Leftover(r)' <=> Leftover(r)) /\ (Entered(r)' <=> Entered(r))
  BY <1>1 DEF Leftover, Entered
<1>7. Kept' /\ Alive' /\ ExecutedHandled'
  BY <1>1 DEF Followed, Kept, Alive, ExecutedHandled
<1>8. Fresh'
  BY <1>1, <1>4, <1>6 DEF Followed, Fresh
<1>9. Stored'
  <2>. SUFFICES ASSUME Up, ~cancelled, NEW r \in Regs, Entered(r) PROVE Newest(r, commands[r].val)'
    BY <1>1, <1>6 DEF Stored
  <2>1. PICK x : x = commands[r].val
    OBVIOUS
  <2>2. Newest(r, x)' <=> Newest(r, x)
    BY <1>5 DEF Followed, Alive
  <2>3. Newest(r, x)
    BY <2>1 DEF Followed, Stored
  <2>. QED BY <1>1, <2>1, <2>2, <2>3 DEF Newest
<1>10. Asked'
  <2>. SUFFICES ASSUME Up, ~cancelled, NEW r \in asked
                PROVE  /\ Leftover(r) => LastIsCommand(input, r)
                       /\ IF HasFor(input, r) THEN LastFor(input, r, lastIssued[r])
                          ELSE \/ Newest(r, lastIssued[r])'
                               \/ Leftover(r) /\ commands[r].val = lastIssued[r]
    BY <1>1, <1>6 DEF Asked
  <2>1. PICK x : x = lastIssued[r]
    OBVIOUS
  <2>2. Newest(r, x)' <=> Newest(r, x)
    BY <1>5 DEF Followed, Alive, TypeOK
  <2>3. Newest(r, lastIssued[r])' <=> Newest(r, lastIssued[r])
    BY <1>1, <2>1, <2>2 DEF Newest
  <2>. QED BY <2>3 DEF Followed, Asked
<1>. QED BY <1>7, <1>8, <1>9, <1>10 DEF Followed

LEMMA SubscribeFollowed == TypeOK /\ Control /\ InOrder /\ Followed /\ Subscribe => Followed'
<1>. SUFFICES ASSUME TypeOK, Control, InOrder, Followed, Subscribe PROVE Followed'
  OBVIOUS
<1>1. /\ forwarding = nothing /\ subs' = subs + 1 /\ listed' = listed \cup {subs'}
      /\ since' = taken /\ handled' = {} /\ asked' = {} /\ executing = nothing
      /\ UNCHANGED <<commands, queue, forwarding, executing, taken>>
  BY DEF Subscribe, MutexFree, TypeOK
<1>2. queue[subs'] = <<>>
  BY <1>1 DEF Subscribe, Control, TypeOK
<1>3. \A r \in Regs : ~InRun(r)'
  BY <1>1, <1>2, EmptyFor, Kinds DEF InRun, IsFor
<1>4. \A r \in Regs : commands[r] # nothing => commands[r].id <= taken
                                               /\ commands[r].id \in Int /\ taken \in Int
  BY Kinds DEF Followed, Kept, TypeOK
<1>5. \A r \in Regs : ~Entered(r)'
  BY <1>1, <1>4 DEF Entered
<1>6. Kept'
  BY <1>1 DEF Followed, Kept
<1>. QED BY <1>1, <1>3, <1>5, <1>6 DEF Followed, Alive, Fresh, ExecutedHandled, Stored, Asked

LEMMA TakeCommandFollowed == TypeOK /\ Control /\ Followed /\ TakeCommand => Followed'
<1>. SUFFICES ASSUME TypeOK, Control, Followed, TakeCommand PROVE Followed'
  OBVIOUS
<1>. PICK q : q = queue[subs]
  OBVIOUS
<1>1. /\ q # <<>> /\ q \in Seq(CommandSet) /\ subs \in 1..MaxSubs
  BY DEF TakeCommand, TypeOK, Control, Up
<1>2. q \in Seq(SentSet) /\ Head(q) \in CommandSet
  BY <1>1, HeadTailType DEF SentSet
<1>. PICK e : e = Head(q)
  OBVIOUS
<1>3. e.reg \in Regs /\ e.val # Null /\ IsFor(e, e.reg)
  BY <1>2, Kinds DEF IsFor
<1>4. /\ executing' = e /\ queue'[subs] = Tail(q) /\ Up /\ Up'
      /\ lastExec' = [lastExec EXCEPT ![e.reg] = e.val] /\ handled' = handled \cup {e.reg}
      /\ lastExec'[e.reg] = e.val /\ \A r \in Regs : r # e.reg => lastExec'[r] = lastExec[r]
      /\ UNCHANGED <<commands, input, forwarding, subs, listed, since, asked, lastIssued, taken, cancelled>>
  BY <1>1, <1>3 DEF TakeCommand, TypeOK, rvars, Up
<1>5. ASSUME NEW r \in Regs, NEW x
      PROVE  /\ Newest(r, x)' <=> Newest(r, x)
             /\ InRun(r)' <=> InRun(r)
  <2>1. /\ HasFor(q, r) <=> IsFor(e, r) \/ HasFor(Tail(q), r)
        /\ LastFor(q, r, x) <=> IF HasFor(Tail(q), r) THEN LastFor(Tail(q), r, x)
                                ELSE IsFor(e, r) /\ e.val = x
    BY <1>1, <1>2, TailFor
  <2>2. IsFor(e, r) <=> r = e.reg
    BY <1>3 DEF IsFor
  <2>. QED BY <1>4, <2>1, <2>2 DEF Newest, InRun
<1>6. ASSUME NEW r PROVE (Leftover(r)' <=> Leftover(r)) /\ (Entered(r)' <=> Entered(r))
  BY <1>4 DEF Leftover, Entered
<1>7. Kept' /\ Alive' /\ ExecutedHandled' /\ Fresh'
  BY <1>4, <1>5, <1>6 DEF Followed, Kept, Alive, ExecutedHandled, Fresh
<1>8. Stored'
  <2>. SUFFICES ASSUME ~cancelled, NEW r \in Regs, Entered(r) PROVE Newest(r, commands[r].val)'
    BY <1>4, <1>6 DEF Stored
  <2>1. PICK x : x = commands[r].val
    OBVIOUS
  <2>2. Newest(r, x)' /\ x = commands'[r].val
    BY <1>4, <1>5, <2>1 DEF Followed, Stored
  <2>. QED BY <2>2 DEF Newest
<1>9. Asked'
  <2>. SUFFICES ASSUME ~cancelled, NEW r \in asked
                PROVE  /\ Leftover(r) => LastIsCommand(input, r)
                       /\ IF HasFor(input, r) THEN LastFor(input, r, lastIssued[r])
                          ELSE \/ Newest(r, lastIssued[r])'
                               \/ Leftover(r) /\ commands[r].val = lastIssued[r]
    BY <1>4, <1>6 DEF Asked
  <2>1. PICK x : x = lastIssued[r]
    OBVIOUS
  <2>2. Newest(r, x)' <=> Newest(r, x)
    BY <1>5 DEF TypeOK
  <2>3. Newest(r, lastIssued[r])' <=> Newest(r, lastIssued[r])
    BY <1>4, <2>1, <2>2 DEF Newest
  <2>. QED BY <1>4, <2>3 DEF Followed, Asked
<1>. QED BY <1>7, <1>8, <1>9 DEF Followed

LEMMA ResetFollowed == TypeOK /\ Followed /\ Reset => Followed'
<1>. SUFFICES ASSUME TypeOK, Followed, Reset PROVE Followed'
  OBVIOUS
<1>. PICK c : c = [reg |-> executing.reg, val |-> Null, id |-> 0]
  OBVIOUS
<1>1. c \in SentSet /\ c.val = Null /\ c.reg = executing.reg /\ c.reg \in handled
  BY Kinds DEF Reset, TypeOK, SentSet, ResetSet, Followed, ExecutedHandled
<1>2. /\ input' = Append(input, c) /\ input \in Seq(SentSet) /\ Up /\ Up' /\ executing' = nothing
      /\ UNCHANGED <<commands, forwarding, queue, subs, listed, since, taken, lastExec, handled,
                     asked, lastIssued, cancelled>>
  BY DEF Reset, TypeOK, rvars, Up
<1>3. Kept' /\ Alive' /\ ExecutedHandled'
  BY <1>2 DEF Followed, Kept, Alive, ExecutedHandled
<1>4. Fresh'
  BY <1>2, SameFollowed DEF Followed, Fresh
<1>5. Stored'
  <2>1. ASSUME NEW r \in Regs PROVE Newest(r, commands[r].val)' <=> Newest(r, commands[r].val)
    BY <1>2 DEF Newest
  <2>. QED BY <1>2, <2>1, SameFollowed DEF Followed, Stored
<1>6. Asked'
  <2>. SUFFICES ASSUME ~cancelled, NEW r \in asked
                PROVE  /\ Leftover(r) => LastIsCommand(input', r)
                       /\ IF HasFor(input', r) THEN LastFor(input', r, lastIssued[r])
                          ELSE \/ Newest(r, lastIssued[r])
                               \/ Leftover(r) /\ commands[r].val = lastIssued[r]
    <3>1. ASSUME NEW r \in asked PROVE Newest(r, lastIssued[r])' <=> Newest(r, lastIssued[r])
      BY <1>2 DEF Newest
    <3>. QED BY <1>2, <3>1, SameFollowed DEF Asked
  <2>1. /\ Leftover(r) => LastIsCommand(input, r)
        /\ IF HasFor(input, r) THEN LastFor(input, r, lastIssued[r])
           ELSE Newest(r, lastIssued[r]) \/ (Leftover(r) /\ commands[r].val = lastIssued[r])
    BY <1>2 DEF Followed, Asked
  <2>2. ~IsFor(c, r)
    BY <1>1 DEF IsFor
  <2>3. /\ HasFor(input', r) <=> HasFor(input, r)
        /\ LastFor(input', r, lastIssued[r]) <=> LastFor(input, r, lastIssued[r])
        /\ ~IsResetOf(c, r) /\ LastIsCommand(input, r) => LastIsCommand(input', r)
    BY <1>1, <1>2, <2>2, AppendFor
  <2>4. IsResetOf(c, r) => ~Leftover(r)
    <3>1. r \in Regs
      BY DEF TypeOK
    <3>. QED BY <1>1, <1>2, <3>1 DEF Followed, Fresh, InRun, IsResetOf
  <2>. QED BY <2>1, <2>3, <2>4
<1>. QED BY <1>3, <1>4, <1>5, <1>6 DEF Followed

\* A step that leaves what is on its way alone keeps all of it.
LEMMA QuietFollowed ==
  ASSUME Followed, cancelled' \in {cancelled, TRUE}, Up' => Up,
         UNCHANGED <<commands, input, forwarding, subs, queue, since, taken, lastExec, handled,
                     asked, lastIssued>>,
         cancelled' \/ listed' = listed, executing' \in {executing, nothing}
  PROVE  Followed'
<1>1. Kept' /\ Alive' /\ ExecutedHandled'
  BY DEF Followed, Kept, Alive, ExecutedHandled
<1>2. Fresh'
  BY SameFollowed DEF Followed, Fresh
<1>3. Stored'
  <2>1. ASSUME NEW r \in Regs PROVE Newest(r, commands[r].val)' <=> Newest(r, commands[r].val)
    BY DEF Newest
  <2>. QED BY <2>1, SameFollowed DEF Followed, Stored
<1>4. Asked'
  <2>1. ASSUME NEW r \in asked PROVE Newest(r, lastIssued[r])' <=> Newest(r, lastIssued[r])
    BY DEF Newest
  <2>. QED BY <2>1, SameFollowed DEF Followed, Asked
<1>. QED BY <1>1, <1>2, <1>3, <1>4 DEF Followed

LEMMA StepFollowed == TypeOK /\ Control /\ InOrder /\ Followed /\ [Next]_vars => Followed'
<1>. SUFFICES ASSUME TypeOK, Control, InOrder, Followed, [Next]_vars PROVE Followed'
  OBVIOUS
<1>0. cancelled \in BOOLEAN
  BY Zenon DEF TypeOK, RestarterTypeOK
<1>. USE DEF rvars, dvars
<1>1. CASE Unlist \/ Close \/ Connect \/ ConnectFails \/ TakeNil
  BY <1>0, <1>1, QuietFollowed DEF Unlist, Close, Connect, ConnectFails, TakeNil, ServiceFails, Up
<1>2. CASE LoopStops \/ PollFails
  BY <1>0, <1>2, QuietFollowed DEF LoopStops, ServiceStops, PollFails, ServiceFails, Up
<1>3. CASE ExecEnds
  BY <1>0, <1>3, QuietFollowed DEF ExecEnds, Up
<1>4. CASE RestarterStep
  BY <1>0, <1>4, QuietFollowed
     DEF RestarterStep, Start, Retry, GiveUp, Shutdown, ShutdownReturns, Up
<1>5. CASE UNCHANGED vars
  BY <1>0, <1>5, QuietFollowed DEF vars, Up
<1>. QED BY <1>1, <1>2, <1>3, <1>4, <1>5, IssueFollowed, TakeFollowed, ForwardFollowed,
            SubscribeFollowed, TakeCommandFollowed, ResetFollowed DEF Next

LEMMA AllFollowed == Spec => [](TypeOK /\ Control /\ InOrder /\ Followed)
<1>1. TypeOK /\ Control /\ InOrder /\ Followed /\ [Next]_vars
      => (TypeOK /\ Control /\ InOrder /\ Followed)'
  BY StepType, StepOrder, StepFollowed
<1>. QED BY InitType, InitOrder, InitFollowed, <1>1, PTL DEF Spec

LEMMA QuietState ==
  ASSUME TypeOK, Followed, Quiet
  PROVE  /\ Up /\ executing = nothing
         /\ \A r \in Regs : /\ ~HasFor(input, r) /\ ~HasReset(input, r)
                            /\ ~IsFor(forwarding, r) /\ ~HasFor(queue[subs], r)
         /\ \A r \in asked : lastExec[r] = lastIssued[r]
                             \/ (Leftover(r) /\ commands[r].val = lastIssued[r])
<1>1. Up /\ executing = nothing /\ asked \subseteq Regs
  BY DEF Quiet, Up, TypeOK
<1>2. \A r \in Regs : /\ ~HasFor(input, r) /\ ~HasReset(input, r)
                      /\ ~IsFor(forwarding, r) /\ ~HasFor(queue[subs], r)
  BY EmptyFor, Kinds DEF Quiet, MutexFree, IsFor
<1>3. \A r \in asked : lastExec[r] = lastIssued[r]
                       \/ (Leftover(r) /\ commands[r].val = lastIssued[r])
  BY <1>1, <1>2 DEF Quiet, Followed, Asked, Newest
<1>. QED BY <1>1, <1>2, <1>3

-----------------------------------------------------------------------------
\* The reset of an entry that this run has seen is still to come, or is in
\* inputChannel, unless its execution has ended without one.
ResetComes ==
  Up /\ ~cancelled =>
    \A r \in Regs : Entered(r) =>
      \/ IsFor(forwarding, r) \/ HasFor(queue[subs], r)
      \/ executing # nothing /\ executing.reg = r
      \/ HasReset(input, r) \/ r \in kept

LEMMA StepReset ==
  ASSUME TypeOK, Control, InOrder, Followed, ResetComes, [Next]_vars
  PROVE  ResetComes'
<1>. USE DEF rvars, dvars
<1>0. /\ input \in Seq(SentSet) /\ cancelled \in BOOLEAN
      /\ \A r \in Regs : ~IsFor(nothing, r)
  BY Kinds, Zenon DEF TypeOK, RestarterTypeOK, IsFor
<1>1. CASE Issue
  <2>1. PICK c \in SentSet : input' = Append(input, c)
    <3>1. PICK r \in Regs, v \in Vals : input' = Append(input, [reg |-> r, val |-> v, id |-> issued'])
      BY <1>1 DEF Issue
    <3>2. [reg |-> r, val |-> v, id |-> issued'] \in SentSet
      BY <1>1 DEF Issue, TypeOK, SentSet, CommandSet
    <3>. QED BY <3>1, <3>2
  <2>2. \A r \in Regs : HasReset(input, r) => HasReset(input', r)
    BY <1>0, <2>1, AppendFor
  <2>3. UNCHANGED <<commands, since, forwarding, queue, subs, executing, cancelled, kept>> /\ Up' = Up
    BY <1>1 DEF Issue, Up
  <2>. QED BY <2>2, <2>3 DEF ResetComes, Entered
<1>2. CASE StorageTake
  <2>. PICK v : v = Head(input)
    OBVIOUS
  <2>1. v \in SentSet /\ input # <<>> /\ input' = Tail(input) /\ v.reg \in Regs
    BY <1>2, HeadTailType, Kinds DEF StorageTake, TypeOK
  <2>2. /\ forwarding = nothing
        /\ UNCHANGED <<since, queue, subs, executing, cancelled, kept>> /\ Up' = Up
        /\ \/ forwarding' = nothing /\ commands' = commands /\ v.val # Null
           \/ /\ forwarding' = v
              /\ commands' = [commands EXCEPT ![v.reg] = IF v.val = Null THEN nothing ELSE v]
    BY <1>2 DEF StorageTake, MutexFree, Up
  <2>3. ASSUME NEW r \in Regs, Entered(r)', Up, ~cancelled
        PROVE  \/ IsFor(forwarding', r) \/ HasFor(queue[subs], r)
               \/ executing # nothing /\ executing.reg = r
               \/ HasReset(input', r) \/ r \in kept
    <3>1. CASE IsFor(v, r) /\ forwarding' = v
      BY <3>1
    <3>2. CASE ~(IsFor(v, r) /\ forwarding' = v)
      <4>1. commands'[r] # nothing
        BY <2>3 DEF Entered
      <4>2. ~IsResetOf(v, r) /\ commands'[r] = commands[r]
        <5>1. CASE commands' = commands /\ v.val # Null
          BY <5>1 DEF IsResetOf
        <5>2. CASE /\ forwarding' = v
                   /\ commands' = [commands EXCEPT ![v.reg] = IF v.val = Null THEN nothing ELSE v]
          <6>1. v.reg # r
            BY <2>1, <3>2, <4>1, <5>2 DEF IsFor, TypeOK
          <6>. QED BY <5>2, <6>1 DEF IsResetOf, TypeOK
        <5>. QED BY <2>2, <5>1, <5>2
      <4>3. Entered(r)
        BY <2>2, <2>3, <4>2 DEF Entered
      <4>4. HasReset(input, r) => HasReset(input', r)
        BY <1>0, <2>1, <4>2, TailFor
      <4>. QED BY <1>0, <2>2, <2>3, <4>3, <4>4 DEF ResetComes
    <3>. QED BY <3>1, <3>2
  <2>. QED BY <2>2, <2>3 DEF ResetComes
<1>3. CASE StorageForward
  <2>1. /\ forwarding' = nothing
        /\ UNCHANGED <<commands, since, subs, executing, cancelled, input, listed, kept>> /\ Up' = Up
    BY <1>3 DEF StorageForward, Up
  <2>2. ASSUME Up, ~cancelled, NEW r \in Regs
        PROVE  IsFor(forwarding, r) \/ HasFor(queue[subs], r) => HasFor(queue'[subs], r)
    <3>1. /\ subs \in 1..MaxSubs /\ queue[subs] \in Seq(SentSet) /\ forwarding \in SentSet
          /\ subs \in listed
      BY <1>3, <2>2 DEF TypeOK, Control, StorageForward, SentSet, Followed, Alive
    <3>2. \/ queue'[subs] = Append(queue[subs], forwarding)
          \/ forwarding.val = Null /\ queue'[subs] = queue[subs]
      BY <1>3, <3>1 DEF StorageForward
    <3>3. HasFor(Append(queue[subs], forwarding), r) <=> IsFor(forwarding, r) \/ HasFor(queue[subs], r)
      BY <3>1, AppendFor, Zenon
    <3>4. forwarding.val = Null => ~IsFor(forwarding, r)
      BY DEF IsFor
    <3>. QED BY <3>2, <3>3, <3>4
  <2>. QED BY <2>1, <2>2 DEF ResetComes, Entered
<1>4. CASE Unlist \/ Close \/ Connect \/ ConnectFails \/ TakeNil
  BY <1>4 DEF Unlist, Close, Connect, ConnectFails, TakeNil, ServiceFails, Up, ResetComes, Entered
<1>5. CASE Subscribe
  <2>1. since' = taken /\ commands' = commands
    BY <1>5 DEF Subscribe
  <2>2. \A r \in Regs : commands[r] # nothing => commands[r].id <= taken
                                                 /\ commands[r].id \in Int /\ taken \in Int
    BY Kinds DEF Followed, Kept, TypeOK
  <2>. QED BY <2>1, <2>2 DEF ResetComes, Entered
<1>6. CASE LoopStops \/ PollFails
  BY <1>6 DEF LoopStops, PollFails, ResetComes, Up
<1>7. CASE TakeCommand
  <2>. PICK q : q = queue[subs]
    OBVIOUS
  <2>1. /\ q # <<>> /\ q \in Seq(SentSet) /\ subs \in 1..MaxSubs /\ Head(q) # nothing
        /\ executing = nothing /\ Up
    BY <1>7, HeadTailType, Kinds DEF TakeCommand, TypeOK, Control, Up, SentSet
  <2>2. /\ executing' = Head(q) /\ queue'[subs] = Tail(q)
        /\ UNCHANGED <<commands, since, subs, forwarding, cancelled, input, kept>>
    BY <1>7, <2>1 DEF TakeCommand, TypeOK
  <2>3. \A r \in Regs : HasFor(q, r) => Head(q).reg = r \/ HasFor(queue'[subs], r)
    BY <2>1, <2>2, TailFor DEF IsFor
  <2>. QED BY <2>1, <2>2, <2>3 DEF ResetComes, Entered
<1>8. CASE ExecEnds
  BY <1>8 DEF ExecEnds, ResetComes, Entered, Up
<1>9. CASE Reset
  <2>. PICK c : c = [reg |-> executing.reg, val |-> Null, id |-> 0]
    OBVIOUS
  <2>1. c \in SentSet /\ c.val = Null /\ c.reg = executing.reg
    BY <1>9, Kinds DEF Reset, TypeOK, SentSet, ResetSet
  <2>2. /\ input' = Append(input, c) /\ Up
        /\ UNCHANGED <<commands, since, forwarding, queue, subs, cancelled>>
        /\ kept' = kept \ {executing.reg}
    BY <1>9 DEF Reset, Up
  <2>3. \A r \in Regs : HasReset(input, r) \/ executing.reg = r => HasReset(input', r)
    BY <1>0, <2>1, <2>2, AppendFor DEF IsResetOf
  <2>. QED BY <2>2, <2>3 DEF ResetComes, Entered
<1>10. CASE RestarterStep
  BY <1>0, <1>10 DEF RestarterStep, Start, Retry, GiveUp, Shutdown, ShutdownReturns, Up,
                     ResetComes, Entered
<1>11. CASE UNCHANGED vars
  BY <1>11 DEF vars, Up, ResetComes, Entered
<1>. QED BY <1>1, <1>2, <1>3, <1>4, <1>5, <1>6, <1>7, <1>8, <1>9, <1>10, <1>11 DEF Next

\* Once every command has gone as far as it goes, for each device, however its
\* commands end and whenever they were issued: the last command issued to a
\* register while the device is up is the last executed, unless an equal one from
\* before this run has swallowed it; and of those executed only one that ended
\* without a reset stays in the storage.
THEOREM LastWins == Spec => []LastCommandWins
<1>. DEFINE IInv == TypeOK /\ Control /\ InOrder /\ Followed /\ ResetComes
<1>1. Init => ResetComes
  BY DEF Init, ResetComes, Up
<1>2. IInv /\ [Next]_vars => IInv'
  BY StepType, StepOrder, StepFollowed, StepReset
<1>3. IInv => (Quiet => \A r \in handled : commands[r] = nothing \/ r \in kept)
  <2>. SUFFICES ASSUME IInv, Quiet, NEW r \in handled, commands[r] # nothing PROVE r \in kept
    OBVIOUS
  <2>1. r \in Regs /\ ~cancelled /\ commands[r] \in CommandSet /\ since \in Int
    BY DEF TypeOK, Quiet
  <2>2. ~Leftover(r)
    BY <2>1, QuietState DEF Followed, Fresh, InRun
  <2>3. Entered(r)
    BY <2>1, <2>2, Kinds DEF Leftover, Entered
  <2>. QED BY <2>1, <2>3, QuietState DEF ResetComes
<1>4. IInv => LastCommandWins
  BY <1>3, QuietState DEF LastCommandWins
<1>. QED BY InitType, InitOrder, InitFollowed, <1>1, <1>2, <1>4, PTL DEF Spec
=============================================================================
