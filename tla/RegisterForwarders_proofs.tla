---------------------- MODULE RegisterForwarders_proofs ----------------------
(***************************************************************************)
(* Theorems of RegisterDb for any registers, subscriptions, filters and    *)
(* channel capacities, and of RegisterForwarders, which implements it.     *)
(***************************************************************************)
EXTENDS RegisterForwarders, SequenceTheorems, FiniteSetTheorems, TLAPS

USE RegisterAssumption, SubscriptionAssumption, CapacityAssumption

LEMMA HeadTailFacts ==
  ASSUME NEW S, NEW q \in Seq(S), q # <<>>
  PROVE  /\ Head(q) \in S /\ Tail(q) \in Seq(S) /\ Len(Tail(q)) = Len(q) - 1
         /\ Head(q) = q[1] /\ \A i \in 1..(Len(q) - 1) : Tail(q)[i] = q[i + 1]
OBVIOUS

LEMMA AppendFacts ==
  ASSUME NEW S, NEW q \in Seq(S), NEW e \in S
  PROVE  /\ Append(q, e) \in Seq(S) /\ Len(Append(q, e)) = Len(q) + 1
         /\ Append(q, e)[Len(q) + 1] = e
         /\ \A i \in 1..Len(q) : Append(q, e)[i] = q[i]
OBVIOUS

LEMMA RegisterName == \A r \in Registers : r.name \in Names
BY DEF Registers

\* What list.Remove leaves.
LEMMA RemoveFacts ==
  ASSUME NEW S, NEW l \in Seq(S), NEW i \in 1..Len(l)
  PROVE  /\ RemoveAt(l, i) \in Seq(S) /\ Len(RemoveAt(l, i)) = Len(l) - 1
         /\ \A j \in 1..(Len(l) - 1) :
              RemoveAt(l, i)[j] = IF j < i THEN l[j] ELSE l[j + 1]
<1>. DEFINE a == SubSeq(l, 1, i - 1)
            b == SubSeq(l, i + 1, Len(l))
<1>1. /\ a \in Seq(S) /\ Len(a) = i - 1 /\ \A j \in 1..(i - 1) : a[j] = l[j]
      /\ b \in Seq(S) /\ Len(b) = Len(l) - i /\ \A j \in 1..(Len(l) - i) : b[j] = l[i + j]
  OBVIOUS
<1>2. RemoveAt(l, i) = a \o b
  BY DEF RemoveAt
<1>. HIDE DEF a, b
<1>3. a \o b \in Seq(S) /\ Len(a \o b) = Len(a) + Len(b)
  BY <1>1, ConcatProperties
<1>4. Len(l) \in Nat /\ i \in Nat
  OBVIOUS
<1>5. \A k \in 1..(Len(l) - 1) : (a \o b)[k] = IF k <= i - 1 THEN a[k] ELSE b[k - (i - 1)]
  BY <1>1, <1>4, ConcatProperties
<1>6. \A j \in 1..(Len(l) - 1) : j < i => (a \o b)[j] = l[j]
  BY <1>1, <1>4, <1>5
<1>7. \A j \in 1..(Len(l) - 1) : j >= i => (a \o b)[j] = l[j + 1]
  <2> TAKE j \in 1..(Len(l) - 1)
  <2> SUFFICES ASSUME j >= i PROVE (a \o b)[j] = l[j + 1]
    OBVIOUS
  <2>1. j - (i - 1) \in 1..(Len(l) - i) /\ i + (j - (i - 1)) = j + 1
    BY <1>4
  <2> QED
    BY <1>1, <1>4, <1>5, <2>1
<1>. QED BY <1>1, <1>2, <1>3, <1>4, <1>6, <1>7

-----------------------------------------------------------------------------
(* Types.                                                                  *)

LEMMA DbInitType == DbInit => DbTypeOK
BY DEF DbInit, DbTypeOK

\* A send to a channel with room.
LEMMA QueueType ==
  ASSUME NEW q \in [Subs -> Seq(Registers)], \A t \in Subs : Len(q[t]) <= Cap,
         NEW s \in Subs, NEW r \in Registers, Len(q[s]) < Cap
  PROVE  LET p == [q EXCEPT ![s] = Append(q[s], r)]
         IN p \in [Subs -> Seq(Registers)] /\ \A t \in Subs : Len(p[t]) <= Cap
<1>1. Append(q[s], r) \in Seq(Registers) /\ Len(Append(q[s], r)) <= Cap
  BY AppendFacts
<1>. QED BY <1>1

LEMMA AdderType == DbTypeOK /\ Adder => DbTypeOK'
<1>. SUFFICES ASSUME DbTypeOK, Adder PROVE DbTypeOK'
  OBVIOUS
<1>. USE DEF DbTypeOK, adder, consumers
<1>1. adding # <<>> => /\ Head(adding) \in Registers /\ Tail(adding) \in Seq(Registers)
                       /\ Head(adding).name \in Names
  BY HeadTailFacts, RegisterName
<1>2. CASE AddSkip
  BY <1>1, <1>2 DEF AddSkip
<1>3. CASE AddSave
  <2>. DEFINE h == Head(adding)
  <2>1. /\ adding # <<>> /\ h \in Registers /\ h.name \in Names
        /\ registers' = [registers EXCEPT ![h.name] = h] /\ next' = 1
        /\ UNCHANGED <<adding, saved, list, subPc, initial, queue, cancelled, consumers, overtaken>>
    BY <1>1, <1>3 DEF AddSave
  <2>. HIDE DEF h
  <2>2. /\ registers' \in [Names -> Registers \cup {Nil}]
        /\ \A n \in Names : registers'[n] # Nil => registers'[n].name = n
        /\ registers'[h.name] = h
    BY <2>1
  <2>3. next' # 0 => adding' # <<>> /\ registers'[Head(adding').name] = Head(adding')
    BY <2>1, <2>2 DEF h
  <2>4. next' \in Nat
    BY <2>1
  <2>. QED BY <2>1, <2>2, <2>3, <2>4
<1>4. CASE AddForward
  <2>. DEFINE s == list[next]
              r == Head(adding)
  <2>1. s \in Subs /\ r \in Registers /\ r.name \in Names
        /\ next # 0 /\ next' \in Nat /\ next' # 0
    BY <1>1, <1>4 DEF AddForward
  <2>2. \/ queue' = queue
        \/ Len(queue[s]) < Cap /\ queue' = [queue EXCEPT ![s] = Append(queue[s], r)]
    BY <1>4 DEF AddForward
  <2>3. queue' \in [Subs -> Seq(Registers)] /\ \A t \in Subs : Len(queue'[t]) <= Cap
    <3>. HIDE DEF s, r
    <3>1. CASE queue' = queue
      BY <3>1
    <3>2. CASE Len(queue[s]) < Cap /\ queue' = [queue EXCEPT ![s] = Append(queue[s], r)]
      BY <2>1, <3>2, QueueType
    <3>. QED BY <2>2, <3>1, <3>2
  <2>4. overtaken' \in [Subs -> SUBSET Names]
    <3>1. \/ overtaken' = overtaken
          \/ overtaken' = [overtaken EXCEPT ![s] = overtaken[s] \cup {r.name}]
      BY <1>4 DEF AddForward
    <3>2. overtaken \in [Subs -> SUBSET Names]
      OBVIOUS
    <3>. HIDE DEF s, r, DbTypeOK
    <3>3. overtaken[s] \cup {r.name} \in SUBSET Names
      BY <2>1, <3>2
    <3>. QED BY <2>1, <3>1, <3>2, <3>3
  <2>5. UNCHANGED <<registers, adding, saved, list, subPc, initial, cancelled, consumers>>
    BY <1>4 DEF AddForward
  <2>. HIDE DEF s, r
  <2>. QED BY <2>1, <2>3, <2>4, <2>5
<1>5. CASE AddNext
  BY <1>1, <1>5 DEF AddNext
<1>. QED BY <1>2, <1>3, <1>4, <1>5 DEF Adder

LEMMA AddType ==
  ASSUME DbTypeOK, NEW newBatch \in Batches, AddStruct(newBatch) PROVE DbTypeOK'
<1>1. newBatch \in Seq(Registers)
  <2>1. PICK k \in 1..2 : newBatch \in [1..k -> Registers]
    BY DEF Batches
  <2>. QED BY <2>1
<1>2. /\ adding = <<>> /\ adding' = newBatch /\ saved' = saved + Len(newBatch)
      /\ UNCHANGED <<registers, next, list, subPc, initial, queue, cancelled, consumers, overtaken>>
  BY DEF AddStruct, LockFree
<1>3. next = 0 /\ saved' \in Nat
  BY <1>1, <1>2 DEF DbTypeOK
<1>. QED BY <1>1, <1>2, <1>3 DEF DbTypeOK, consumers

LEMMA SubscriptionType ==
  ASSUME DbTypeOK, NEW s \in Subs,
         \/ Subscribe(s) \/ SendInitial(s) \/ Unsubscribe(s)
         \/ Receive(s) \/ Look(s) \/ Leave(s)
  PROVE  DbTypeOK'
<1>. USE DEF DbTypeOK, adder, consumers
<1>1. CASE Subscribe(s)
  <2>1. Filtered(s) \subseteq Registers
    BY DEF Filtered
  <2>. QED BY <1>1, <2>1, AppendFacts DEF Subscribe
<1>2. CASE SendInitial(s)
  <2>1. PICK r \in initial[s] :
          /\ initial' = [initial EXCEPT ![s] = initial[s] \ {r}]
          /\ queue' = [queue EXCEPT ![s] = Append(queue[s], r)]
    BY <1>2 DEF SendInitial
  <2>2. r \in Registers /\ Len(queue[s]) < Cap
    BY <1>2 DEF SendInitial
  <2>3. queue' \in [Subs -> Seq(Registers)] /\ \A t \in Subs : Len(queue'[t]) <= Cap
    BY <2>1, <2>2, QueueType
  <2>. QED BY <1>2, <2>1, <2>3 DEF SendInitial
<1>3. CASE Unsubscribe(s)
  <2>1. list' \in Seq(Subs)
    BY <1>3, RemoveFacts DEF Unsubscribe
  <2>. QED BY <1>3, <2>1 DEF Unsubscribe
<1>4. CASE Receive(s)
  <2>. DEFINE r == Head(queue[s])
  <2>1. /\ r \in Registers /\ r.name \in Names
        /\ Tail(queue[s]) \in Seq(Registers) /\ Len(Tail(queue[s])) <= Cap
    BY <1>4, HeadTailFacts, RegisterName DEF Receive
  <2>2. queue' \in [Subs -> Seq(Registers)] /\ \A t \in Subs : Len(queue'[t]) <= Cap
    BY <1>4, <2>1 DEF Receive
  <2>3. seen' \in [Subs -> SUBSET Registers]
    <3>1. seen' = [seen EXCEPT ![s] = seen[s] \cup {r}]
      BY <1>4 DEF Receive
    <3>. HIDE DEF r
    <3>. QED BY <2>1, <3>1
  <2>4. /\ consumer' \in [Subs -> {"receive", "lookup", "left"}]
        /\ held' \in [Subs -> Registers \cup {Nil}]
    <3>1. \/ UNCHANGED <<consumer, held>>
          \/ /\ consumer' = [consumer EXCEPT ![s] = "lookup"]
             /\ held' = [held EXCEPT ![s] = r]
      BY <1>4 DEF Receive
    <3>2. CASE UNCHANGED <<consumer, held>>
      BY <3>2
    <3>3. CASE consumer' = [consumer EXCEPT ![s] = "lookup"] /\ held' = [held EXCEPT ![s] = r]
      <4>. HIDE DEF r
      <4>1. consumer' \in [Subs -> {"receive", "lookup", "left"}]
        BY <3>3
      <4>2. held' \in [Subs -> Registers \cup {Nil}]
        BY <2>1, <3>3
      <4>. QED BY <4>1, <4>2
    <3>. QED BY <3>1, <3>2, <3>3
  <2>5. UNCHANGED <<adder, list, subPc, initial, cancelled, overtaken>>
    BY <1>4 DEF Receive
  <2>. HIDE DEF r
  <2>. QED BY <2>2, <2>3, <2>4, <2>5
<1>5. CASE Look(s)
  BY <1>5 DEF Look
<1>6. CASE Leave(s)
  BY <1>6 DEF Leave
<1>. QED BY <1>1, <1>2, <1>3, <1>4, <1>5, <1>6

LEMMA DbStepType == DbTypeOK /\ [DbNext]_dbVars => DbTypeOK'
<1>. SUFFICES ASSUME DbTypeOK, [DbNext]_dbVars PROVE DbTypeOK'
  OBVIOUS
<1>1. ASSUME NEW S \in SUBSET Subs, Cancel(S) PROVE DbTypeOK'
  BY <1>1 DEF Cancel, DbTypeOK, adder, consumers
<1>2. CASE UNCHANGED dbVars
  BY <1>2 DEF dbVars, adder, consumers, DbTypeOK
<1>. QED
  BY <1>1, <1>2, AdderType, AddType, SubscriptionType DEF DbNext

\* The variables of the database keep their types, for any number of registers and
\* subscriptions; no channel holds more than its capacity.
THEOREM TypeCorrect == DbSpec => []DbTypeOK
BY DbInitType, DbStepType, PTL DEF DbSpec

-----------------------------------------------------------------------------
(* What the channels and the list hold.                                    *)

\* The list of the subscriptions: each that is open is in it, once.
ListInv ==
  /\ ListedIsOpen
  /\ \A i, j \in 1..Len(list) : list[i] = list[j] => i = j

LEMMA ListInit == DbInit => ListInv
BY DEF DbInit, ListInv, ListedIsOpen, Listed

LEMMA ListStep == DbTypeOK /\ ListInv /\ [DbNext]_dbVars => ListInv'
<1>. SUFFICES ASSUME DbTypeOK, ListInv, [DbNext]_dbVars PROVE ListInv'
  OBVIOUS
<1>0. list \in Seq(Subs) /\ subPc \in [Subs -> {"off", "new", "sending", "closed"}]
  BY DEF DbTypeOK
<1>1. ASSUME UNCHANGED <<list, subPc>> PROVE ListInv'
  BY <1>1 DEF ListInv, ListedIsOpen, Listed
<1>2. ASSUME NEW s \in Subs, Subscribe(s) PROVE ListInv'
  <2>1. /\ subPc[s] = "new" /\ list' = Append(list, s)
        /\ subPc' = [subPc EXCEPT ![s] = "sending"]
    BY <1>2 DEF Subscribe
  <2>2. /\ Len(list') = Len(list) + 1 /\ list'[Len(list) + 1] = s
        /\ \A i \in 1..Len(list) : list'[i] = list[i]
    BY <1>0, <2>1, AppendFacts
  <2>3. \A i \in 1..Len(list) : list[i] # s
    BY <2>1 DEF ListInv, ListedIsOpen, Listed
  <2>4. \A t \in Subs : Listed(t)' <=> Listed(t) \/ t = s
    <3>1. 1..Len(list') = 1..Len(list) \cup {Len(list) + 1}
      BY <1>0, <2>2
    <3>. QED BY <2>2, <3>1 DEF Listed
  <2>5. ListedIsOpen'
    BY <1>0, <2>1, <2>4 DEF ListInv, ListedIsOpen
  <2>6. \A i, j \in 1..Len(list') : list'[i] = list'[j] => i = j
    BY <1>0, <2>2, <2>3 DEF ListInv
  <2>. QED BY <2>5, <2>6 DEF ListInv
<1>3. ASSUME NEW s \in Subs, Unsubscribe(s) PROVE ListInv'
  <2>1. PICK i \in 1..Len(list) : list[i] = s /\ list' = RemoveAt(list, i)
    BY <1>3 DEF Unsubscribe
  <2>2. subPc' = [subPc EXCEPT ![s] = "closed"]
    BY <1>3 DEF Unsubscribe
  <2>3. /\ Len(list') = Len(list) - 1
        /\ \A j \in 1..(Len(list) - 1) : list'[j] = IF j < i THEN list[j] ELSE list[j + 1]
    BY <1>0, <2>1, RemoveFacts
  <2>4. \A j, k \in 1..Len(list) : list[j] = list[k] => j = k
    BY DEF ListInv
  <2>5. ASSUME NEW t \in Subs PROVE Listed(t)' <=> Listed(t) /\ t # s
    <3>1. ASSUME Listed(t)' PROVE Listed(t) /\ t # s
      <4>1. PICK j \in 1..Len(list') : list'[j] = t
        BY <3>1 DEF Listed
      <4>2. j \in 1..Len(list) /\ j + 1 \in 1..Len(list)
        BY <1>0, <2>3, <4>1
      <4>. QED BY <1>0, <2>1, <2>3, <2>4, <4>1, <4>2 DEF Listed
    <3>2. ASSUME Listed(t), t # s PROVE Listed(t)'
      <4>1. PICK j \in 1..Len(list) : list[j] = t
        BY <3>2 DEF Listed
      <4>2. CASE j < i
        <5>1. j \in 1..Len(list') /\ list'[j] = t
          BY <1>0, <2>3, <4>1, <4>2
        <5>. QED BY <5>1 DEF Listed
      <4>3. CASE j > i
        <5>1. j - 1 \in 1..Len(list') /\ list'[j - 1] = t
          BY <1>0, <2>3, <4>1, <4>3
        <5>. QED BY <5>1 DEF Listed
      <4>. QED BY <1>0, <2>1, <3>2, <4>1, <4>2, <4>3
    <3>. QED BY <3>1, <3>2
  <2>6. ListedIsOpen'
    BY <1>0, <2>2, <2>5 DEF ListInv, ListedIsOpen
  <2>7. \A j, k \in 1..Len(list') : list'[j] = list'[k] => j = k
    BY <1>0, <2>3, <2>4
  <2>. QED BY <2>6, <2>7 DEF ListInv
<1>4. ASSUME NEW s \in Subs, SendInitial(s) \/ Receive(s) \/ Look(s) \/ Leave(s) PROVE ListInv'
  BY <1>1, <1>4 DEF SendInitial, Receive, Look, Leave
<1>5. ASSUME NEW S \in SUBSET Subs, Cancel(S) PROVE ListInv'
  BY <1>1, <1>5 DEF Cancel
<1>6. ASSUME NEW newBatch \in Batches, AddStruct(newBatch) PROVE ListInv'
  BY <1>1, <1>6 DEF AddStruct
<1>7. CASE Adder
  BY <1>1, <1>7 DEF Adder, AddSkip, AddSave, AddForward, AddNext
<1>8. CASE UNCHANGED dbVars
  BY <1>1, <1>8 DEF dbVars
<1>. QED BY <1>2, <1>3, <1>4, <1>5, <1>6, <1>7, <1>8 DEF DbNext

\* AddStruct does not send on the closed channel of a subscription
\* (registerDb.go:50, 128).
THEOREM NeverSendsOnClosed == DbSpec => []ListedIsOpen
<1>1. ListInv => ListedIsOpen
  BY DEF ListInv
<1>. QED BY <1>1, DbInitType, DbStepType, ListInit, ListStep, PTL DEF DbSpec

\* One subscription, one register.
Kept(s, n) ==
  registers[n] \in Filter[s] =>
    \/ registers[n] \in seen[s] \cup initial[s]
    \/ Queued(s, registers[n])
    \/ Pending(s) /\ Head(adding) = registers[n]

\* Appending loses nothing of a channel.
LEMMA AppendKeeps ==
  ASSUME NEW s \in Subs, NEW t \in Subs, NEW r \in Registers, NEW e,
         queue \in [Subs -> Seq(Registers)],
         queue' = [queue EXCEPT ![s] = Append(queue[s], r)]
  PROVE  /\ Queued(t, e) => Queued(t, e)'
         /\ Queued(s, r)'
<1>1. /\ Len(Append(queue[s], r)) = Len(queue[s]) + 1
      /\ Append(queue[s], r)[Len(queue[s]) + 1] = r
      /\ \A i \in 1..Len(queue[s]) : Append(queue[s], r)[i] = queue[s][i]
  BY AppendFacts
<1>2. queue'[s] = Append(queue[s], r) /\ (t # s => queue'[t] = queue[t])
  OBVIOUS
<1>3. Len(queue[s]) \in Nat
  OBVIOUS
<1>. HIDE DEF Queued
<1>4. Queued(s, r)'
  BY <1>1, <1>2, <1>3 DEF Queued
<1>5. Queued(t, e) => Queued(t, e)'
  <2>1. CASE t # s
    BY <1>2, <2>1 DEF Queued
  <2>2. CASE t = s
    <3>. SUFFICES ASSUME NEW i \in 1..Len(queue[s]), queue[s][i] = e PROVE Queued(s, e)'
      BY <2>2 DEF Queued
    <3>1. i \in 1..Len(queue'[s]) /\ queue'[s][i] = e
      BY <1>1, <1>2, <1>3
    <3>. QED BY <3>1 DEF Queued
  <2>. QED BY <2>1, <2>2
<1>. QED BY <1>4, <1>5

LEMMA AdderKeeps ==
  ASSUME DbTypeOK, Adder, NEW t \in Subs, NEW n \in Names, Listed(t), Kept(t, n)
  PROVE  Listed(t)' /\ Kept(t, n)'
<1>0. /\ adding # <<>> => Head(adding) \in Registers /\ Head(adding).name \in Names
      /\ list \in Seq(Subs) /\ queue \in [Subs -> Seq(Registers)] /\ next \in Nat
      /\ Filter[t] \subseteq Registers
      /\ registers \in [Names -> Registers \cup {Nil}]
      /\ next # 0 => adding # <<>> /\ registers[Head(adding).name] = Head(adding)
  BY HeadTailFacts, RegisterName DEF DbTypeOK
<1>1. UNCHANGED <<list, seen, initial>>
  BY DEF Adder, AddSkip, AddSave, AddForward, AddNext, consumers
<1>2. Listed(t)'
  BY <1>1 DEF Listed
<1>3. CASE AddSkip
  BY <1>1, <1>2, <1>3 DEF AddSkip, Kept, Queued, Pending
<1>4. CASE AddSave
  <2>1. /\ adding # <<>> /\ next = 0 /\ next' = 1 /\ UNCHANGED <<adding, queue>>
        /\ registers' = [registers EXCEPT ![Head(adding).name] = Head(adding)]
    BY <1>4 DEF AddSave
  <2>2. CASE n = Head(adding).name
    <3>1. registers'[n] = Head(adding)
      BY <1>0, <2>1, <2>2
    <3>2. Pending(t)'
      BY <1>1, <1>2, <2>1 DEF Listed, Pending
    <3>. QED BY <1>2, <2>1, <3>1, <3>2 DEF Kept
  <2>3. CASE n # Head(adding).name
    <3>1. registers'[n] = registers[n]
      BY <1>0, <2>1, <2>3
    <3>. QED BY <1>1, <1>2, <2>1, <3>1 DEF Kept, Queued, Pending
  <2>. QED BY <2>2, <2>3
<1>5. CASE AddForward
  <2>0. PICK s \in Subs, r \in Registers : s = list[next] /\ r = Head(adding)
    BY <1>0, <1>5 DEF AddForward
  <2>1. /\ next \in 1..Len(list) /\ next' = next + 1 /\ UNCHANGED <<registers, adding>>
        /\ s \in Subs /\ r \in Registers
    BY <1>0, <1>5, <2>0 DEF AddForward
  <2>2. /\ r \in Filter[s] => queue' = [queue EXCEPT ![s] = Append(queue[s], r)]
        /\ r \notin Filter[s] => queue' = queue
    BY <1>5, <2>0 DEF AddForward
  <2>3. ASSUME NEW e PROVE Queued(t, e) => Queued(t, e)'
    <3>1. CASE r \in Filter[s]
      BY <1>0, <2>1, <2>2, <3>1, AppendKeeps
    <3>2. CASE r \notin Filter[s]
      BY <2>2, <3>2 DEF Queued
    <3>. QED BY <3>1, <3>2
  <2>4. ASSUME Pending(t), r = registers[n], registers[n] \in Filter[t]
        PROVE  Queued(t, registers[n])' \/ Pending(t)'
    <3>1. PICK i \in next..Len(list) : list[i] = t
      BY <2>4 DEF Pending
    <3>2. CASE i = next
      <4>1. s = t /\ r \in Filter[s]
        BY <2>0, <2>4, <3>1, <3>2
      <4>2. Queued(s, r)'
        BY <1>0, <2>1, <2>2, <4>1, AppendKeeps
      <4>3. registers'[n] = r
        BY <2>1, <2>4
      <4>. QED BY <4>1, <4>2, <4>3
    <3>3. CASE i # next
      <4>1. i \in next'..Len(list') /\ list'[i] = t /\ next' # 0
        BY <1>0, <1>1, <2>1, <3>1, <3>3
      <4>. QED BY <4>1 DEF Pending
    <3>. QED BY <3>2, <3>3
  <2>5. registers' = registers /\ Head(adding') = r
    BY <2>0, <2>1
  <2>. QED BY <1>1, <1>2, <2>0, <2>3, <2>4, <2>5 DEF Kept
<1>6. CASE AddNext
  <2>1. ~Pending(t) /\ UNCHANGED <<registers, queue>>
    BY <1>0, <1>6 DEF AddNext, Pending
  <2>. QED BY <1>1, <1>2, <2>1 DEF Kept, Queued
<1>. QED BY <1>3, <1>4, <1>5, <1>6 DEF Adder

LEMMA RoutineKeeps ==
  ASSUME DbTypeOK, NEW s \in Subs, NEW t \in Subs, NEW n \in Names, Listed(t)',
         \/ Subscribe(s) \/ SendInitial(s) \/ Unsubscribe(s)
         \/ Receive(s) \/ Look(s) \/ Leave(s),
         Listed(t) => Kept(t, n)
  PROVE  Kept(t, n)'
<1>0. /\ list \in Seq(Subs) /\ queue \in [Subs -> Seq(Registers)] /\ next \in Nat
      /\ Filter[t] \subseteq Registers
      /\ \A k \in Names : registers[k] # Nil => registers[k].name = k
      /\ initial \in [Subs -> SUBSET Registers] /\ seen \in [Subs -> SUBSET Registers]
      /\ next # 0 => adding # <<>>
  BY DEF DbTypeOK
<1>1. UNCHANGED <<registers, adding, next>>
  BY DEF Subscribe, SendInitial, Unsubscribe, Receive, Look, Leave, adder
<1>2. CASE Subscribe(s)
  <2>1. /\ list' = Append(list, s) /\ UNCHANGED <<queue, seen>> /\ next = 0
        /\ initial' = [initial EXCEPT ![s] = Filtered(s)]
    BY <1>0, <1>2 DEF Subscribe, LockFree, consumers
  <2>2. CASE t = s
    <3>1. initial'[t] = Filtered(t)
      BY <1>0, <2>1, <2>2
    <3>2. registers[n] \in Filter[t] => registers[n] \in Filtered(t)
      <4>. SUFFICES ASSUME registers[n] \in Filter[t] PROVE registers[n] \in Filtered(t)
        OBVIOUS
      <4>1. registers[n] # Nil
        BY <1>0
      <4>2. registers[n].name = n
        BY <1>0, <4>1
      <4>. QED BY <4>2 DEF Filtered
    <3>. QED BY <1>1, <3>1, <3>2 DEF Kept
  <2>3. CASE t # s
    <3>1. Listed(t)
      <4>1. PICK i \in 1..Len(list') : list'[i] = t
        BY DEF Listed
      <4>2. /\ Len(list') = Len(list) + 1 /\ list'[Len(list) + 1] = s
            /\ \A j \in 1..Len(list) : list'[j] = list[j]
        BY <1>0, <2>1, AppendFacts
      <4>3. i \in 1..Len(list) /\ list[i] = t
        BY <1>0, <2>3, <4>1, <4>2
      <4>. QED BY <4>3 DEF Listed
    <3>2. ~Pending(t) /\ initial'[t] = initial[t]
      BY <1>0, <2>1, <2>3 DEF Pending
    <3>. QED BY <1>1, <2>1, <3>1, <3>2 DEF Kept, Queued
  <2>. QED BY <2>2, <2>3
<1>3. CASE SendInitial(s)
  <2>1. PICK r \in initial[s] :
          /\ initial' = [initial EXCEPT ![s] = initial[s] \ {r}]
          /\ queue' = [queue EXCEPT ![s] = Append(queue[s], r)]
    BY <1>3 DEF SendInitial
  <2>2. UNCHANGED <<list, seen>>
    BY <1>3 DEF SendInitial, consumers
  <2>3. r \in Registers
    BY <1>0
  <2>4. Listed(t) /\ (Pending(t)' <=> Pending(t))
    BY <1>1, <2>2 DEF Listed, Pending
  <2>5. \A e : Queued(t, e) => Queued(t, e)'
    BY <1>0, <2>1, <2>3, AppendKeeps
  <2>6. \A e \in initial[t] : e \in initial'[t] \/ Queued(t, e)'
    <3>. SUFFICES ASSUME NEW e \in initial[t] PROVE e \in initial'[t] \/ Queued(t, e)'
      OBVIOUS
    <3>1. CASE t = s /\ e = r
      BY <1>0, <2>1, <2>3, <3>1, AppendKeeps
    <3>2. CASE ~(t = s /\ e = r)
      BY <1>0, <2>1, <3>2
    <3>. QED BY <3>1, <3>2
  <2>7. registers'[n] = registers[n] /\ Head(adding') = Head(adding) /\ seen' = seen
    BY <1>1, <2>2
  <2>. QED BY <2>4, <2>5, <2>6, <2>7 DEF Kept
<1>4. CASE Unsubscribe(s)
  <2>1. PICK i \in 1..Len(list) : list' = RemoveAt(list, i)
    BY <1>4 DEF Unsubscribe
  <2>2. /\ UNCHANGED <<queue, seen, initial>> /\ next = 0
    BY <1>0, <1>4 DEF Unsubscribe, LockFree, consumers
  <2>3. Listed(t)
    <3>1. PICK j \in 1..Len(list') : list'[j] = t
      BY DEF Listed
    <3>2. /\ Len(list') = Len(list) - 1
          /\ \A k \in 1..(Len(list) - 1) : list'[k] = IF k < i THEN list[k] ELSE list[k + 1]
      BY <1>0, <2>1, RemoveFacts
    <3>3. j \in 1..Len(list) /\ j + 1 \in 1..Len(list)
      BY <1>0, <3>1, <3>2
    <3>. QED BY <3>1, <3>2, <3>3 DEF Listed
  <2>. QED BY <1>1, <2>2, <2>3 DEF Kept, Queued, Pending
<1>5. CASE Receive(s)
  <2>. DEFINE r == Head(queue[s])
  <2>1. /\ queue[s] # <<>> /\ queue' = [queue EXCEPT ![s] = Tail(queue[s])]
        /\ seen' = [seen EXCEPT ![s] = seen[s] \cup {r}]
        /\ UNCHANGED <<list, initial>>
    BY <1>5 DEF Receive
  <2>2. Listed(t) /\ (Pending(t)' <=> Pending(t))
    BY <1>1, <2>1 DEF Listed, Pending
  <2>3. ASSUME NEW e, Queued(t, e) PROVE Queued(t, e)' \/ e \in seen'[t]
    <3>1. CASE t # s
      <4>1. queue'[t] = queue[t]
        BY <1>0, <2>1, <3>1
      <4>. QED BY <2>3, <4>1 DEF Queued
    <3>2. CASE t = s
      <4>1. PICK k \in 1..Len(queue[s]) : queue[s][k] = e
        BY <2>3, <3>2 DEF Queued
      <4>2. /\ Len(Tail(queue[s])) = Len(queue[s]) - 1 /\ r = queue[s][1]
            /\ \A j \in 1..(Len(queue[s]) - 1) : Tail(queue[s])[j] = queue[s][j + 1]
        BY <1>0, <2>1, HeadTailFacts
      <4>3. queue'[s] = Tail(queue[s]) /\ seen'[s] = seen[s] \cup {r}
        BY <1>0, <2>1
      <4>4. CASE k = 1
        BY <3>2, <4>1, <4>2, <4>3, <4>4
      <4>5. CASE k # 1
        <5>1. k - 1 \in 1..Len(queue'[s]) /\ queue'[s][k - 1] = e
          BY <1>0, <4>1, <4>2, <4>3, <4>5
        <5>. QED BY <3>2, <5>1 DEF Queued
      <4>. QED BY <4>4, <4>5
    <3>. QED BY <3>1, <3>2
  <2>4. seen[t] \subseteq seen'[t]
    BY <1>0, <2>1
  <2>5. registers'[n] = registers[n] /\ Head(adding') = Head(adding) /\ initial' = initial
    BY <1>1, <2>1
  <2>. QED BY <2>2, <2>3, <2>4, <2>5 DEF Kept
<1>6. CASE Look(s) \/ Leave(s)
  <2>1. UNCHANGED <<list, queue, seen, initial>>
    BY <1>6 DEF Look, Leave
  <2>. QED BY <1>1, <2>1 DEF Kept, Queued, Pending, Listed
<1>. QED BY <1>2, <1>3, <1>4, <1>5, <1>6

LEMMA LostInit == DbInit => NothingLost
BY DEF DbInit, NothingLost, Listed

LEMMA LostStep == DbTypeOK /\ NothingLost /\ [DbNext]_dbVars => NothingLost'
<1>. SUFFICES ASSUME DbTypeOK, NothingLost, [DbNext]_dbVars, NEW t \in Subs, Listed(t)',
                     NEW n \in Names
              PROVE  Kept(t, n)'
  BY DEF NothingLost, Kept
<1>0. Listed(t) => Kept(t, n)
  BY DEF NothingLost, Kept
<1>1. ASSUME NEW S \in SUBSET Subs, Cancel(S) PROVE Kept(t, n)'
  BY <1>0, <1>1 DEF Cancel, adder, consumers, Kept, Queued, Pending, Listed
<1>2. ASSUME NEW newBatch \in Batches, AddStruct(newBatch) PROVE Kept(t, n)'
  <2>1. next = 0 /\ UNCHANGED <<registers, next, list, initial, queue, seen>>
    BY <1>2 DEF AddStruct, LockFree, DbTypeOK, consumers
  <2>2. ~Pending(t) /\ ~Pending(t)' /\ Listed(t)
    BY <2>1 DEF Pending, Listed
  <2>. QED BY <1>0, <2>1, <2>2 DEF Kept, Queued
<1>3. CASE Adder
  <2>1. Listed(t)
    BY <1>3 DEF Adder, AddSkip, AddSave, AddForward, AddNext, Listed
  <2>. QED BY <1>0, <1>3, <2>1, AdderKeeps
<1>4. CASE UNCHANGED dbVars
  BY <1>0, <1>4 DEF dbVars, adder, consumers, Kept, Queued, Pending, Listed
<1>5. ASSUME NEW s \in Subs, \/ Subscribe(s) \/ SendInitial(s) \/ Unsubscribe(s)
                             \/ Receive(s) \/ Look(s) \/ Leave(s)
      PROVE  Kept(t, n)'
  BY <1>0, <1>5, RoutineKeeps
<1>. QED BY <1>1, <1>2, <1>3, <1>4, <1>5 DEF DbNext

\* Between the registers known at the start and the changes after it there is no
\* gap (registerDb.go:107-131), for any number of registers and subscriptions.
THEOREM LosesNothing == DbSpec => []NothingLost
BY DbInitType, DbStepType, LostInit, LostStep, PTL DEF DbSpec

-----------------------------------------------------------------------------
(* How many registers a channel has to take.                               *)

\* The registers that AddStruct has saved or skipped.
Handled == saved - Len(adding) + (IF next # 0 THEN 1 ELSE 0)

Stored == {n \in Names : registers[n] # Nil}

\* What s was sent or will be sent of them.
Load(s) == Len(queue[s]) + Cardinality(initial[s]) + (IF Pending(s) THEN 1 ELSE 0)

BurstInv ==
  /\ IsFiniteSet(Stored) /\ Cardinality(Stored) <= Handled
  /\ \A s \in Subs :
       /\ subPc[s] \in {"off", "new"} => queue[s] = <<>> /\ initial[s] = {}
       /\ IsFiniteSet(initial[s])
       /\ Load(s) <= Handled

LEMMA BurstInit == DbInit => BurstInv
<1>. SUFFICES ASSUME DbInit PROVE BurstInv
  OBVIOUS
<1>0. Len(<<>>) = 0
  OBVIOUS
<1>1. Stored = {} /\ Handled = 0
  <2>1. Stored = {}
    BY DEF DbInit, Stored
  <2>2. Len(adding) = 0
    BY <1>0 DEF DbInit
  <2>3. next = 0 /\ saved = 0
    BY DEF DbInit
  <2>. QED BY <2>1, <2>2, <2>3 DEF Handled
<1>2. IsFiniteSet(Stored) /\ Cardinality(Stored) = 0 /\ IsFiniteSet({}) /\ Cardinality({}) = 0
  BY <1>1, FS_EmptySet, Zenon
<1>3. ASSUME NEW s \in Subs PROVE queue[s] = <<>> /\ initial[s] = {} /\ ~ Pending(s)
  BY DEF DbInit, Pending
<1>4. ASSUME NEW s \in Subs PROVE IsFiniteSet(initial[s]) /\ Load(s) = 0
  <2>1. Len(queue[s]) = 0
    BY <1>0, <1>3
  <2>2. Cardinality(initial[s]) = 0 /\ IsFiniteSet(initial[s])
    BY <1>2, <1>3, Zenon
  <2>. QED BY <1>3, <2>1, <2>2 DEF Load
<1>5. Cardinality(Stored) <= Handled /\ \A s \in Subs : Load(s) <= Handled
  BY <1>1, <1>2, <1>4
<1>. QED BY <1>2, <1>3, <1>4, <1>5 DEF BurstInv

LEMMA HandledFacts ==
  ASSUME DbTypeOK
  PROVE  Handled \in Int /\ Handled <= saved
BY DEF DbTypeOK, Handled

LEMMA LoadFacts ==
  ASSUME DbTypeOK, BurstInv, NEW s \in Subs
  PROVE  /\ Len(queue[s]) \in Nat /\ IsFiniteSet(initial[s]) /\ Cardinality(initial[s]) \in Nat
         /\ Len(queue[s]) + Cardinality(initial[s]) <= Handled
         /\ Pending(s) => Len(queue[s]) + Cardinality(initial[s]) + 1 <= Handled
<1>1. IsFiniteSet(initial[s]) /\ Load(s) <= Handled
  BY DEF BurstInv
<1>2. Cardinality(initial[s]) \in Nat
  BY <1>1, FS_CardinalityType, Zenon
<1>3. Len(queue[s]) \in Nat /\ Handled \in Int
  BY HandledFacts DEF DbTypeOK
<1>. QED BY <1>1, <1>2, <1>3 DEF Load

\* A subscription is not told of more registers than there are.
LEMMA SnapshotBound ==
  ASSUME DbTypeOK, NEW s \in Subs, IsFiniteSet(Stored)
  PROVE  IsFiniteSet(Filtered(s)) /\ Cardinality(Filtered(s)) <= Cardinality(Stored)
<1>. DEFINE T == {registers[n] : n \in Stored}
            f == [n \in Stored |-> registers[n]]
<1>1. f \in Surjection(Stored, T)
  BY DEF Surjection
<1>2. IsFiniteSet(T) /\ Cardinality(T) <= Cardinality(Stored)
  BY <1>1, FS_Surjection, Zenon
<1>3. Filtered(s) \in SUBSET T
  <2>1. ASSUME NEW r \in Filtered(s) PROVE r \in T
    <3>1. r \in Registers /\ registers[r.name] = r
      BY DEF Filtered
    <3>2. r.name \in Stored
      BY <3>1, RegisterName DEF Stored
    <3>. QED BY <3>1, <3>2
  <2>. QED BY <2>1
<1>. HIDE DEF T, f
<1>4. IsFiniteSet(Filtered(s)) /\ Cardinality(Filtered(s)) <= Cardinality(T)
  BY <1>2, <1>3, FS_Subset, Zenon
<1>5. /\ Cardinality(Filtered(s)) \in Nat /\ Cardinality(T) \in Nat /\ Cardinality(Stored) \in Nat
  BY <1>2, <1>4, FS_CardinalityType, Zenon
<1>. QED BY <1>2, <1>4, <1>5

LEMMA BurstAdder ==
  ASSUME DbTypeOK, ListInv, BurstInv, Adder
  PROVE  BurstInv'
<1>. USE DEF adder, consumers
<1>0. /\ saved \in Nat /\ next \in Nat /\ Len(adding) \in Nat
      /\ adding # <<>> => Len(Tail(adding)) = Len(adding) - 1
      /\ IsFiniteSet(Stored) /\ Cardinality(Stored) \in Nat /\ Cardinality(Stored) <= Handled
  <2>1. IsFiniteSet(Stored) /\ Cardinality(Stored) <= Handled
    BY DEF BurstInv
  <2>2. Cardinality(Stored) \in Nat
    BY <2>1, FS_CardinalityType, Zenon
  <2>3. adding # <<>> => Len(Tail(adding)) = Len(adding) - 1
    BY HeadTailFacts DEF DbTypeOK
  <2>. QED BY <2>1, <2>2, <2>3 DEF DbTypeOK
<1>1. CASE AddSkip \/ AddNext
  <2>1. /\ UNCHANGED <<registers, saved, initial, queue, subPc, list>>
        /\ adding # <<>> /\ adding' = Tail(adding) /\ next' = 0
    BY <1>1 DEF AddSkip, AddNext, DbTypeOK
  <2>2. Handled' = Handled \/ Handled' = Handled + 1
    BY <1>0, <2>1 DEF Handled
  <2>3. IsFiniteSet(Stored') /\ Cardinality(Stored') <= Handled'
    BY <1>0, <2>1, <2>2, HandledFacts DEF Stored
  <2>4. ASSUME NEW s \in Subs PROVE Load(s)' <= Handled'
    <3>1. ~ Pending(s)'
      BY <2>1 DEF Pending
    <3>2. Load(s)' = Len(queue[s]) + Cardinality(initial[s])
      BY <2>1, <3>1, LoadFacts DEF Load
    <3>. QED BY <2>2, <3>2, LoadFacts, HandledFacts
  <2>. QED BY <2>1, <2>3, <2>4 DEF BurstInv
<1>2. CASE AddSave
  <2>1. PICK h \in Registers : h = Head(adding)
    BY <1>2, HeadTailFacts DEF AddSave, DbTypeOK
  <2>2. /\ UNCHANGED <<adding, saved, initial, queue, subPc, list>>
        /\ next = 0 /\ next' = 1 /\ registers' = [registers EXCEPT ![h.name] = h]
    BY <1>2, <2>1 DEF AddSave
  <2>3. Handled' = Handled + 1
    BY <1>0, <2>2 DEF Handled
  <2>4. Stored' = Stored \cup {h.name}
    <3>1. h.name \in Names /\ h # Nil
      BY RegisterName
    <3>2. \A n \in Names : registers'[n] = IF n = h.name THEN h ELSE registers[n]
      BY <2>2, <3>1 DEF DbTypeOK
    <3>. QED BY <3>1, <3>2 DEF Stored
  <2>5. /\ IsFiniteSet(Stored')
        /\ Cardinality(Stored') = IF h.name \in Stored THEN Cardinality(Stored)
                                  ELSE Cardinality(Stored) + 1
    BY <1>0, <2>4, FS_AddElement, Zenon
  <2>6. Cardinality(Stored') <= Handled'
    BY <1>0, <2>3, <2>5, HandledFacts
  <2>7. ASSUME NEW s \in Subs PROVE Load(s)' <= Handled'
    <3>1. Load(s)' <= Len(queue[s]) + Cardinality(initial[s]) + 1
      BY <2>2, LoadFacts DEF Load
    <3>2. Load(s)' \in Int
      BY <2>2, LoadFacts DEF Load
    <3>. QED BY <2>3, <3>1, <3>2, LoadFacts, HandledFacts
  <2>. QED BY <2>2, <2>5, <2>6, <2>7 DEF BurstInv
<1>3. CASE AddForward
  <2>1. PICK s \in Subs : s = list[next]
    BY <1>3 DEF AddForward, DbTypeOK
  <2>2. /\ UNCHANGED <<registers, adding, saved, initial, subPc, list>>
        /\ next \in 1..Len(list) /\ next' = next + 1
        /\ queue' = queue \/ queue' = [queue EXCEPT ![s] = Append(queue[s], Head(adding))]
    BY <1>3, <2>1 DEF AddForward
  <2>3. Handled' = Handled /\ Stored' = Stored
    BY <1>0, <2>2 DEF Handled, Stored
  <2>4. ASSUME NEW t \in Subs PROVE Load(t)' <= Handled'
    <3>1. Pending(t)' => Pending(t)
      BY <1>0, <2>2 DEF Pending
    <3>2. CASE queue'[t] = queue[t]
      <4>1. Load(t)' <= Load(t) /\ Load(t) \in Int /\ Load(t)' \in Int
        BY <2>2, <3>1, <3>2, LoadFacts DEF Load
      <4>2. Load(t) <= Handled
        BY DEF BurstInv
      <4>. QED BY <2>3, <4>1, <4>2, HandledFacts
    <3>3. CASE queue'[t] # queue[t]
      <4>1. t = s /\ queue'[s] = Append(queue[s], Head(adding))
        BY <2>2, <3>3 DEF DbTypeOK
      <4>2. Pending(s)
        BY <2>1, <2>2 DEF Pending
      <4>3. ~ Pending(s)'
        <5>1. \A i \in 1..Len(list) : list[i] = list[next] => i = next
          BY <2>2 DEF ListInv
        <5>2. Len(list) \in Nat
          BY DEF DbTypeOK
        <5>. QED BY <2>1, <2>2, <5>1, <5>2 DEF Pending
      <4>4. Len(queue'[s]) = Len(queue[s]) + 1
        <5>1. queue[s] \in Seq(Registers) /\ Head(adding) \in Registers
          BY <1>0, <2>2, HeadTailFacts DEF DbTypeOK
        <5>. QED BY <4>1, <5>1, AppendFacts
      <4>5. Load(s)' = Len(queue[s]) + 1 + Cardinality(initial[s])
        BY <2>2, <4>3, <4>4, LoadFacts DEF Load
      <4>. QED BY <2>3, <4>1, <4>2, <4>5, LoadFacts, HandledFacts
    <3>. QED BY <3>2, <3>3
  <2>5. ASSUME NEW t \in Subs, subPc[t] \in {"off", "new"} PROVE queue'[t] = <<>>
    <3>1. queue[t] = <<>> /\ ~ Listed(t)
      BY <2>5 DEF BurstInv, ListInv, ListedIsOpen
    <3>2. t # s
      BY <2>1, <2>2, <3>1 DEF Listed
    <3>. QED BY <2>2, <3>1, <3>2 DEF DbTypeOK
  <2>. QED BY <1>0, <2>2, <2>3, <2>4, <2>5 DEF BurstInv
<1>. QED BY <1>1, <1>2, <1>3 DEF Adder

LEMMA BurstRoutine ==
  ASSUME DbTypeOK, BurstInv, NEW s \in Subs,
         Subscribe(s) \/ SendInitial(s) \/ Unsubscribe(s) \/ Receive(s)
  PROVE  BurstInv'
<1>. USE DEF adder, consumers
<1>0. UNCHANGED <<registers, adding, next, saved>>
  BY DEF Subscribe, SendInitial, Unsubscribe, Receive
<1>1. Handled' = Handled /\ Stored' = Stored /\ IsFiniteSet(Stored) /\ Cardinality(Stored) <= Handled
  BY <1>0 DEF Handled, Stored, BurstInv
<1>2. CASE Subscribe(s)
  <2>1. /\ next = 0 /\ queue' = queue /\ initial' = [initial EXCEPT ![s] = Filtered(s)]
        /\ subPc' = [subPc EXCEPT ![s] = "sending"] /\ queue[s] = <<>>
    BY <1>2 DEF Subscribe, LockFree, DbTypeOK, BurstInv
  <2>2. IsFiniteSet(Filtered(s)) /\ Cardinality(Filtered(s)) <= Handled
    <3>1. IsFiniteSet(Filtered(s)) /\ Cardinality(Filtered(s)) <= Cardinality(Stored)
      BY <1>1, SnapshotBound
    <3>2. Cardinality(Filtered(s)) \in Nat /\ Cardinality(Stored) \in Nat
      BY <1>1, <3>1, FS_CardinalityType, Zenon
    <3>. QED BY <1>1, <3>1, <3>2, HandledFacts
  <2>3. Cardinality(Filtered(s)) \in Nat
    BY <2>2, FS_CardinalityType, Zenon
  <2>4. ASSUME NEW t \in Subs PROVE Load(t)' <= Handled'
    <3>1. ~ Pending(t)'
      BY <1>0, <2>1 DEF Pending
    <3>2. CASE t = s
      <4>1. queue'[t] = <<>> /\ initial'[t] = Filtered(s)
        BY <2>1, <3>2 DEF DbTypeOK
      <4>2. Load(t)' = Cardinality(Filtered(s))
        BY <2>3, <3>1, <4>1 DEF Load
      <4>. QED BY <1>1, <2>2, <4>2
    <3>3. CASE t # s
      <4>1. Load(t)' = Len(queue[t]) + Cardinality(initial[t])
        BY <2>1, <3>1, <3>3, LoadFacts DEF Load, DbTypeOK
      <4>. QED BY <1>1, <4>1, LoadFacts
    <3>. QED BY <3>2, <3>3
  <2>5. ASSUME NEW t \in Subs
        PROVE  /\ subPc'[t] \in {"off", "new"} => queue'[t] = <<>> /\ initial'[t] = {}
               /\ IsFiniteSet(initial'[t])
    <3>1. CASE t = s
      BY <2>1, <2>2, <3>1 DEF DbTypeOK
    <3>2. CASE t # s
      BY <2>1, <3>2 DEF DbTypeOK, BurstInv
    <3>. QED BY <3>1, <3>2
  <2>. QED BY <1>1, <2>4, <2>5 DEF BurstInv
<1>3. CASE SendInitial(s)
  <2>1. PICK r \in initial[s] : /\ initial' = [initial EXCEPT ![s] = initial[s] \ {r}]
                                /\ queue' = [queue EXCEPT ![s] = Append(queue[s], r)]
    BY <1>3 DEF SendInitial
  <2>2. UNCHANGED <<list, subPc>> /\ subPc[s] = "sending"
    BY <1>3 DEF SendInitial
  <2>3. /\ IsFiniteSet(initial[s] \ {r})
        /\ Cardinality(initial[s] \ {r}) = Cardinality(initial[s]) - 1
    <3>1. IsFiniteSet(initial[s])
      BY LoadFacts
    <3>. QED BY <3>1, FS_RemoveElement, Zenon
  <2>4. Len(Append(queue[s], r)) = Len(queue[s]) + 1
    <3>1. r \in Registers /\ queue[s] \in Seq(Registers)
      BY DEF DbTypeOK
    <3>. QED BY <3>1, AppendFacts
  <2>5. ASSUME NEW t \in Subs PROVE Load(t)' = Load(t) /\ IsFiniteSet(initial'[t])
    <3>1. Pending(t)' <=> Pending(t)
      BY <1>0, <2>2 DEF Pending
    <3>2. CASE t = s
      <4>1. queue'[t] = Append(queue[s], r) /\ initial'[t] = initial[s] \ {r}
        BY <2>1, <3>2 DEF DbTypeOK
      <4>2. /\ Len(queue[s]) \in Nat /\ Cardinality(initial[s]) \in Nat
            /\ Len(queue'[t]) = Len(queue[s]) + 1
            /\ Cardinality(initial'[t]) = Cardinality(initial[s]) - 1
        BY <2>3, <2>4, <4>1, LoadFacts
      <4>3. Load(t)' = Load(t)
        BY <3>1, <3>2, <4>2 DEF Load
      <4>. QED BY <2>3, <4>1, <4>3
    <3>3. CASE t # s
      BY <2>1, <3>1, <3>3, LoadFacts DEF Load, DbTypeOK
    <3>. QED BY <3>2, <3>3
  <2>6. ASSUME NEW t \in Subs, subPc'[t] \in {"off", "new"} PROVE queue'[t] = <<>> /\ initial'[t] = {}
    <3>1. t # s
      BY <2>2, <2>6
    <3>. QED BY <2>1, <2>2, <2>6, <3>1 DEF BurstInv, DbTypeOK
  <2>7. \A t \in Subs : Load(t) <= Handled
    BY DEF BurstInv
  <2>. QED BY <1>1, <2>5, <2>6, <2>7 DEF BurstInv
<1>4. CASE Unsubscribe(s)
  <2>1. /\ next = 0 /\ UNCHANGED <<queue, initial>> /\ subPc' = [subPc EXCEPT ![s] = "closed"]
    BY <1>4 DEF Unsubscribe, LockFree, DbTypeOK
  <2>2. ASSUME NEW t \in Subs PROVE Load(t)' <= Handled'
    <3>1. ~ Pending(t)'
      BY <1>0, <2>1 DEF Pending
    <3>2. Load(t)' = Len(queue[t]) + Cardinality(initial[t])
      BY <2>1, <3>1, LoadFacts DEF Load
    <3>. QED BY <1>1, <3>2, LoadFacts
  <2>3. \A t \in Subs : subPc'[t] \in {"off", "new"} => subPc[t] \in {"off", "new"}
    BY <2>1 DEF DbTypeOK
  <2>. QED BY <1>1, <2>1, <2>2, <2>3 DEF BurstInv
<1>5. CASE Receive(s)
  <2>1. /\ queue[s] # <<>> /\ queue' = [queue EXCEPT ![s] = Tail(queue[s])]
        /\ UNCHANGED <<list, subPc, initial>>
    BY <1>5 DEF Receive
  <2>2. queue'[s] = Tail(queue[s]) /\ Len(Tail(queue[s])) = Len(queue[s]) - 1
    <3>1. queue[s] \in Seq(Registers)
      BY DEF DbTypeOK
    <3>. QED BY <2>1, <3>1, HeadTailFacts DEF DbTypeOK
  <2>3. ASSUME NEW t \in Subs PROVE Load(t)' <= Handled'
    <3>1. Pending(t)' <=> Pending(t)
      BY <1>0, <2>1 DEF Pending
    <3>2. Len(queue'[t]) \in Nat /\ Len(queue'[t]) <= Len(queue[t])
      <4>1. CASE t = s
        BY <2>1, <2>2, <4>1, LoadFacts
      <4>2. CASE t # s
        BY <2>1, <4>2, LoadFacts DEF DbTypeOK
      <4>. QED BY <4>1, <4>2
    <3>3. Load(t)' <= Load(t) /\ Load(t) \in Int /\ Load(t)' \in Int
      BY <2>1, <3>1, <3>2, LoadFacts DEF Load
    <3>4. Load(t) <= Handled
      BY DEF BurstInv
    <3>. QED BY <1>1, <3>3, <3>4, HandledFacts
  <2>4. ASSUME NEW t \in Subs, subPc[t] \in {"off", "new"} PROVE queue'[t] = <<>>
    <3>1. t # s
      BY <2>1, <2>4 DEF BurstInv
    <3>. QED BY <2>1, <2>4, <3>1 DEF BurstInv, DbTypeOK
  <2>. QED BY <1>1, <2>1, <2>3, <2>4 DEF BurstInv
<1>. QED BY <1>2, <1>3, <1>4, <1>5

LEMMA BurstStep == DbTypeOK /\ ListInv /\ BurstInv /\ [DbNext]_dbVars => BurstInv'
<1>. SUFFICES ASSUME DbTypeOK, ListInv, BurstInv, [DbNext]_dbVars PROVE BurstInv'
  OBVIOUS
<1>. USE DEF adder, consumers
<1>1. ASSUME NEW newBatch \in Batches, AddStruct(newBatch) PROVE BurstInv'
  <2>1. /\ adding = <<>> /\ adding' = newBatch /\ saved' = saved + Len(newBatch)
        /\ UNCHANGED <<registers, next, list, subPc, initial, queue>>
    BY <1>1 DEF AddStruct, LockFree
  <2>2. Len(newBatch) \in Nat
    BY DEF Batches
  <2>3. next = 0 /\ Handled' = Handled
    BY <2>1, <2>2 DEF Handled, DbTypeOK
  <2>4. \A s \in Subs : Load(s)' = Load(s)
    BY <2>1 DEF Load, Pending
  <2>. QED BY <2>1, <2>3, <2>4 DEF BurstInv, Stored
<1>2. CASE UNCHANGED <<registers, adding, next, saved, list, subPc, initial, queue>>
  BY <1>2 DEF BurstInv, Handled, Stored, Load, Pending
<1>3. ASSUME NEW s \in Subs, Look(s) \/ Leave(s) PROVE BurstInv'
  BY <1>2, <1>3 DEF Look, Leave
<1>4. ASSUME NEW S \in SUBSET Subs, Cancel(S) PROVE BurstInv'
  BY <1>2, <1>4 DEF Cancel
<1>5. CASE UNCHANGED dbVars
  BY <1>2, <1>5 DEF dbVars
<1>. QED BY <1>1, <1>3, <1>4, <1>5, BurstAdder, BurstRoutine DEF DbNext

\* AddStruct, with the lock held, waits for a consumer that has left or that waits
\* for the lock (registerDb.go:50, 97) only if more registers were added than one channel
\* takes: for any capacity, and any number of registers and subscriptions.
THEOREM BlocksOnlyAfterBurst == DbSpec => []BlockedNeedsBurst
<1>1. DbTypeOK /\ BurstInv => BlockedNeedsBurst
  <2>. SUFFICES ASSUME DbTypeOK, BurstInv, NEW s \in Subs, Stuck(s) PROVE saved > Cap
    BY DEF BlockedNeedsBurst
  <2>1. Len(queue[s]) = Cap
    BY DEF Stuck
  <2>2. CASE initial[s] # {}
    <3>1. Cardinality(initial[s]) # 0
      <4>1. IsFiniteSet(initial[s])
        BY LoadFacts
      <4>. QED BY <2>2, <4>1, FS_EmptySet, Zenon
    <3>. QED BY <2>1, <3>1, LoadFacts, HandledFacts DEF DbTypeOK
  <2>3. CASE initial[s] = {}
    <3>1. next \in 1..Len(list) /\ list[next] = s
      BY <2>3 DEF Stuck
    <3>2. Pending(s)
      BY <3>1 DEF Pending
    <3>. QED BY <2>1, <3>2, LoadFacts, HandledFacts DEF DbTypeOK
  <2>. QED BY <2>2, <2>3
<1>. QED BY <1>1, DbInitType, DbStepType, ListInit, ListStep, BurstInit, BurstStep, PTL DEF DbSpec

-----------------------------------------------------------------------------
(* The forwarders.                                                         *)

\* The routines of structure.go, hassDiscovery.go and command.go change the
\* database only by its operations: what holds of it, holds with them.
THEOREM ForwardersAreConsumers == Spec => DbSpec
<1>1. Init => DbInit
  BY DEF Init
<1>2. [Next]_vars => [DbNext]_dbVars
  <2>. SUFFICES ASSUME [Next]_vars PROVE DbNext \/ UNCHANGED dbVars
    OBVIOUS
  <2>1. Subs \in SUBSET Subs
    OBVIOUS
  <2>2. CASE Database
    BY <2>1, <2>2 DEF Database, DbNext
  <2>3. CASE CollectRegister \/ PublishDiscovery \/ TakeRegister \/ AddRoute
    BY <2>3, ForwardersAssumption
    DEF CollectRegister, PublishDiscovery, TakeRegister, AddRoute, DbNext
  <2>4. CASE PublishStructure \/ UNCHANGED vars
    BY <2>4 DEF PublishStructure, vars
  <2>. QED BY <2>2, <2>3, <2>4 DEF Next
<1>. QED BY <1>1, <1>2, PTL DEF Spec, DbSpec

\* Nor is AddStruct blocked by them without such a burst.
THEOREM ForwardersBlockOnlyAfterBurst == Spec => []BlockedNeedsBurst
BY BlocksOnlyAfterBurst, ForwardersAreConsumers

\* No register is lost on the way to the forwarders.
THEOREM ForwardersLoseNothing == Spec => []NothingLost
BY LosesNothing, ForwardersAreConsumers
-----------------------------------------------------------------------------
(* What the forwarders have announced is the registers as they are.        *)

\* No register named n is in a channel.
NoneOf(q, n) == \A i \in 1..Len(q) : q[i].name # n

\* The last register named n in a channel is r.
LastOf(q, n, r) ==
  \E i \in 1..Len(q) : q[i] = r /\ \A j \in (i + 1)..Len(q) : q[j].name # n

\* The forwarder that uses s has published, or is to publish, the register as it is.
Announced(s, n) ==
  /\ s = Structure => \/ batch[n] = registers[n]
                      \/ batch[n] = Nil /\ merged[n] = registers[n]
  /\ s = Hass => discovery[Component(registers[n])][n] = registers[n]

\* Where the present form of a register is: the newest on its way to the
\* consumer of s, or what has been announced when none is on its way.
Follows(s, n) ==
  \/ Pending(s) /\ Head(adding) = registers[n]
  \/ registers[n] \in initial[s]
  \/ /\ ~Waiting(s, n)
     /\ \/ LastOf(queue[s], n, registers[n])
        \/ NoneOf(queue[s], n) /\ Announced(s, n)

\* For a route any form will do that is on its way: the register is looked up.
RouteFollows(n) ==
  \/ Pending(Command) /\ Head(adding) = registers[n]
  \/ Waiting(Command, n)
  \/ ~NoneOf(queue[Command], n)
  \/ consumer[Command] = "lookup" /\ held[Command].name = n
  \/ registers[n] \in routes[n]

\* The initial registers have different names.
OneInitial(s) == \A r1, r2 \in initial[s] : r1.name = r2.name => r1 = r2

\* The inductive invariant.
FollowInv ==
  /\ \A s \in Subs : OneInitial(s)
  /\ \A s \in Subs : Listed(s) =>
       \A n \in Names \ overtaken[s] : registers[n] \in Filter[s] => Follows(s, n)
  /\ Listed(Command) =>
       \A n \in Names : registers[n] \in Filter[Command] => RouteFollows(n)

\* The part of the types that the proof needs.
MqttTypes ==
  /\ batch \in [Names -> Registers \cup {Nil}] /\ merged \in [Names -> Registers \cup {Nil}]
  /\ discovery \in [{"sensor", "switch"} -> [Names -> Registers \cup {Nil}]]
  /\ routes \in [Names -> SUBSET (Registers \cup {Nil})]

\* What a send does to the newest of a name in a channel, and what a receive does.
LEMMA SendNewest ==
  ASSUME NEW q \in Seq(Registers), NEW r \in Registers, NEW n
  PROVE  /\ r.name = n => LastOf(Append(q, r), n, r) /\ ~NoneOf(Append(q, r), n)
         /\ r.name # n => /\ NoneOf(q, n) => NoneOf(Append(q, r), n)
                          /\ \A e : LastOf(q, n, e) => LastOf(Append(q, r), n, e)
         /\ ~NoneOf(q, n) => ~NoneOf(Append(q, r), n)
<1>. PICK p \in Seq(Registers) : p = Append(q, r)
  BY AppendFacts
<1>1. /\ Len(p) = Len(q) + 1 /\ p[Len(q) + 1] = r /\ Len(q) \in Nat
      /\ \A i \in 1..Len(q) : p[i] = q[i]
  BY AppendFacts
<1>2. ASSUME r.name = n PROVE LastOf(p, n, r) /\ ~NoneOf(p, n)
  BY <1>1, <1>2 DEF LastOf, NoneOf
<1>3. ASSUME r.name # n, NoneOf(q, n) PROVE NoneOf(p, n)
  BY <1>1, <1>3 DEF NoneOf
<1>4. ASSUME r.name # n, NEW e, LastOf(q, n, e) PROVE LastOf(p, n, e)
  <2>1. PICK i \in 1..Len(q) : q[i] = e /\ \A j \in (i + 1)..Len(q) : q[j].name # n
    BY <1>4 DEF LastOf
  <2>2. i \in 1..Len(p) /\ p[i] = e /\ \A j \in (i + 1)..Len(p) : p[j].name # n
    BY <1>1, <1>4, <2>1
  <2>. QED BY <2>2 DEF LastOf
<1>5. ASSUME ~NoneOf(q, n) PROVE ~NoneOf(p, n)
  BY <1>1, <1>5 DEF NoneOf
<1>. QED BY <1>2, <1>3, <1>4, <1>5

LEMMA ReceiveNewest ==
  ASSUME NEW q \in Seq(Registers), q # <<>>, NEW n
  PROVE  /\ \A e : LastOf(q, n, e) =>
                     LastOf(Tail(q), n, e) \/ (Head(q) = e /\ NoneOf(Tail(q), n))
         /\ NoneOf(q, n) => Head(q).name # n /\ NoneOf(Tail(q), n)
         /\ ~NoneOf(q, n) => Head(q).name = n \/ ~NoneOf(Tail(q), n)
<1>. PICK p \in Seq(Registers) : p = Tail(q)
  BY HeadTailFacts
<1>1. /\ Len(p) = Len(q) - 1 /\ Head(q) = q[1] /\ Len(q) \in Nat \ {0}
      /\ \A i \in 1..(Len(q) - 1) : p[i] = q[i + 1]
  BY HeadTailFacts
<1>2. ASSUME NEW e, LastOf(q, n, e) PROVE LastOf(p, n, e) \/ (Head(q) = e /\ NoneOf(p, n))
  <2>1. PICK i \in 1..Len(q) : q[i] = e /\ \A j \in (i + 1)..Len(q) : q[j].name # n
    BY <1>2 DEF LastOf
  <2>2. ASSUME NEW j \in i..Len(p), j # 0 PROVE p[j].name # n
    <3>1. j + 1 \in (i + 1)..Len(q) /\ j \in 1..(Len(q) - 1)
      BY <1>1, <2>1, <2>2
    <3>. QED BY <1>1, <2>1, <3>1
  <2>3. CASE i = 1
    BY <1>1, <2>1, <2>2, <2>3 DEF NoneOf
  <2>4. CASE i # 1
    <3>1. i - 1 \in 1..Len(p) /\ p[i - 1] = e /\ (i - 1) + 1 = i
      BY <1>1, <2>1, <2>4
    <3>2. \A j \in ((i - 1) + 1)..Len(p) : p[j].name # n
      BY <2>2, <3>1
    <3>. QED BY <3>1, <3>2 DEF LastOf
  <2>. QED BY <2>3, <2>4
<1>3. ASSUME NoneOf(q, n) PROVE Head(q).name # n /\ NoneOf(p, n)
  <2>1. \A i \in 1..Len(p) : i + 1 \in 1..Len(q)
    BY <1>1
  <2>. QED BY <1>1, <1>3, <2>1 DEF NoneOf
<1>4. ASSUME NoneOf(p, n), Head(q).name # n PROVE NoneOf(q, n)
  <2>. SUFFICES ASSUME NEW i \in 1..Len(q) PROVE q[i].name # n
    BY DEF NoneOf
  <2>1. CASE i # 1
    <3>1. i - 1 \in 1..Len(p) /\ p[i - 1] = q[i]
      BY <1>1, <2>1
    <3>. QED BY <1>4, <3>1 DEF NoneOf
  <2>. QED BY <1>1, <1>4, <2>1
<1>. QED BY <1>2, <1>3, <1>4

-----------------------------------------------------------------------------
LEMMA OffStays ==
  ASSUME DbTypeOK, [DbNext]_dbVars, NEW t \in Subs
  PROVE  subPc'[t] = "off" <=> subPc[t] = "off"
<1>0. subPc \in [Subs -> {"off", "new", "sending", "closed"}]
  BY DEF DbTypeOK
<1>1. ASSUME NEW s \in Subs, Subscribe(s) \/ Unsubscribe(s) PROVE subPc'[t] = "off" <=> subPc[t] = "off"
  <2>1. subPc[s] \in {"new", "sending"}
    BY <1>1 DEF Subscribe, Unsubscribe
  <2>2. \/ subPc' = [subPc EXCEPT ![s] = "sending"]
        \/ subPc' = [subPc EXCEPT ![s] = "closed"]
    BY <1>1 DEF Subscribe, Unsubscribe
  <2>. QED BY <1>0, <2>1, <2>2
<1>2. CASE \E s \in Subs : Subscribe(s) \/ Unsubscribe(s)
  BY <1>1, <1>2
<1>3. CASE UNCHANGED subPc
  BY <1>3
<1>. QED
  BY <1>2, <1>3 DEF DbNext, Adder, AddStruct, AddSkip, AddSave, AddForward, AddNext, Cancel,
                    SendInitial, Receive, Look, Leave, dbVars

\* A register stays a sensor or a switch.
LEMMA ComponentStays ==
  ASSUME DbTypeOK, [DbNext]_dbVars, NEW r
  PROVE  Component(r)' = Component(r)
<1>1. subPc'[Command] = "off" <=> subPc[Command] = "off"
  BY OffStays, ForwardersAssumption
<1>2. CommandFilter' = CommandFilter
  BY <1>1 DEF CommandFilter
<1>. QED BY <1>2 DEF Component

LEMMA OneInitialStep ==
  ASSUME DbTypeOK, [DbNext]_dbVars, NEW s \in Subs, OneInitial(s)
  PROVE  OneInitial(s)'
<1>0. initial \in [Subs -> SUBSET Registers]
  BY DEF DbTypeOK
<1>1. ASSUME NEW t \in Subs, Subscribe(t) PROVE OneInitial(s)'
  <2>1. initial' = [initial EXCEPT ![t] = Filtered(t)]
    BY <1>1 DEF Subscribe
  <2>2. \A r1, r2 \in Filtered(t) : r1.name = r2.name => r1 = r2
    BY DEF Filtered
  <2>3. CASE s = t
    <3>1. initial'[s] = Filtered(t)
      BY <1>0, <2>1, <2>3
    <3>. QED BY <2>2, <3>1 DEF OneInitial
  <2>4. CASE s # t
    <3>1. initial'[s] = initial[s]
      BY <1>0, <2>1, <2>4
    <3>. QED BY <3>1 DEF OneInitial
  <2>. QED BY <2>3, <2>4
<1>2. ASSUME NEW t \in Subs, SendInitial(t) PROVE OneInitial(s)'
  <2>1. PICK r \in initial[t] : initial' = [initial EXCEPT ![t] = initial[t] \ {r}]
    BY <1>2 DEF SendInitial
  <2>2. initial'[s] \subseteq initial[s]
    BY <1>0, <2>1
  <2>. QED BY <2>2 DEF OneInitial
<1>3. CASE UNCHANGED initial
  BY <1>3 DEF OneInitial
<1>. QED
  BY <1>1, <1>2, <1>3 DEF DbNext, Adder, AddStruct, AddSkip, AddSave, AddForward, AddNext,
                          Cancel, Unsubscribe, Receive, Look, Leave, dbVars

\* A step that leaves all alone that s has of n, but what is being sent.
LEMMA FollowsAlike ==
  ASSUME NEW s \in Subs, NEW n \in Names, registers'[n] = registers[n],
         initial'[s] = initial[s], queue'[s] = queue[s],
         Pending(s) /\ Head(adding) = registers[n] =>
           Pending(s)' /\ Head(adding') = registers[n],
         Announced(s, n) => Announced(s, n)',
         Follows(s, n)
  PROVE  Follows(s, n)'
BY DEF Follows, Waiting

LEMMA AnnouncedAlike ==
  ASSUME DbTypeOK, [DbNext]_dbVars, NEW s \in Subs, NEW n \in Names,
         registers'[n] = registers[n], UNCHANGED mqtt, Announced(s, n)
  PROVE  Announced(s, n)'
<1>. PICK r : r = registers[n]
  OBVIOUS
<1>1. Component(r)' = Component(r)
  BY ComponentStays
<1>2. UNCHANGED <<batch, merged, discovery>> /\ registers'[n] = r
  BY DEF mqtt
<1>. QED BY <1>1, <1>2 DEF Announced

LEMMA AdderFollows ==
  ASSUME DbTypeOK, Adder, UNCHANGED mqtt, NEW s \in Subs, NEW n \in Names,
         Listed(s), n \notin overtaken'[s], registers'[n] \in Filter[s],
         n \notin overtaken[s] /\ registers[n] \in Filter[s] => Follows(s, n)
  PROVE  Follows(s, n)'
<1>0. /\ adding # <<>> => Head(adding) \in Registers /\ Head(adding).name \in Names
      /\ list \in Seq(Subs) /\ queue \in [Subs -> Seq(Registers)] /\ next \in Nat
      /\ overtaken \in [Subs -> SUBSET Names]
      /\ registers \in [Names -> Registers \cup {Nil}]
      /\ \A k \in Names : registers[k] # Nil => registers[k].name = k
      /\ next # 0 => adding # <<>> /\ registers[Head(adding).name] = Head(adding)
  BY HeadTailFacts, RegisterName DEF DbTypeOK
<1>1. UNCHANGED <<list, initial>>
  BY DEF Adder, AddSkip, AddSave, AddForward, AddNext
<1>2. ASSUME registers'[n] = registers[n] PROVE Announced(s, n) => Announced(s, n)'
  <2>1. [DbNext]_dbVars
    BY DEF DbNext
  <2>. QED BY <1>2, <2>1, AnnouncedAlike
<1>3. CASE AddSkip \/ AddNext
  <2>1. UNCHANGED <<registers, queue, overtaken>> /\ ~Pending(s)
    BY <1>0, <1>3 DEF AddSkip, AddNext, Pending
  <2>. QED BY <1>1, <1>2, <2>1, FollowsAlike
<1>4. CASE AddSave
  <2>1. /\ adding # <<>> /\ next = 0 /\ next' = 1 /\ UNCHANGED <<adding, queue, overtaken>>
        /\ registers' = [registers EXCEPT ![Head(adding).name] = Head(adding)]
    BY <1>4 DEF AddSave
  <2>2. CASE n = Head(adding).name
    <3>1. registers'[n] = Head(adding)
      BY <1>0, <2>1, <2>2
    <3>2. Pending(s)'
      BY <1>1, <2>1 DEF Listed, Pending
    <3>. QED BY <2>1, <3>1, <3>2 DEF Follows
  <2>3. CASE n # Head(adding).name
    <3>1. registers'[n] = registers[n] /\ ~Pending(s)
      BY <1>0, <2>1, <2>3 DEF Pending
    <3>. QED BY <1>1, <1>2, <2>1, <3>1, FollowsAlike
  <2>. QED BY <2>2, <2>3
<1>5. CASE AddForward
  <2>0. PICK t \in Subs, r \in Registers : t = list[next] /\ r = Head(adding)
    BY <1>0, <1>5 DEF AddForward
  <2>1. /\ next \in 1..Len(list) /\ next' = next + 1 /\ UNCHANGED <<registers, adding>>
        /\ registers[r.name] = r /\ r.name \in Names
    BY <1>0, <1>5, <2>0 DEF AddForward
  <2>2. /\ r \in Filter[t] => /\ queue' = [queue EXCEPT ![t] = Append(queue[t], r)]
                              /\ overtaken' = IF Waiting(t, r.name)
                                   THEN [overtaken EXCEPT ![t] = overtaken[t] \cup {r.name}]
                                   ELSE overtaken
        /\ r \notin Filter[t] => queue' = queue /\ overtaken' = overtaken
    BY <1>5, <2>0 DEF AddForward
  <2>3. overtaken[s] \subseteq overtaken'[s]
    <3>1. \/ overtaken' = overtaken
          \/ overtaken' = [overtaken EXCEPT ![t] = overtaken[t] \cup {r.name}]
      BY <2>2
    <3>. QED BY <1>0, <3>1
  <2>4. Follows(s, n)
    BY <2>1, <2>3
  <2>5. ASSUME Pending(s), t # s \/ r \notin Filter[t], Head(adding) = registers[n]
        PROVE  Pending(s)' /\ Head(adding') = registers[n]
    <3>1. PICK i \in next..Len(list) : list[i] = s
      BY <2>5 DEF Pending
    <3>2. i # next
      BY <2>0, <2>1, <2>5, <3>1
    <3>3. i \in next'..Len(list') /\ list'[i] = s /\ next' # 0
      BY <1>0, <1>1, <2>1, <3>1, <3>2
    <3>. QED BY <2>1, <2>5, <3>3 DEF Pending
  <2>6. CASE t # s \/ r \notin Filter[t]
    <3>1. queue'[s] = queue[s]
      BY <1>0, <2>2, <2>6
    <3>. QED BY <1>1, <1>2, <2>1, <2>4, <2>5, <2>6, <3>1, FollowsAlike
  <2>7. CASE t = s /\ r \in Filter[t] /\ r.name = n
    <3>1. /\ queue'[s] = Append(queue[s], r) /\ registers'[n] = r
          /\ queue[s] \in Seq(Registers)
      BY <1>0, <2>1, <2>2, <2>7
    <3>2. ~Waiting(s, n)
      BY <1>0, <2>1, <2>2, <2>7
    <3>3. LastOf(Append(queue[s], r), n, r)
      BY <2>7, <3>1, SendNewest
    <3>4. ~Waiting(s, n)'
      BY <1>1, <3>2 DEF Waiting
    <3>. QED BY <3>1, <3>3, <3>4 DEF Follows
  <2>8. CASE t = s /\ r \in Filter[t] /\ r.name # n
    <3>1. queue'[s] = Append(queue[s], r) /\ registers'[n] = registers[n] /\ queue[s] \in Seq(Registers)
      BY <1>0, <2>1, <2>2, <2>8
    <3>2. Head(adding) # registers[n]
      <4>1. r # Nil
        OBVIOUS
      <4>. QED BY <1>0, <2>0, <2>8, <4>1
    <3>3. /\ NoneOf(queue[s], n) => NoneOf(Append(queue[s], r), n)
          /\ \A e : LastOf(queue[s], n, e) => LastOf(Append(queue[s], r), n, e)
      BY <2>8, <3>1, SendNewest
    <3>4. Waiting(s, n)' = Waiting(s, n)
      BY <1>1 DEF Waiting
    <3>. QED BY <1>1, <1>2, <2>4, <3>1, <3>2, <3>3, <3>4 DEF Follows
  <2>. QED BY <2>6, <2>7, <2>8
<1>. QED BY <1>3, <1>4, <1>5 DEF Adder

LEMMA RoutineFollows ==
  ASSUME DbTypeOK, UNCHANGED mqtt, NEW s \in Subs, NEW n \in Names, OneInitial(s),
         NEW t \in Subs, Subscribe(t) \/ SendInitial(t) \/ Unsubscribe(t) \/ Leave(t),
         Listed(s)', n \notin overtaken'[s], registers'[n] \in Filter[s],
         Listed(s) /\ n \notin overtaken[s] /\ registers[n] \in Filter[s] => Follows(s, n)
  PROVE  Follows(s, n)'
<1>0. /\ list \in Seq(Subs) /\ queue \in [Subs -> Seq(Registers)] /\ next \in Nat
      /\ \A k \in Names : registers[k] # Nil => registers[k].name = k
      /\ initial \in [Subs -> SUBSET Registers]
      /\ next # 0 => adding # <<>>
      /\ Filter[s] \subseteq Registers
  BY DEF DbTypeOK
<1>1. UNCHANGED <<registers, adding, next, overtaken>>
  BY DEF Subscribe, SendInitial, Unsubscribe, Leave, adder
<1>2. Announced(s, n) => Announced(s, n)'
  <2>1. [DbNext]_dbVars
    BY DEF DbNext
  <2>. QED BY <1>1, <2>1, AnnouncedAlike
<1>3. CASE Subscribe(t)
  <2>1. /\ list' = Append(list, t) /\ UNCHANGED queue /\ next = 0
        /\ initial' = [initial EXCEPT ![t] = Filtered(t)]
    BY <1>0, <1>3 DEF Subscribe, LockFree
  <2>2. CASE t = s
    <3>1. initial'[s] = Filtered(s)
      BY <1>0, <2>1, <2>2
    <3>2. registers[n] \in Filtered(s)
      <4>1. registers[n] \in Registers
        BY <1>0, <1>1
      <4>2. registers[n].name = n
        <5>1. registers[n] # Nil
          BY <4>1
        <5>. QED BY <1>0, <5>1
      <4>. QED BY <1>1, <4>2 DEF Filtered
    <3>. QED BY <1>1, <3>1, <3>2 DEF Follows
  <2>3. CASE t # s
    <3>1. Listed(s)
      <4>1. PICK i \in 1..Len(list') : list'[i] = s
        BY DEF Listed
      <4>2. /\ Len(list') = Len(list) + 1 /\ list'[Len(list) + 1] = t
            /\ \A j \in 1..Len(list) : list'[j] = list[j]
        BY <1>0, <2>1, AppendFacts
      <4>3. Len(list) \in Nat
        BY <1>0
      <4>4. i \in 1..Len(list) /\ list[i] = s
        BY <2>3, <4>1, <4>2, <4>3
      <4>. QED BY <4>4 DEF Listed
    <3>2. ~Pending(s) /\ initial'[s] = initial[s]
      BY <1>0, <2>1, <2>3 DEF Pending
    <3>. QED BY <1>1, <1>2, <2>1, <3>1, <3>2, FollowsAlike
  <2>. QED BY <2>2, <2>3
<1>4. CASE SendInitial(t)
  <2>1. PICK r \in initial[t] :
          /\ initial' = [initial EXCEPT ![t] = initial[t] \ {r}]
          /\ queue' = [queue EXCEPT ![t] = Append(queue[t], r)]
    BY <1>4 DEF SendInitial
  <2>2. UNCHANGED list
    BY <1>4 DEF SendInitial
  <2>3. r \in Registers
    BY <1>0
  <2>4. Listed(s) /\ (Pending(s)' <=> Pending(s))
    BY <1>1, <2>2 DEF Listed, Pending
  <2>5. Follows(s, n)
    BY <1>1, <2>4
  <2>6. CASE t # s
    <3>1. initial'[s] = initial[s] /\ queue'[s] = queue[s]
      BY <1>0, <2>1, <2>6
    <3>. QED BY <1>1, <1>2, <2>4, <2>5, <3>1, FollowsAlike
  <2>7. CASE t = s
    <3>1. initial'[s] = initial[s] \ {r} /\ queue'[s] = Append(queue[s], r)
          /\ queue[s] \in Seq(Registers)
      BY <1>0, <2>1, <2>7
    <3>2. CASE Pending(s) /\ Head(adding) = registers[n]
      BY <1>1, <2>4, <3>2 DEF Follows
    <3>3. CASE registers[n] \in initial[s] /\ registers[n] # r
      BY <1>1, <3>1, <3>3 DEF Follows
    <3>4. CASE registers[n] = r
      <4>1. r.name = n
        <5>1. r # Nil
          BY <2>3
        <5>. QED BY <1>0, <3>4, <5>1
      <4>2. LastOf(Append(queue[s], r), n, r)
        BY <2>3, <3>1, <4>1, SendNewest
      <4>3. ~Waiting(s, n)'
        BY <2>1, <2>7, <3>1, <4>1 DEF Waiting, OneInitial
      <4>. QED BY <1>1, <3>1, <3>4, <4>2, <4>3 DEF Follows
    <3>5. CASE ~Waiting(s, n) /\ (\/ LastOf(queue[s], n, registers[n])
                                  \/ NoneOf(queue[s], n) /\ Announced(s, n))
      <4>1. r.name # n
        BY <2>1, <2>7, <3>5 DEF Waiting
      <4>2. /\ NoneOf(queue[s], n) => NoneOf(Append(queue[s], r), n)
            /\ \A e : LastOf(queue[s], n, e) => LastOf(Append(queue[s], r), n, e)
        BY <2>3, <3>1, <4>1, SendNewest
      <4>3. ~Waiting(s, n)'
        BY <3>1, <3>5 DEF Waiting
      <4>. QED BY <1>1, <1>2, <3>1, <3>5, <4>2, <4>3 DEF Follows
    <3>. QED BY <2>5, <3>2, <3>3, <3>4, <3>5 DEF Follows
  <2>. QED BY <2>6, <2>7
<1>5. CASE Unsubscribe(t)
  <2>1. PICK i \in 1..Len(list) : list' = RemoveAt(list, i)
    BY <1>5 DEF Unsubscribe
  <2>2. UNCHANGED <<queue, initial>> /\ ~Pending(s)
    BY <1>0, <1>5 DEF Unsubscribe, LockFree, Pending
  <2>3. Listed(s)
    <3>1. PICK j \in 1..Len(list') : list'[j] = s
      BY DEF Listed
    <3>2. /\ Len(list') = Len(list) - 1
          /\ \A k \in 1..(Len(list) - 1) : list'[k] = IF k < i THEN list[k] ELSE list[k + 1]
      BY <1>0, <2>1, RemoveFacts
    <3>3. j \in 1..Len(list) /\ j + 1 \in 1..Len(list)
      BY <1>0, <3>1, <3>2
    <3>. QED BY <3>1, <3>2, <3>3 DEF Listed
  <2>. QED BY <1>1, <1>2, <2>2, <2>3, FollowsAlike
<1>6. CASE Leave(t)
  <2>1. UNCHANGED <<list, queue, initial>>
    BY <1>6 DEF Leave
  <2>2. Listed(s) /\ (Pending(s)' <=> Pending(s))
    BY <1>1, <2>1 DEF Listed, Pending
  <2>. QED BY <1>1, <1>2, <2>1, <2>2, FollowsAlike
<1>. QED BY <1>3, <1>4, <1>5, <1>6

LEMMA ReceiveFollows ==
  ASSUME DbTypeOK, NEW s \in Subs, NEW n \in Names, NEW t \in Subs, Receive(t),
         t # s \/ Head(queue[t]).name # n => (Announced(s, n) => Announced(s, n)'),
         t = s /\ Head(queue[t]) = registers[n] => Announced(s, n)',
         registers[n] \in Registers,
         Follows(s, n)
  PROVE  Follows(s, n)'
<1>0. /\ queue \in [Subs -> Seq(Registers)]
      /\ registers[n].name = n
  <2>1. registers[n] # Nil
    OBVIOUS
  <2>. QED BY <2>1 DEF DbTypeOK
<1>1. /\ UNCHANGED <<registers, adding, next, list, initial>>
      /\ queue[t] # <<>> /\ queue' = [queue EXCEPT ![t] = Tail(queue[t])]
  BY DEF Receive, adder
<1>2. Pending(s)' <=> Pending(s)
  BY <1>1 DEF Pending
<1>3. CASE t # s
  <2>1. queue'[s] = queue[s]
    BY <1>0, <1>1, <1>3
  <2>. QED BY <1>1, <1>2, <1>3, <2>1, FollowsAlike
<1>4. CASE t = s
  <2>1. queue'[s] = Tail(queue[s]) /\ queue[s] \in Seq(Registers) /\ queue[s] # <<>>
    BY <1>0, <1>1, <1>4
  <2>2. /\ \A e : LastOf(queue[s], n, e) =>
                    LastOf(queue'[s], n, e) \/ (Head(queue[s]) = e /\ NoneOf(queue'[s], n))
        /\ NoneOf(queue[s], n) => Head(queue[s]).name # n /\ NoneOf(queue'[s], n)
    BY <2>1, ReceiveNewest
  <2>3. Waiting(s, n)' = Waiting(s, n)
    BY <1>1 DEF Waiting
  <2>4. CASE Pending(s) /\ Head(adding) = registers[n]
    BY <1>1, <1>2, <2>4 DEF Follows
  <2>5. CASE registers[n] \in initial[s]
    BY <1>1, <2>5 DEF Follows
  <2>6. CASE ~Waiting(s, n) /\ LastOf(queue[s], n, registers[n])
    <3>1. \/ LastOf(queue'[s], n, registers[n])
          \/ NoneOf(queue'[s], n) /\ Announced(s, n)'
      BY <1>4, <2>2, <2>6
    <3>. QED BY <1>1, <2>3, <2>6, <3>1 DEF Follows
  <2>7. CASE ~Waiting(s, n) /\ NoneOf(queue[s], n) /\ Announced(s, n)
    <3>1. NoneOf(queue'[s], n) /\ Announced(s, n)'
      BY <1>4, <2>2, <2>7
    <3>. QED BY <1>1, <2>3, <2>7, <3>1 DEF Follows
  <2>. QED BY <2>4, <2>5, <2>6, <2>7 DEF Follows
<1>. QED BY <1>3, <1>4

\* The same for a route, of which any form is told.
LEMMA RouteAlike ==
  ASSUME NEW n \in Names, registers'[n] = registers[n],
         Pending(Command) /\ Head(adding) = registers[n] =>
           \/ Pending(Command)' /\ Head(adding') = registers[n]
           \/ ~NoneOf(queue'[Command], n),
         Waiting(Command, n) => Waiting(Command, n)' \/ ~NoneOf(queue'[Command], n),
         ~NoneOf(queue[Command], n) => ~NoneOf(queue'[Command], n),
         consumer[Command] = "lookup" =>
           consumer'[Command] = "lookup" /\ held'[Command] = held[Command],
         UNCHANGED routes, RouteFollows(n)
  PROVE  RouteFollows(n)'
BY DEF RouteFollows

LEMMA AdderRoutes ==
  ASSUME DbTypeOK, Adder, UNCHANGED mqtt, NEW n \in Names,
         Listed(Command), registers'[n] \in Filter[Command],
         registers[n] \in Filter[Command] => RouteFollows(n)
  PROVE  RouteFollows(n)'
<1>0. /\ adding # <<>> => Head(adding) \in Registers /\ Head(adding).name \in Names
      /\ list \in Seq(Subs) /\ queue \in [Subs -> Seq(Registers)] /\ next \in Nat
      /\ registers \in [Names -> Registers \cup {Nil}]
      /\ \A k \in Names : registers[k] # Nil => registers[k].name = k
      /\ next # 0 => adding # <<>> /\ registers[Head(adding).name] = Head(adding)
      /\ Command \in Subs
  BY HeadTailFacts, RegisterName, ForwardersAssumption DEF DbTypeOK
<1>1. UNCHANGED <<list, initial, consumer, held, routes>>
  BY DEF Adder, AddSkip, AddSave, AddForward, AddNext, consumers, mqtt
<1>2. Waiting(Command, n)' = Waiting(Command, n)
  BY <1>1 DEF Waiting
<1>3. CASE AddSkip \/ AddNext
  <2>1. UNCHANGED <<registers, queue>> /\ ~Pending(Command)
    BY <1>0, <1>3 DEF AddSkip, AddNext, Pending
  <2>. QED BY <1>1, <1>2, <2>1, RouteAlike
<1>4. CASE AddSave
  <2>1. /\ adding # <<>> /\ next = 0 /\ next' = 1 /\ UNCHANGED <<adding, queue>>
        /\ registers' = [registers EXCEPT ![Head(adding).name] = Head(adding)]
    BY <1>4 DEF AddSave
  <2>2. CASE n = Head(adding).name
    <3>1. registers'[n] = Head(adding)
      BY <1>0, <2>1, <2>2
    <3>2. Pending(Command)'
      BY <1>1, <2>1 DEF Listed, Pending
    <3>. QED BY <2>1, <3>1, <3>2 DEF RouteFollows
  <2>3. CASE n # Head(adding).name
    <3>1. registers'[n] = registers[n] /\ ~Pending(Command)
      BY <1>0, <2>1, <2>3 DEF Pending
    <3>. QED BY <1>1, <1>2, <2>1, <3>1, RouteAlike
  <2>. QED BY <2>2, <2>3
<1>5. CASE AddForward
  <2>0. PICK t \in Subs, r \in Registers : t = list[next] /\ r = Head(adding)
    BY <1>0, <1>5 DEF AddForward
  <2>1. /\ next \in 1..Len(list) /\ next' = next + 1 /\ UNCHANGED <<registers, adding>>
    BY <1>0, <1>5, <2>0 DEF AddForward
  <2>2. /\ r \in Filter[t] => queue' = [queue EXCEPT ![t] = Append(queue[t], r)]
        /\ r \notin Filter[t] => queue' = queue
    BY <1>5, <2>0 DEF AddForward
  <2>3. queue[Command] \in Seq(Registers)
    BY <1>0
  <2>4. ~NoneOf(queue[Command], n) => ~NoneOf(queue'[Command], n)
    <3>1. queue'[Command] = queue[Command] \/ queue'[Command] = Append(queue[Command], r)
      BY <1>0, <2>2
    <3>2. ~NoneOf(queue[Command], n) => ~NoneOf(Append(queue[Command], r), n)
      BY <2>3, SendNewest
    <3>. QED BY <3>1, <3>2
  <2>5. ASSUME Pending(Command), Head(adding) = registers[n]
        PROVE  \/ Pending(Command)' /\ Head(adding') = registers[n]
               \/ ~NoneOf(queue'[Command], n)
    <3>1. PICK i \in next..Len(list) : list[i] = Command
      BY <2>5 DEF Pending
    <3>2. CASE i = next
      <4>1. t = Command /\ r = registers[n] /\ r \in Filter[t]
        BY <2>0, <2>1, <2>5, <3>1, <3>2
      <4>2. queue'[Command] = Append(queue[Command], r)
        BY <1>0, <2>2, <4>1
      <4>3. r.name = n
        <5>1. r # Nil
          OBVIOUS
        <5>. QED BY <1>0, <4>1, <5>1
      <4>4. ~NoneOf(Append(queue[Command], r), n)
        BY <2>3, <4>3, SendNewest
      <4>. QED BY <4>2, <4>4
    <3>3. CASE i # next
      <4>1. i \in next'..Len(list') /\ list'[i] = Command /\ next' # 0
        BY <1>0, <1>1, <2>1, <3>1, <3>3
      <4>. QED BY <2>1, <2>5, <4>1 DEF Pending
    <3>. QED BY <3>2, <3>3
  <2>. QED BY <1>1, <1>2, <2>1, <2>4, <2>5, RouteAlike
<1>. QED BY <1>3, <1>4, <1>5 DEF Adder

LEMMA RoutineRoutes ==
  ASSUME DbTypeOK, UNCHANGED mqtt, NEW n \in Names,
         NEW t \in Subs, Subscribe(t) \/ SendInitial(t) \/ Unsubscribe(t) \/ Leave(t),
         Listed(Command)', registers'[n] \in Filter[Command],
         Listed(Command) /\ registers[n] \in Filter[Command] => RouteFollows(n)
  PROVE  RouteFollows(n)'
<1>0. /\ list \in Seq(Subs) /\ queue \in [Subs -> Seq(Registers)] /\ next \in Nat
      /\ \A k \in Names : registers[k] # Nil => registers[k].name = k
      /\ initial \in [Subs -> SUBSET Registers]
      /\ next # 0 => adding # <<>>
      /\ consumer \in [Subs -> {"receive", "lookup", "left"}]
      /\ Command \in Subs /\ Filter[Command] \subseteq Registers
  BY ForwardersAssumption DEF DbTypeOK
<1>1. UNCHANGED <<registers, adding, next, held, routes>>
  BY DEF Subscribe, SendInitial, Unsubscribe, Leave, adder, consumers, mqtt
<1>2. consumer[Command] = "lookup" => consumer'[Command] = "lookup"
  <2>1. CASE Leave(t)
    BY <1>0, <2>1 DEF Leave
  <2>2. CASE UNCHANGED consumer
    BY <2>2
  <2>. QED BY <2>1, <2>2 DEF Subscribe, SendInitial, Unsubscribe, consumers
<1>3. CASE Subscribe(t)
  <2>1. /\ list' = Append(list, t) /\ UNCHANGED queue /\ next = 0
        /\ initial' = [initial EXCEPT ![t] = Filtered(t)]
    BY <1>0, <1>3 DEF Subscribe, LockFree
  <2>2. CASE t = Command
    <3>1. initial'[Command] = Filtered(Command)
      BY <1>0, <2>1, <2>2
    <3>2. registers[n] \in Registers
      BY <1>0, <1>1
    <3>3. registers[n].name = n
      <4>1. registers[n] # Nil
        BY <3>2
      <4>. QED BY <1>0, <4>1
    <3>4. registers[n] \in Filtered(Command)
      BY <1>1, <3>3 DEF Filtered
    <3>5. Waiting(Command, n)'
      BY <3>1, <3>3, <3>4 DEF Waiting
    <3>. QED BY <3>5 DEF RouteFollows
  <2>3. CASE t # Command
    <3>1. Listed(Command)
      <4>1. PICK i \in 1..Len(list') : list'[i] = Command
        BY DEF Listed
      <4>2. /\ Len(list') = Len(list) + 1 /\ list'[Len(list) + 1] = t
            /\ \A j \in 1..Len(list) : list'[j] = list[j]
        BY <1>0, <2>1, AppendFacts
      <4>3. Len(list) \in Nat
        BY <1>0
      <4>4. i \in 1..Len(list) /\ list[i] = Command
        BY <2>3, <4>1, <4>2, <4>3
      <4>. QED BY <4>4 DEF Listed
    <3>2. ~Pending(Command)
      BY <2>1 DEF Pending
    <3>3. initial'[Command] = initial[Command]
      BY <1>0, <2>1, <2>3
    <3>4. Waiting(Command, n)' = Waiting(Command, n)
      BY <3>3 DEF Waiting
    <3>. QED BY <1>1, <1>2, <2>1, <3>1, <3>2, <3>4, RouteAlike
  <2>. QED BY <2>2, <2>3
<1>4. CASE SendInitial(t)
  <2>1. PICK r \in initial[t] :
          /\ initial' = [initial EXCEPT ![t] = initial[t] \ {r}]
          /\ queue' = [queue EXCEPT ![t] = Append(queue[t], r)]
    BY <1>4 DEF SendInitial
  <2>2. UNCHANGED list
    BY <1>4 DEF SendInitial
  <2>3. r \in Registers
    BY <1>0
  <2>4. Listed(Command) /\ (Pending(Command)' <=> Pending(Command))
    BY <1>1, <2>2 DEF Listed, Pending
  <2>5. RouteFollows(n)
    BY <1>1, <2>4
  <2>6. CASE t # Command
    <3>1. initial'[Command] = initial[Command] /\ queue'[Command] = queue[Command]
      BY <1>0, <2>1, <2>6
    <3>2. Waiting(Command, n)' = Waiting(Command, n)
      BY <3>1 DEF Waiting
    <3>. QED BY <1>1, <1>2, <2>4, <2>5, <3>1, <3>2, RouteAlike
  <2>7. CASE t = Command
    <3>1. /\ initial'[Command] = initial[Command] \ {r}
          /\ queue'[Command] = Append(queue[Command], r)
          /\ queue[Command] \in Seq(Registers)
      BY <1>0, <2>1, <2>7
    <3>2. /\ ~NoneOf(queue[Command], n) => ~NoneOf(Append(queue[Command], r), n)
          /\ r.name = n => ~NoneOf(Append(queue[Command], r), n)
      BY <2>3, <3>1, SendNewest
    <3>3. Waiting(Command, n) => Waiting(Command, n)' \/ r.name = n
      BY <3>1 DEF Waiting
    <3>. QED BY <1>1, <1>2, <2>4, <2>5, <3>1, <3>2, <3>3, RouteAlike
  <2>. QED BY <2>6, <2>7
<1>5. CASE Unsubscribe(t)
  <2>1. PICK i \in 1..Len(list) : list' = RemoveAt(list, i)
    BY <1>5 DEF Unsubscribe
  <2>2. UNCHANGED <<queue, initial>> /\ ~Pending(Command)
    BY <1>0, <1>5 DEF Unsubscribe, LockFree, Pending
  <2>3. Listed(Command)
    <3>1. PICK j \in 1..Len(list') : list'[j] = Command
      BY DEF Listed
    <3>2. /\ Len(list') = Len(list) - 1
          /\ \A k \in 1..(Len(list) - 1) : list'[k] = IF k < i THEN list[k] ELSE list[k + 1]
      BY <1>0, <2>1, RemoveFacts
    <3>3. j \in 1..Len(list) /\ j + 1 \in 1..Len(list)
      BY <1>0, <3>1, <3>2
    <3>. QED BY <3>1, <3>2, <3>3 DEF Listed
  <2>4. Waiting(Command, n)' = Waiting(Command, n)
    BY <2>2 DEF Waiting
  <2>. QED BY <1>1, <1>2, <2>2, <2>3, <2>4, RouteAlike
<1>6. CASE Leave(t)
  <2>1. UNCHANGED <<list, queue, initial>>
    BY <1>6 DEF Leave
  <2>2. Listed(Command) /\ (Pending(Command)' <=> Pending(Command))
    BY <1>1, <2>1 DEF Listed, Pending
  <2>3. Waiting(Command, n)' = Waiting(Command, n)
    BY <2>1 DEF Waiting
  <2>. QED BY <1>1, <1>2, <2>1, <2>2, <2>3, RouteAlike
<1>. QED BY <1>3, <1>4, <1>5, <1>6

LEMMA MqttTypesInit == Init => MqttTypes
BY DEF Init, MqttTypes, None

LEMMA MqttTypesStep == DbTypeOK /\ MqttTypes /\ [Next]_vars => MqttTypes'
<1>. SUFFICES ASSUME DbTypeOK, MqttTypes, [Next]_vars PROVE MqttTypes'
  OBVIOUS
<1>0. /\ batch \in [Names -> Registers \cup {Nil}] /\ merged \in [Names -> Registers \cup {Nil}]
      /\ discovery \in [{"sensor", "switch"} -> [Names -> Registers \cup {Nil}]]
      /\ routes \in [Names -> SUBSET (Registers \cup {Nil})]
      /\ registers \in [Names -> Registers \cup {Nil}]
      /\ queue \in [Subs -> Seq(Registers)]
  BY DEF DbTypeOK, MqttTypes
<1>1. CASE Database \/ TakeRegister \/ UNCHANGED vars
  BY <1>1 DEF Database, TakeRegister, vars, mqtt, MqttTypes
<1>2. CASE CollectRegister
  <2>1. PICK r \in Registers : r = Head(queue[Structure])
    BY <1>0, <1>2, HeadTailFacts, ForwardersAssumption DEF CollectRegister, Receive
  <2>2. batch' = [batch EXCEPT ![r.name] = r] /\ UNCHANGED <<merged, discovery, routes>>
    BY <1>2, <2>1 DEF CollectRegister
  <2>. QED BY <1>0, <2>2 DEF MqttTypes
<1>3. CASE PublishStructure
  BY <1>0, <1>3 DEF PublishStructure, None, MqttTypes
<1>4. CASE PublishDiscovery
  <2>1. PICK r \in Registers : r = Head(queue[Hass])
    BY <1>0, <1>4, HeadTailFacts, ForwardersAssumption DEF PublishDiscovery, Receive
  <2>2. /\ discovery' = [discovery EXCEPT ![Component(r)][r.name] = r]
        /\ UNCHANGED <<batch, merged, routes>>
    BY <1>4, <2>1 DEF PublishDiscovery
  <2>3. Component(r) \in {"sensor", "switch"}
    BY DEF Component
  <2>. QED BY <1>0, <2>2, <2>3 DEF MqttTypes
<1>5. CASE AddRoute
  <2>1. PICK n : n = held[Command].name
    OBVIOUS
  <2>2. routes' = [routes EXCEPT ![n] = @ \cup {registers[n]}] /\ UNCHANGED <<batch, merged, discovery>>
    BY <1>5, <2>1 DEF AddRoute
  <2>3. routes' \in [Names -> SUBSET (Registers \cup {Nil})]
    <3>1. CASE n \in Names
      <4>1. PICK R \in SUBSET (Registers \cup {Nil}) : R = routes[n] \cup {registers[n]}
        BY <1>0, <3>1
      <4>2. routes' = [routes EXCEPT ![n] = R]
        BY <2>2, <4>1
      <4>. QED BY <1>0, <3>1, <4>2
    <3>2. CASE n \notin Names
      BY <1>0, <2>2, <3>2
    <3>. QED BY <3>1, <3>2
  <2>. QED BY <1>0, <2>2, <2>3 DEF MqttTypes
<1>. QED BY <1>1, <1>2, <1>3, <1>4, <1>5 DEF Next

LEMMA FollowStep ==
  ASSUME DbTypeOK, MqttTypes, FollowInv, [Next]_vars, [DbNext]_dbVars,
         NEW s \in Subs, NEW n \in Names,
         Listed(s)', n \notin overtaken'[s], registers'[n] \in Filter[s]
  PROVE  Follows(s, n)'
<1>0. /\ OneInitial(s)
      /\ Listed(s) /\ n \notin overtaken[s] /\ registers[n] \in Filter[s] => Follows(s, n)
      /\ queue \in [Subs -> Seq(Registers)] /\ next \in Nat
      /\ batch \in [Names -> Registers \cup {Nil}] /\ merged \in [Names -> Registers \cup {Nil}]
      /\ discovery \in [{"sensor", "switch"} -> [Names -> Registers \cup {Nil}]]
      /\ {Structure, Hass, Command} \subseteq Subs
      /\ Structure # Hass /\ Command \notin {Structure, Hass}
  BY ForwardersAssumption DEF FollowInv, MqttTypes, DbTypeOK
<1>1. CASE UNCHANGED <<registers, list, initial, queue, overtaken, next>>
           /\ (Pending(s) => adding' = adding)
           /\ (registers[n] \in Registers /\ Announced(s, n) => Announced(s, n)')
  <2>1. Listed(s) /\ (Pending(s)' <=> Pending(s))
    BY <1>1 DEF Listed, Pending
  <2>2. registers[n] \in Registers
    BY <1>1
  <2>. QED BY <1>0, <1>1, <2>1, <2>2, FollowsAlike
<1>2. ASSUME UNCHANGED mqtt, registers' = registers PROVE Announced(s, n) => Announced(s, n)'
  BY <1>2, AnnouncedAlike
<1>3. ASSUME Database PROVE Follows(s, n)'
  <2>0. UNCHANGED mqtt
    BY <1>3 DEF Database
  <2>1. ASSUME NEW b \in Batches, AddStruct(b) PROVE Follows(s, n)'
    <3>1. ~Pending(s)
      BY <2>1 DEF AddStruct, LockFree, Pending, DbTypeOK
    <3>. QED BY <1>1, <1>2, <2>0, <2>1, <3>1 DEF AddStruct
  <2>2. CASE Adder
    <3>1. Listed(s)
      BY <2>2 DEF Adder, AddSkip, AddSave, AddForward, AddNext, Listed
    <3>. QED BY <1>0, <2>0, <2>2, <3>1, AdderFollows
  <2>3. CASE Cancel(Subs)
    BY <1>1, <1>2, <2>0, <2>3 DEF Cancel, adder
  <2>4. ASSUME NEW t \in Subs, Subscribe(t) \/ SendInitial(t) \/ Unsubscribe(t) \/ Leave(t)
        PROVE Follows(s, n)'
    BY <1>0, <2>0, <2>4, RoutineFollows
  <2>. QED BY <1>3, <2>1, <2>2, <2>3, <2>4 DEF Database
<1>4. ASSUME NEW t \in Subs, Receive(t),
             t # s \/ Head(queue[t]).name # n => (Announced(s, n) => Announced(s, n)'),
             t = s /\ Head(queue[t]) = registers[n] /\ registers[n].name = n => Announced(s, n)'
      PROVE  Follows(s, n)'
  <2>1. UNCHANGED <<registers, list, overtaken>>
    BY <1>4 DEF Receive, adder
  <2>2. Listed(s) /\ registers[n] \in Registers
    BY <2>1 DEF Listed
  <2>3. registers[n].name = n
    <3>1. registers[n] # Nil
      BY <2>2
    <3>. QED BY <3>1 DEF DbTypeOK
  <2>. QED BY <1>0, <1>4, <2>1, <2>2, <2>3, ReceiveFollows
<1>5. CASE CollectRegister
  <2>1. PICK r \in Registers : r = Head(queue[Structure])
    BY <1>0, <1>5, HeadTailFacts DEF CollectRegister, Receive
  <2>2. /\ Receive(Structure) /\ batch' = [batch EXCEPT ![r.name] = r]
        /\ UNCHANGED <<merged, discovery, registers>>
    BY <1>5, <2>1 DEF CollectRegister, Receive, adder
  <2>3. PICK c : c = Component(registers[n])
    OBVIOUS
  <2>4. PICK g : g = registers[n]
    OBVIOUS
  <2>5. Component(g)' = c
    BY <2>3, <2>4, ComponentStays
  <2>6. Component(registers[n])' = c
    BY <2>2, <2>4, <2>5
  <2>7. s # Structure \/ r.name # n => (Announced(s, n) => Announced(s, n)')
    BY <1>0, <2>2, <2>3, <2>6, RegisterName DEF Announced
  <2>8. s = Structure /\ r = registers[n] /\ r.name = n => Announced(s, n)'
    BY <1>0, <2>2 DEF Announced
  <2>. QED BY <1>0, <1>4, <2>1, <2>2, <2>7, <2>8
<1>6. CASE PublishStructure
  <2>1. UNCHANGED <<dbVars, discovery>> /\ batch' = None
        /\ merged' = [m \in Names |-> IF batch[m] # Nil THEN batch[m] ELSE merged[m]]
    BY <1>6 DEF PublishStructure
  <2>2. UNCHANGED <<registers, list, initial, queue, overtaken, next, adding, subPc>>
    BY <2>1 DEF dbVars, adder
  <2>3. Component(registers[n])' = Component(registers[n])
    BY <2>2 DEF Component, CommandFilter
  <2>4. ASSUME registers[n] \in Registers, Announced(s, n) PROVE Announced(s, n)'
    <3>1. registers[n] # Nil
      BY <2>4
    <3>2. batch'[n] = Nil /\ merged'[n] = IF batch[n] # Nil THEN batch[n] ELSE merged[n]
      BY <2>1 DEF None
    <3>. QED BY <2>1, <2>2, <2>3, <2>4, <3>1, <3>2 DEF Announced
  <2>. QED BY <1>1, <2>2, <2>4
<1>7. CASE PublishDiscovery
  <2>1. PICK r \in Registers : r = Head(queue[Hass])
    BY <1>0, <1>7, HeadTailFacts DEF PublishDiscovery, Receive
  <2>2. PICK d : d = Component(r)
    OBVIOUS
  <2>3. /\ Receive(Hass) /\ discovery' = [discovery EXCEPT ![d][r.name] = r]
        /\ UNCHANGED <<merged, batch, registers>>
    BY <1>7, <2>1, <2>2 DEF PublishDiscovery, Receive, adder
  <2>4. PICK g : g = registers[n]
    OBVIOUS
  <2>5. PICK c \in {"sensor", "switch"} : c = Component(g)
    BY DEF Component
  <2>6. Component(g)' = c
    BY <2>5, ComponentStays
  <2>7. Component(registers[n]) = c /\ Component(registers[n])' = c
    BY <2>3, <2>4, <2>5, <2>6
  <2>8. s # Hass \/ r.name # n => (Announced(s, n) => Announced(s, n)')
    <3>1. r.name # n => discovery'[c][n] = discovery[c][n]
      BY <1>0, <2>3
    <3>. QED BY <2>3, <2>7, <3>1 DEF Announced
  <2>9. s = Hass /\ r = registers[n] /\ r.name = n => Announced(s, n)'
    <3>1. r = g /\ r.name = n => d = c /\ discovery'[c][n] = g
      BY <1>0, <2>2, <2>3, <2>5
    <3>. QED BY <1>0, <2>3, <2>4, <2>7, <3>1 DEF Announced
  <2>. QED BY <1>0, <1>4, <2>1, <2>3, <2>8, <2>9
<1>8. CASE TakeRegister
  <2>1. Receive(Command) /\ UNCHANGED mqtt /\ registers' = registers
    BY <1>8 DEF TakeRegister, Receive, adder
  <2>2. s = Command => Announced(s, n)'
    BY <1>0 DEF Announced
  <2>. QED BY <1>0, <1>2, <1>4, <2>1, <2>2
<1>9. CASE AddRoute
  <2>1. UNCHANGED <<registers, list, initial, queue, overtaken, next, adding, subPc,
                    batch, merged, discovery>>
    BY <1>9 DEF AddRoute, Look, adder
  <2>2. Component(registers[n])' = Component(registers[n])
    BY <2>1 DEF Component, CommandFilter
  <2>3. Announced(s, n) => Announced(s, n)'
    BY <2>1, <2>2 DEF Announced
  <2>. QED BY <1>1, <2>1, <2>3
<1>10. CASE UNCHANGED vars
  BY <1>1, <1>2, <1>10 DEF vars, dbVars, adder
<1>. QED BY <1>3, <1>5, <1>6, <1>7, <1>8, <1>9, <1>10 DEF Next

LEMMA RouteStep ==
  ASSUME DbTypeOK, MqttTypes, FollowInv, [Next]_vars, NEW n \in Names,
         Listed(Command)', registers'[n] \in Filter[Command]
  PROVE  RouteFollows(n)'
<1>0. /\ Listed(Command) /\ registers[n] \in Filter[Command] => RouteFollows(n)
      /\ queue \in [Subs -> Seq(Registers)]
      /\ consumer \in [Subs -> {"receive", "lookup", "left"}]
      /\ held \in [Subs -> Registers \cup {Nil}]
      /\ routes \in [Names -> SUBSET (Registers \cup {Nil})]
      /\ {Structure, Hass, Command} \subseteq Subs /\ Command \in Lookers
      /\ Command \notin {Structure, Hass}
  BY ForwardersAssumption DEF FollowInv, MqttTypes, DbTypeOK
<1>1. ASSUME UNCHANGED <<registers, list, initial, next, routes>>,
             queue'[Command] = queue[Command], Pending(Command) => adding' = adding,
             UNCHANGED <<consumer[Command], held[Command]>>
      PROVE  RouteFollows(n)'
  <2>1. Listed(Command) /\ (Pending(Command)' <=> Pending(Command))
        /\ Waiting(Command, n)' = Waiting(Command, n)
    BY <1>1 DEF Listed, Pending, Waiting
  <2>. QED BY <1>0, <1>1, <2>1, RouteAlike
<1>2. ASSUME Database PROVE RouteFollows(n)'
  <2>0. UNCHANGED mqtt /\ UNCHANGED routes
    BY <1>2 DEF Database, mqtt
  <2>1. ASSUME NEW b \in Batches, AddStruct(b) PROVE RouteFollows(n)'
    <3>1. ~Pending(Command)
      BY <2>1 DEF AddStruct, LockFree, Pending, DbTypeOK
    <3>. QED BY <1>1, <2>0, <2>1, <3>1 DEF AddStruct, consumers
  <2>2. CASE Adder
    <3>1. Listed(Command)
      BY <2>2 DEF Adder, AddSkip, AddSave, AddForward, AddNext, Listed
    <3>. QED BY <1>0, <2>0, <2>2, <3>1, AdderRoutes
  <2>3. CASE Cancel(Subs)
    BY <1>1, <2>0, <2>3 DEF Cancel, adder, consumers
  <2>4. ASSUME NEW t \in Subs, Subscribe(t) \/ SendInitial(t) \/ Unsubscribe(t) \/ Leave(t)
        PROVE RouteFollows(n)'
    BY <1>0, <2>0, <2>4, RoutineRoutes
  <2>. QED BY <1>2, <2>1, <2>2, <2>3, <2>4 DEF Database
<1>3. CASE CollectRegister \/ PublishDiscovery
  <2>1. PICK t \in {Structure, Hass} : Receive(t) /\ UNCHANGED routes
    BY <1>3 DEF CollectRegister, PublishDiscovery
  <2>2. /\ UNCHANGED <<registers, list, initial, next, adding>>
        /\ queue' = [queue EXCEPT ![t] = Tail(queue[t])]
        /\ \/ UNCHANGED <<consumer, held>>
           \/ \E r : /\ consumer' = [consumer EXCEPT ![t] = "lookup"]
                     /\ held' = [held EXCEPT ![t] = r]
    BY <2>1 DEF Receive, adder
  <2>3. t # Command /\ t \in Subs
    BY <1>0, <2>1
  <2>4. queue'[Command] = queue[Command] /\ UNCHANGED <<consumer[Command], held[Command]>>
    BY <1>0, <2>2, <2>3
  <2>. QED BY <1>1, <2>1, <2>2, <2>4
<1>4. CASE PublishStructure \/ UNCHANGED vars
  BY <1>1, <1>4 DEF PublishStructure, vars, mqtt, dbVars, adder, consumers
<1>5. CASE TakeRegister
  <2>1. /\ UNCHANGED <<registers, list, initial, next, adding, routes>>
        /\ consumer[Command] = "receive" /\ queue[Command] # <<>>
        /\ queue' = [queue EXCEPT ![Command] = Tail(queue[Command])]
        /\ consumer' = [consumer EXCEPT ![Command] = "lookup"]
        /\ held' = [held EXCEPT ![Command] = Head(queue[Command])]
    BY <1>0, <1>5 DEF TakeRegister, Receive, adder, mqtt
  <2>2. /\ queue'[Command] = Tail(queue[Command]) /\ consumer'[Command] = "lookup"
        /\ held'[Command] = Head(queue[Command]) /\ queue[Command] \in Seq(Registers)
    BY <1>0, <2>1
  <2>3. ~NoneOf(queue[Command], n) =>
          Head(queue[Command]).name = n \/ ~NoneOf(Tail(queue[Command]), n)
    BY <2>1, <2>2, ReceiveNewest
  <2>4. Listed(Command) /\ (Pending(Command)' <=> Pending(Command))
        /\ Waiting(Command, n)' = Waiting(Command, n)
    BY <2>1 DEF Listed, Pending, Waiting
  <2>5. RouteFollows(n) /\ consumer[Command] # "lookup"
    BY <1>0, <2>1, <2>4
  <2>. QED BY <2>1, <2>2, <2>3, <2>4, <2>5 DEF RouteFollows
<1>6. CASE AddRoute
  <2>1. PICK m : m = held[Command].name
    OBVIOUS
  <2>2. /\ UNCHANGED <<registers, list, initial, next, adding, queue>>
        /\ routes' = [routes EXCEPT ![m] = @ \cup {registers[m]}]
    BY <1>6, <2>1 DEF AddRoute, Look, adder
  <2>3. Listed(Command) /\ (Pending(Command)' <=> Pending(Command))
        /\ Waiting(Command, n)' = Waiting(Command, n)
    BY <2>2 DEF Listed, Pending, Waiting
  <2>4. routes'[n] = IF n = m THEN routes[n] \cup {registers[n]} ELSE routes[n]
    BY <1>0, <2>2
  <2>5. RouteFollows(n)
    BY <1>0, <2>2, <2>3
  <2>. QED BY <2>1, <2>2, <2>3, <2>4, <2>5 DEF RouteFollows
<1>. QED BY <1>2, <1>3, <1>4, <1>5, <1>6 DEF Next

\* What each forwarder has announced is the registers as they are, once nothing is
\* on its way to it (structure.go, hassDiscovery.go, command.go): for any
\* registers, filters and capacities, and however its subscription was opened.
THEOREM ForwardersAnnounce == Spec => []ForwardersCurrent
<1>. DEFINE IInv == DbTypeOK /\ MqttTypes /\ FollowInv
<1>1. Init => IInv
  <2>1. Init => DbTypeOK
    BY DbInitType DEF Init
  <2>2. Init => FollowInv
    BY DEF Init, DbInit, FollowInv, OneInitial, Listed
  <2>. QED BY <2>1, <2>2, MqttTypesInit
<1>2. IInv /\ [Next]_vars /\ [DbNext]_dbVars => IInv'
  <2>. SUFFICES ASSUME IInv, [Next]_vars, [DbNext]_dbVars PROVE IInv'
    OBVIOUS
  <2>1. \A s \in Subs : OneInitial(s)'
    BY OneInitialStep DEF FollowInv
  <2>2. \A s \in Subs : Listed(s)' =>
          \A n \in Names \ overtaken'[s] : registers'[n] \in Filter[s] => Follows(s, n)'
    BY FollowStep
  <2>3. Listed(Command)' =>
          \A n \in Names : registers'[n] \in Filter[Command] => RouteFollows(n)'
    BY RouteStep
  <2>. QED BY <2>1, <2>2, <2>3, DbStepType, MqttTypesStep DEF FollowInv
<1>3. IInv => ForwardersCurrent
  <2>. SUFFICES ASSUME IInv PROVE ForwardersCurrent
    OBVIOUS
  <2>1. ASSUME NEW s \in Subs, Quiet(s)
        PROVE  /\ Listed(s) /\ ~Pending(s) /\ \A n : NoneOf(queue[s], n) /\ ~Waiting(s, n)
               /\ \A n, r : ~LastOf(queue[s], n, r)
               /\ initial[s] = {} /\ consumer[s] = "receive"
    BY <2>1 DEF Quiet, LockFree, Pending, DbTypeOK, NoneOf, LastOf, Waiting
  <2>2. ASSUME NEW s \in Subs, Quiet(s), NEW n \in Names \ overtaken[s],
               registers[n] \in Filter[s]
        PROVE  Announced(s, n)
    <3>1. Follows(s, n)
      BY <2>1, <2>2 DEF FollowInv
    <3>. QED BY <2>1, <2>2, <3>1 DEF Follows
  <2>3. StructureMerges
    <3>. SUFFICES ASSUME Quiet(Structure), batch = None, NEW n \in Names \ overtaken[Structure],
                         registers[n] \in Filter[Structure]
                  PROVE  merged[n] = registers[n]
      BY DEF StructureMerges
    <3>1. Announced(Structure, n)
      BY <2>2, ForwardersAssumption
    <3>2. batch[n] = Nil /\ registers[n] # Nil
      BY ForwardersAssumption DEF None
    <3>. QED BY <3>1, <3>2 DEF Announced
  <2>4. DiscoveryCurrent
    BY <2>2, ForwardersAssumption DEF DiscoveryCurrent, Announced
  <2>5. RouteIsCurrent
    <3>. SUFFICES ASSUME Quiet(Command), NEW n \in Names, registers[n] \in Filter[Command]
                  PROVE  registers[n] \in routes[n]
      BY DEF RouteIsCurrent
    <3>1. Command \in Subs
      BY ForwardersAssumption
    <3>2. RouteFollows(n)
      BY <2>1, <3>1 DEF FollowInv
    <3>. QED BY <2>1, <3>1, <3>2 DEF RouteFollows
  <2>. QED BY <2>3, <2>4, <2>5 DEF ForwardersCurrent
<1>4. Spec => [][DbNext]_dbVars
  BY ForwardersAreConsumers, PTL DEF DbSpec
<1>. QED BY <1>1, <1>2, <1>3, <1>4, PTL DEF Spec
=============================================================================
