------------------------- MODULE ValueStorage_proofs -------------------------
(***************************************************************************)
(* Theorems of ValueStorage for all keys, values, subscriptions, filters   *)
(* and channel capacities.                                                 *)
(***************************************************************************)
EXTENDS ValueStorage, SequenceTheorems, FiniteSetTheorems, TLAPS

USE NullAssumption, SubsAssumption, FilterAssumption, CapAssumption

\* A snapshot is a set of values, none of them null.
LEMMA SnapshotType == ASSUME NEW s PROVE Snapshot(s) \subseteq ValueSet
BY DEF Snapshot

\* Removing an element by position gives a sequence again.
LEMMA RemoveAtType ==
  ASSUME NEW S, NEW l \in Seq(S), NEW i \in 1..Len(l)
  PROVE  /\ RemoveAt(l, i) \in Seq(S)
         /\ Len(RemoveAt(l, i)) = Len(l) - 1
         /\ \A j \in 1..(Len(l) - 1) :
              RemoveAt(l, i)[j] = IF j < i THEN l[j] ELSE l[j + 1]
<1>. DEFINE a == SubSeq(l, 1, i - 1)
            b == SubSeq(l, i + 1, Len(l))
<1>1. a \in Seq(S) /\ Len(a) = i - 1 /\ \A j \in 1..(i - 1) : a[j] = l[j]
  OBVIOUS
<1>2. b \in Seq(S) /\ Len(b) = Len(l) - i /\ \A j \in 1..(Len(l) - i) : b[j] = l[i + j]
  OBVIOUS
<1>3. RemoveAt(l, i) = a \o b
  BY DEF RemoveAt
<1>. HIDE DEF a, b
<1>4. a \o b \in Seq(S) /\ Len(a \o b) = Len(l) - 1
  <2>1. a \o b \in Seq(S) /\ Len(a \o b) = Len(a) + Len(b)
    BY <1>1, <1>2, ConcatProperties
  <2>. QED BY <1>1, <1>2, <2>1
<1>5. ASSUME NEW j \in 1..(Len(l) - 1)
      PROVE  (a \o b)[j] = IF j < i THEN l[j] ELSE l[j + 1]
  BY <1>1, <1>2
<1>. QED BY <1>3, <1>4, <1>5

\* Every variable keeps its type.
LEMMA InitType == Init => TypeOK
<1>. SUFFICES ASSUME Init PROVE TypeOK
  OBVIOUS
<1>1. state \in Maps /\ accepted \in Maps
  BY DEF Init, Maps, Empty
<1>2. view \in [Subs -> Maps]
  BY DEF Init, Maps, Empty
<1>3. input \in Seq(ValueSet) /\ Len(input) <= InputCap /\ list \in Seq(Subs)
  BY DEF Init
<1>4. out \in [Subs -> Seq(ValueSet)] /\ \A s \in Subs : Len(out[s]) <= OutCap
  BY DEF Init
<1>5. cancelled \in [Subs -> BOOLEAN] /\ shutdown \in BOOLEAN
  BY Zenon DEF Init
<1>6. fill \in [Producers -> ValueSet \cup {none}] /\ cur \in ValueSet \cup {none}
  BY DEF Init
<1>. QED BY <1>1, <1>2, <1>3, <1>4, <1>5, <1>6 DEF Init, TypeOK

-----------------------------------------------------------------------------
(* The two queue operations, on any channel.                               *)

LEMMA HeadTailType ==
  ASSUME NEW S, NEW q \in Seq(S), q # <<>>
  PROVE  /\ Head(q) \in S /\ Tail(q) \in Seq(S) /\ Len(Tail(q)) = Len(q) - 1
         /\ Head(q) = q[1] /\ \A i \in 1..(Len(q) - 1) : Tail(q)[i] = q[i + 1]
OBVIOUS

LEMMA AppendType ==
  ASSUME NEW S, NEW q \in Seq(S), NEW e \in S
  PROVE  /\ Append(q, e) \in Seq(S) /\ Len(Append(q, e)) = Len(q) + 1
         /\ Append(q, e)[Len(q) + 1] = e
         /\ \A i \in 1..Len(q) : Append(q, e)[i] = q[i]
OBVIOUS

LEMMA StepType == TypeOK /\ [Next]_vars => TypeOK'
<1>. SUFFICES ASSUME TypeOK, [Next]_vars PROVE TypeOK'
  OBVIOUS
<1>. USE DEF storage, subscriptions
<1>0. none \notin ValueSet
  BY DEF none, ValueSet
<1>1. ASSUME NEW p \in Producers, FillAdd(p) PROVE TypeOK'
  BY <1>1 DEF FillAdd, TypeOK
<1>2. ASSUME NEW p \in Producers, FillSend(p) PROVE TypeOK'
  <2>1. fill[p] \in ValueSet
    BY <1>2 DEF FillSend, TypeOK
  <2>2. input' \in Seq(ValueSet) /\ Len(input') <= InputCap
    BY <1>2, <2>1, AppendType DEF FillSend, TypeOK
  <2>3. accepted' \in Maps
    BY <1>2, <2>1 DEF FillSend, TypeOK, Maps, ValueSet
  <2>. QED BY <1>2, <2>2, <2>3 DEF FillSend, TypeOK
<1>3. CASE MainReceive
  <2>1. /\ cur' \in ValueSet /\ input' \in Seq(ValueSet) /\ Len(input') <= InputCap
    BY <1>3, HeadTailType DEF MainReceive, TypeOK
  <2>. QED BY <1>0, <1>3, <2>1 DEF MainReceive, TypeOK
<1>4. CASE MainSkip
  BY <1>4 DEF MainSkip, TypeOK
<1>5. CASE MainUpdate
  <2>1. cur \in ValueSet
    BY <1>5 DEF MainUpdate, TypeOK
  <2>2. state' \in Maps
    BY <1>5, <2>1 DEF MainUpdate, TypeOK, Maps, ValueSet
  <2>. QED BY <1>5, <2>2 DEF MainUpdate, TypeOK
<1>6. CASE MainForward
  <2>. DEFINE s == list[next]
  <2>1. s \in Subs /\ cur \in ValueSet /\ next' \in Nat \ {0}
    BY <1>6 DEF MainForward, TypeOK
  <2>2. \/ out' = out
        \/ Len(out[s]) < OutCap /\ out' = [out EXCEPT ![s] = Append(out[s], cur)]
    BY <1>6 DEF MainForward
  <2>3. CASE out' = out
    BY <1>6, <2>1, <2>3 DEF MainForward, TypeOK
  <2>4. CASE Len(out[s]) < OutCap /\ out' = [out EXCEPT ![s] = Append(out[s], cur)]
    <3>1. /\ Append(out[s], cur) \in Seq(ValueSet)
          /\ Len(Append(out[s], cur)) <= OutCap
      BY <2>1, <2>4, AppendType DEF TypeOK
    <3>. HIDE DEF s
    <3>2. out' \in [Subs -> Seq(ValueSet)] /\ \A t \in Subs : Len(out'[t]) <= OutCap
      BY <2>1, <2>4, <3>1 DEF TypeOK
    <3>. QED BY <1>6, <2>1, <3>2 DEF MainForward, TypeOK
  <2>. QED BY <2>2, <2>3, <2>4
<1>7. CASE MainUnlock
  BY <1>7 DEF MainUnlock, TypeOK
<1>8. CASE MainStop
  BY <1>8 DEF MainStop, TypeOK
<1>9. CASE Shutdown
  BY <1>9 DEF Shutdown, TypeOK
<1>10. ASSUME NEW s \in Subs, Subscribe(s) PROVE TypeOK'
  <2>1. list' \in Seq(Subs)
    BY <1>10, AppendType DEF Subscribe, TypeOK
  <2>2. toSend' \in [Subs -> SUBSET ValueSet]
    <3>1. Snapshot(s) \in SUBSET ValueSet
      BY SnapshotType
    <3>2. toSend' = [toSend EXCEPT ![s] = Snapshot(s)] \/ toSend' = toSend
      BY <1>10 DEF Subscribe
    <3>. QED BY <3>1, <3>2 DEF TypeOK
  <2>3. view' \in [Subs -> Maps]
    <3>. DEFINE m == [k \in Keys |-> IF k \in Filter[s] THEN state[k] ELSE Null]
    <3>1. m \in Maps
      BY DEF TypeOK, Maps
    <3>2. view' = [view EXCEPT ![s] = m] \/ view' = view
      BY <1>10 DEF Subscribe
    <3>. QED BY <3>1, <3>2 DEF TypeOK
  <2>. QED BY <1>10, <2>1, <2>2, <2>3 DEF Subscribe, TypeOK
<1>11. ASSUME NEW s \in Subs, SendInitial(s) PROVE TypeOK'
  <2>1. PICK v \in toSend[s] :
          /\ out' = [out EXCEPT ![s] = Append(out[s], v)]
          /\ toSend' = [toSend EXCEPT ![s] = toSend[s] \ {v}]
    BY <1>11 DEF SendInitial
  <2>2. out' \in [Subs -> Seq(ValueSet)] /\ \A t \in Subs : Len(out'[t]) <= OutCap
    BY <1>11, <2>1, AppendType DEF SendInitial, TypeOK
  <2>. QED BY <1>11, <2>1, <2>2 DEF SendInitial, TypeOK
<1>12. ASSUME NEW s \in Subs, SeeCancel(s) PROVE TypeOK'
  BY <1>12 DEF SeeCancel, TypeOK
<1>13. ASSUME NEW s \in Subs, RemoveElem(s) PROVE TypeOK'
  <2>1. list' \in Seq(Subs)
    BY <1>13, RemoveAtType DEF RemoveElem, TypeOK
  <2>. QED BY <1>13, <2>1 DEF RemoveElem, TypeOK
<1>14. ASSUME NEW s \in Subs, Close(s) PROVE TypeOK'
  BY <1>14 DEF Close, TypeOK
<1>15. ASSUME NEW s \in Subs, Consume(s) PROVE TypeOK'
  <2>1. /\ Head(out[s]) \in ValueSet /\ Tail(out[s]) \in Seq(ValueSet)
        /\ Len(Tail(out[s])) <= OutCap
    BY <1>15, HeadTailType DEF Consume, TypeOK
  <2>2. view' \in [Subs -> Maps]
    BY <1>15, <2>1 DEF Consume, TypeOK, Maps, ValueSet
  <2>. QED BY <1>15, <2>1, <2>2 DEF Consume, TypeOK
<1>16. ASSUME NEW s \in Subs, Cancel(s) PROVE TypeOK'
  BY <1>16 DEF Cancel, TypeOK
<1>17. ASSUME NEW s \in Subs, Leave(s) PROVE TypeOK'
  BY <1>17 DEF Leave, TypeOK
<1>18. CASE UNCHANGED vars
  BY <1>18 DEF vars, TypeOK
<1>. QED BY <1>1, <1>2, <1>3, <1>4, <1>5, <1>6, <1>7, <1>8, <1>9, <1>10, <1>11, <1>12,
            <1>13, <1>14, <1>15, <1>16, <1>17, <1>18 DEF Next, Main

\* Every variable keeps its type: in particular no channel exceeds its capacity.
THEOREM TypeCorrect == Spec => []TypeOK
BY InitType, StepType, PTL DEF Spec

-----------------------------------------------------------------------------
(* The list of subscriptions.                                              *)

Distinct(l) == \A i, j \in 1..Len(l) : l[i] = l[j] => i = j
Has(l, e) == \E i \in 1..Len(l) : l[i] = e

LEMMA AppendDistinct ==
  ASSUME NEW S, NEW l \in Seq(S), NEW e \in S, Distinct(l), ~Has(l, e)
  PROVE  /\ Distinct(Append(l, e))
         /\ \A x : Has(Append(l, e), x) <=> Has(l, x) \/ x = e
<1>. DEFINE m == Append(l, e)
<1>1. /\ m \in Seq(S) /\ Len(m) = Len(l) + 1 /\ m[Len(l) + 1] = e
      /\ \A i \in 1..Len(l) : m[i] = l[i]
  BY AppendType
<1>. HIDE DEF m
<1>2. Len(l) \in Nat
  OBVIOUS
<1>3. Distinct(m)
  BY <1>1, <1>2 DEF Distinct, Has
<1>4. ASSUME NEW x PROVE Has(m, x) <=> Has(l, x) \/ x = e
  BY <1>1, <1>2 DEF Has
<1>. QED BY <1>3, <1>4 DEF m

LEMMA RemoveAtDistinct ==
  ASSUME NEW S, NEW l \in Seq(S), NEW i \in 1..Len(l), Distinct(l)
  PROVE  /\ Distinct(RemoveAt(l, i))
         /\ \A x : Has(RemoveAt(l, i), x) <=> Has(l, x) /\ x # l[i]
<1>. DEFINE m == RemoveAt(l, i)
<1>1. /\ m \in Seq(S) /\ Len(m) = Len(l) - 1
      /\ \A j \in 1..(Len(l) - 1) : m[j] = IF j < i THEN l[j] ELSE l[j + 1]
  BY RemoveAtType
<1>. HIDE DEF m
<1>2. Len(l) \in Nat
  OBVIOUS
<1>3. Distinct(m)
  BY <1>1, <1>2 DEF Distinct
<1>4. ASSUME NEW x, Has(m, x) PROVE Has(l, x) /\ x # l[i]
  <2>1. PICK j \in 1..(Len(l) - 1) : m[j] = x
    BY <1>1, <1>4 DEF Has
  <2>. QED BY <1>1, <1>2, <2>1 DEF Has, Distinct
<1>5. ASSUME NEW x, Has(l, x), x # l[i] PROVE Has(m, x)
  <2>1. PICK j \in 1..Len(l) : l[j] = x
    BY <1>5 DEF Has
  <2>2. CASE j < i
    BY <1>1, <1>2, <2>1, <2>2 DEF Has
  <2>3. CASE j > i
    <3>1. j - 1 \in 1..Len(m) /\ m[j - 1] = x
      BY <1>1, <1>2, <2>1, <2>3
    <3>. QED BY <3>1 DEF Has
  <2>. QED BY <1>2, <1>5, <2>1, <2>2, <2>3
<1>. QED BY <1>3, <1>4, <1>5 DEF m

\* ListedIsOpen, strengthened: the list has no duplicates, only a subscription
\* made with its initial values sends any, and one not yet made has an empty channel.
ListInv ==
  /\ Distinct(list)
  /\ ListedIsOpen
  /\ \A s \in Subs \ WithInitial : toSend[s] = {}
  /\ \A s \in Subs : subPc[s] = "new" => out[s] = <<>>

LEMMA ListedHas == ASSUME NEW s PROVE Listed(s) <=> Has(list, s)
BY DEF Listed, Has

LEMMA ListedHas2 == ASSUME NEW s PROVE Listed(s)' <=> Has(list', s)
BY DEF Listed, Has

\* The subscription the main routine sends to.
LEMMA ForwardTo ==
  ASSUME TypeOK, ListInv, MainForward
  PROVE  /\ list[next] \in Subs /\ cur \in ValueSet
         /\ next \in 1..Len(list) /\ subPc[list[next]] # "new"
<1>1. next \in 1..Len(list) /\ list[next] \in Subs /\ cur \in ValueSet
  BY DEF TypeOK, MainForward
<1>2. Listed(list[next])
  BY <1>1 DEF Listed
<1>. QED BY <1>1, <1>2 DEF ListInv, ListedIsOpen

LEMMA StepList == TypeOK /\ ListInv /\ [Next]_vars => ListInv'
<1>. SUFFICES ASSUME TypeOK, ListInv, [Next]_vars PROVE ListInv'
  OBVIOUS
<1>. USE DEF storage, subscriptions
<1>1. CASE UNCHANGED <<list, subPc, toSend, out>>
  BY <1>1 DEF ListInv, ListedIsOpen, Listed, Distinct
<1>2. CASE MainForward
  <2>. DEFINE s == list[next]
  <2>1. s \in Subs /\ subPc[s] # "new"
    BY <1>2, ForwardTo
  <2>2. /\ out' = out \/ out' = [out EXCEPT ![s] = Append(out[s], cur)]
        /\ UNCHANGED <<list, subPc, toSend>>
    BY <1>2 DEF MainForward
  <2>. HIDE DEF s
  <2>3. \A t \in Subs : t # s => out'[t] = out[t]
    BY <2>1, <2>2 DEF TypeOK
  <2>. QED BY <2>1, <2>2, <2>3 DEF ListInv, ListedIsOpen, Listed, Distinct
<1>3. ASSUME NEW s \in Subs, Subscribe(s) PROVE ListInv'
  <2>1. /\ subPc[s] = "new" /\ subPc' = [subPc EXCEPT ![s] = "sending"]
        /\ out' = out /\ list' = Append(list, s)
        /\ \A t \in Subs \ WithInitial : toSend'[t] = toSend[t]
    BY <1>3 DEF Subscribe, TypeOK
  <2>2. ~Has(list, s)
    BY <2>1, ListedHas DEF ListInv, ListedIsOpen
  <2>3. Distinct(list') /\ \A t \in Subs : Has(list', t) <=> Has(list, t) \/ t = s
    BY <2>1, <2>2, AppendDistinct DEF TypeOK, ListInv
  <2>4. ListedIsOpen'
    BY <2>1, <2>3, ListedHas, ListedHas2 DEF ListInv, ListedIsOpen, TypeOK
  <2>. QED BY <2>1, <2>3, <2>4 DEF ListInv, TypeOK
<1>4. ASSUME NEW s \in Subs, SendInitial(s) PROVE ListInv'
  <2>1. /\ subPc[s] = "sending" /\ toSend[s] # {}
        /\ UNCHANGED <<list, subPc>>
        /\ \A t \in Subs : t # s => toSend'[t] = toSend[t] /\ out'[t] = out[t]
    BY <1>4 DEF SendInitial, TypeOK
  <2>. QED BY <2>1 DEF ListInv, ListedIsOpen, Listed, Distinct
<1>5. ASSUME NEW s \in Subs, SeeCancel(s) PROVE ListInv'
  <2>1. /\ subPc[s] = "sending" /\ subPc' = [subPc EXCEPT ![s] = "cleanup"]
        /\ UNCHANGED <<list, toSend, out>>
    BY <1>5 DEF SeeCancel
  <2>. QED BY <2>1 DEF ListInv, ListedIsOpen, Listed, Distinct, TypeOK
<1>6. ASSUME NEW s \in Subs, RemoveElem(s) PROVE ListInv'
  <2>1. PICK i \in 1..Len(list) : list[i] = s /\ list' = RemoveAt(list, i)
    BY <1>6 DEF RemoveElem
  <2>2. /\ subPc[s] = "cleanup" /\ subPc' = [subPc EXCEPT ![s] = "removed"]
        /\ UNCHANGED <<toSend, out>>
    BY <1>6 DEF RemoveElem
  <2>3. Distinct(list') /\ \A t \in Subs : Has(list', t) <=> Has(list, t) /\ t # s
    BY <2>1, RemoveAtDistinct DEF TypeOK, ListInv
  <2>4. ListedIsOpen'
    BY <2>2, <2>3, ListedHas, ListedHas2 DEF ListInv, ListedIsOpen, TypeOK
  <2>. QED BY <2>2, <2>3, <2>4 DEF ListInv, TypeOK
<1>7. ASSUME NEW s \in Subs, Close(s) PROVE ListInv'
  <2>1. /\ subPc[s] = "removed" /\ subPc' = [subPc EXCEPT ![s] = "closed"]
        /\ UNCHANGED <<list, toSend, out>>
    BY <1>7 DEF Close
  <2>. QED BY <2>1 DEF ListInv, ListedIsOpen, Listed, Distinct, TypeOK
<1>8. ASSUME NEW s \in Subs, Consume(s) PROVE ListInv'
  <2>1. /\ out[s] # <<>> /\ UNCHANGED <<list, subPc, toSend>>
        /\ \A t \in Subs : t # s => out'[t] = out[t]
    BY <1>8 DEF Consume, TypeOK
  <2>. QED BY <2>1 DEF ListInv, ListedIsOpen, Listed, Distinct
<1>9. ASSUME NEW s \in Subs, Cancel(s) \/ Leave(s) PROVE UNCHANGED <<list, subPc, toSend, out>>
  BY <1>9 DEF Cancel, Leave
<1>10. ASSUME NEW p \in Producers, FillAdd(p) \/ FillSend(p)
       PROVE  UNCHANGED <<list, subPc, toSend, out>>
  BY <1>10 DEF FillAdd, FillSend
<1>11. CASE MainReceive \/ MainSkip \/ MainUpdate \/ MainUnlock \/ MainStop \/ Shutdown
  BY <1>1, <1>11 DEF MainReceive, MainSkip, MainUpdate, MainUnlock, MainStop, Shutdown
<1>12. CASE UNCHANGED vars
  BY <1>1, <1>12 DEF vars
<1>. QED BY <1>1, <1>2, <1>3, <1>4, <1>5, <1>6, <1>7, <1>8, <1>9, <1>10, <1>11, <1>12
         DEF Next, Main

\* The main routine never sends on the closed channel of a listed subscription,
\* whatever subscriptions come and go.
THEOREM NeverSendsOnClosed == Spec => []ListedIsOpen
<1>1. Init => ListInv
  BY DEF Init, ListInv, ListedIsOpen, Listed, Distinct
<1>2. ListInv => ListedIsOpen
  BY DEF ListInv
<1>. QED BY <1>1, <1>2, InitType, StepList, TypeCorrect, PTL DEF Spec

-----------------------------------------------------------------------------
(* What the consumer of a subscription knows.                              *)

\* Knows, of one channel q and one view m.
Tells(q, m, k, v) ==
  \/ \E i \in 1..Len(q) : /\ q[i] = [key |-> k, val |-> v]
                          /\ \A j \in (i + 1)..Len(q) : q[j].key # k
  \/ m[k] = v /\ \A i \in 1..Len(q) : q[i].key # k

LEMMA KnowsTells == ASSUME NEW s, NEW k, NEW v
                    PROVE  Knows(s, k, v) <=> Tells(out[s], view[s], k, v)
BY DEF Knows, Tells

LEMMA KnowsTells2 == ASSUME NEW s, NEW k, NEW v
                     PROVE  Knows(s, k, v)' <=> Tells(out'[s], view'[s], k', v')
BY DEF Knows, Tells

\* A value put in the channel is what the consumer will know of its key, and
\* changes nothing of the others.
LEMMA TellsAppend ==
  ASSUME NEW q \in Seq(ValueSet), NEW e \in ValueSet, NEW m, NEW k \in Keys, NEW v,
         k = e.key => v = e.val,
         k # e.key => Tells(q, m, k, v)
  PROVE  Tells(Append(q, e), m, k, v)
<1>. DEFINE r == Append(q, e)
<1>1. /\ Len(q) \in Nat /\ Len(r) = Len(q) + 1 /\ r[Len(q) + 1] = e
      /\ \A i \in 1..Len(q) : r[i] = q[i]
  BY AppendType
<1>. HIDE DEF r
<1>2. CASE k = e.key
  <2>1. e = [key |-> k, val |-> v]
    BY <1>2 DEF ValueSet
  <2>. QED BY <1>1, <2>1 DEF Tells, r
<1>3. CASE k # e.key
  <2>1. CASE \E i \in 1..Len(q) : /\ q[i] = [key |-> k, val |-> v]
                                 /\ \A j \in (i + 1)..Len(q) : q[j].key # k
    <3>1. PICK i \in 1..Len(q) : /\ q[i] = [key |-> k, val |-> v]
                                /\ \A j \in (i + 1)..Len(q) : q[j].key # k
      BY <2>1
    <3>2. i \in 1..Len(r) /\ r[i] = [key |-> k, val |-> v]
      BY <1>1, <3>1
    <3>3. ASSUME NEW j \in (i + 1)..Len(r) PROVE r[j].key # k
      <4>1. CASE j = Len(q) + 1
        BY <1>1, <1>3, <4>1
      <4>2. CASE j \in (i + 1)..Len(q)
        <5>1. j \in 1..Len(q) /\ q[j].key # k
          BY <3>1, <4>2
        <5>. QED BY <1>1, <5>1
      <4>. QED BY <1>1, <4>1, <4>2
    <3>4. Tells(r, m, k, v)
      BY <3>2, <3>3 DEF Tells
    <3>. QED BY <3>4 DEF r
  <2>2. CASE m[k] = v /\ \A i \in 1..Len(q) : q[i].key # k
    <3>1. \A i \in 1..Len(r) : r[i].key # k
      BY <1>1, <1>3, <2>2
    <3>2. Tells(r, m, k, v)
      BY <2>2, <3>1 DEF Tells
    <3>. QED BY <3>2 DEF r
  <2>. QED BY <1>3, <2>1, <2>2 DEF Tells
<1>. QED BY <1>2, <1>3

\* Taking the first value of the channel changes nothing of what will be known.
LEMMA TellsConsume ==
  ASSUME NEW q \in Seq(ValueSet), q # <<>>, NEW m \in Maps, NEW k \in Keys, NEW v,
         Tells(q, m, k, v)
  PROVE  Tells(Tail(q), [m EXCEPT ![Head(q).key] = Head(q).val], k, v)
<1>. DEFINE r == Tail(q)
            h == Head(q)
            n == [m EXCEPT ![h.key] = h.val]
<1>1. /\ Len(q) \in Nat \ {0} /\ Len(r) = Len(q) - 1 /\ h = q[1] /\ h \in ValueSet
      /\ \A i \in 1..(Len(q) - 1) : r[i] = q[i + 1]
  BY HeadTailType
<1>2. /\ h.key \in Keys /\ n[h.key] = h.val
      /\ k # h.key => n[k] = m[k]
  BY <1>1 DEF ValueSet, Maps
<1>. HIDE DEF r, h, n
<1>3. CASE \E i \in 1..Len(q) : /\ q[i] = [key |-> k, val |-> v]
                               /\ \A j \in (i + 1)..Len(q) : q[j].key # k
  <2>1. PICK i \in 1..Len(q) : /\ q[i] = [key |-> k, val |-> v]
                              /\ \A j \in (i + 1)..Len(q) : q[j].key # k
    BY <1>3
  <2>2. CASE i = 1
    <3>1. n[k] = v
      BY <1>1, <1>2, <2>1, <2>2
    <3>2. \A j \in 1..Len(r) : r[j].key # k
      BY <1>1, <2>1, <2>2
    <3>3. Tells(r, n, k, v)
      BY <3>1, <3>2 DEF Tells
    <3>. QED BY <3>3 DEF r, n, h
  <2>3. CASE i # 1
    <3>1. i - 1 \in 1..Len(r) /\ r[i - 1] = [key |-> k, val |-> v]
      BY <1>1, <2>1, <2>3
    <3>2. \A j \in ((i - 1) + 1)..Len(r) : r[j].key # k
      BY <1>1, <2>1, <2>3
    <3>3. Tells(r, n, k, v)
      BY <3>1, <3>2 DEF Tells
    <3>. QED BY <3>3 DEF r, n, h
  <2>. QED BY <2>2, <2>3
<1>4. CASE m[k] = v /\ \A i \in 1..Len(q) : q[i].key # k
  <2>1. n[k] = v
    BY <1>1, <1>2, <1>4
  <2>2. \A j \in 1..Len(r) : r[j].key # k
    BY <1>1, <1>4
  <2>3. Tells(r, n, k, v)
    BY <2>1, <2>2 DEF Tells
  <2>. QED BY <2>3 DEF r, n, h
<1>. QED BY <1>3, <1>4 DEF Tells

\* SnapshotThenChanges, strengthened: what is being forwarded is the state of its key.
SnapshotInv ==
  /\ SnapshotThenChanges
  /\ mainPc = "forward" => state[cur.key] = cur.val

LEMMA KeysOf == ASSUME NEW s \in Subs PROVE Filter[s] \subseteq Keys
OBVIOUS

\* Steps that leave the map, the forwarding and the channel of s alone.
LEMMA SameUpToDate ==
  ASSUME NEW s, UNCHANGED <<state, mainPc, cur, next, list, out, view>>, UpToDate(s)
  PROVE  UpToDate(s)'
BY DEF UpToDate, Pending, Knows

LEMMA StepSnapshot ==
  TypeOK /\ ListInv /\ SnapshotInv /\ [Next]_vars => SnapshotInv'
<1>. SUFFICES ASSUME TypeOK, ListInv, SnapshotInv, [Next]_vars PROVE SnapshotInv'
  OBVIOUS
<1>. USE DEF storage, subscriptions
<1>1. CASE UNCHANGED <<state, mainPc, cur, next, list, out, view>>
  BY <1>1, SameUpToDate DEF SnapshotInv, SnapshotThenChanges, Listed
<1>2. CASE \/ mainPc # "forward" /\ mainPc' # "forward"
           \/ MainUnlock
      /\ UNCHANGED <<state, list, out, view>>
  <2>1. ASSUME NEW s \in Subs \ WithInitial, Listed(s)' PROVE UpToDate(s)'
    <3>1. UpToDate(s) /\ ~Pending(s)
      BY <1>2, <2>1 DEF SnapshotInv, SnapshotThenChanges, Listed, Pending, MainUnlock, TypeOK
    <3>. QED BY <1>2, <3>1 DEF UpToDate, Knows
  <2>2. mainPc' # "forward"
    BY <1>2 DEF MainUnlock
  <2>. QED BY <2>1, <2>2 DEF SnapshotInv, SnapshotThenChanges
<1>3. CASE MainUpdate
  <2>1. cur \in ValueSet /\ mainPc = "lock"
    BY <1>3 DEF MainUpdate, TypeOK
  <2>2. /\ state' = [state EXCEPT ![cur.key] = cur.val]
        /\ mainPc' = "forward" /\ next' = 1
        /\ UNCHANGED <<cur, list, out, view>>
    BY <1>3 DEF MainUpdate
  <2>3. ASSUME NEW s \in Subs \ WithInitial, Listed(s)' PROVE UpToDate(s)'
    <3>1. UpToDate(s) /\ ~Pending(s)
      BY <2>1, <2>2, <2>3 DEF SnapshotInv, SnapshotThenChanges, Listed, Pending
    <3>2. Pending(s)'
      BY <2>2, <2>3 DEF Pending, Listed
    <3>3. ASSUME NEW k \in Filter[s], cur.key # k PROVE Knows(s, k, state[k])'
      <4>1. state'[k] = state[k]
        BY <2>1, <2>2, <3>3, KeysOf DEF TypeOK, Maps, ValueSet
      <4>. QED BY <2>2, <3>1, <4>1 DEF UpToDate, Knows
    <3>. QED BY <2>2, <3>2, <3>3 DEF UpToDate
  <2>4. state'[cur'.key] = cur'.val
    BY <2>1, <2>2 DEF TypeOK, Maps, ValueSet
  <2>. QED BY <2>3, <2>4 DEF SnapshotInv, SnapshotThenChanges
<1>4. CASE MainForward
  <2>. DEFINE t == list[next]
  <2>1. t \in Subs /\ cur \in ValueSet /\ next \in 1..Len(list)
    BY <1>4, ForwardTo
  <2>2. /\ mainPc = "forward" /\ next' = next + 1
        /\ \/ cur.key \notin Filter[t] /\ out' = out
           \/ cur.key \in Filter[t] /\ out' = [out EXCEPT ![t] = Append(out[t], cur)]
        /\ UNCHANGED <<state, mainPc, cur, list, view>>
    BY <1>4 DEF MainForward
  <2>3. state[cur.key] = cur.val
    BY <2>2 DEF SnapshotInv
  <2>4. ASSUME NEW s \in Subs \ WithInitial, Listed(s)' PROVE UpToDate(s)'
    <3>1. UpToDate(s)
      BY <2>2, <2>4 DEF SnapshotInv, SnapshotThenChanges, Listed
    <3>2. CASE s # t
      <4>1. Pending(s)' <=> Pending(s)
        BY <2>1, <2>2, <3>2 DEF Pending, TypeOK
      <4>2. out'[s] = out[s]
        BY <2>1, <2>2, <3>2 DEF TypeOK
      <4>. QED BY <2>2, <3>1, <4>1, <4>2 DEF UpToDate, Knows
    <3>3. CASE s = t
      <4>1. ASSUME NEW k \in Filter[s], k # cur.key PROVE Tells(out[s], view[s], k, state[k])
        BY <3>1, <4>1, KnowsTells DEF UpToDate
      <4>2. ASSUME NEW k \in Filter[s] PROVE Tells(out'[s], view[s], k, state[k])
        <5>1. k \in Keys /\ out[s] \in Seq(ValueSet)
          BY KeysOf DEF TypeOK
        <5>2. CASE cur.key \notin Filter[t]
          BY <2>2, <3>3, <4>1, <5>2
        <5>3. CASE cur.key \in Filter[t]
          <6>1. out'[s] = Append(out[s], cur)
            BY <2>1, <2>2, <3>3, <5>3 DEF TypeOK
          <6>2. Tells(Append(out[s], cur), view[s], k, state[k])
            BY <2>1, <2>3, <4>1, <5>1, TellsAppend
          <6>. QED BY <6>1, <6>2
        <5>. QED BY <5>2, <5>3
      <4>3. ASSUME NEW k \in Filter[s] PROVE Knows(s, k, state[k])'
        BY <2>2, <4>2, KnowsTells2
      <4>. QED BY <4>3, <2>2 DEF UpToDate
    <3>. QED BY <3>2, <3>3
  <2>. QED BY <2>2, <2>3, <2>4 DEF SnapshotInv, SnapshotThenChanges
<1>5. ASSUME NEW t \in Subs, Subscribe(t) PROVE SnapshotInv'
  <2>1. /\ mainPc # "forward" /\ list' = Append(list, t) /\ subPc[t] = "new"
        /\ UNCHANGED <<state, mainPc, cur, next, out>>
        /\ \A s \in Subs : s # t => view'[s] = view[s]
        /\ t \notin WithInitial =>
             view'[t] = [k \in Keys |-> IF k \in Filter[t] THEN state[k] ELSE Null]
    BY <1>5 DEF Subscribe, MutexFree, TypeOK
  <2>2. ASSUME NEW s \in Subs \ WithInitial, Listed(s)' PROVE UpToDate(s)'
    <3>1. CASE s = t
      <4>1. out'[t] = <<>>
        BY <2>1 DEF ListInv
      <4>2. ASSUME NEW k \in Filter[t] PROVE view'[t][k] = state'[k]
        BY <2>1, <2>2, <3>1, KeysOf
      <4>. QED BY <3>1, <4>1, <4>2 DEF UpToDate, Knows
    <3>2. CASE s # t
      <4>1. Listed(s)
        <5>1. Has(list', s)
          BY <2>2, ListedHas2
        <5>2. list \in Seq(Subs) /\ Distinct(list) /\ ~Has(list, t)
          BY <2>1, ListedHas DEF TypeOK, ListInv, ListedIsOpen
        <5>3. Has(list, s)
          BY <2>1, <3>2, <5>1, <5>2, AppendDistinct
        <5>. QED BY <5>3, ListedHas
      <4>2. UpToDate(s) /\ ~Pending(s)
        BY <2>1, <4>1 DEF SnapshotInv, SnapshotThenChanges, Pending
      <4>. QED BY <2>1, <3>2, <4>2 DEF UpToDate, Knows
    <3>. QED BY <3>1, <3>2
  <2>. QED BY <2>1, <2>2 DEF SnapshotInv, SnapshotThenChanges
<1>6. ASSUME NEW t \in Subs, SendInitial(t) PROVE SnapshotInv'
  <2>1. /\ t \in WithInitial
        /\ \A s \in Subs : s # t => out'[s] = out[s]
        /\ UNCHANGED <<state, mainPc, cur, next, list, view>>
    BY <1>6 DEF SendInitial, ListInv, TypeOK
  <2>2. ASSUME NEW s \in Subs \ WithInitial, Listed(s)' PROVE UpToDate(s)'
    <3>1. UpToDate(s) /\ out'[s] = out[s]
      BY <2>1, <2>2 DEF SnapshotInv, SnapshotThenChanges, Listed
    <3>. QED BY <2>1, <3>1 DEF UpToDate, Pending, Knows
  <2>. QED BY <2>1, <2>2 DEF SnapshotInv, SnapshotThenChanges
<1>7. ASSUME NEW t \in Subs, RemoveElem(t) PROVE SnapshotInv'
  <2>1. PICK i \in 1..Len(list) : list[i] = t /\ list' = RemoveAt(list, i)
    BY <1>7 DEF RemoveElem
  <2>2. mainPc # "forward" /\ UNCHANGED <<state, mainPc, cur, next, out, view>>
    BY <1>7 DEF RemoveElem, MutexFree
  <2>3. ASSUME NEW s \in Subs \ WithInitial, Listed(s)' PROVE UpToDate(s)'
    <3>1. Has(list', s)
      BY <2>3, ListedHas2
    <3>2. Listed(s)
      BY <2>1, <3>1, RemoveAtDistinct, ListedHas DEF TypeOK, ListInv
    <3>3. UpToDate(s) /\ ~Pending(s)
      BY <2>2, <3>2 DEF SnapshotInv, SnapshotThenChanges, Pending
    <3>. QED BY <2>2, <3>3 DEF UpToDate, Knows
  <2>. QED BY <2>2, <2>3 DEF SnapshotInv, SnapshotThenChanges
<1>8. ASSUME NEW t \in Subs, Consume(t) PROVE SnapshotInv'
  <2>1. /\ out[t] # <<>> /\ out' = [out EXCEPT ![t] = Tail(out[t])]
        /\ view' = [view EXCEPT ![t][Head(out[t]).key] = Head(out[t]).val]
        /\ UNCHANGED <<state, mainPc, cur, next, list>>
    BY <1>8 DEF Consume
  <2>2. ASSUME NEW s \in Subs \ WithInitial, Listed(s)' PROVE UpToDate(s)'
    <3>1. UpToDate(s) /\ (Pending(s)' <=> Pending(s))
      BY <2>1, <2>2 DEF SnapshotInv, SnapshotThenChanges, Listed, Pending
    <3>2. CASE s # t
      <4>1. out'[s] = out[s] /\ view'[s] = view[s]
        BY <2>1, <3>2 DEF TypeOK
      <4>2. ASSUME NEW k \in Filter[s], ~(Pending(s)' /\ cur'.key = k)
            PROVE  Knows(s, k, state[k])'
        <5>1. Tells(out[s], view[s], k, state[k])
          BY <2>1, <3>1, <4>2, KnowsTells DEF UpToDate
        <5>. QED BY <2>1, <4>1, <5>1, KnowsTells2
      <4>. QED BY <4>2 DEF UpToDate
    <3>3. CASE s = t
      <4>1. /\ out'[s] = Tail(out[s])
            /\ view'[s] = [view[s] EXCEPT ![Head(out[s]).key] = Head(out[s]).val]
            /\ out[s] \in Seq(ValueSet) /\ view[s] \in Maps
        BY <2>1, <3>3 DEF TypeOK
      <4>2. ASSUME NEW k \in Filter[s], ~(Pending(s)' /\ cur'.key = k)
            PROVE  Knows(s, k, state[k])'
        <5>1. Tells(out[s], view[s], k, state[k]) /\ k \in Keys
          BY <2>1, <3>1, <4>2, KnowsTells, KeysOf DEF UpToDate
        <5>2. out[s] # <<>>
          BY <2>1, <3>3
        <5>3. Tells(Tail(out[s]), [view[s] EXCEPT ![Head(out[s]).key] = Head(out[s]).val],
                    k, state[k])
          BY <4>1, <5>1, <5>2, TellsConsume
        <5>4. Tells(out'[s], view'[s], k, state[k])
          BY <4>1, <5>3
        <5>. QED BY <2>1, <5>4, KnowsTells2
      <4>. QED BY <4>2 DEF UpToDate
    <3>. QED BY <3>2, <3>3
  <2>. QED BY <2>1, <2>2 DEF SnapshotInv, SnapshotThenChanges
<1>9. ASSUME NEW s \in Subs, Cancel(s) \/ Leave(s) \/ SeeCancel(s) \/ Close(s) PROVE SnapshotInv'
  BY <1>1, <1>9 DEF Cancel, Leave, SeeCancel, Close
<1>10. ASSUME NEW p \in Producers, FillAdd(p) \/ FillSend(p) PROVE SnapshotInv'
  BY <1>1, <1>10 DEF FillAdd, FillSend
<1>11. CASE Shutdown
  BY <1>1, <1>11 DEF Shutdown
<1>12. CASE MainReceive \/ MainSkip \/ MainUnlock \/ MainStop
  BY <1>2, <1>12 DEF MainReceive, MainSkip, MainUnlock, MainStop
<1>13. CASE UNCHANGED vars
  BY <1>1, <1>13 DEF vars
<1>. QED BY <1>3, <1>4, <1>5, <1>6, <1>7, <1>8, <1>9, <1>10, <1>11, <1>12, <1>13
         DEF Next, Main

\* A SubscribeReturnInitial consumer misses, repeats and reorders nothing: its
\* snapshot and channel always lead it to the state of the storage.
THEOREM SnapshotsHold == Spec => []SnapshotThenChanges
<1>1. Init => SnapshotInv
  BY DEF Init, SnapshotInv, SnapshotThenChanges, Listed
<1>2. Init => ListInv
  BY DEF Init, ListInv, ListedIsOpen, Listed, Distinct
<1>3. SnapshotInv => SnapshotThenChanges
  BY DEF SnapshotInv
<1>. QED BY <1>1, <1>2, <1>3, StepSnapshot, StepList, TypeCorrect, PTL DEF Spec

-----------------------------------------------------------------------------
(* The wait group.                                                         *)

\* Producers in the midst of Fill.
Filling == {p \in Producers : fill[p] # none}

\* What is counted is being filled, in the channel, or in the main routine's hands.
Counted ==
  /\ IsFiniteSet(Filling)
  /\ wg = Cardinality(Filling) + Len(input) + (IF cur = none THEN 0 ELSE 1)

LEMMA CountInit == Init => Counted
<1>. SUFFICES ASSUME Init PROVE Counted
  OBVIOUS
<1>1. Filling = {}
  BY DEF Init, Filling
<1>2. IsFiniteSet(Filling) /\ Cardinality(Filling) = 0
  BY <1>1, FS_EmptySet, Zenon
<1>. QED BY <1>2 DEF Init, Counted

LEMMA CountStep == TypeOK /\ Counted /\ [Next]_vars => Counted'
<1>. SUFFICES ASSUME TypeOK, Counted, [Next]_vars PROVE Counted'
  OBVIOUS
<1>. USE DEF storage, subscriptions
<1>0. /\ IsFiniteSet(Filling) /\ Cardinality(Filling) \in Nat /\ none \notin ValueSet
      /\ Len(input) \in Nat /\ wg \in Int
  <2>1. IsFiniteSet(Filling)
    BY DEF Counted
  <2>2. Cardinality(Filling) \in Nat
    BY <2>1, FS_CardinalityType, Zenon
  <2>. QED BY <2>1, <2>2 DEF TypeOK, none, ValueSet
<1>1. ASSUME NEW p \in Producers, FillAdd(p) PROVE Counted'
  <2>1. p \notin Filling /\ Filling' = Filling \cup {p}
    BY <1>0, <1>1 DEF FillAdd, Filling, TypeOK
  <2>2. IsFiniteSet(Filling') /\ Cardinality(Filling') = Cardinality(Filling) + 1
    BY <1>0, <2>1, FS_AddElement, Zenon
  <2>3. wg' = wg + 1 /\ UNCHANGED <<input, cur>>
    BY <1>1 DEF FillAdd
  <2>. QED BY <1>0, <2>2, <2>3 DEF Counted
<1>2. ASSUME NEW p \in Producers, FillSend(p) PROVE Counted'
  <2>1. p \in Filling /\ Filling' = Filling \ {p}
    BY <1>2 DEF FillSend, Filling, TypeOK
  <2>2. IsFiniteSet(Filling') /\ Cardinality(Filling') = Cardinality(Filling) - 1
    BY <1>0, <2>1, FS_RemoveElement, Zenon
  <2>3. UNCHANGED <<wg, cur>> /\ Len(input') = Len(input) + 1
    BY <1>2, AppendType DEF FillSend, TypeOK
  <2>. QED BY <1>0, <2>2, <2>3 DEF Counted
<1>3. CASE MainReceive
  <2>1. cur = none /\ cur' \in ValueSet /\ Len(input') = Len(input) - 1 /\ UNCHANGED <<wg, fill>>
    BY <1>3, HeadTailType DEF MainReceive, TypeOK
  <2>. QED BY <1>0, <2>1 DEF Counted, Filling
<1>4. CASE MainSkip \/ MainUnlock
  <2>1. cur # none /\ cur' = none /\ wg' = wg - 1 /\ UNCHANGED <<input, fill>>
    BY <1>4 DEF MainSkip, MainUnlock, TypeOK
  <2>. QED BY <1>0, <2>1 DEF Counted, Filling
<1>5. CASE UNCHANGED <<wg, input, fill, cur>>
  BY <1>5 DEF Counted, Filling
<1>6. ASSUME NEW s \in Subs,
             \/ Subscribe(s) \/ SendInitial(s) \/ SeeCancel(s) \/ RemoveElem(s)
             \/ Close(s) \/ Consume(s) \/ Cancel(s) \/ Leave(s)
      PROVE  UNCHANGED <<wg, input, fill, cur>>
  BY <1>6 DEF Subscribe, SendInitial, SeeCancel, RemoveElem, Close, Consume, Cancel, Leave
<1>7. CASE MainUpdate \/ MainForward \/ MainStop \/ Shutdown \/ UNCHANGED vars
  BY <1>5, <1>7 DEF MainUpdate, MainForward, MainStop, Shutdown, vars
<1>. QED BY <1>1, <1>2, <1>3, <1>4, <1>5, <1>6, <1>7 DEF Next, Main

\* The map once the value that waits for the lock is in it.
Settled == IF mainPc = "lock" THEN [state EXCEPT ![cur.key] = cur.val] ELSE state

\* The values in the channel lead the map to what has been accepted.
Accepting == \A k \in Keys : Tells(input, Settled, k, accepted[k])

LEMMA AcceptStep == TypeOK /\ Accepting /\ [Next]_vars => Accepting'
<1>. SUFFICES ASSUME TypeOK, Accepting, [Next]_vars PROVE Accepting'
  OBVIOUS
<1>. USE DEF storage, subscriptions
<1>0. input \in Seq(ValueSet) /\ state \in Maps /\ accepted \in Maps
  BY DEF TypeOK
<1>1. ASSUME NEW p \in Producers, FillSend(p) PROVE Accepting'
  <2>1. PICK e \in ValueSet : e = fill[p]
    BY <1>1 DEF FillSend, TypeOK
  <2>2. /\ input' = Append(input, e) /\ accepted' = [accepted EXCEPT ![e.key] = e.val]
        /\ Settled' = Settled
    BY <1>1, <2>1 DEF FillSend, Settled
  <2>3. ASSUME NEW k \in Keys PROVE Tells(input', Settled', k, accepted'[k])
    <3>1. /\ k = e.key => accepted'[k] = e.val
          /\ k # e.key => accepted'[k] = accepted[k]
      BY <1>0, <2>1, <2>2 DEF Maps, ValueSet
    <3>2. Tells(input, Settled, k, accepted[k])
      BY DEF Accepting
    <3>3. Tells(Append(input, e), Settled, k, accepted'[k])
      <4>1. k # e.key => Tells(input, Settled, k, accepted'[k])
        BY <3>1, <3>2
      <4>. QED BY <1>0, <3>1, <4>1, TellsAppend
    <3>. QED BY <2>2, <3>3
  <2>. QED BY <2>3 DEF Accepting, Tells
<1>2. CASE MainReceive
  <2>1. /\ input # <<>> /\ input' = Tail(input) /\ accepted' = accepted
        /\ Settled = state /\ Settled' = [state EXCEPT ![Head(input).key] = Head(input).val]
    BY <1>2 DEF MainReceive, Settled
  <2>2. ASSUME NEW k \in Keys PROVE Tells(input', Settled', k, accepted'[k])
    <3>1. Tells(input, state, k, accepted[k])
      BY <2>1 DEF Accepting
    <3>2. Tells(Tail(input), [state EXCEPT ![Head(input).key] = Head(input).val], k, accepted[k])
      BY <1>0, <2>1, <3>1, TellsConsume
    <3>. QED BY <2>1, <3>2
  <2>. QED BY <2>2 DEF Accepting, Tells
<1>3. CASE MainSkip
  <2>1. state[cur.key] = cur.val /\ mainPc = "lock" /\ mainPc' = "recv"
    BY <1>3 DEF MainSkip, Unchanged
  <2>2. UNCHANGED <<input, state, accepted>>
    BY <1>3 DEF MainSkip
  <2>3. [state EXCEPT ![cur.key] = cur.val] = state
    BY <1>0, <2>1 DEF Maps
  <2>4. Settled' = Settled
    BY <2>1, <2>2, <2>3 DEF Settled
  <2>. QED BY <2>2, <2>4 DEF Accepting, Tells
<1>4. CASE MainUpdate
  <2>1. Settled' = Settled /\ UNCHANGED <<input, accepted>>
    BY <1>4 DEF MainUpdate, Settled
  <2>. QED BY <2>1 DEF Accepting, Tells
<1>5. CASE UNCHANGED <<input, accepted, state, cur>>
           /\ (mainPc' = mainPc \/ "lock" \notin {mainPc, mainPc'})
  <2>1. Settled' = Settled
    BY <1>5 DEF Settled
  <2>. QED BY <1>5, <2>1 DEF Accepting, Tells
<1>6. ASSUME NEW s \in Subs,
             \/ Subscribe(s) \/ SendInitial(s) \/ SeeCancel(s) \/ RemoveElem(s)
             \/ Close(s) \/ Consume(s) \/ Cancel(s) \/ Leave(s)
      PROVE  UNCHANGED <<input, accepted, state, cur, mainPc>>
  BY <1>6 DEF Subscribe, SendInitial, SeeCancel, RemoveElem, Close, Consume, Cancel, Leave
<1>7. ASSUME NEW p \in Producers, FillAdd(p) PROVE Accepting'
  BY <1>5, <1>7 DEF FillAdd
<1>8. CASE MainForward \/ MainStop \/ Shutdown \/ UNCHANGED vars
  BY <1>5, <1>8 DEF MainForward, MainStop, Shutdown, vars
<1>9. CASE MainUnlock
  <2>1. "lock" \notin {mainPc, mainPc'} /\ UNCHANGED <<input, accepted, state>>
    BY <1>9 DEF MainUnlock
  <2>2. Settled' = Settled
    BY <2>1 DEF Settled
  <2>. QED BY <2>1, <2>2 DEF Accepting, Tells
<1>. QED BY <1>1, <1>2, <1>3, <1>4, <1>5, <1>6, <1>7, <1>8, <1>9 DEF Next, Main

LEMMA CountedAccepted == TypeOK /\ Counted /\ Accepting => WaitMeansDone
<1>. SUFFICES ASSUME TypeOK, Counted, Accepting PROVE WaitMeansDone
  OBVIOUS
<1>1. Cardinality(Filling) \in Nat /\ Len(input) \in Nat
  <2>1. IsFiniteSet(Filling)
    BY DEF Counted
  <2>2. Cardinality(Filling) \in Nat
    BY <2>1, FS_CardinalityType, Zenon
  <2>. QED BY <2>2 DEF TypeOK
<1>2. ASSUME wg = 0
      PROVE  /\ state = accepted /\ input = <<>> /\ MutexFree
             /\ \A p \in Producers : fill[p] = none
  <2>1. Cardinality(Filling) = 0 /\ Len(input) = 0 /\ cur = none
    BY <1>1, <1>2 DEF Counted
  <2>2. input = <<>> /\ mainPc \in {"recv", "stopped"}
    BY <2>1 DEF TypeOK
  <2>3. Filling = {}
    <3>1. IsFiniteSet(Filling)
      BY DEF Counted
    <3>. QED BY <2>1, <3>1, FS_EmptySet, Zenon
  <2>4. \A k \in Keys : state[k] = accepted[k]
    BY <2>2 DEF Accepting, Settled, Tells
  <2>5. state = accepted
    BY <2>4 DEF TypeOK, Maps
  <2>. QED BY <2>2, <2>3, <2>5 DEF MutexFree, Filling
<1>. QED BY <1>1, <1>2 DEF Counted, WaitMeansDone

\* Wait returns only when all that was filled is in the map and forwarded, and the
\* wait group is never counted below zero, for any number of producers.
THEOREM WaitsForAll == Spec => []WaitMeansDone
<1>1. Init => Accepting
  BY DEF Init, Accepting, Settled, Tells, Empty
<1>. QED BY <1>1, CountInit, CountStep, AcceptStep, CountedAccepted, TypeCorrect, PTL DEF Spec
=============================================================================
