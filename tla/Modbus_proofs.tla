---------------------------- MODULE Modbus_proofs ----------------------------
(***************************************************************************)
(* Theorems of Modbus for all registers, numbers of retries and faults.     *)
(***************************************************************************)
EXTENDS Modbus, FiniteSetTheorems, WellFoundedInduction, TLAPS

USE NoneAssumption

\* What u has asked for and has yet to be answered, while the slaves are prompt.
Asked(u) == [by |-> u, req |-> RequestOf(u), late |-> FALSE]

\* Nobody uses the line.
Free ==
  /\ holder = None /\ owed = <<>> /\ buffer = <<>>
  /\ phase["me"] = "idle" /\ phase["other"] = "idle"

\* u uses it alone, and the only answer on its way or received is the one to u.
Uses(u) ==
  /\ holder = u /\ \A w \in Users : phase[w] = IF w = u THEN "wait" ELSE "idle"
  /\ \/ owed = <<Asked(u)>> /\ buffer = <<>>
     \/ \E f : owed = <<>> /\ buffer = <<f>> /\ Accepted(f, RequestOf(u))

\* Between two stages of its run the device waits for no answer.
Paused ==
  stage \in {"off", "idle"} => todo = <<>> /\ phase["me"] = "idle"

PromptInv ==
  /\ faults \in Nat /\ phase \in [Users -> {"idle", "wait"}]
  /\ Paused
  /\ faults = 0 => rpc # "backoff" /\ (Free \/ \E u \in Users : Uses(u))

LEMMA PromptInit == Init => PromptInv
<1>. SUFFICES ASSUME Init PROVE PromptInv
  OBVIOUS
<1>1. faults = 0 /\ phase \in [Users -> {"idle", "wait"}] /\ rpc # "backoff"
  BY DEF Init, RestarterInit
<1>2. Free /\ Paused
  BY DEF Init, Free, Paused, Users
<1>. QED BY <1>1, <1>2 DEF PromptInv

\* When u returns there is nothing more to come.
LEMMA ReturnFrees ==
  ASSUME PromptInv, faults = 0, NEW u \in Users, Takes(u)
  PROVE  Accepted(Head(buffer), RequestOf(u)) /\ Free'
<1>1. PICK w \in Users : Uses(w)
  BY DEF PromptInv, Takes, Free
<1>2. w = u
  BY <1>1 DEF Takes, Uses
<1>3. PICK f : owed = <<>> /\ buffer = <<f>> /\ Accepted(f, RequestOf(u))
  BY <1>1, <1>2 DEF Takes, Uses
<1>4. owed' = <<>>
  <2>1. owed' = [i \in 1..Len(owed) |->
                  IF owed[i].by = u THEN [owed[i] EXCEPT !.late = TRUE] ELSE owed[i]]
    BY DEF Takes, Return
  <2>2. Len(owed) = 0
    BY <1>3
  <2>. QED BY <2>1, <2>2
<1>5. buffer' = <<>> /\ holder' = None
  BY <1>3 DEF Takes, Return
<1>6. phase'["me"] = "idle" /\ phase'["other"] = "idle"
  BY <1>1, <1>2 DEF Takes, Return, Uses, Users, PromptInv
<1>. QED BY <1>3, <1>4, <1>5, <1>6 DEF Free

\* A slave that has not answered when the request times out is not prompt.
LEMMA TimeoutCounts ==
  ASSUME PromptInv, faults = 0, NEW u \in Users, TimesOut(u)
  PROVE  faults' # 0
<1>1. PICK w \in Users : Uses(w)
  BY DEF PromptInv, TimesOut, Free, Users
<1>2. w = u /\ buffer = <<>>
  BY <1>1 DEF TimesOut, Uses
<1>3. owed = <<Asked(u)>>
  BY <1>1, <1>2 DEF Uses
<1>4. 1 \in 1..Len(owed) /\ owed[1].by = u /\ ~ owed[1].late
  BY <1>3 DEF Asked
<1>. QED BY <1>4 DEF TimesOut, PromptInv

LEMMA PhaseType ==
  ASSUME PromptInv, NEW u \in Users, Takes(u) \/ TimesOut(u)
  PROVE  /\ faults' \in Nat /\ phase' = [phase EXCEPT ![u] = "idle"]
         /\ faults' = 0 => faults = 0
BY DEF PromptInv, Takes, TimesOut, Return

LEMMA SendStep ==
  ASSUME PromptInv, NEW u \in Users, Send(u)
  PROVE  PromptInv'
<1>. USE DEF PromptInv, Send
<1>1. faults' \in Nat /\ phase' \in [Users -> {"idle", "wait"}] /\ (faults' = 0 => faults = 0)
  OBVIOUS
<1>2. UNCHANGED <<rpc, stage, todo, kind>>
  BY DEF rvars, device
<1>3. Paused'
  BY <1>2 DEF Paused
<1>4. ASSUME faults' = 0 PROVE Uses(u)'
  <2>1. owed = <<>> /\ holder = None /\ holder' = u /\ buffer' = <<>>
    BY <1>1, <1>4
  <2>2. Free
    <3>1. ASSUME NEW w \in Users, Uses(w) PROVE FALSE
      BY <2>1, <3>1 DEF Uses, Users
    <3>. QED BY <1>1, <1>4, <3>1
  <2>3. \A w \in Users : phase'[w] = IF w = u THEN "wait" ELSE "idle"
    BY <2>2 DEF Free, Users
  <2>4. owed' = <<Asked(u)'>>
    <3>1. RequestOf(u)' = RequestOf(u)
      BY <1>2 DEF RequestOf, OtherRequest
    <3>. QED BY <2>1, <3>1 DEF Asked
  <2>. QED BY <2>1, <2>3, <2>4 DEF Uses
<1>. QED BY <1>1, <1>2, <1>3, <1>4

LEMMA ArriveStep == PromptInv /\ Arrive => PromptInv'
<1>. SUFFICES ASSUME PromptInv, Arrive PROVE PromptInv'
  OBVIOUS
<1>. USE DEF PromptInv
<1>1. UNCHANGED <<rpc, stage, todo, kind, phase, holder>>
  BY DEF Arrive, rvars, device
<1>2. faults' \in Nat /\ (faults' = 0 => faults = 0) /\ Paused'
  BY <1>1 DEF Arrive, Paused
<1>3. ASSUME faults' = 0 PROVE \E u \in Users : Uses(u)'
  <2>1. owed # <<>> /\ owed' = Tail(owed)
    BY DEF Arrive
  <2>2. PICK u \in Users : Uses(u)
    BY <1>2, <1>3, <2>1 DEF Free
  <2>3. owed = <<Asked(u)>> /\ buffer = <<>>
    BY <2>1, <2>2 DEF Uses
  <2>4. PICK state : buffer' = Append(buffer, Answer(Asked(u), state))
    BY <1>2, <1>3, <2>3 DEF Arrive
  <2>5. owed' = <<>> /\ buffer' = <<Answer(Asked(u), state)>>
    BY <2>1, <2>3, <2>4
  <2>6. Accepted(Answer(Asked(u), state), RequestOf(u))
    BY DEF Accepted, Answer, Asked
  <2>7. RequestOf(u)' = RequestOf(u)
    BY <1>1 DEF RequestOf, OtherRequest
  <2>8. Uses(u)'
    BY <1>1, <2>2, <2>5, <2>6, <2>7 DEF Uses
  <2>. QED BY <2>8
<1>. QED BY <1>1, <1>2, <1>3

LEMMA OtherStep == PromptInv /\ OtherReturns => PromptInv'
<1>. SUFFICES ASSUME PromptInv, OtherReturns PROVE PromptInv'
  OBVIOUS
<1>1. "other" \in Users /\ (Takes("other") \/ TimesOut("other"))
  BY DEF OtherReturns, Users
<1>2. /\ faults' \in Nat /\ phase' = [phase EXCEPT !["other"] = "idle"]
      /\ faults' = 0 => faults = 0
  BY <1>1, PhaseType
<1>3. UNCHANGED <<rpc, stage, todo>>
  BY DEF OtherReturns, rvars, device
<1>4. Paused'
  BY <1>2, <1>3 DEF PromptInv, Paused, Users
<1>5. faults' = 0 => Free'
  BY <1>1, <1>2, ReturnFrees, TimeoutCounts
<1>. QED BY <1>2, <1>3, <1>4, <1>5 DEF PromptInv

\* With prompt slaves no step fails.
LEMMA StepsStep == PromptInv /\ Steps => PromptInv'
<1>. SUFFICES ASSUME PromptInv, Steps PROVE PromptInv'
  OBVIOUS
<1>0. "me" \in Users
  BY DEF Users
<1>1. Takes("me") \/ TimesOut("me")
  BY DEF Steps, StepSucceeds, StepRetries, WriteGivenUp, RunFails, Succeeds, Fails
<1>2. /\ faults' \in Nat /\ phase' = [phase EXCEPT !["me"] = "idle"]
      /\ faults' = 0 => faults = 0
  BY <1>0, <1>1, PhaseType
<1>3. phase'["me"] = "idle" /\ phase' \in [Users -> {"idle", "wait"}]
  BY <1>0, <1>2 DEF PromptInv
<1>4. faults' = 0 => Free' /\ ~ Fails("me")
  BY <1>0, <1>1, <1>2, ReturnFrees, TimeoutCounts DEF Fails
<1>5. faults' = 0 => rpc' = rpc
  BY <1>4 DEF Steps, StepSucceeds, StepRetries, WriteGivenUp, RunFails, rvars
<1>6. phase["me"] = "wait"
  BY <1>1 DEF Takes, TimesOut
<1>7. stage \notin {"off", "idle"}
  BY <1>6 DEF PromptInv, Paused
<1>8. stage' \in {"off", "idle"} => todo' = <<>>
  BY <1>7 DEF Steps, StepSucceeds, StepRetries, WriteGivenUp, RunFails
<1>. QED BY <1>2, <1>3, <1>4, <1>5, <1>8 DEF PromptInv, Paused

\* A stage begins when no answer is awaited, so that the line is free or the
\* other device has it.
LEMMA LoopStep == PromptInv /\ (Begin \/ Loop) => PromptInv'
<1>. SUFFICES ASSUME PromptInv, Begin \/ Loop PROVE PromptInv'
  OBVIOUS
<1>. USE DEF PromptInv, line
<1>1. stage \in {"off", "idle"} /\ UNCHANGED <<line, kind>>
  BY DEF Begin, Loop, Tick, Stop, Command
<1>2. rpc' = rpc \/ rpc' = "done"
  BY DEF Begin, Loop, Tick, Stop, Command, ServiceStops, rvars
<1>3. Paused'
  BY <1>1 DEF Paused, Begin, Loop, Tick, Stop, Command
<1>4. ASSUME faults = 0, NEW u \in Users, Uses(u) PROVE Uses(u)'
  <2>1. u = "other"
    BY <1>1, <1>4 DEF Uses, Paused, Users
  <2>2. RequestOf(u)' = RequestOf(u)
    BY <1>1, <2>1 DEF RequestOf, OtherRequest
  <2>. QED BY <1>1, <1>4, <2>2 DEF Uses, Asked
<1>5. Free => Free'
  BY <1>1 DEF Free
<1>. QED BY <1>1, <1>2, <1>3, <1>4, <1>5

LEMMA RestartStep == PromptInv /\ (RestarterStep \/ UNCHANGED vars) => PromptInv'
<1>. SUFFICES ASSUME PromptInv, RestarterStep \/ UNCHANGED vars PROVE PromptInv'
  OBVIOUS
<1>. USE DEF PromptInv, line, device, vars, rvars
<1>1. UNCHANGED <<device, line>>
  BY DEF RestarterStep
<1>2. rpc' = "backoff" => rpc = "backoff"
  BY DEF RestarterStep, Start, Retry, GiveUp, Shutdown, ShutdownReturns
<1>3. Paused' /\ (Free => Free')
  BY <1>1 DEF Paused, Free
<1>4. ASSUME NEW u \in Users, Uses(u) PROVE Uses(u)'
  <2>1. RequestOf(u)' = RequestOf(u)
    BY <1>1 DEF RequestOf, OtherRequest
  <2>. QED BY <1>1, <1>4, <2>1 DEF Uses, Asked
<1>. QED BY <1>1, <1>2, <1>3, <1>4

\* Two devices share a line without harm: as long as no answer is lost, garbled,
\* refused or late, none of their requests fails, and the device is never
\* restarted (modbus/modbus.go:60, finder7M38.go:406), for any list of registers.
THEOREM PromptRuns == Spec => []PromptNeverFails
<1>1. PromptInv => PromptNeverFails
  BY DEF PromptInv, PromptNeverFails
<1>2. PromptInv /\ [Next]_vars => PromptInv'
  BY SendStep, ArriveStep, OtherStep, StepsStep, LoopStep, RestartStep DEF Next
<1>. QED BY <1>1, <1>2, PromptInit, PTL DEF Spec

-----------------------------------------------------------------------------
\* Each set of naturals has a least element: what the proofs by induction rest on.
LEMMA LeastNumber ==
  ASSUME NEW T \in SUBSET Nat, T # {}
  PROVE  \E n \in T : \A m \in T : n <= m
<1>0. PICK R : R = OpToRel(<, Nat)
  OBVIOUS
<1>1. \E x \in T : \A y \in T : ~(<<y, x>> \in R)
  BY <1>0, WFMin, NatLessThanWellFounded, Zenon
<1>2. R = {ss \in Nat \X Nat : ss[1] < ss[2]}
  BY <1>0, Zenon DEF OpToRel
<1>3. \A x, y \in Nat : y < x => <<y, x>> \in R
  BY <1>2
<1>4. PICK x \in T : \A y \in T : ~(<<y, x>> \in R)
  BY <1>1, Zenon
<1>5. ASSUME NEW m \in T PROVE x <= m
  <2>1. x \in Nat /\ m \in Nat /\ ~(<<m, x>> \in R)
    BY <1>4
  <2>2. ~(m < x)
    BY <1>3, <2>1, Zenon
  <2>. QED BY <2>1, <2>2
<1>. QED BY <1>5

\* The numbers in S have an ascending order.
Listed(S) == \E f \in [1..Cardinality(S) -> S] : \A i, j \in 1..Cardinality(S) : i < j => f[i] < f[j]

\* A set of numbers up to n can be listed in ascending order.
LEMMA AscendingExists ==
  ASSUME NEW n \in Nat, NEW S \in SUBSET (1..n)
  PROVE  /\ Cardinality(S) \in Nat
         /\ Listed(S)
<1>. DEFINE T == {k \in 0..n : \E s \in SUBSET (1..k) : ~Listed(s)}
<1>1. \A k \in Nat : \A s \in SUBSET (1..k) : IsFiniteSet(s) /\ Cardinality(s) \in Nat
  <2>. SUFFICES ASSUME NEW k \in Nat, NEW s \in SUBSET (1..k)
                PROVE  IsFiniteSet(s) /\ Cardinality(s) \in Nat
    OBVIOUS
  <2>1. IsFiniteSet(1..k)
    BY FS_Interval
  <2>2. IsFiniteSet(s)
    BY <2>1, FS_Subset, Zenon
  <2>. QED BY <2>2, FS_CardinalityType
<1>2. T = {}
  <2>. SUFFICES ASSUME T # {} PROVE FALSE
    OBVIOUS
  <2>1. PICK k \in T : \A m \in T : k <= m
    <3>1. T \in SUBSET Nat
      OBVIOUS
    <3>. HIDE DEF T
    <3>. QED BY <3>1, LeastNumber
  <2>2. PICK s \in SUBSET (1..k) : ~Listed(s)
    BY <2>1
  <2>3. k \in 1..n
    <3>1. CASE k = 0
      <4>0. s = {}
        BY <3>1
      <4>1. s = {} /\ Cardinality(s) = 0
        BY <4>0, FS_EmptySet, Zenon
      <4>2. [i \in 1..0 |-> 0] \in [1..Cardinality(s) -> s]
        BY <4>1
      <4>3. Listed(s)
        BY <4>1, <4>2 DEF Listed
      <4>. QED BY <2>2, <4>3
    <3>. QED BY <2>1, <3>1
  <2>. DEFINE r == s \ {k}
  <2>4. k - 1 \in 0..n /\ k - 1 \notin T /\ r \in SUBSET (1..(k - 1))
    <3>1. k - 1 \in 0..n
      BY <2>3
    <3>2. k - 1 \notin T
      <4>. HIDE DEF T
      <4>. QED BY <2>1, <2>3
    <3>3. r \in SUBSET (1..(k - 1))
      BY <2>3
    <3>. QED BY <3>1, <3>2, <3>3
  <2>5. Listed(r)
    <3>. HIDE DEF r
    <3>. QED BY <2>4
  <2>6. k \in s
    <3>. SUFFICES ASSUME k \notin s PROVE FALSE
      OBVIOUS
    <3>1. r = s
      OBVIOUS
    <3>. QED BY <2>2, <2>5, <3>1
  <2>7. IsFiniteSet(s) /\ Cardinality(r) \in Nat /\ Cardinality(s) = Cardinality(r) + 1
    <3>1. IsFiniteSet(s) /\ Cardinality(r) \in Nat /\ IsFiniteSet(r)
      <4>1. k \in Nat /\ k - 1 \in Nat
        BY <2>3
      <4>. HIDE DEF r
      <4>. QED BY <1>1, <2>4, <4>1
    <3>2. Cardinality(r) = Cardinality(s) - 1 /\ Cardinality(s) \in Nat
      BY <2>6, <3>1, FS_RemoveElement, FS_CardinalityType
    <3>. QED BY <3>1, <3>2
  <2>8. PICK f \in [1..Cardinality(r) -> r] :
          \A i, j \in 1..Cardinality(r) : i < j => f[i] < f[j]
    BY <2>5 DEF Listed
  <2>. PICK c : c = Cardinality(r)
    OBVIOUS
  <2>. HIDE DEF r
  <2>. DEFINE g == [i \in 1..(c + 1) |-> IF i = c + 1 THEN k ELSE f[i]]
  <2>9. \A i \in 1..c : f[i] \in r /\ f[i] \in s /\ f[i] \in Int /\ f[i] < k
    <3>1. \A i \in 1..c : f[i] \in r
      BY <2>8
    <3>2. r \subseteq 1..(k - 1) /\ r \subseteq s /\ k \in Int
      BY <2>3, <2>4 DEF r
    <3>. HIDE DEF T
    <3>3. \A v \in r : v \in s /\ v \in Int /\ v < k
      BY <3>2
    <3>. QED BY <3>1, <3>3, Zenon
  <2>10. g \in [1..(c + 1) -> s]
    BY <2>6, <2>7, <2>9
  <2>11. ASSUME NEW i \in 1..(c + 1), NEW j \in 1..(c + 1), i < j PROVE g[i] < g[j]
    <3>1. i \in 1..c /\ g[i] = f[i]
      BY <2>7, <2>11
    <3>2. CASE j = c + 1
      <4>1. g[j] = k
        BY <3>2
      <4>. HIDE DEF g
      <4>. QED BY <2>9, <3>1, <4>1
    <3>3. CASE j # c + 1
      <4>1. j \in 1..c /\ g[j] = f[j]
        BY <2>7, <3>3
      <4>. HIDE DEF g
      <4>. QED BY <2>8, <2>11, <3>1, <4>1
    <3>. QED BY <3>2, <3>3
  <2>. HIDE DEF g
  <2>12. Listed(s)
    BY <2>7, <2>10, <2>11 DEF Listed
  <2>. QED BY <2>2, <2>12
<1>3. Listed(S)
  <2>1. n \in 0..n /\ S \in SUBSET (1..n)
    OBVIOUS
  <2>. QED BY <1>2, <2>1
<1>. QED BY <1>1, <1>3

LEMMA AscendingType ==
  ASSUME NEW n \in Nat, NEW S \in SUBSET (1..n)
  PROVE  /\ Cardinality(S) \in Nat
         /\ Ascending(S) \in [1..Cardinality(S) -> S]
         /\ \A i, j \in 1..Cardinality(S) : i < j => Ascending(S)[i] < Ascending(S)[j]
BY AscendingExists DEF Ascending, Listed

\* What a poll of the Finder asks for, and any of its requests.
Reads == {ReadRegister(Registers[i]) : i \in 1..Len(Registers)}
Requests == Reads \cup {Version, ReadRelay} \cup {WriteRelay(v) : v \in {"open", "closed"}}

LEMMA PollType ==
  ASSUME NEW reduced, kind \in {"finder", "waveshare"}
  PROVE  /\ kind = "finder" => Poll(reduced) \in Seq(Reads)
         /\ kind = "waveshare" => Poll(reduced) = <<ReadRelay>>
<1>. DEFINE read == {i \in 1..Len(Registers) : ~(reduced /\ Registers[i].static)}
            s == [k \in 1..Cardinality(read) |-> ReadRegister(Registers[Ascending(read)[k]])]
<1>1. read \in SUBSET (1..Len(Registers)) /\ Len(Registers) \in Nat
  BY LineAssumption
<1>2. kind = "finder" => Poll(reduced) = s
  BY DEF Poll
<1>. HIDE DEF read
<1>3. Cardinality(read) \in Nat /\ Ascending(read) \in [1..Cardinality(read) -> read]
  BY <1>1, AscendingType
<1>4. \A k \in 1..Cardinality(read) : Ascending(read)[k] \in 1..Len(Registers)
  BY <1>1, <1>3
<1>5. \A k \in 1..Cardinality(read) : ReadRegister(Registers[Ascending(read)[k]]) \in Reads
  BY <1>4 DEF Reads
<1>6. s \in Seq(Reads)
  BY <1>3, <1>5
<1>. QED BY <1>2, <1>6 DEF Poll

-----------------------------------------------------------------------------
\* The stage and the kind of the device tell what it asks for.
TodoFits ==
  /\ kind \in {"finder", "waveshare"}
  /\ kind = "finder" => todo \in Seq(Reads) /\ stage \notin {"version", "write"}
  /\ kind = "waveshare" =>
       /\ stage = "version" => todo = <<Version>>
       /\ stage = "write" => \E v \in {"open", "closed"} : todo = <<WriteRelay(v)>>
       /\ stage \notin {"version", "write"} => todo \in {<<>>, <<ReadRelay>>}
  /\ phase["me"] = "wait" => todo # <<>> /\ holder = "me"
  /\ phase["other"] = "wait" => holder = "other"

\* Each answer to come is to a request of the device, or from the other slave.
Owed == [by : Users, req : Requests \cup {[r EXCEPT !.to = "other"] : r \in Requests}, late : BOOLEAN]

\* An answer of the device's slave that is accepted is the content of a register
\* of the length asked for, or the state of the relay.
FrameFits(f) ==
  f.whole /\ f.to = "me" =>
    /\ f.fn = "input" => \E i \in 1..Len(Registers) :
                           Registers[i].addr = f.val /\ Registers[i].len = f.len
    /\ f.fn = "coils" => f.val \in {"open", "closed"}

\* What is on the line or has yet to come fits as well.
LineFits ==
  /\ relay \in {"open", "closed"}
  /\ owed \in Seq(Owed)
  /\ \E S : buffer \in Seq(S) /\ \A f \in S : FrameFits(f)

\* Without an answer that comes after the next request, what is to come or has
\* come is the answer to the request that waits.
Mine ==
  ~overdue /\ phase["me"] = "wait" =>
    \/ \E o : owed = <<o>> /\ o.req = Head(todo) /\ buffer = <<>>
    \/ owed = <<>> /\ buffer = <<>>
    \/ \E f : /\ owed = <<>> /\ buffer = <<f>>
              /\ f.whole /\ f.fn = "input" => f.val = Head(todo).addr

\* Without a fault, what the device is told of the relay is how it is.
RelayFits ==
  faults = 0 /\ kind = "waveshare" =>
    /\ stage = "idle" => shown["relay"] = relay
    /\ phase["me"] = "wait" /\ buffer # <<>> =>
         /\ stage = "write" => relay = Head(todo).val
         /\ stage \notin {"write", "version"} => Head(buffer).val = relay

\* What is shown is of a register of that name, or of the same length.
ValuesFit ==
  /\ DOMAIN shown = Names
  /\ \A n \in Names \ {"relay"} : shown[n] # None =>
       \E i \in 1..Len(Registers) :
         /\ Registers[i].addr = shown[n] /\ Registers[i].len \in Lengths(n)
         /\ ~overdue => shown[n] \in Addresses(n)
  /\ shown["relay"] \in {None, "open", "closed"}

\* The inductive invariant.
Fits == TodoFits /\ LineFits /\ Mine /\ RelayFits /\ ValuesFit

LEMMA HeadTailType ==
  ASSUME NEW S, NEW q \in Seq(S), q # <<>>
  PROVE  /\ Head(q) \in S /\ Tail(q) \in Seq(S) /\ Len(q) \in Nat \ {0}
         /\ Len(Tail(q)) = Len(q) - 1
         /\ Head(q) = q[1] /\ \A i \in 1..(Len(q) - 1) : Tail(q)[i] = q[i + 1]
OBVIOUS

LEMMA Kinds ==
  /\ \A r \in Reads : /\ r.to = "me" /\ r.fn = "input" /\ r \in Requests
                      /\ \E i \in 1..Len(Registers) : r = ReadRegister(Registers[i])
  /\ Version \in Requests /\ ReadRelay \in Requests
  /\ \A v \in {"open", "closed"} : WriteRelay(v) \in Requests
  /\ \A r \in Requests :
       /\ r.to = "me" /\ r.fn \in {"input", "holding", "coils", "coil"}
       /\ r.fn = "input" => r \in Reads
       /\ r.fn = "coil" => r.val \in {"open", "closed"}
BY DEF Reads, Requests, ReadRegister, Version, ReadRelay, WriteRelay

\* The request of the device is one of its requests.
LEMMA TodoRequests ==
  ASSUME TodoFits, todo # <<>>
  PROVE  /\ Head(todo) \in Requests
         /\ kind = "finder" => Head(todo) \in Reads
         /\ kind = "waveshare" =>
              /\ Len(todo) = 1
              /\ stage = "version" => Head(todo) = Version
              /\ stage = "write" => Head(todo).fn = "coil" /\ Head(todo).name = "relay"
                                    /\ Head(todo).val \in {"open", "closed"}
              /\ stage \notin {"version", "write"} => Head(todo) = ReadRelay
<1>1. kind = "finder" => Head(todo) \in Reads
  BY HeadTailType DEF TodoFits
<1>2. CASE kind = "finder"
  BY <1>1, <1>2, Kinds
<1>3. CASE kind = "waveshare"
  <2>1. CASE stage = "version"
    BY <1>3, <2>1, Kinds DEF TodoFits
  <2>2. CASE stage = "write"
    BY <1>3, <2>2, Kinds DEF TodoFits, WriteRelay
  <2>3. CASE stage \notin {"version", "write"}
    BY <1>3, <2>3, Kinds DEF TodoFits
  <2>. QED BY <1>3, <2>1, <2>2, <2>3
<1>. QED BY <1>2, <1>3 DEF TodoFits

LEMMA InitFits == Init => Fits
<1>. SUFFICES ASSUME Init PROVE Fits
  OBVIOUS
<1>1. TodoFits
  BY DEF Init, TodoFits, Users
<1>2. LineFits
  <2>1. buffer \in Seq({}) /\ \A f \in {} : FrameFits(f)
    BY DEF Init
  <2>. QED BY <2>1 DEF Init, LineFits
<1>3. Mine
  BY DEF Init, Mine, Users
<1>4. ValuesFit
  <2>1. shown = [n \in Names |-> None] /\ "relay" \in Names
    BY DEF Init, Names
  <2>. QED BY <2>1 DEF ValuesFit
<1>5. RelayFits
  BY DEF Init, RelayFits, Users
<1>. QED BY <1>1, <1>2, <1>3, <1>4, <1>5 DEF Fits

\* The request of either is in Owed.
LEMMA RequestType ==
  ASSUME TodoFits, NEW u \in Users, u = "me" => todo # <<>>
  PROVE  [by |-> u, req |-> RequestOf(u), late |-> FALSE] \in Owed
<1>1. CASE u = "me"
  BY <1>1, TodoRequests DEF RequestOf, Owed
<1>2. CASE u = "other"
  <2>. DEFINE r == IF kind = "finder" THEN ReadRegister(Registers[1]) ELSE ReadRelay
  <2>1. r \in Requests
    <3>1. 1 \in 1..Len(Registers)
      BY LineAssumption
    <3>. QED BY <3>1, Kinds DEF Reads, Requests
  <2>2. RequestOf(u) = [r EXCEPT !.to = "other"]
    BY <1>2 DEF RequestOf, OtherRequest
  <2>. HIDE DEF r
  <2>. QED BY <2>1, <2>2 DEF Owed
<1>. QED BY <1>1, <1>2 DEF Users

LEMMA SendFits ==
  ASSUME PromptInv, Fits, NEW u \in Users, Send(u)
  PROVE  Fits'
<1>. USE DEF Fits
<1>1. /\ UNCHANGED <<rvars, kind, stage, todo, shown, relay>>
      /\ phase' = [phase EXCEPT ![u] = "wait"] /\ holder' = u /\ holder = None /\ buffer' = <<>>
      /\ owed' = Append(owed, [by |-> u, req |-> RequestOf(u), late |-> FALSE])
      /\ overdue' = (overdue \/ owed # <<>>) /\ (u = "me" => todo # <<>>)
  BY DEF Send, device
<1>2. phase \in [Users -> {"idle", "wait"}] /\ faults \in Nat /\ faults' \in {faults, faults + 1}
  BY DEF PromptInv, Send
<1>3. phase["me"] # "wait" /\ phase["other"] # "wait"
  BY <1>1 DEF TodoFits
<1>4. TodoFits'
  BY <1>1, <1>2, <1>3 DEF TodoFits, Users
<1>5. LineFits'
  <2>1. owed' \in Seq(Owed)
    <3>1. [by |-> u, req |-> RequestOf(u), late |-> FALSE] \in Owed
      BY <1>1, RequestType
    <3>. QED BY <1>1, <3>1 DEF LineFits
  <2>2. \E S : buffer' \in Seq(S) /\ \A f \in S : FrameFits(f)
    <3>1. buffer' \in Seq({}) /\ \A f \in {} : FrameFits(f)
      BY <1>1
    <3>. QED BY <3>1
  <2>. QED BY <1>1, <2>1, <2>2 DEF LineFits
<1>6. Mine'
  <2>. SUFFICES ASSUME ~overdue', phase'["me"] = "wait"
                PROVE  \E o : owed' = <<o>> /\ o.req = Head(todo') /\ buffer' = <<>>
    BY DEF Mine
  <2>1. u = "me" /\ owed = <<>>
    BY <1>1, <1>2, <1>3 DEF Users
  <2>2. owed' = <<[by |-> u, req |-> Head(todo), late |-> FALSE]>>
    BY <1>1, <2>1 DEF RequestOf
  <2>. QED BY <1>1, <2>2
<1>7. RelayFits'
  BY <1>1, <1>2 DEF RelayFits
<1>8. ValuesFit'
  BY <1>1 DEF ValuesFit
<1>. QED BY <1>4, <1>5, <1>6, <1>7, <1>8

\* What may be received for an answer that is due.
Received(o, state, f) ==
  \/ f = Answer(o, state)
  \/ f = [Answer(o, state) EXCEPT !.whole = FALSE]
  \/ f = [Answer(o, state) EXCEPT !.fn = "exception", !.len = 1]

LEMMA ReceivedFits ==
  ASSUME NEW o \in Owed, NEW state \in {"open", "closed"}, NEW f, Received(o, state, f)
  PROVE  /\ FrameFits(f)
         /\ f.whole /\ f.fn = "input" /\ o.req \in Requests => f.val = o.req.addr
<1>0. /\ f.to = o.req.to
      /\ f.fn # "exception" =>
           /\ f.fn = o.req.fn /\ f.len = o.req.len
           /\ f.val = IF o.req.to = "other" THEN "foreign"
                      ELSE IF o.req.fn = "coils" THEN state
                      ELSE IF o.req.fn = "coil" THEN o.req.val ELSE o.req.addr
  <2>. PICK a : a = Answer(o, state)
    OBVIOUS
  <2>1. /\ a.to = o.req.to /\ a.fn = o.req.fn /\ a.len = o.req.len
        /\ a.val = IF o.req.to = "other" THEN "foreign"
                   ELSE IF o.req.fn = "coils" THEN state
                   ELSE IF o.req.fn = "coil" THEN o.req.val ELSE o.req.addr
        /\ DOMAIN a = {"by", "to", "fn", "len", "late", "whole", "val"}
    BY DEF Answer
  <2>. QED BY <2>1 DEF Received
<1>1. o.req \in Requests \/ (o.req.to = "other")
  BY DEF Owed, Requests, Reads, ReadRegister, Version, ReadRelay, WriteRelay
<1>2. CASE o.req \in Requests
  <2>1. o.req.to = "me" /\ o.req.fn \in {"input", "holding", "coils", "coil"}
    BY <1>2, Kinds
  <2>2. f.whole /\ f.fn = "input" =>
          /\ f.val = o.req.addr /\ f.len = o.req.len
          /\ \E i \in 1..Len(Registers) : o.req = ReadRegister(Registers[i])
    BY <1>0, <1>2, <2>1, Kinds
  <2>3. f.whole /\ f.fn = "coils" => f.val \in {"open", "closed"}
    BY <1>0, <1>2, <2>1
  <2>4. f.fn = "input" => f.fn # "exception" /\ \E i \in 1..Len(Registers) :
                            Registers[i].addr = o.req.addr /\ Registers[i].len = o.req.len
    BY <1>0, <1>2, <2>1, Kinds DEF ReadRegister
  <2>5. f.whole /\ f.fn = "input" => \E i \in 1..Len(Registers) :
                                      Registers[i].addr = f.val /\ Registers[i].len = f.len
    BY <2>2, <2>4
  <2>. QED BY <1>2, <2>2, <2>3, <2>5 DEF FrameFits
<1>3. CASE o.req.to = "other"
  <2>1. f.to = "other" /\ o.req \notin Requests
    BY <1>0, <1>3, Kinds
  <2>. QED BY <2>1 DEF FrameFits
<1>. QED BY <1>1, <1>2, <1>3

LEMMA MineCases ==
  ASSUME Mine, ~overdue, phase["me"] = "wait"
  PROVE  /\ owed # <<>> => \E o : owed = <<o>> /\ o.req = Head(todo) /\ buffer = <<>>
         /\ buffer # <<>> => \E f : /\ buffer = <<f>>
                                    /\ f.whole /\ f.fn = "input" => f.val = Head(todo).addr
<1>1. \/ \E o : owed = <<o>> /\ o.req = Head(todo) /\ buffer = <<>>
      \/ owed = <<>> /\ buffer = <<>>
      \/ \E f : /\ owed = <<>> /\ buffer = <<f>>
                /\ f.whole /\ f.fn = "input" => f.val = Head(todo).addr
  BY Zenon DEF Mine
<1>. QED BY <1>1, Zenon

LEMMA ArriveFits == PromptInv /\ Fits /\ Arrive => Fits'
<1>. SUFFICES ASSUME PromptInv, Fits, Arrive PROVE Fits'
  OBVIOUS
<1>. USE DEF Fits
<1>. PICK o : o = Head(owed)
  OBVIOUS
<1>. PICK w : w = IF o.req.to = "me" /\ o.req.fn = "coil" THEN o.req.val ELSE relay
  OBVIOUS
<1>1. /\ UNCHANGED <<rvars, kind, stage, todo, shown, phase, holder, overdue>>
      /\ owed # <<>> /\ owed' = Tail(owed) /\ owed \in Seq(Owed) /\ o \in Owed
      /\ o = owed[1] /\ Len(Tail(owed)) = Len(owed) - 1 /\ Tail(owed) \in Seq(Owed)
  BY HeadTailType DEF Arrive, device, LineFits
<1>2. w \in {"open", "closed"}
  <2>1. o.req \in Requests \/ o.req.to = "other"
    BY <1>1 DEF Owed, Requests, Reads, ReadRegister, Version, ReadRelay, WriteRelay
  <2>. QED BY <2>1, Kinds DEF LineFits
<1>3. relay' \in {w, relay}
  BY DEF Arrive
<1>4. buffer' = buffer \/ \E f : Received(o, w, f) /\ buffer' = Append(buffer, f)
  BY DEF Arrive, Received
<1>5. faults' = 0 => faults = 0 /\ relay' = w /\ buffer' = Append(buffer, Answer(o, w))
  BY DEF Arrive, PromptInv
<1>6. TodoFits'
  BY <1>1 DEF TodoFits
<1>7. ValuesFit'
  BY <1>1 DEF ValuesFit
<1>8. LineFits'
  <2>1. CASE buffer' = buffer
    BY <1>1, <1>2, <1>3, <2>1 DEF LineFits
  <2>2. ASSUME NEW f, Received(o, w, f), buffer' = Append(buffer, f) PROVE LineFits'
    <3>1. FrameFits(f)
      BY <1>1, <1>2, <2>2, ReceivedFits
    <3>2. PICK S : buffer \in Seq(S) /\ \A g \in S : FrameFits(g)
      BY DEF LineFits
    <3>3. buffer' \in Seq(S \cup {f}) /\ \A g \in S \cup {f} : FrameFits(g)
      BY <2>2, <3>1, <3>2
    <3>. QED BY <1>1, <1>2, <1>3, <3>3 DEF LineFits
  <2>. QED BY <1>4, <2>1, <2>2
<1>9. Mine'
  <2>. SUFFICES ASSUME ~overdue, phase["me"] = "wait"
                PROVE  /\ owed' = <<>>
                       /\ \/ buffer' = <<>>
                          \/ \E f : /\ buffer' = <<f>>
                                    /\ f.whole /\ f.fn = "input" => f.val = Head(todo).addr
    BY <1>1 DEF Mine
  <2>1. owed = <<o>> /\ o.req = Head(todo) /\ buffer = <<>>
    <3>1. PICK x : owed = <<x>> /\ x.req = Head(todo) /\ buffer = <<>>
      BY <1>1, MineCases
    <3>2. x = o
      BY <1>1, <3>1
    <3>. QED BY <3>1, <3>2
  <2>2. o.req \in Requests
    BY <2>1, TodoRequests DEF TodoFits
  <2>3. \A f : Received(o, w, f) => (f.whole /\ f.fn = "input" => f.val = Head(todo).addr)
    BY <1>1, <1>2, <2>1, <2>2, ReceivedFits
  <2>4. owed' = <<>>
    BY <1>1, <2>1
  <2>5. CASE buffer' = buffer
    BY <2>1, <2>4, <2>5
  <2>6. ASSUME NEW f, Received(o, w, f), buffer' = Append(buffer, f)
        PROVE  buffer' = <<f>> /\ (f.whole /\ f.fn = "input" => f.val = Head(todo).addr)
    BY <2>1, <2>3, <2>6
  <2>. QED BY <1>4, <2>4, <2>5, <2>6
<1>10. RelayFits'
  <2>. SUFFICES ASSUME faults' = 0, kind = "waveshare"
                PROVE  /\ stage = "idle" => shown["relay"] = relay'
                       /\ phase["me"] = "wait" /\ buffer' # <<>> =>
                            /\ stage = "write" => relay' = Head(todo).val
                            /\ stage \notin {"write", "version"} => Head(buffer').val = relay'
    BY <1>1 DEF RelayFits
  <2>1. PICK u \in Users : Uses(u)
    BY <1>1, <1>5 DEF PromptInv, Free
  <2>2. owed = <<Asked(u)>> /\ buffer = <<>>
    BY <1>1, <2>1 DEF Uses
  <2>3. o.req = RequestOf(u) /\ buffer' = <<Answer(o, w)>>
    BY <1>1, <1>5, <2>2 DEF Asked
  <2>4. CASE u = "other"
    <3>1. phase["me"] # "wait"
      BY <2>1, <2>4 DEF Uses, Users
    <3>2. o.req.to = "other"
      <4>1. o.req = [ReadRelay EXCEPT !.to = "other"]
        BY <2>3, <2>4 DEF RequestOf, OtherRequest
      <4>. QED BY <4>1 DEF ReadRelay
    <3>. QED BY <1>5, <3>1, <3>2 DEF RelayFits
  <2>5. CASE u = "me"
    <3>1. phase["me"] = "wait" /\ stage \notin {"off", "idle"} /\ todo # <<>>
      BY <2>1, <2>5 DEF Uses, Users, PromptInv, Paused, TodoFits
    <3>2. o.req = Head(todo)
      BY <2>3, <2>5 DEF RequestOf
    <3>3. stage = "write" => relay' = Head(todo).val
      BY <1>5, <3>1, <3>2, TodoRequests, Kinds
    <3>4. stage \notin {"write", "version"} => Head(buffer').val = relay'
      <4>. SUFFICES ASSUME stage \notin {"write", "version"} PROVE Head(buffer').val = relay'
        OBVIOUS
      <4>1. o.req = ReadRelay
        BY <3>1, <3>2, TodoRequests
      <4>2. w = relay /\ Answer(o, w).val = w
        BY <4>1 DEF Answer, ReadRelay
      <4>. QED BY <1>5, <2>3, <4>2
    <3>. QED BY <3>1, <3>3, <3>4
  <2>. QED BY <2>4, <2>5 DEF Users
<1>. QED BY <1>6, <1>7, <1>8, <1>9, <1>10

\* What is left on the line when a request is over.
LEMMA ReturnFits ==
  ASSUME LineFits, NEW u \in Users, Takes(u) \/ TimesOut(u)
  PROVE  LineFits' /\ holder' = None
<1>1. holder' = None /\ relay' = relay
  BY DEF Takes, TimesOut, Return
<1>2. owed' \in Seq(Owed)
  <2>1. owed' = [i \in 1..Len(owed) |->
                   IF owed[i].by = u THEN [owed[i] EXCEPT !.late = TRUE] ELSE owed[i]]
    BY DEF Takes, TimesOut, Return
  <2>2. owed \in Seq(Owed) /\ \A o \in Owed : [o EXCEPT !.late = TRUE] \in Owed
    BY DEF LineFits, Owed
  <2>3. Len(owed) \in Nat /\ \A i \in 1..Len(owed) : owed[i] \in Owed
    BY <2>2
  <2>4. \A i \in 1..Len(owed) : owed'[i] \in Owed
    BY <2>1, <2>2, <2>3, Zenon
  <2>. QED BY <2>1, <2>3, <2>4
<1>3. \E S : buffer' \in Seq(S) /\ \A f \in S : FrameFits(f)
  <2>1. PICK S : buffer \in Seq(S) /\ \A f \in S : FrameFits(f)
    BY DEF LineFits
  <2>2. buffer' = buffer \/ (buffer # <<>> /\ buffer' = Tail(buffer))
    BY DEF Takes, TimesOut
  <2>3. buffer' \in Seq(S)
    BY <2>1, <2>2, HeadTailType
  <2>. QED BY <2>1, <2>3
<1>. QED BY <1>1, <1>2, <1>3 DEF LineFits

LEMMA OtherFits == PromptInv /\ Fits /\ OtherReturns => Fits'
<1>. SUFFICES ASSUME PromptInv, Fits, OtherReturns PROVE Fits'
  OBVIOUS
<1>. USE DEF Fits
<1>1. "other" \in Users /\ (Takes("other") \/ TimesOut("other"))
  BY DEF OtherReturns, Users
<1>2. /\ UNCHANGED <<rvars, kind, stage, todo, shown, relay, overdue>>
      /\ phase["other"] = "wait" /\ phase' = [phase EXCEPT !["other"] = "idle"]
  BY DEF OtherReturns, Takes, TimesOut, Return, device
<1>3. phase["me"] # "wait" /\ phase'["me"] # "wait" /\ phase'["other"] = "idle"
  BY <1>2 DEF TodoFits, PromptInv, Users
<1>4. TodoFits'
  BY <1>2, <1>3 DEF TodoFits
<1>5. LineFits'
  BY <1>1, ReturnFits
<1>6. Mine' /\ ValuesFit'
  BY <1>2, <1>3 DEF Mine, ValuesFit
<1>7. RelayFits'
  <2>1. faults' = 0 => faults = 0
    BY <1>1, PhaseType
  <2>. QED BY <1>2, <1>3, <2>1 DEF RelayFits
<1>. QED BY <1>4, <1>5, <1>6, <1>7

\* A value that is accepted and stored is one of the register asked for.
LEMMA StepSucceedsFits == PromptInv /\ Fits /\ StepSucceeds => Fits'
<1>. SUFFICES ASSUME PromptInv, Fits, StepSucceeds PROVE Fits'
  OBVIOUS
<1>. USE DEF Fits
<1>. PICK r : r = Head(todo)
  OBVIOUS
<1>. PICK f : f = Head(buffer)
  OBVIOUS
<1>0. "me" \in Users /\ Takes("me")
  BY DEF StepSucceeds, Succeeds, Users
<1>1. /\ UNCHANGED <<rvars, kind, relay, overdue>>
      /\ phase["me"] = "wait" /\ phase' = [phase EXCEPT !["me"] = "idle"] /\ buffer # <<>>
      /\ Accepted(f, r) /\ todo # <<>>
  BY DEF StepSucceeds, Succeeds, Takes, Return, RequestOf, TodoFits
<1>11. \/ stage' = stage /\ Len(todo) # 1 /\ todo' = Tail(todo)
       \/ stage = "version" /\ stage' = "first" /\ todo' = Poll(FALSE)
       \/ stage # "version" /\ stage' = "idle" /\ todo' = <<>>
  <2>1. CASE ~StageOver
    BY <2>1 DEF StepSucceeds, StageOver
  <2>2. CASE StageOver
    BY <2>2 DEF StepSucceeds
  <2>. QED BY <2>1, <2>2
<1>2. shown' = IF stage = "version" THEN shown
               ELSE [shown EXCEPT ![r.name] = IF stage = "write" THEN r.val ELSE f.val]
  BY DEF StepSucceeds
<1>3. phase'["me"] # "wait" /\ phase'["other"] # "wait"
  BY <1>0, <1>1 DEF TodoFits, PromptInv, Users
<1>4. /\ r \in Requests
      /\ kind = "finder" => r \in Reads
      /\ kind = "waveshare" =>
              /\ Len(todo) = 1
              /\ stage = "version" => r = Version
              /\ stage = "write" => r.fn = "coil" /\ r.name = "relay" /\ r.val \in {"open", "closed"}
              /\ stage \notin {"version", "write"} => r = ReadRelay
  BY <1>1, TodoRequests
<1>5. FrameFits(f)
  <2>1. PICK S : buffer \in Seq(S) /\ \A g \in S : FrameFits(g)
    BY DEF LineFits
  <2>. QED BY <1>1, <2>1, HeadTailType
<1>6. TodoFits'
  <2>1. CASE kind = "finder"
    <3>1. todo \in Seq(Reads) /\ stage \notin {"version", "write"}
      BY <2>1 DEF TodoFits
    <3>2. Tail(todo) \in Seq(Reads) /\ <<>> \in Seq(Reads)
      BY <1>1, <3>1, HeadTailType
    <3>3. todo' \in Seq(Reads) /\ stage' \notin {"version", "write"}
      BY <1>11, <3>1, <3>2
    <3>. QED BY <1>1, <1>3, <2>1, <3>3 DEF TodoFits
  <2>2. CASE kind = "waveshare"
    <3>1. \A reduced : Poll(reduced) = <<ReadRelay>>
      BY <2>2, PollType
    <3>2. \/ stage' = "first" /\ todo' = <<ReadRelay>>
          \/ stage' = "idle" /\ todo' = <<>>
      BY <1>11, <1>4, <2>2, <3>1
    <3>. QED BY <1>1, <1>3, <2>2, <3>2 DEF TodoFits
  <2>. QED BY <2>1, <2>2 DEF TodoFits
<1>7. LineFits'
  BY <1>0, ReturnFits
<1>8. Mine'
  BY <1>3 DEF Mine
<1>9. ValuesFit'
  <2>1. CASE stage = "version"
    BY <1>1, <1>2, <2>1 DEF ValuesFit
  <2>2. CASE stage # "version" /\ kind = "finder"
    <3>1. PICK j \in 1..Len(Registers) : r = ReadRegister(Registers[j])
      BY <1>4, <2>2, Kinds
    <3>2. /\ r.name = Registers[j].name /\ r.len = Registers[j].len /\ r.addr = Registers[j].addr
          /\ r.fn = "input" /\ r.to = "me" /\ r.name # "relay" /\ r.name \in Names
      BY <3>1, NamesAssumption DEF ReadRegister, Names
    <3>3. PICK i \in 1..Len(Registers) : Registers[i].addr = f.val /\ Registers[i].len = f.len
      BY <1>1, <1>5, <3>2 DEF FrameFits, Accepted
    <3>4. Registers[i].len \in Lengths(r.name) /\ r.addr \in Addresses(r.name)
      BY <1>1, <3>1, <3>2, <3>3 DEF Accepted, Lengths, Addresses
    <3>5. ~overdue => f.val = r.addr
      <4>1. buffer # <<>> /\ phase["me"] = "wait" /\ f.whole /\ f.fn = "input"
        BY <1>1, <3>2 DEF Accepted
      <4>. SUFFICES ASSUME ~overdue PROVE f.val = r.addr
        OBVIOUS
      <4>2. PICK g : buffer = <<g>> /\ (g.whole /\ g.fn = "input" => g.val = r.addr)
        BY <4>1, MineCases
      <4>3. f = g
        BY <4>2
      <4>. QED BY <4>1, <4>2, <4>3
    <3>6. shown' = [shown EXCEPT ![r.name] = f.val] /\ DOMAIN shown = Names
      BY <1>2, <2>2 DEF TodoFits, ValuesFit
    <3>7. /\ shown'[r.name] = f.val /\ DOMAIN shown' = Names
          /\ \A n \in Names : n # r.name => shown'[n] = shown[n]
      BY <3>2, <3>6
    <3>8. ASSUME NEW n \in Names \ {"relay"}, shown'[n] # None
          PROVE  \E k \in 1..Len(Registers) :
                   /\ Registers[k].addr = shown'[n] /\ Registers[k].len \in Lengths(n)
                   /\ ~overdue => shown'[n] \in Addresses(n)
      <4>1. CASE n = r.name
        BY <3>3, <3>4, <3>5, <3>7, <4>1
      <4>2. CASE n # r.name
        BY <3>7, <3>8, <4>2 DEF ValuesFit
      <4>. QED BY <4>1, <4>2
    <3>9. "relay" \in Names
      BY DEF Names
    <3>. QED BY <1>1, <3>2, <3>7, <3>8, <3>9 DEF ValuesFit
  <2>3. CASE stage # "version" /\ kind = "waveshare"
    <3>1. r.name = "relay" /\ (stage # "write" => r.fn = "coils" /\ r.to = "me")
      BY <1>4, <2>3 DEF ReadRelay
    <3>2. (IF stage = "write" THEN r.val ELSE f.val) \in {"open", "closed"}
      BY <1>1, <1>4, <1>5, <2>3, <3>1 DEF FrameFits, Accepted
    <3>. QED BY <1>1, <1>2, <2>3, <3>1, <3>2 DEF ValuesFit, Names
  <2>. QED BY <2>1, <2>2, <2>3 DEF TodoFits
<1>10. RelayFits'
  <2>. SUFFICES ASSUME faults' = 0, kind = "waveshare", stage' = "idle"
                PROVE  shown'["relay"] = relay
    BY <1>1, <1>3 DEF RelayFits
  <2>1. faults = 0
    BY <1>0, PhaseType
  <2>2. stage # "version" /\ stage # "idle"
    BY <1>1, <1>11, <1>4 DEF PromptInv, Paused
  <2>3. r.name = "relay" /\ "relay" \in DOMAIN shown
    BY <1>4, <2>2 DEF ReadRelay, ValuesFit, Names
  <2>. QED BY <1>1, <1>2, <2>1, <2>2, <2>3 DEF RelayFits
<1>. QED BY <1>6, <1>7, <1>8, <1>9, <1>10

LEMMA StepFailsFits == PromptInv /\ Fits /\ (StepRetries \/ WriteGivenUp \/ RunFails) => Fits'
<1>. SUFFICES ASSUME PromptInv, Fits, StepRetries \/ WriteGivenUp \/ RunFails PROVE Fits'
  OBVIOUS
<1>. USE DEF Fits
<1>0. "me" \in Users /\ (Takes("me") \/ TimesOut("me"))
  BY DEF StepRetries, WriteGivenUp, RunFails, Fails, Users
<1>1. /\ UNCHANGED <<kind, shown, relay, overdue>>
      /\ phase["me"] = "wait" /\ phase' = [phase EXCEPT !["me"] = "idle"]
      /\ \/ kind = "finder" /\ UNCHANGED <<stage, todo>>
         \/ stage = "write" /\ stage' = "idle" /\ todo' = <<>>
         \/ stage' = "off" /\ todo' = <<>>
  BY <1>0 DEF StepRetries, WriteGivenUp, RunFails, Takes, TimesOut, Return
<1>2. phase'["me"] # "wait" /\ phase'["other"] # "wait"
  BY <1>0, <1>1 DEF TodoFits, PromptInv, Users
<1>3. TodoFits'
  <2>1. CASE kind = "finder"
    <3>1. todo \in Seq(Reads) /\ <<>> \in Seq(Reads) /\ stage \notin {"version", "write"}
      BY <2>1 DEF TodoFits
    <3>2. todo' \in Seq(Reads) /\ stage' \notin {"version", "write"}
      BY <1>1, <3>1
    <3>. QED BY <1>1, <1>2, <2>1, <3>2 DEF TodoFits
  <2>2. CASE kind = "waveshare"
    <3>1. stage' \in {"off", "idle"} /\ todo' = <<>>
      BY <1>1, <2>2
    <3>. QED BY <1>1, <1>2, <2>2, <3>1 DEF TodoFits
  <2>. QED BY <2>1, <2>2 DEF TodoFits
<1>4. LineFits'
  BY <1>0, ReturnFits
<1>5. Mine' /\ ValuesFit'
  BY <1>1, <1>2 DEF Mine, ValuesFit
<1>6. RelayFits'
  <2>. SUFFICES ASSUME faults' = 0 PROVE FALSE
    BY DEF RelayFits
  <2>1. faults = 0
    BY <1>0, PhaseType
  <2>2. ~Fails("me")
    BY <1>0, <2>1, ReturnFrees, TimeoutCounts DEF Fails, RequestOf
  <2>. QED BY <2>2 DEF StepRetries, WriteGivenUp, RunFails
<1>. QED BY <1>3, <1>4, <1>5, <1>6

LEMMA LoopFits == PromptInv /\ Fits /\ (Begin \/ Loop) => Fits'
<1>. SUFFICES ASSUME PromptInv, Fits, Begin \/ Loop PROVE Fits'
  OBVIOUS
<1>. USE DEF Fits
<1>1. /\ UNCHANGED <<line, kind, shown>> /\ stage \in {"off", "idle"} /\ phase["me"] # "wait"
      /\ \/ stage' = "first" /\ kind = "finder" /\ todo' = Poll(FALSE)
         \/ stage' = "version" /\ kind = "waveshare" /\ todo' = <<Version>>
         \/ \E reduced : /\ todo' = Poll(reduced) /\ stage = "idle"
                          /\ stage' = IF todo' = <<>> THEN "idle" ELSE "poll"
         \/ /\ stage' = "write" /\ kind = "waveshare"
            /\ \E v \in {"open", "closed"} : todo' = <<WriteRelay(v)>>
         \/ stage' = "off" /\ stage = "idle" /\ todo' = todo
  <2>1. stage \in {"off", "idle"} /\ phase["me"] # "wait"
    BY DEF Begin, Loop, Tick, Stop, Command, PromptInv, Paused
  <2>2. UNCHANGED <<line, kind, shown>>
    BY DEF Begin, Loop, Tick, Stop, Command
  <2>3. CASE Begin
    BY <2>1, <2>2, <2>3 DEF Begin, TodoFits
  <2>4. CASE Tick
    BY <2>1, <2>2, <2>4 DEF Tick
  <2>5. CASE Stop
    BY <2>1, <2>2, <2>5 DEF Stop
  <2>6. ASSUME NEW v \in {"open", "closed"}, Command(v)
        PROVE  stage' = "write" /\ kind = "waveshare" /\ todo' = <<WriteRelay(v)>>
    BY <2>6 DEF Command
  <2>. QED BY <2>1, <2>2, <2>3, <2>4, <2>5, <2>6 DEF Loop
<1>2. TodoFits'
  <2>1. CASE kind = "finder"
    <3>1. \A reduced : Poll(reduced) \in Seq(Reads)
      BY <2>1, PollType
    <3>. QED BY <1>1, <2>1, <3>1 DEF TodoFits, line
  <2>2. CASE kind = "waveshare"
    <3>1. \A reduced : Poll(reduced) = <<ReadRelay>>
      BY <2>2, PollType
    <3>. QED BY <1>1, <2>2, <3>1 DEF TodoFits, line, PromptInv, Paused
  <2>. QED BY <2>1, <2>2 DEF TodoFits
<1>3. LineFits' /\ Mine' /\ ValuesFit'
  BY <1>1 DEF LineFits, Mine, ValuesFit, line
<1>4. RelayFits'
  <2>. SUFFICES ASSUME faults = 0, kind = "waveshare", stage' = "idle"
                PROVE  shown["relay"] = relay
    BY <1>1 DEF RelayFits, line
  <2>1. \A reduced : Poll(reduced) = <<ReadRelay>>
    BY PollType
  <2>2. stage = "idle"
    BY <1>1, <2>1
  <2>. QED BY <2>2 DEF RelayFits
<1>. QED BY <1>2, <1>3, <1>4

LEMMA RestartFits == Fits /\ (RestarterStep \/ UNCHANGED vars) => Fits'
<1>. SUFFICES ASSUME Fits, UNCHANGED <<device, line>> PROVE Fits'
  BY DEF RestarterStep, vars
<1>. USE DEF Fits, device, line
<1>1. TodoFits' /\ Mine' /\ RelayFits' /\ ValuesFit'
  BY DEF TodoFits, Mine, RelayFits, ValuesFit
<1>2. LineFits'
  BY DEF LineFits
<1>. QED BY <1>1, <1>2

\* No stale, foreign or mistaken answer is shown for a register of another
\* length, function or device; without an answer that comes after the next request
\* each value is that of its register; and while every answer is as it should be,
\* the relay is shown as it is (modbus/modbus.go:60, modbusDevice/modbus.go): for
\* any list of registers, with names that occur twice, and any number of faults.
THEOREM ShowsWhatFits == Spec => []ShownFits
<1>1. Fits => ShownFits
  <2>. SUFFICES ASSUME Fits PROVE ShownFits
    OBVIOUS
  <2>1. kind = "waveshare" /\ stage = "idle" /\ faults = 0 => shown["relay"] = relay
    BY DEF Fits, RelayFits
  <2>. QED BY <2>1 DEF Fits, ValuesFit, ShownFits
<1>2. PromptInv /\ Fits /\ [Next]_vars => PromptInv' /\ Fits'
  <2>1. PromptInv /\ [Next]_vars => PromptInv'
    BY SendStep, ArriveStep, OtherStep, StepsStep, LoopStep, RestartStep DEF Next
  <2>2. PromptInv /\ Fits /\ [Next]_vars => Fits'
    BY SendFits, ArriveFits, OtherFits, StepSucceedsFits, StepFailsFits, LoopFits, RestartFits
       DEF Next, Steps
  <2>. QED BY <2>1, <2>2
<1>. QED BY <1>1, <1>2, PromptInit, InitFits, PTL DEF Spec

-----------------------------------------------------------------------------
\* What getRestartInterval returns after n immediate errors in a row.
LEMMA Backoff ==
  ASSUME NEW n \in Nat
  PROVE  /\ getRestartInterval(n) <= MaxBackoff
         /\ ~Overflows(Doubled(n)) =>
              getRestartInterval(n) = IF Doubled(n) < MaxBackoff THEN Doubled(n) ELSE MaxBackoff
<1>. USE IntervalAssumption, RangeAssumption
<1>. PICK d : d = Doubled(n)
  OBVIOUS
<1>1. d = RestartInterval * BackoffFactor(n)
  BY DEF Doubled, BackoffFactor
<1>2. d \in Int
  <2>1. BackoffFactor(n) \in Int
    BY DEF BackoffFactor
  <2>. QED BY <1>1, <2>1
<1>3. Wrapped(d) \in Int
  BY <1>2 DEF Wrapped
<1>5. getRestartInterval(n) = IF Wrapped(d) > MaxBackoff THEN MaxBackoff ELSE Wrapped(d)
  BY <1>1 DEF getRestartInterval
<1>. QED BY <1>2, <1>3, <1>5 DEF Overflows

\* The wait before a retry is the interval, doubled for each immediate error in a
\* row, up to the configured maximum (restarter.go:113); for any durations, which
\* the configuration does not check against each other: the exception is what
\* overflows, an interval of more than 39 hours at the 16th doubling.
THEOREM WaitIsExponential == Spec => []ExponentialUpToMaximum
<1>. DEFINE IInv == errorsInARow \in Nat /\ ExponentialUpToMaximum
<1>1. Init => IInv
  BY DEF Init, RestarterInit, ExponentialUpToMaximum
<1>2. IInv /\ [Next]_vars => IInv'
  <2>. SUFFICES ASSUME IInv, [Next]_vars PROVE IInv'
    OBVIOUS
  <2>. USE DEF rvars, device, line
  <2>1. ASSUME NEW immediate \in BOOLEAN, ServiceFails(immediate) PROVE IInv'
    <3>1. errorsInARow' \in Nat /\ retryIn' = getRestartInterval(errorsInARow')
      BY <2>1 DEF ServiceFails
    <3>. QED BY <3>1, Backoff DEF ExponentialUpToMaximum
  <2>2. RunFails => IInv'
    BY <2>1 DEF RunFails
  <2>3. CASE Stop \/ RestarterStep
    BY <2>3 DEF Stop, ServiceStops, RestarterStep, Start, Retry, GiveUp, Shutdown,
                ShutdownReturns, ExponentialUpToMaximum
  <2>4. CASE (\E u \in Users : Send(u)) \/ Arrive \/ OtherReturns \/ Begin
    BY <2>4 DEF Send, Arrive, OtherReturns, Begin, ExponentialUpToMaximum
  <2>5. CASE StepSucceeds \/ StepRetries \/ WriteGivenUp
    BY <2>5 DEF StepSucceeds, StepRetries, WriteGivenUp, ExponentialUpToMaximum
  <2>6. CASE Tick \/ (\E v \in {"open", "closed"} : Command(v)) \/ UNCHANGED vars
    BY <2>6 DEF Tick, Command, vars, ExponentialUpToMaximum
  <2>. QED BY <2>2, <2>3, <2>4, <2>5, <2>6 DEF Next, Steps, Loop
<1>. QED BY <1>1, <1>2, PTL DEF Spec
=============================================================================
