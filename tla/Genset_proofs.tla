---------------------------- MODULE Genset_proofs ----------------------------
(***************************************************************************)
(* Theorems of GensetController and of GensetDevice, the controller among  *)
(* the routines that run it, for every choice of their constants.          *)
(***************************************************************************)
EXTENDS GensetDevice, TLAPS

USE DEF MaxIterations

-----------------------------------------------------------------------------
(* Lemmas about the pure functions of module Genset.                       *)

\* The transition function stays within the nodes.
LEMMA NodeType ==
  ASSUME NEW p \in ParamSet, NEW i \in InputSet, NEW s \in StateSet
  PROVE  computeStateNode(p, i, s) \in Nodes
BY DEF computeStateNode, SingleStateTransition, Nodes, StateSet

\* computeState and computeOutputs return a State and Outputs.
LEMMA ResultTypes ==
  ASSUME NEW p \in ParamSet, NEW i \in InputSet, NEW s \in StateSet
  PROVE  /\ computeState(p, i, s) \in StateSet
         /\ computeOutputs(p, i, s) \in OutputSet
<1>1. computeState(p, i, s) \in StateSet
  BY NodeType DEF computeState, StateSet, InputSet
<1>2. timeInState(i, s) \in Int
  BY DEF timeInState, StateSet, InputSet
<1>3. ioCheck(p, i) \in BOOLEAN /\ outputCheck(p, i) \in BOOLEAN
  BY DEF ioCheck, outputCheck, Within
<1>4. computeOutputs(p, i, s) \in OutputSet
  BY <1>2, <1>3 DEF computeOutputs, OutputSet
<1>. QED BY <1>1, <1>4

\* How many transitions can still follow one another under fixed inputs.
Rank(i, n) ==
  IF i.ResetSwitch THEN IF n = "Reset" THEN 0 ELSE 1
  ELSE IF masterSwitch(i)
    THEN CASE n \in {"Error", "Reset"} -> 0
           [] n = "Producing" -> 1
           [] n \in {"WarmUp", "EngineCoolDown"} -> 2
           [] n = "Cranking" -> 3
           [] n = "Priming" -> 4
           [] n \in {"Ready", "EnclosureCoolDown"} -> 5
           [] n = "Off" -> 6
    ELSE CASE n = "Error" -> 0
           [] n = "Ready" -> 1
           [] n \in {"Off", "Priming", "Cranking", "EnclosureCoolDown"} -> 2
           [] n \in {"Reset", "EngineCoolDown", "WarmUp"} -> 3
           [] n = "Producing" -> 4

LEMMA RankBounds ==
  ASSUME NEW i \in InputSet, NEW n \in Nodes
  PROVE  Rank(i, n) \in 0..6
BY DEF Rank, Nodes

\* A computed node other than the present one has a smaller rank.
LEMMA RankDecreases ==
  ASSUME NEW p \in ParamSet, NEW i \in InputSet, NEW s \in StateSet,
         computeStateNode(p, i, s) # s.Node
  PROVE  Rank(i, computeStateNode(p, i, s)) < Rank(i, s.Node)
<1>1. s.Node \in Nodes
  BY DEF StateSet
<1>2. CASE i.ResetSwitch
  BY <1>2 DEF Rank, computeStateNode
<1>3. CASE ~i.ResetSwitch /\ computeStateNode(p, i, s) = "Error"
  <2>1. s.Node \in IoGuarded
    BY <1>1, <1>3 DEF computeStateNode, SingleStateTransition, IoGuarded,
                      OutputGuarded, Nodes
  <2>. QED BY <1>3, <2>1 DEF Rank, IoGuarded, Nodes
<1>4. CASE ~i.ResetSwitch /\ computeStateNode(p, i, s) # "Error"
  <2>. DEFINE n == SingleStateTransition(p, i, s)
  <2>1. computeStateNode(p, i, s) = n /\ n # s.Node
    BY <1>4 DEF computeStateNode
  <2>2. CASE masterSwitch(i)
    <3>1. \/ s.Node = "Off" /\ n = "Ready"
          \/ s.Node \in {"Ready", "EnclosureCoolDown"} /\ n = "Priming"
          \/ s.Node = "Priming" /\ n = "Cranking"
          \/ s.Node = "Cranking" /\ n \in {"WarmUp", "Error"}
          \/ s.Node \in {"WarmUp", "EngineCoolDown"} /\ n = "Producing"
      BY <1>1, <2>1, <2>2 DEF SingleStateTransition, Nodes
    <3>. HIDE DEF n
    <3>. QED BY <1>4, <2>1, <2>2, <3>1 DEF Rank
  <2>3. CASE ~masterSwitch(i)
    <3>1. \/ s.Node = "Reset" /\ n = "Off"
          \/ s.Node \in {"Off", "Priming", "Cranking", "EnclosureCoolDown"} /\ n = "Ready"
          \/ s.Node \in {"WarmUp", "EngineCoolDown"} /\ n = "EnclosureCoolDown"
          \/ s.Node = "Producing" /\ n = "EngineCoolDown"
      BY <1>1, <2>1, <2>3 DEF SingleStateTransition, Nodes
    <3>. HIDE DEF n
    <3>. QED BY <1>4, <2>1, <2>3, <3>1 DEF Rank
  <2>. QED BY <2>2, <2>3
<1>. QED BY <1>2, <1>3, <1>4

\* The state is a fixed point of computeState when its node is.
LEMMA FixedPoint ==
  ASSUME NEW p \in ParamSet, NEW i \in InputSet, NEW s \in StateSet
  PROVE  computeState(p, i, s) = s <=> computeStateNode(p, i, s) = s.Node
BY DEF computeState, StateSet

\* Writing one input with a value of its type gives inputs again, Time untouched.
LEMMA SetterType ==
  ASSUME NEW i \in InputSet, NEW f \in DOMAIN InputValues, NEW v \in InputValues[f]
  PROVE  /\ [i EXCEPT ![f] = v] \in InputSet
         /\ [i EXCEPT ![f] = v].Time = i.Time
<1>1. f \in SwitchFields \cup MeasuredFields /\ f # "Time"
  BY InputValuesAssumption DEF SwitchFields, MeasuredFields
<1>2. f \in SwitchFields => v \in BOOLEAN
  BY InputValuesAssumption
<1>3. f \in MeasuredFields => v \in Int
  BY InputValuesAssumption DEF SwitchFields, MeasuredFields
<1>. QED BY <1>1, <1>2, <1>3 DEF InputSet, SwitchFields, MeasuredFields

-----------------------------------------------------------------------------
(* The invariants.                                                         *)

USE ParamsAssumption, InitialInputsAssumption

\* The controller in any surroundings that change its inputs as they like, but
\* never set the time back: those of GensetController and those of GensetDevice.
Change == \E i \in InputSet : i.Time >= inputs.Time /\ Receive(i)

AnyNext == Run \/ ComputeState \/ ComputeOutputs \/ Change \/ End \/ Stop

AnySpec == Init /\ [][AnyNext]_vars

LEMMA Changed ==
  ASSUME TypeOK, Change
  PROVE  /\ pc = "idle" /\ pc' = "compute" /\ iter' = 0
         /\ inputs' \in InputSet /\ inputs'.Time >= inputs.Time
         /\ lockout' = LockoutAfterInput(inputs')
         /\ UNCHANGED <<state, outputs, closed, run>>
BY DEF Change, Receive

\* A setter leaves the time alone, a tick moves it forward.
LEMMA Received == TypeOK /\ (UpdateInputs \/ Tick) => Change
<1>. SUFFICES ASSUME TypeOK, UpdateInputs \/ Tick PROVE Change
  OBVIOUS
<1>1. CASE UpdateInputs
  <2>0. PICK f \in DOMAIN InputValues :
          \E v \in InputValues[f] : Receive([inputs EXCEPT ![f] = v])
    BY <1>1 DEF UpdateInputs
  <2>1. PICK v \in InputValues[f] : Receive([inputs EXCEPT ![f] = v])
    BY <2>0
  <2>. DEFINE i == [inputs EXCEPT ![f] = v]
  <2>2. i \in InputSet /\ i.Time = inputs.Time
    BY SetterType DEF TypeOK
  <2>3. i.Time >= inputs.Time
    BY <2>2 DEF InputSet, TypeOK
  <2>. QED BY <2>1, <2>2, <2>3 DEF Change
<1>2. CASE Tick
  <2>1. PICK d \in TickSteps : Receive([inputs EXCEPT !.Time = inputs.Time + d])
    BY <1>2 DEF Tick
  <2>2. d \in Nat
    BY TickStepsAssumption
  <2>3. /\ [inputs EXCEPT !.Time = inputs.Time + d] \in InputSet
        /\ [inputs EXCEPT !.Time = inputs.Time + d].Time >= inputs.Time
    BY <2>2 DEF TypeOK, InputSet
  <2>. QED BY <2>1, <2>3 DEF Change
<1>. QED BY <1>1, <1>2

LEMMA TypeInit == Init => TypeOK
<1>. SUFFICES ASSUME Init PROVE TypeOK
  OBVIOUS
<1>1. state \in StateSet
  BY DEF Init, StateSet, Nodes, InputSet
<1>2. outputs \in OutputSet
  BY <1>1, ResultTypes DEF Init
<1>3. run \in [start : Int, loaded : BOOLEAN, unload : Int]
  BY DEF Init, InputSet
<1>4. lockout \in {"no", "needReset", "needMasterOff"}
  BY DEF Init
<1>5. inputs \in InputSet /\ iter \in 0..MaxIterations
  BY DEF Init
<1>7. closed \in BOOLEAN
  BY Zenon DEF Init
<1>6. pc \in {"new", "first", "compute", "idle", "ended"}
  BY DEF Init
<1>. QED BY <1>1, <1>2, <1>3, <1>4, <1>5, <1>6, <1>7 DEF TypeOK

LEMMA TypeStep == TypeOK /\ [AnyNext]_vars => TypeOK'
<1>. SUFFICES ASSUME TypeOK, [AnyNext]_vars PROVE TypeOK'
  OBVIOUS
<1>1. CASE Run
  BY <1>1 DEF Run, TypeOK
<1>2. CASE ComputeState
  <2>1. state' \in StateSet
    BY <1>2, ResultTypes DEF ComputeState, TypeOK
  <2>2. run' \in [start : Int, loaded : BOOLEAN, unload : Int]
    BY <1>2 DEF ComputeState, TypeOK, RunAfter, InputSet
  <2>. QED BY <1>2, <2>1, <2>2 DEF ComputeState, Computing, TypeOK
<1>3. CASE ComputeOutputs
  BY <1>3, ResultTypes DEF ComputeOutputs, TypeOK
<1>4. CASE Change
  BY <1>4, Changed DEF TypeOK, LockoutAfterInput
<1>5. CASE End
  BY <1>5 DEF End, TypeOK
<1>6. CASE Stop
  BY <1>6 DEF Stop, TypeOK
<1>7. CASE UNCHANGED vars
  BY <1>7 DEF vars, TypeOK
<1>. QED BY <1>1, <1>2, <1>3, <1>4, <1>5, <1>6, <1>7 DEF AnyNext

LEMMA AnyTypeCorrect == AnySpec => []TypeOK
BY TypeInit, TypeStep, PTL DEF AnySpec

\* The setters and the ticker of GensetController are such surroundings.
LEMMA SpecIsAny == Spec => AnySpec
<1>1. TypeOK /\ [Next]_vars => [AnyNext]_vars
  BY Received DEF Next, AnyNext
<1>. QED BY <1>1, TypeInit, TypeStep, PTL DEF Spec, AnySpec

\* Every variable keeps its type, for all parameters and input values.
THEOREM TypeCorrect == Spec => []TypeOK
BY SpecIsAny, AnyTypeCorrect, PTL

\* The strengthening for Settled: the iterations done and the transitions that
\* can still follow never add up to more than the loop allows.
Converging ==
  /\ pc \in Computing => iter + Rank(inputs, state.Node) <= MaxIterations
  /\ Settled

LEMMA AnySettles == AnySpec => []Settled
<1>1. Init => Converging
  BY DEF Init, Converging, Settled, AtRest, Computing
<1>2. TypeOK /\ Converging /\ [AnyNext]_vars => Converging'
  <2>. SUFFICES ASSUME TypeOK, Converging, [AnyNext]_vars PROVE Converging'
    OBVIOUS
  <2>. USE DEF Converging, Settled, AtRest, Computing
  <2>1. CASE Run
    <3>1. Rank(inputs, state.Node) \in 0..6
      BY RankBounds DEF TypeOK, StateSet
    <3>. QED BY <2>1, <3>1 DEF Run
  <2>2. CASE ComputeState
    <3>1. computeStateNode(Params, inputs, state) # state.Node
      BY <2>2, FixedPoint DEF ComputeState, TypeOK
    <3>2. Rank(inputs, state'.Node) < Rank(inputs, state.Node)
      BY <2>2, <3>1, RankDecreases DEF ComputeState, TypeOK, computeState
    <3>3. /\ Rank(inputs, state.Node) \in 0..6
          /\ Rank(inputs, state'.Node) \in 0..6
      BY <2>2, RankBounds, ResultTypes DEF ComputeState, TypeOK, StateSet
    <3>. QED BY <2>2, <3>2, <3>3 DEF ComputeState, TypeOK
  <2>3. CASE ComputeOutputs
    <3>1. computeState(Params, inputs, state) = state
      <4>1. SUFFICES ASSUME iter = 8,
                            computeStateNode(Params, inputs, state) # state.Node
                     PROVE  FALSE
        BY <2>3, FixedPoint DEF ComputeOutputs, TypeOK
      <4>2. Rank(inputs, computeStateNode(Params, inputs, state))
              < Rank(inputs, state.Node)
        BY <4>1, RankDecreases DEF TypeOK
      <4>3. /\ Rank(inputs, state.Node) \in 0..6
            /\ Rank(inputs, computeStateNode(Params, inputs, state)) \in 0..6
        BY RankBounds, NodeType DEF TypeOK, StateSet
      <4>. QED BY <2>3, <4>1, <4>2, <4>3 DEF ComputeOutputs
    <3>. QED BY <2>3, <3>1 DEF ComputeOutputs
  <2>4. CASE Change
    <3>1. pc' = "compute" /\ iter' = 0 /\ inputs' \in InputSet /\ state' = state
      BY <2>4, Changed
    <3>2. Rank(inputs', state'.Node) \in 0..6
      BY <3>1, RankBounds DEF TypeOK, StateSet
    <3>. QED BY <3>1, <3>2
  <2>5. CASE End
    BY <2>5 DEF End
  <2>6. CASE Stop
    BY <2>6 DEF Stop
  <2>7. CASE UNCHANGED vars
    BY <2>7 DEF vars
  <2>. QED BY <2>1, <2>2, <2>3, <2>4, <2>5, <2>6, <2>7 DEF AnyNext
<1>3. Converging => Settled
  BY DEF Converging
<1>. QED BY <1>1, <1>2, <1>3, AnyTypeCorrect, PTL DEF AnySpec

\* compute() reaches the final state within its eight iterations, so at rest
\* no transition is due and the outputs are current (controller.go:177).
THEOREM Settles == Spec => []Settled
BY SpecIsAny, AnySettles, PTL

-----------------------------------------------------------------------------
(* Consequences of settling for what is driven.                            *)

\* The per-phase reading of the limits is what outputCheck computes.
LEMMA SupplyCheck ==
  ASSUME NEW i \in InputSet
  PROVE  SupplyGood(i) <=> outputCheck(Params, i)
<1>1. CASE Params.SinglePhase
  BY <1>1 DEF SupplyGood, outputCheck, Within, Phases, Voltage, Power, TotalPower,
              InputSet, ParamSet
<1>2. CASE ~Params.SinglePhase
  BY <1>2 DEF SupplyGood, outputCheck, Within, Phases, Voltage, Power, TotalPower,
              InputSet, ParamSet
<1>. QED BY <1>1, <1>2

\* A node that is final for its inputs satisfies the checks its outputs need.
LEMMA FinalNode ==
  ASSUME NEW p \in ParamSet, NEW i \in InputSet, NEW s \in StateSet,
         computeStateNode(p, i, s) = s.Node
  PROVE  /\ s.Node \in IoGuarded => ioCheck(p, i) /\ ~i.ResetSwitch
         /\ s.Node = "Producing" => masterSwitch(i) /\ outputCheck(p, i)
         /\ s.Node = "Cranking" => /\ masterSwitch(i) /\ ~outputCheck(p, i)
                                   /\ i.Time - s.Changed < p.CrankingTimeout
BY DEF computeStateNode, SingleStateTransition, IoGuarded, OutputGuarded, timeInState,
       InputSet, StateSet, ParamSet

\* The outputs that drive the machine, by node.
LEMMA OutputsByNode ==
  ASSUME NEW p, NEW i, NEW s, NEW o, o = computeOutputs(p, i, s)
  PROVE  /\ o.Fan <=> s.Node \in FanNodes
         /\ o.Pump <=> s.Node \in PumpNodes
         /\ o.Ignition <=> s.Node \in IgnitionNodes
         /\ o.Load <=> s.Node = "Producing"
         /\ o.Starter <=> s.Node = "Cranking"
BY DEF computeOutputs

LEMMA AnyProtects == AnySpec => []OutputsProtected
<1>1. TypeOK /\ Settled => OutputsProtected
  <2>. SUFFICES ASSUME TypeOK, Settled, AtRest
                PROVE  /\ outputs.Fan => ioCheck(Params, inputs) /\ ~inputs.ResetSwitch
                       /\ outputs.Ignition => outputs.Pump /\ outputs.Fan
                       /\ outputs.Load => /\ masterSwitch(inputs) /\ SupplyGood(inputs)
                                          /\ outputs.Ignition
                       /\ outputs.Starter =>
                            /\ masterSwitch(inputs) /\ ~SupplyGood(inputs)
                            /\ inputs.Time - state.Changed < Params.CrankingTimeout
    BY DEF OutputsProtected
  <2>1. computeStateNode(Params, inputs, state) = state.Node
    BY FixedPoint DEF Settled, TypeOK
  <2>2. /\ outputs.Fan <=> state.Node \in FanNodes
        /\ outputs.Pump <=> state.Node \in PumpNodes
        /\ outputs.Ignition <=> state.Node \in IgnitionNodes
        /\ outputs.Load <=> state.Node = "Producing"
        /\ outputs.Starter <=> state.Node = "Cranking"
    BY OutputsByNode DEF Settled
  <2>3. /\ state.Node \in IoGuarded => ioCheck(Params, inputs) /\ ~inputs.ResetSwitch
        /\ state.Node = "Producing" => masterSwitch(inputs) /\ outputCheck(Params, inputs)
        /\ state.Node = "Cranking" => 
             /\ masterSwitch(inputs) /\ ~outputCheck(Params, inputs)
             /\ inputs.Time - state.Changed < Params.CrankingTimeout
    BY <2>1, FinalNode DEF TypeOK
  <2>4. SupplyGood(inputs) <=> outputCheck(Params, inputs)
    BY SupplyCheck DEF TypeOK
  <2>5. state.Node \in FanNodes => state.Node \in IoGuarded
    BY DEF FanNodes, PumpNodes, IgnitionNodes, IoGuarded, Nodes
  <2>6. outputs.Ignition => outputs.Pump /\ outputs.Fan
    BY <2>2 DEF FanNodes, PumpNodes
  <2>7. outputs.Load => outputs.Ignition
    BY <2>2 DEF IgnitionNodes
  <2>. QED BY <2>2, <2>3, <2>4, <2>5, <2>6, <2>7
<1>. QED BY <1>1, AnyTypeCorrect, AnySettles, PTL

\* At rest no output is driven against its checks, for all parameters.
THEOREM Protects == Spec => []OutputsProtected
BY SpecIsAny, AnyProtects, PTL

LEMMA AnyBounds == AnySpec => []PhasesBounded
<1>1. TypeOK /\ Settled => PhasesBounded
  <2>. SUFFICES ASSUME TypeOK, Settled, AtRest, state.Node \in TimedNodes
                PROVE  inputs.Time - state.Changed < Longest(state.Node)
    BY DEF PhasesBounded
  <2>1. /\ computeStateNode(Params, inputs, state) = state.Node
        /\ inputs \in InputSet /\ state \in StateSet
    BY FixedPoint DEF Settled, TypeOK
  <2>2. SingleStateTransition(Params, inputs, state) = state.Node
    BY <2>1 DEF computeStateNode, TimedNodes
  <2>. QED
    BY <2>1, <2>2 DEF SingleStateTransition, PhaseOver, timeInState, Longest, TimedNodes,
                      InputSet, StateSet, ParamSet
<1>. QED BY <1>1, AnyTypeCorrect, AnySettles, PTL

\* At rest no phase with a timeout has outlasted it, for all parameters.
THEOREM Bounds == Spec => []PhasesBounded
BY SpecIsAny, AnyBounds, PTL

-----------------------------------------------------------------------------
(* Over several runs of the engine.                                        *)

\* The strengthening for LockoutHolds: while the lockout lasts the node is Error
\* or Reset, but for the moment between the pressing of the reset switch and
\* the transition it causes.
Locked ==
  /\ lockout = "needReset" => state.Node = "Error" /\ ~inputs.ResetSwitch
  /\ lockout = "needMasterOff" =>
       \/ state.Node = "Reset" /\ (inputs.ResetSwitch \/ masterSwitch(inputs))
       \/ pc \in {"new", "first", "compute"} /\ inputs.ResetSwitch

LEMMA AnyLocksOut == AnySpec => []LockoutHolds
<1>1. Init => Locked
  BY DEF Init, Locked
<1>2. TypeOK /\ Settled' /\ Locked /\ [AnyNext]_vars => Locked'
  <2>. SUFFICES ASSUME TypeOK, Settled', Locked, [AnyNext]_vars PROVE Locked'
    OBVIOUS
  <2>. USE DEF Locked
  <2>1. CASE Run
    BY <2>1 DEF Run
  <2>2. CASE ComputeState
    <3>1. /\ state'.Node = computeStateNode(Params, inputs, state)
          /\ inputs' = inputs /\ pc' = pc
          /\ lockout' = IF state'.Node = "Error" THEN "needReset" ELSE lockout
          /\ state'.Node # state.Node
      BY <2>2, FixedPoint DEF ComputeState, computeState, TypeOK
    <3>2. CASE inputs.ResetSwitch
      BY <2>2, <3>1, <3>2 DEF computeStateNode, ComputeState
    <3>3. CASE ~inputs.ResetSwitch
      <4>1. state.Node = "Error" => state'.Node = "Error"
        BY <3>1, <3>3 DEF computeStateNode, SingleStateTransition, IoGuarded, OutputGuarded
      <4>2. state.Node = "Reset" /\ masterSwitch(inputs) => state'.Node = "Reset"
        BY <3>1, <3>3 DEF computeStateNode, SingleStateTransition, IoGuarded, OutputGuarded
      <4>. QED BY <3>1, <3>3, <4>1, <4>2
    <3>. QED BY <3>2, <3>3
  <2>3. CASE ComputeOutputs
    <3>1. /\ pc \in Computing /\ pc' = "idle"
          /\ inputs' = inputs /\ state' = state /\ lockout' = lockout
      BY <2>3 DEF ComputeOutputs
    <3>2. computeStateNode(Params, inputs, state) = state.Node
      BY <3>1, FixedPoint DEF Settled, AtRest, TypeOK
    <3>3. inputs.ResetSwitch => state.Node = "Reset"
      BY <3>2 DEF computeStateNode
    <3>. QED BY <3>1, <3>3
  <2>4. CASE Change
    BY <2>4, Changed DEF LockoutAfterInput
  <2>5. CASE End
    BY <2>5 DEF End
  <2>6. CASE Stop
    BY <2>6 DEF Stop
  <2>7. CASE UNCHANGED vars
    BY <2>7 DEF vars, masterSwitch
  <2>. QED BY <2>1, <2>2, <2>3, <2>4, <2>5, <2>6, <2>7 DEF AnyNext
<1>3. TypeOK /\ Settled /\ Locked => LockoutHolds
  <2>. SUFFICES ASSUME TypeOK, Settled, Locked, AtRest, lockout # "no"
                PROVE  /\ ~outputs.Ignition /\ ~outputs.Pump
                       /\ state.Node \in {"Error", "Reset"}
    BY DEF LockoutHolds
  <2>1. state.Node \in {"Error", "Reset"}
    BY DEF Locked, AtRest, TypeOK
  <2>2. /\ outputs.Pump <=> state.Node \in PumpNodes
        /\ outputs.Ignition <=> state.Node \in IgnitionNodes
    BY OutputsByNode DEF Settled
  <2>. QED BY <2>1, <2>2 DEF PumpNodes, IgnitionNodes
<1>. QED BY <1>1, <1>2, <1>3, AnyTypeCorrect, AnySettles, PTL DEF AnySpec

\* No restart after a failure without reset and master off (gensetDevice/README.md).
THEOREM LocksOut == Spec => []LockoutHolds
BY SpecIsAny, AnyLocksOut, PTL

\* The strengthening of the two history invariants: the run's record fits the node.
RunRecorded ==
  /\ state.Node = "WarmUp" => /\ ~run.loaded /\ run.start = state.Changed
                              /\ state.Changed <= inputs.Time
  /\ state.Node = "EngineCoolDown" => run.unload = state.Changed
  /\ WarmBeforeLoad
  /\ CooledDown

LEMMA AnyRunsInOrder == AnySpec => [](WarmBeforeLoad /\ CooledDown)
<1>. USE DEF RunRecorded, WarmBeforeLoad, CooledDown
<1>1. Init => RunRecorded
  BY DEF Init
<1>2. TypeOK /\ RunRecorded /\ [AnyNext]_vars => RunRecorded'
  <2>. SUFFICES ASSUME TypeOK, RunRecorded, [AnyNext]_vars PROVE RunRecorded'
    OBVIOUS
  <2>1. CASE Run
    BY <2>1 DEF Run
  <2>2. CASE ComputeState
    <3>1. /\ state'.Node = computeStateNode(Params, inputs, state)
          /\ state'.Node # state.Node
          /\ state'.Changed = inputs.Time
          /\ run' = RunAfter(state', inputs.Time)
          /\ inputs' = inputs
      BY <2>2, FixedPoint DEF ComputeState, computeState, TypeOK
    <3>2. state'.Node \in Nodes
      BY <3>1, NodeType DEF TypeOK
    <3>3. CASE state'.Node \in {"Error", "Reset"}
      BY <3>1, <3>3 DEF RunAfter, TypeOK
    <3>4. CASE state'.Node \notin {"Error", "Reset"}
      <4>1. state'.Node = SingleStateTransition(Params, inputs, state)
        BY <3>1, <3>4 DEF computeStateNode
      <4>2. CASE state'.Node = "WarmUp"
        BY <3>1, <4>2 DEF RunAfter, TypeOK, InputSet
      <4>3. CASE state'.Node = "Producing"
        <5>1. \/ state.Node = "EngineCoolDown"
              \/ state.Node = "WarmUp" /\ timeInState(inputs, state) >= Params.WarmUpMinTime
          BY <3>1, <4>1, <4>3 DEF SingleStateTransition, PhaseOver
        <5>2. run'.start = run.start
          BY <3>1, <4>3 DEF RunAfter, TypeOK
        <5>. QED BY <3>1, <4>3, <5>1, <5>2 DEF timeInState, TypeOK, InputSet, StateSet
      <4>4. CASE state'.Node = "EngineCoolDown"
        <5>1. state.Node = "Producing"
          BY <3>1, <4>1, <4>4 DEF SingleStateTransition
        <5>2. run'.start = run.start /\ run'.unload = inputs.Time
          BY <3>1, <4>4 DEF RunAfter, TypeOK
        <5>. QED BY <3>1, <4>4, <5>1, <5>2 DEF TypeOK, InputSet, StateSet
      <4>5. CASE state'.Node = "EnclosureCoolDown"
        <5>1. \/ state.Node = "WarmUp"
              \/ /\ state.Node = "EngineCoolDown"
                 /\ timeInState(inputs, state) >= Params.EngineCoolDownMinTime
          BY <3>1, <4>1, <4>5 DEF SingleStateTransition, PhaseOver
        <5>2. run'.loaded = run.loaded /\ run'.unload = run.unload
          BY <3>1, <4>5 DEF RunAfter, TypeOK
        <5>. QED BY <3>1, <4>5, <5>1, <5>2 DEF timeInState, TypeOK, InputSet, StateSet
      <4>6. CASE state'.Node \in {"Off", "Ready", "Priming", "Cranking"}
        <5>1. state.Node \notin {"Producing", "EngineCoolDown"}
          BY <3>1, <4>1, <4>6 DEF SingleStateTransition
        <5>2. run' = run
          BY <3>1, <4>6 DEF RunAfter
        <5>. QED BY <3>1, <4>6, <5>1, <5>2
      <4>. QED BY <3>2, <3>4, <4>2, <4>3, <4>4, <4>5, <4>6 DEF Nodes
    <3>. QED BY <3>3, <3>4
  <2>3. CASE ComputeOutputs
    BY <2>3 DEF ComputeOutputs
  <2>4. CASE Change
    BY <2>4, Changed DEF TypeOK, InputSet, StateSet, ParamSet
  <2>5. CASE End
    BY <2>5 DEF End
  <2>6. CASE Stop
    BY <2>6 DEF Stop
  <2>7. CASE UNCHANGED vars
    BY <2>7 DEF vars
  <2>. QED BY <2>1, <2>2, <2>3, <2>4, <2>5, <2>6, <2>7 DEF AnyNext
<1>3. RunRecorded => WarmBeforeLoad /\ CooledDown
  OBVIOUS
<1>. QED BY <1>1, <1>2, <1>3, AnyTypeCorrect, PTL DEF AnySpec

\* The load is connected after the warm-up time and an engine that carried load
\* is stopped after the cool-down time only, for all parameters.
THEOREM RunsInOrder == Spec => [](WarmBeforeLoad /\ CooledDown)
BY SpecIsAny, AnyRunsInOrder, PTL

-----------------------------------------------------------------------------
LEMMA AnyImplements == AnySpec => EngineSpec
<1>1. Init => Engine!Init
  BY DEF Init, Engine!Init, PhaseOf
<1>2. TypeOK /\ [AnyNext]_vars => [Engine!Next]_(PhaseOf(state.Node))
  <2>. SUFFICES ASSUME TypeOK, [AnyNext]_vars, state' # state
                PROVE  Engine!Next \/ PhaseOf(state.Node)' = PhaseOf(state.Node)
    BY Zenon
  <2>1. /\ state'.Node = computeStateNode(Params, inputs, state)
        /\ state.Node \in Nodes
    BY FixedPoint, Changed
       DEF AnyNext, vars, Run, ComputeState, ComputeOutputs, End, Stop, computeState,
           TypeOK, StateSet
  <2>. QED BY <2>1
           DEF computeStateNode, SingleStateTransition, IoGuarded, OutputGuarded, Nodes,
               PhaseOf, Engine!Next, Engine!Crank, Engine!Catch, Engine!Connect,
               Engine!Disconnect, Engine!TurnOff, Engine!CutOff, Engine!Release
<1>. QED BY <1>1, <1>2, AnyTypeCorrect, PTL DEF AnySpec, EngineSpec, Engine!Spec

\* The controller implements EnginePhases: every transition of the code maps to
\* a step of the promise or to a stutter.
THEOREM Implements == Spec => EngineSpec
BY SpecIsAny, AnyImplements, PTL

-----------------------------------------------------------------------------
(* The controller among the routines of the device.                        *)

\* What the clock needs of remainders: a natural number is a multiple of t and
\* its remainder, and counting on goes through the remainders in turn.
LEMMA DivMod ==
  ASSUME NEW a \in Nat, NEW t \in Nat \ {0}, NEW r \in Int, r = a % t
  PROVE  \E q \in Int : a = t * q + r
<1>1. PICK d \in Int : d = a \div t
  OBVIOUS
<1>2. a - t * d = a % t
  BY <1>1
<1>3. a = t * d + r
  BY <1>2
<1>. QED BY <1>3

LEMMA ModStep ==
  ASSUME NEW a \in Nat, NEW t \in Nat \ {0}
  PROVE  /\ a % t \in 0..(t - 1)
         /\ (a + 1) % t = IF (a % t) + 1 = t THEN 0 ELSE (a % t) + 1
<1>0. a % t \in 0..(t - 1) /\ (a + 1) % t \in 0..(t - 1)
  OBVIOUS
<1>1. PICK r \in 0..(t - 1), s \in 0..(t - 1) : r = a % t /\ s = (a + 1) % t
  BY <1>0
<1>2. PICK q \in Int : a = t * q + r
  <2>1. r \in Int /\ r = a % t
    BY <1>1
  <2>. QED BY <2>1, DivMod, Zenon
<1>3. PICK p \in Int : a + 1 = t * p + s
  <2>1. a + 1 \in Nat /\ s \in Int /\ s = (a + 1) % t
    BY <1>1
  <2>. QED BY <2>1, DivMod, Zenon
<1>4. PICK k \in Int : k = p - q
  OBVIOUS
<1>5. t * k = r + 1 - s
  BY <1>2, <1>3, <1>4
<1>6. k \in {0, 1}
  <2>1. t * k >= 2 - t /\ t * k <= t
    BY <1>5
  <2>2. ~(k <= -1)
    BY <2>1
  <2>3. ~(k >= 2)
    BY <2>1
  <2>. QED BY <2>2, <2>3
<1>7. CASE k = 0
  <2>1. r + 1 = s
    BY <1>5, <1>7
  <2>. QED BY <1>0, <1>1, <2>1
<1>8. CASE k = 1
  <2>1. r + 1 - s = t
    BY <1>5, <1>8
  <2>. QED BY <1>0, <1>1, <2>1
<1>. QED BY <1>6, <1>7, <1>8

LEMMA ModZero == ASSUME NEW t \in Nat \ {0} PROVE 0 % t = 0
<1>1. PICK d \in Int : d = 0 \div t
  OBVIOUS
<1>2. 0 - t * d = 0 % t /\ 0 % t \in 0..(t-1)
  BY <1>1
<1>3. d = 0
  BY <1>2
<1>. QED BY <1>2, <1>3

USE DeviceAssumption

\* What the registers of the state storage may have as values.
Contents == BOOLEAN \cup Int \cup Nodes \cup OutputSet

\* What is filled into the state storage; a bound register has values of the
\* type of its input.
Entries ==
  {e \in [key : StateKeys, val : Contents] :
     \A f \in Bound : e.key = <<"bound", f>> => e.val \in InputValues[f]}

\* What the device fills of its own.
OwnEntries == {e \in Entries : \E r \in Own : e.key = <<"genset", r>>}

QueueTypes ==
  /\ queue \in [Bound -> Seq(Contents)]
  /\ \A f \in Bound : queue[f] \in Seq(InputValues[f]) /\ initial[f] \in Maybe(InputValues[f])
  /\ initial \in [Bound -> Maybe(Contents)]

SetterTypes ==
  /\ setter \in [Bound -> {"recv", "send", "fill", "ended"}]
  /\ held \in [Bound -> Maybe(Contents)]
  /\ \A f \in Bound : setter[f] \in {"send", "fill"} => held[f] \in Maybe(InputValues[f]) \ {<<>>}

USE DEF QueueTypes, SetterTypes

\* The type invariant of the device.
DeviceTypes ==
  /\ TypeOK
  /\ toFill \in Seq(OwnEntries) /\ input \in Seq(Entries)
  /\ forwarding \in Maybe(Entries)
  /\ stored \in [StateKeys -> Maybe(Contents)]
  /\ QueueTypes /\ SetterTypes
  /\ last \in [Bound -> Maybe(Contents)]

\* The time since the ticker last fired.
Since == (now - StartTime) % TickEvery

\* The time of the last tick the controller has taken, or the start.
Seen == IF inputs.Time = 0 THEN StartTime ELSE inputs.Time

\* The time of the last tick taken from the ticker's channel.
Taken == IF tickSend # 0 THEN tickSend ELSE Seen

\* A tick is in the channel, no more than a period and the longest wait after
\* the one before it; or the channel is empty, and the last tick fired was taken,
\* or dropped while the one taken before it waited.
Clocked ==
  /\ now \in Nat /\ now >= StartTime /\ tickerC \in Nat /\ tickSend \in Nat /\ late \in Nat
  /\ inputs.Time >= 0 /\ Seen >= StartTime /\ Seen <= now
  /\ tickSend # 0 => /\ tickSend >= Seen /\ tickSend <= Seen + TickEvery + late
                     /\ tickSend <= now /\ now - tickSend <= late
  /\ IF tickerC # 0
       THEN /\ tickerC >= Taken /\ tickerC <= Taken + TickEvery + late
            /\ tickerC <= now /\ now - tickerC <= late
       ELSE Taken >= now - Since - late

\* Bound registers are inputs, but not the time, and none of the device's own.
LEMMA BoundFields ==
  /\ Bound \subseteq SwitchFields \cup MeasuredFields
  /\ "Time" \notin Bound /\ Bound \cap Own = {}
  /\ \A f \in Bound : InputValues[f] \subseteq Contents
  /\ \A f \in Bound : <<"bound", f>> \in StateKeys /\ <<"genset", f>> \in StateKeys
  /\ \A r \in Own : <<"genset", r>> \in StateKeys
<1>1. Bound \subseteq SwitchFields \cup MeasuredFields
  BY InputValuesAssumption DEF Bound
<1>2. "Time" \notin Bound /\ Bound \cap Own = {}
  BY <1>1 DEF SwitchFields, MeasuredFields, Own
<1>3. \A f \in Bound : InputValues[f] \subseteq BOOLEAN \cup Int
  BY InputValuesAssumption DEF Bound
<1>. QED BY <1>1, <1>2, <1>3 DEF Contents, StateKeys

\* An entry for a register of the device itself.
LEMMA OwnEntry ==
  ASSUME NEW r \in Own, NEW v \in Contents
  PROVE  Value("genset", r, v) \in OwnEntries
BY BoundFields DEF Value, Entries, OwnEntries

LEMMA InputEntry ==
  ASSUME NEW f \in Bound, NEW v \in InputValues[f]
  PROVE  Value("bound", f, v) \in Entries /\ Value("genset", f, v) \in Entries
<1>1. v \in Contents /\ <<"bound", f>> \in StateKeys /\ <<"genset", f>> \in StateKeys
  BY BoundFields
<1>2. \A g \in Bound : <<"bound", f>> = <<"bound", g>> => f = g
  OBVIOUS
<1>3. \A g \in Bound : <<"genset", f>> # <<"bound", g>>
  OBVIOUS
<1>. QED BY <1>1, <1>2, <1>3 DEF Value, Entries

LEMMA Fills ==
  ASSUME NEW s \in StateSet, NEW o \in OutputSet
  PROVE  StateFills(s) \in Seq(OwnEntries) /\ OutputFills(o) \in Seq(OwnEntries)
<1>1. s.Node \in Contents /\ s.Changed \in Contents /\ o \in Contents
  BY DEF StateSet, Contents
<1>2. /\ Value("genset", "State", s.Node) \in OwnEntries
      /\ Value("genset", "StateChanged", s.Changed) \in OwnEntries
      /\ Value("genset", "Outputs", o) \in OwnEntries
  BY <1>1, OwnEntry DEF Own
<1>. QED BY <1>2 DEF StateFills, OutputFills

\* A change that meets the controller's receive.
LEMMA Accepted ==
  ASSUME TypeOK, NEW i \in InputSet, i.Time >= inputs.Time, Accept(i)
  PROVE  /\ [AnyNext]_vars /\ inputs' = i /\ UNCHANGED <<state, outputs>>
         /\ pc = "idle" /\ pc' # "new" /\ toFill = <<>>
BY DEF Accept, Change, AnyNext, Receive, vars

LEMMA SetterAccepted ==
  ASSUME DeviceTypes, NEW f \in Bound, SetterSends(f)
  PROVE  \E v \in InputValues[f] :
           /\ held[f] = <<v>> /\ setter[f] = "send" /\ Accept([inputs EXCEPT ![f] = v])
           /\ [inputs EXCEPT ![f] = v] \in InputSet
           /\ [inputs EXCEPT ![f] = v].Time = inputs.Time
<1>1. PICK v \in InputValues[f] : held[f] = <<v>>
  BY DEF SetterSends, DeviceTypes, Maybe
<1>2. setter[f] = "send" /\ Accept([inputs EXCEPT ![f] = v])
  BY <1>1 DEF SetterSends
<1>3. /\ [inputs EXCEPT ![f] = v] \in InputSet
      /\ [inputs EXCEPT ![f] = v].Time = inputs.Time
  BY SetterType DEF DeviceTypes, TypeOK, Bound
<1>. QED BY <1>1, <1>2, <1>3

LEMMA TickAccepted ==
  ASSUME DeviceTypes, Clocked, TickerSends
  PROVE  /\ Accept([inputs EXCEPT !.Time = tickSend]) /\ tickSend # 0 /\ tickSend' = 0
         /\ [inputs EXCEPT !.Time = tickSend] \in InputSet
         /\ [inputs EXCEPT !.Time = tickSend].Time = tickSend
         /\ tickSend >= inputs.Time
<1>1. /\ Accept([inputs EXCEPT !.Time = tickSend]) /\ tickSend # 0 /\ tickSend' = 0
      /\ tickSend >= inputs.Time /\ tickSend \in Int /\ inputs \in InputSet
  <2>1. tickSend # 0 /\ tickSend \in Nat /\ inputs.Time \in Int /\ inputs \in InputSet
    BY DEF TickerSends, DeviceTypes, TypeOK, InputSet, Clocked
  <2>2. tickSend >= Seen
    BY <2>1 DEF Clocked
  <2>3. tickSend >= inputs.Time
    BY <2>1, <2>2 DEF Seen
  <2>. QED BY <2>1, <2>3 DEF TickerSends
<1>2. \A i \in InputSet, t \in Int : /\ [i EXCEPT !.Time = t] \in InputSet
                                     /\ [i EXCEPT !.Time = t].Time = t
  BY DEF InputSet
<1>. QED BY <1>1, <1>2

\* Each step of the device is one of the controller, or leaves it alone.
LEMMA DeviceStepIsAny == DeviceTypes /\ Clocked /\ [DeviceNext]_dvars => [AnyNext]_vars
<1>. SUFFICES ASSUME DeviceTypes, Clocked, [DeviceNext]_dvars PROVE [AnyNext]_vars
  OBVIOUS
<1>0. TypeOK
  BY DEF DeviceTypes
<1>1. ASSUME NEW f \in Bound, SetterSends(f) PROVE [AnyNext]_vars
  <2>1. PICK v \in InputValues[f] :
           /\ Accept([inputs EXCEPT ![f] = v])
           /\ [inputs EXCEPT ![f] = v] \in InputSet
           /\ [inputs EXCEPT ![f] = v].Time = inputs.Time
    BY <1>1, SetterAccepted
  <2>2. [inputs EXCEPT ![f] = v].Time >= inputs.Time
    BY <1>0, <2>1 DEF TypeOK, InputSet
  <2>. QED BY <1>0, <2>1, <2>2, Accepted
<1>2. CASE TickerSends
  BY <1>0, <1>2, TickAccepted, Accepted
<1>3. CASE UNCHANGED vars
  BY <1>3
<1>4. CASE \/ ControllerRuns \/ ControllerComputesState \/ ControllerComputesOutputs
           \/ ControllerStops \/ RunEnds
  BY <1>4 DEF ControllerRuns, ControllerComputesState, ControllerComputesOutputs,
              ControllerStops, RunEnds, AnyNext
<1>. QED
  BY <1>1, <1>2, <1>3, <1>4
  DEF DeviceNext, ControllerFills, StoreTake, StoreForward, Produce, SetterReceives, SendInitial,
      SetterFills, SetterEnds, Advance, TickerReceives, Cancel, RunLeaves, SendPanics, dvars

-----------------------------------------------------------------------------
LEMMA DeviceTypesInit == DeviceInit => DeviceTypes
<1>. SUFFICES ASSUME DeviceInit PROVE DeviceTypes
  OBVIOUS
<1>1. TypeOK
  BY TypeInit DEF DeviceInit
<1>2. Value("genset", "Available", TRUE) \in Entries
  BY OwnEntry DEF Own, Contents, OwnEntries
<1>3. toFill \in Seq(OwnEntries) /\ input \in Seq(Entries) /\ forwarding \in Maybe(Entries)
  <2>1. PICK e \in Entries : e = Value("genset", "Available", TRUE)
    BY <1>2
  <2>2. /\ input = <<e>> /\ toFill = <<>> /\ forwarding = <<>>
        /\ <<e>> \in Seq(Entries) /\ <<>> \in Seq(OwnEntries)
    <3>1. input = <<e>> /\ toFill = <<>> /\ forwarding = <<>>
      BY <2>1 DEF DeviceInit
    <3>2. <<e>> \in Seq(Entries)
      OBVIOUS
    <3>. QED BY <3>1, <3>2
  <2>. QED BY <2>2 DEF Maybe
<1>4. /\ initial \in [Bound -> Maybe(Contents)] /\ last \in [Bound -> Maybe(Contents)]
      /\ stored \in [StateKeys -> Maybe(Contents)]
      /\ \A f \in Bound : initial[f] \in Maybe(InputValues[f])
  <2>1. /\ \A f \in Bound : initial[f] \in Maybe(InputValues[f])
        /\ initial = [f \in Bound |-> initial[f]]
    BY DEF DeviceInit
  <2>2. \A f \in Bound : initial[f] \in Maybe(Contents)
    BY <2>1, BoundFields DEF Maybe
  <2>3. \A k \in StateKeys : k[1] = "bound" => k[2] \in Bound
    BY DEF StateKeys
  <2>4. stored = [k \in StateKeys |-> IF k[1] = "bound" THEN initial[k[2]] ELSE <<>>] /\ last = initial
    BY DEF DeviceInit
  <2>5. <<>> \in Maybe(Contents)
    BY DEF Maybe
  <2>. QED BY <2>1, <2>2, <2>3, <2>4, <2>5
<1>5. queue \in [Bound -> Seq(Contents)] /\ \A f \in Bound : queue[f] \in Seq(InputValues[f])
  BY DEF DeviceInit
<1>6. setter \in [Bound -> {"recv", "send", "fill", "ended"}] /\ held \in [Bound -> Maybe(Contents)]
  BY DEF DeviceInit, Maybe
<1>7. \A f \in Bound : setter[f] = "recv"
  BY DEF DeviceInit
<1>. QED BY <1>1, <1>3, <1>4, <1>5, <1>6, <1>7 DEF DeviceTypes

LEMMA ClockedInit == DeviceInit => Clocked
<1>. SUFFICES ASSUME DeviceInit PROVE Clocked
  OBVIOUS
<1>1. /\ now = StartTime /\ late = 0 /\ tickerC = 0 /\ tickSend = 0 /\ inputs.Time = 0
      /\ now - StartTime = 0
  BY DEF DeviceInit, Init
<1>2. Since = 0
  BY <1>1, ModZero DEF Since
<1>. QED BY <1>1, <1>2 DEF Clocked, Seen, Taken

\* The ticker last fired less than a period ago, and the time of the last tick
\* is that much behind, the longest wait, and once more where one waits now.
LEMMA SinceRange == ASSUME Clocked PROVE Since \in 0..(TickEvery - 1)
<1>1. PICK n \in Nat : n = now - StartTime
  BY DEF Clocked
<1>. QED BY <1>1, ModStep DEF Since

LEMMA SeenRecent ==
  ASSUME DeviceTypes, Clocked
  PROVE  Seen <= now /\ Seen >= now - TickEvery - 2 * late
<1>1. PICK d \in 0..(TickEvery - 1) : d = Since
  BY SinceRange
<1>2. inputs.Time \in Int
  BY DEF DeviceTypes, TypeOK, InputSet
<1>3. PICK i \in Int : i = Seen
  BY <1>2 DEF Seen
<1>. QED BY <1>1, <1>3 DEF Clocked, Taken

LEMMA ClockedStep == DeviceTypes /\ Clocked /\ [DeviceNext]_dvars => Clocked'
<1>. SUFFICES ASSUME DeviceTypes, Clocked, [DeviceNext]_dvars PROVE Clocked'
  OBVIOUS
<1>0. TypeOK /\ inputs.Time \in Int
  BY DEF DeviceTypes, TypeOK, InputSet
<1>1. ASSUME UNCHANGED clock, inputs'.Time = inputs.Time PROVE Clocked'
  BY <1>1 DEF clock, Clocked, Since, Seen, Taken
<1>2. ASSUME NEW f \in Bound, SetterSends(f) PROVE Clocked'
  <2>1. PICK v \in InputValues[f] :
           /\ Accept([inputs EXCEPT ![f] = v])
           /\ [inputs EXCEPT ![f] = v] \in InputSet
           /\ [inputs EXCEPT ![f] = v].Time = inputs.Time
    BY <1>2, SetterAccepted
  <2>2. [inputs EXCEPT ![f] = v].Time >= inputs.Time
    BY <1>0, <2>1
  <2>3. inputs' = [inputs EXCEPT ![f] = v]
    BY <1>0, <2>1, <2>2, Accepted
  <2>4. inputs'.Time = inputs.Time
    BY <2>1, <2>3
  <2>5. UNCHANGED clock
    BY <1>2 DEF SetterSends
  <2>. QED BY <1>1, <2>4, <2>5
<1>3. CASE TickerSends
  <2>1. inputs'.Time = tickSend /\ tickSend # 0 /\ tickSend' = 0
    BY <1>0, <1>3, TickAccepted, Accepted
  <2>2. UNCHANGED <<now, late, tickerC>>
    BY <1>3 DEF TickerSends
  <2>3. Seen' = tickSend /\ Taken' = tickSend /\ Taken = tickSend /\ Since' = Since
    BY <2>1, <2>2 DEF Seen, Taken, Since
  <2>4. inputs'.Time >= 0 /\ tickSend >= StartTime /\ tickSend <= now
    <3>1. Seen \in Int
      BY <1>0 DEF Seen
    <3>. QED BY <2>1, <3>1 DEF Clocked
  <2>. QED BY <2>1, <2>2, <2>3, <2>4 DEF Clocked
<1>4. CASE TickerReceives
  <2>1. /\ tickerC # 0 /\ tickSend = 0 /\ tickSend' = tickerC /\ tickerC' = 0
        /\ UNCHANGED <<inputs, now, late>>
    BY <1>4 DEF TickerReceives, vars
  <2>2. Seen' = Seen /\ Taken' = tickerC /\ Taken = Seen /\ Since' = Since
    BY <2>1 DEF Seen, Taken, Since
  <2>3. PICK i \in Int, d \in 0..(TickEvery - 1) : i = Seen /\ d = Since
    BY <1>0, SinceRange DEF Seen
  <2>. QED BY <2>1, <2>2, <2>3 DEF Clocked
<1>5. CASE Advance
  <2>1. /\ now' = now + 1 /\ UNCHANGED <<inputs, tickSend>>
        /\ tickerC' = IF Since' = 0 /\ tickerC = 0 THEN now' ELSE tickerC
        /\ late' = IF Waited' > late THEN Waited' ELSE late
    BY <1>5 DEF Advance, vars, Since
  <2>2. PICK n \in Nat : n = now - StartTime
    BY DEF Clocked
  <2>3. now' - StartTime = n + 1
    BY <2>1, <2>2 DEF Clocked
  <2>4. Since = n % TickEvery /\ Since' = (n + 1) % TickEvery
    BY <2>2, <2>3 DEF Since
  <2>5. /\ Since \in 0..(TickEvery - 1)
        /\ Since' = IF Since + 1 = TickEvery THEN 0 ELSE Since + 1
    BY <2>4, ModStep
  <2>6. PICK d \in 0..(TickEvery - 1), e \in 0..(TickEvery - 1) :
          d = Since /\ e = Since' /\ e = IF d + 1 = TickEvery THEN 0 ELSE d + 1
    BY <2>5
  <2>7. Seen' = Seen /\ Taken' = Taken
    BY <2>1 DEF Seen, Taken
  <2>8. PICK i \in Int, t \in Int, n0 \in Nat, c \in Nat, p \in Nat, l0 \in Nat :
          /\ i = Seen /\ t = Taken /\ n0 = now /\ c = tickerC /\ p = tickSend /\ l0 = late
          /\ t = IF p # 0 THEN p ELSE i
    BY <1>0 DEF Seen, Taken, Clocked
  <2>9. PICK c1 \in Nat, l1 \in Nat :
          /\ c1 = tickerC' /\ c1 = IF e = 0 /\ c = 0 THEN n0 + 1 ELSE c
          /\ l1 = late' /\ l1 >= l0
          /\ p # 0 => n0 + 1 - p <= l1
          /\ p = 0 /\ c1 # 0 => n0 + 1 - c1 <= l1
    <3>1. tickerC' = IF e = 0 /\ c = 0 THEN n0 + 1 ELSE c
      BY <2>1, <2>6, <2>8
    <3>2. PICK c1 \in Nat : c1 = tickerC'
      BY <3>1
    <3>3. Waited' = IF p # 0 THEN n0 + 1 - p ELSE IF c1 # 0 THEN n0 + 1 - c1 ELSE 0
      BY <2>1, <2>8, <3>2 DEF Waited
    <3>4. PICK x \in Int : x = Waited'
      BY <3>3
    <3>5. late' = IF x > l0 THEN x ELSE l0
      BY <2>1, <2>8, <3>4
    <3>. HIDE DEF Clocked
    <3>6. PICK l1 \in Nat : l1 = late' /\ l1 >= l0 /\ l1 >= x
      BY <2>8, <3>4, <3>5
    <3>. QED BY <2>8, <3>1, <3>2, <3>3, <3>4, <3>6
  <2>10. /\ i <= n0
         /\ p # 0 => p >= i /\ p <= i + TickEvery + l0 /\ p <= n0 /\ n0 - p <= l0
         /\ IF c # 0 THEN c >= t /\ c <= t + TickEvery + l0 /\ c <= n0 /\ n0 - c <= l0
            ELSE t >= n0 - d - l0
    BY <2>6, <2>8 DEF Clocked
  <2>11. /\ p # 0 => p <= i + TickEvery + l1 /\ p <= n0 + 1 /\ n0 + 1 - p <= l1
         /\ IF c1 # 0 THEN c1 >= t /\ c1 <= t + TickEvery + l1 /\ c1 <= n0 + 1 /\ n0 + 1 - c1 <= l1
            ELSE t >= n0 + 1 - e - l1
    <3>1. TickEvery \in Nat \ {0} /\ d \in 0..(TickEvery - 1) /\ e \in 0..(TickEvery - 1)
      BY <2>6
    <3>2. /\ i \in Int /\ p \in Nat /\ c \in Nat /\ n0 \in Nat /\ l0 \in Nat /\ t \in Int
          /\ c1 \in Nat /\ l1 \in Nat /\ t = IF p # 0 THEN p ELSE i
      BY <2>8, <2>9
    <3>3. /\ e = IF d + 1 = TickEvery THEN 0 ELSE d + 1
          /\ c1 = IF e = 0 /\ c = 0 THEN n0 + 1 ELSE c
          /\ l1 >= l0 /\ (p # 0 => n0 + 1 - p <= l1) /\ (p = 0 /\ c1 # 0 => n0 + 1 - c1 <= l1)
      BY <2>6, <2>9
    <3>4. p # 0 => p <= i + TickEvery + l1 /\ p <= n0 + 1 /\ n0 + 1 - p <= l1
      BY <2>10, <3>1, <3>2, <3>3
    <3>5. CASE c # 0
      BY <2>10, <3>1, <3>2, <3>3, <3>4, <3>5
    <3>6. CASE c = 0 /\ e = 0
      <4>1. c1 = n0 + 1 /\ d = TickEvery - 1
        BY <3>1, <3>2, <3>3, <3>6
      <4>2. t >= n0 - d - l0 /\ t <= n0
        BY <2>10, <3>1, <3>2, <3>6
      <4>. QED BY <3>1, <3>2, <3>3, <3>4, <4>1, <4>2
    <3>7. CASE c = 0 /\ e # 0
      <4>1. c1 = 0 /\ e = d + 1 /\ t >= n0 - d - l0
        BY <2>10, <3>1, <3>2, <3>3, <3>7
      <4>. QED BY <3>1, <3>2, <3>3, <3>4, <4>1
    <3>. QED BY <3>2, <3>5, <3>6, <3>7
  <2>12. /\ now' = n0 + 1 /\ tickSend' = p /\ tickerC' = c1 /\ late' = l1 /\ Since' = e
         /\ Seen' = i /\ Taken' = t /\ inputs'.Time = inputs.Time /\ inputs.Time >= 0
         /\ i >= StartTime
    BY <2>1, <2>6, <2>7, <2>8, <2>9 DEF Clocked
  <2>13. /\ now' \in Nat /\ now' >= StartTime /\ tickerC' \in Nat /\ tickSend' \in Nat
         /\ late' \in Nat /\ Seen' <= now'
    BY <2>8, <2>10, <2>12
  <2>14. p # 0 => p >= i
    BY <2>10
  <2>. QED BY <2>11, <2>12, <2>13, <2>14 DEF Clocked
<1>6. CASE \/ ControllerRuns \/ ControllerComputesState \/ ControllerComputesOutputs
           \/ ControllerStops \/ RunEnds
  <2>1. UNCHANGED <<clock, inputs>>
    BY <1>6 DEF ControllerRuns, ControllerComputesState, ControllerComputesOutputs,
                ControllerStops, RunEnds, Run, ComputeState, ComputeOutputs, Stop, End
  <2>. QED BY <1>1, <2>1
<1>7. CASE UNCHANGED <<clock, vars>>
  BY <1>1, <1>7 DEF vars
<1>. QED
  BY <1>2, <1>3, <1>4, <1>5, <1>6, <1>7
  DEF DeviceNext, ControllerFills, StoreTake, StoreForward, Produce, SetterReceives, SendInitial,
      SetterFills, SetterEnds, Cancel, RunLeaves, SendPanics, dvars

\* What a receive and a send do to a channel.
LEMMA HeadAndTail ==
  ASSUME NEW S, NEW q \in Seq(S), q # <<>>
  PROVE  /\ Head(q) \in S /\ Tail(q) \in Seq(S) /\ Len(Tail(q)) = Len(q) - 1
         /\ Head(q) = q[1] /\ \A i \in 1..(Len(q) - 1) : Tail(q)[i] = q[i + 1]
OBVIOUS

LEMMA Appended ==
  ASSUME NEW S, NEW q \in Seq(S), NEW e \in S
  PROVE  /\ Append(q, e) \in Seq(S) /\ Len(Append(q, e)) = Len(q) + 1
         /\ Append(q, e)[Len(q) + 1] = e
         /\ \A i \in 1..Len(q) : Append(q, e)[i] = q[i]
OBVIOUS

\* The entry a step appends to the channel of the storage.
Fill(e) ==
  \/ \E f \in Bound : \E v \in InputValues[f] :
       Produce(f) /\ e = Value("bound", f, v) /\ last' = [last EXCEPT ![f] = <<v>>]
  \/ \E f \in Bound : \E v \in InputValues[f] :
       SetterFills(f) /\ held[f] = <<v>> /\ e = Value("genset", f, v)
  \/ ControllerFills /\ e = Head(toFill) /\ e \in OwnEntries
  \/ RunLeaves /\ e = Value("genset", "Available", FALSE)

\* What a step does to the storage: nothing, or it takes an entry from its
\* channel, or it appends one to it.
LEMMA StoreStep ==
  ASSUME DeviceTypes, [DeviceNext]_dvars
  PROVE  \/ UNCHANGED <<input, stored>>
         \/ StoreTake
         \/ \E e \in Entries : input' = Append(input, e) /\ stored' = stored /\ Fill(e)
<1>. USE DEF store
<1>. DEFINE Appends(e) == input' = Append(input, e) /\ stored' = stored /\ Fill(e)
<1>1. ASSUME NEW f \in Bound, Produce(f) PROVE \E e \in Entries : Appends(e)
  <2>1. PICK v \in InputValues[f] :
          input' = Append(input, Value("bound", f, v)) /\ last' = [last EXCEPT ![f] = <<v>>]
    BY <1>1 DEF Produce
  <2>2. stored' = stored
    BY <1>1 DEF Produce
  <2>3. Value("bound", f, v) \in Entries
    BY InputEntry
  <2>4. Fill(Value("bound", f, v))
    BY <1>1, <2>1 DEF Fill
  <2>. QED BY <2>1, <2>2, <2>3, <2>4
<1>2. ASSUME NEW f \in Bound, SetterFills(f) PROVE \E e \in Entries : Appends(e)
  <2>1. PICK v \in InputValues[f] : held[f] = <<v>>
    BY <1>2 DEF SetterFills, DeviceTypes, Maybe
  <2>2. stored' = stored /\ input' = Append(input, Value("genset", f, v))
    BY <1>2, <2>1 DEF SetterFills
  <2>3. Value("genset", f, v) \in Entries
    BY InputEntry
  <2>4. Fill(Value("genset", f, v))
    BY <1>2, <2>1 DEF Fill
  <2>. QED BY <2>2, <2>3, <2>4
<1>3. ASSUME ControllerFills PROVE \E e \in Entries : Appends(e)
  <2>1. Head(toFill) \in OwnEntries
    BY <1>3, HeadAndTail DEF ControllerFills, DeviceTypes
  <2>. QED BY <1>3, <2>1 DEF ControllerFills, OwnEntries, Fill
<1>4. ASSUME RunLeaves PROVE \E e \in Entries : Appends(e)
  <2>1. Value("genset", "Available", FALSE) \in Entries
    BY OwnEntry DEF Own, Contents, OwnEntries
  <2>. QED BY <1>4, <2>1 DEF RunLeaves, Fill
<1>. HIDE DEF Appends
<1>5. ASSUME \/ ControllerRuns \/ ControllerComputesState \/ ControllerComputesOutputs
             \/ ControllerStops \/ RunEnds
      PROVE  UNCHANGED <<input, stored>>
  BY <1>5 DEF ControllerRuns, ControllerComputesState, ControllerComputesOutputs,
              ControllerStops, RunEnds
<1>6. UNCHANGED <<input, stored>> \/ StoreTake \/ \E e \in Entries : Appends(e)
  BY <1>1, <1>2, <1>3, <1>4, <1>5
  DEF DeviceNext, StoreForward, SetterReceives, SendInitial, SetterSends, SetterEnds, Advance,
      TickerReceives, TickerSends, Cancel, SendPanics, dvars
<1>. QED BY <1>6 DEF Appends

LEMMA DeviceTypesStep == DeviceTypes /\ TypeOK' /\ [DeviceNext]_dvars => DeviceTypes'
<1>. SUFFICES ASSUME DeviceTypes, TypeOK', [DeviceNext]_dvars PROVE DeviceTypes'
  OBVIOUS
<1>0. TypeOK
  BY DEF DeviceTypes
<1>1. input' \in Seq(Entries) /\ stored' \in [StateKeys -> Maybe(Contents)]
  <2>1. CASE UNCHANGED <<input, stored>>
    BY <2>1 DEF DeviceTypes
  <2>2. CASE StoreTake
    <3>1. Head(input) \in Entries /\ input' \in Seq(Entries)
      BY <2>2, HeadAndTail DEF StoreTake, DeviceTypes
    <3>2. PICK v \in Entries : v = Head(input)
      BY <3>1
    <3>3. v.key \in StateKeys /\ v.val \in Contents
      BY DEF Entries
    <3>4. stored' = stored \/ stored' = [stored EXCEPT ![v.key] = <<v.val>>]
      BY <2>2, <3>2 DEF StoreTake
    <3>. QED BY <3>1, <3>3, <3>4 DEF DeviceTypes, Maybe
  <2>3. CASE \E e \in Entries : input' = Append(input, e) /\ stored' = stored
    BY <2>3, Appended DEF DeviceTypes
  <2>4. \/ UNCHANGED <<input, stored>> \/ StoreTake
        \/ \E e \in Entries : input' = Append(input, e) /\ stored' = stored
    BY StoreStep, Zenon
  <2>. QED BY <2>1, <2>2, <2>3, <2>4
<1>2. toFill' \in Seq(OwnEntries)
  <2>1. CASE UNCHANGED toFill
    BY <2>1 DEF DeviceTypes
  <2>2. CASE ControllerFills
    BY <2>2, HeadAndTail DEF ControllerFills, DeviceTypes
  <2>3. CASE ControllerRuns
    <3>1. StateFills(state) \in Seq(OwnEntries) /\ OutputFills(outputs) \in Seq(OwnEntries)
      BY <1>0, Fills DEF TypeOK
    <3>2. toFill' = StateFills(state) \o OutputFills(outputs)
      BY <2>3 DEF ControllerRuns
    <3>. QED BY <3>1, <3>2
  <2>4. CASE ControllerComputesState
    <3>1. state' \in StateSet /\ outputs \in OutputSet
      BY <1>0 DEF TypeOK
    <3>2. StateFills(state') \in Seq(OwnEntries)
      BY <3>1, Fills
    <3>. QED BY <2>4, <3>2 DEF ControllerComputesState
  <2>5. CASE ControllerComputesOutputs
    <3>1. outputs' \in OutputSet /\ state \in StateSet
      BY <1>0 DEF TypeOK
    <3>2. OutputFills(outputs') \in Seq(OwnEntries) /\ <<>> \in Seq(OwnEntries)
      BY <3>1, Fills
    <3>. QED BY <2>5, <3>2 DEF ControllerComputesOutputs
  <2>. QED
    BY <2>1, <2>2, <2>3, <2>4, <2>5
    DEF DeviceNext, StoreTake, StoreForward, Produce, SetterReceives, SendInitial, SetterSends, SetterFills,
        SetterEnds, Advance, TickerReceives, TickerSends, Cancel, RunEnds, RunLeaves,
        ControllerStops, SendPanics, dvars
<1>3. forwarding' \in Maybe(Entries)
  <2>1. CASE StoreTake
    <3>1. PICK v \in Entries : v = Head(input)
      BY <2>1, HeadAndTail DEF StoreTake, DeviceTypes
    <3>2. forwarding' = forwarding \/ forwarding' = <<v>>
      BY <2>1, <3>1 DEF StoreTake
    <3>. QED BY <3>2 DEF DeviceTypes, Maybe
  <2>2. CASE StoreForward
    BY <2>2 DEF StoreForward, Maybe
  <2>3. CASE UNCHANGED forwarding
    BY <2>3 DEF DeviceTypes
  <2>. QED
    BY <2>1, <2>2, <2>3
    DEF DeviceNext, Produce, SetterReceives, SendInitial, SetterSends, SetterFills, SetterEnds, Advance,
        TickerReceives, TickerSends, Cancel, RunEnds, RunLeaves, SendPanics, dvars, store,
        ControllerRuns, ControllerComputesState, ControllerComputesOutputs, ControllerFills,
        ControllerStops
<1>4. QueueTypes'
  <2>1. CASE StoreForward /\ forwarding[1].key[1] = "bound"
    <3>1. PICK v \in Entries : forwarding = <<v>>
      BY <2>1 DEF StoreForward, DeviceTypes, Maybe
    <3>2. PICK f : v.key = <<"bound", f>> /\ f \in Bound
      BY <2>1, <3>1, BoundFields DEF Entries, StateKeys
    <3>3. v.val \in InputValues[f] /\ v.val \in Contents
      BY <3>2 DEF Entries
    <3>4. queue' = [queue EXCEPT ![f] = Append(queue[f], v.val)]
      BY <2>1, <3>1, <3>2 DEF StoreForward
    <3>5. Append(queue[f], v.val) \in Seq(InputValues[f]) /\ Append(queue[f], v.val) \in Seq(Contents)
      BY <3>2, <3>3, Appended DEF DeviceTypes
    <3>6. initial' = initial
      BY <2>1 DEF StoreForward
    <3>. QED BY <3>2, <3>4, <3>5, <3>6 DEF DeviceTypes
  <2>2. ASSUME NEW f \in Bound, SetterReceives(f) PROVE QueueTypes'
    <3>1. Tail(queue[f]) \in Seq(InputValues[f]) /\ Tail(queue[f]) \in Seq(Contents)
      BY <2>2, HeadAndTail DEF SetterReceives, DeviceTypes
    <3>. QED BY <2>2, <3>1 DEF SetterReceives, DeviceTypes
  <2>3. ASSUME NEW f \in Bound, SendInitial(f) PROVE QueueTypes'
    <3>1. PICK v \in InputValues[f] : initial[f] = <<v>>
      BY <2>3 DEF SendInitial, DeviceTypes, Maybe
    <3>2. v \in Contents
      BY BoundFields
    <3>3. Append(queue[f], v) \in Seq(InputValues[f]) /\ Append(queue[f], v) \in Seq(Contents)
      BY <3>2, Appended DEF DeviceTypes
    <3>4. queue' = queue \/ queue' = [queue EXCEPT ![f] = Append(queue[f], v)]
      BY <2>3, <3>1 DEF SendInitial
    <3>5. initial' = [initial EXCEPT ![f] = <<>>]
      BY <2>3 DEF SendInitial
    <3>. QED BY <3>3, <3>4, <3>5 DEF DeviceTypes, Maybe
  <2>4. CASE UNCHANGED <<queue, initial>>
    BY <2>4 DEF DeviceTypes
  <2>. QED
    BY <2>1, <2>2, <2>3, <2>4
    DEF DeviceNext, StoreTake, StoreForward, Produce, SetterSends, SetterFills, SetterEnds,
        Advance, TickerReceives, TickerSends, Cancel, RunEnds, RunLeaves, SendPanics, dvars,
        setters, subs, ControllerRuns, ControllerComputesState, ControllerComputesOutputs,
        ControllerFills, ControllerStops
<1>5. SetterTypes'
  <2>1. ASSUME NEW f \in Bound, SetterReceives(f) PROVE SetterTypes'
    <3>1. PICK v \in InputValues[f] : v = Head(queue[f])
      BY <2>1, HeadAndTail DEF SetterReceives, DeviceTypes
    <3>2. v \in Contents
      BY <3>1, BoundFields
    <3>3. setter' = [setter EXCEPT ![f] = "send"] /\ held' = [held EXCEPT ![f] = <<v>>]
      BY <2>1, <3>1 DEF SetterReceives
    <3>. QED BY <3>1, <3>2, <3>3 DEF DeviceTypes, Maybe
  <2>2. ASSUME NEW f \in Bound, SetterSends(f) PROVE SetterTypes'
    BY <2>2 DEF SetterSends, DeviceTypes
  <2>3. ASSUME NEW f \in Bound, SetterFills(f) PROVE SetterTypes'
    BY <2>3 DEF SetterFills, DeviceTypes, Maybe
  <2>4. ASSUME NEW f \in Bound, SetterEnds(f) PROVE SetterTypes'
    BY <2>4 DEF SetterEnds, DeviceTypes
  <2>6. ASSUME NEW f \in Bound, SendInitial(f) PROVE SetterTypes'
    BY <2>6 DEF SendInitial, DeviceTypes
  <2>5. CASE UNCHANGED <<setter, held>>
    BY <2>5 DEF DeviceTypes
  <2>. QED
    BY <2>1, <2>2, <2>3, <2>4, <2>5, <2>6
    DEF DeviceNext, StoreTake, StoreForward, Produce, Advance, TickerReceives, TickerSends,
        Cancel, RunEnds, RunLeaves, SendPanics, dvars, setters, subs, ControllerRuns,
        ControllerComputesState, ControllerComputesOutputs, ControllerFills, ControllerStops
<1>6. last' \in [Bound -> Maybe(Contents)]
  <2>1. ASSUME NEW f \in Bound, Produce(f) PROVE last' \in [Bound -> Maybe(Contents)]
    BY <2>1, BoundFields DEF Produce, DeviceTypes, Maybe
  <2>2. CASE UNCHANGED last
    BY <2>2 DEF DeviceTypes
  <2>. QED
    BY <2>1, <2>2
    DEF DeviceNext, StoreTake, StoreForward, SetterReceives, SendInitial, SetterSends, SetterFills, SetterEnds,
        Advance, TickerReceives, TickerSends, Cancel, RunEnds, RunLeaves, SendPanics, dvars,
        world, ControllerRuns, ControllerComputesState, ControllerComputesOutputs,
        ControllerFills, ControllerStops
<1>. QED BY <1>1, <1>2, <1>3, <1>4, <1>5, <1>6 DEF DeviceTypes

-----------------------------------------------------------------------------
\* The running device, with all its routines, is one of the surroundings the
\* controller's theorems hold in.
THEOREM DeviceIsController == DeviceSpec => AnySpec /\ [](DeviceTypes /\ Clocked)
<1>1. DeviceInit => Init /\ DeviceTypes /\ Clocked
  BY DeviceTypesInit, ClockedInit DEF DeviceInit
<1>2. DeviceTypes /\ Clocked /\ [DeviceNext]_dvars => (DeviceTypes /\ Clocked)' /\ [AnyNext]_vars
  <2>. SUFFICES ASSUME DeviceTypes, Clocked, [DeviceNext]_dvars
                PROVE  (DeviceTypes /\ Clocked)' /\ [AnyNext]_vars
    OBVIOUS
  <2>1. [AnyNext]_vars
    BY DeviceStepIsAny
  <2>2. TypeOK'
    BY <2>1, TypeStep DEF DeviceTypes
  <2>. QED BY <2>1, <2>2, DeviceTypesStep, ClockedStep
<1>. QED BY <1>1, <1>2, PTL DEF DeviceSpec, AnySpec

\* Among the routines of the device the controller settles, protects the
\* machine, leaves each phase in time, locks the engine out after a failure and
\* connects the load to a warm engine only.
THEOREM DeviceProtects ==
  DeviceSpec => [](Settled /\ OutputsProtected /\ PhasesBounded /\ LockoutHolds
                   /\ WarmBeforeLoad /\ CooledDown)
BY DeviceIsController, AnySettles, AnyProtects, AnyBounds, AnyLocksOut, AnyRunsInOrder, PTL

\* The running device starts, loads, unloads and stops the engine in the order
\* EnginePhases promises.
THEOREM DeviceImplements == DeviceSpec => EngineSpec
BY DeviceIsController, AnyImplements

-----------------------------------------------------------------------------
(* CountsRealTime: the controller sees the time at its ticks only.         *)

\* The time recorded for a state is that of a tick not long before it was
\* entered; none was recorded before the first tick only.
CountsInv ==
  /\ enteredAt \in Nat /\ enteredAt <= now
  /\ IF state.Changed = 0
       THEN enteredAt <= StartTime + TickEvery + 2 * late
       ELSE /\ inputs.Time # 0 /\ state.Changed <= enteredAt
            /\ state.Changed >= enteredAt - TickEvery - 2 * late

LEMMA CountsInit == DeviceInit => CountsInv
BY DEF DeviceInit, Init, CountsInv

LEMMA CountsStep == DeviceTypes /\ Clocked /\ CountsInv /\ [DeviceNext]_dvars => CountsInv'
<1>. SUFFICES ASSUME DeviceTypes, Clocked, CountsInv, [DeviceNext]_dvars PROVE CountsInv'
  OBVIOUS
<1>0. TypeOK
  BY DEF DeviceTypes
<1>10. state.Changed \in Int /\ inputs.Time \in Int
  BY <1>0 DEF TypeOK, StateSet, InputSet
<1>1. ASSUME UNCHANGED <<enteredAt, state>>, now' >= now, late' >= late, now' \in Nat, late' \in Nat,
             inputs.Time # 0 => inputs'.Time # 0
      PROVE  CountsInv'
  <2>1. PICK c \in Int, e \in Nat, l \in Nat, l1 \in Nat, n \in Nat, n1 \in Nat :
          /\ c = state.Changed /\ e = enteredAt /\ l = late /\ l1 = late' /\ n = now /\ n1 = now'
          /\ l1 >= l /\ n1 >= n
    BY <1>10, <1>1 DEF CountsInv, Clocked
  <2>2. state'.Changed = c /\ enteredAt' = e
    BY <1>1, <2>1
  <2>3. /\ c \in Int /\ e \in Nat /\ l \in Nat /\ l1 \in Nat /\ l1 >= l
        /\ StartTime \in Nat /\ TickEvery \in Nat
    BY <2>1
  <2>4. /\ e <= StartTime + TickEvery + 2 * l => e <= StartTime + TickEvery + 2 * l1
        /\ c >= e - TickEvery - 2 * l => c >= e - TickEvery - 2 * l1
    BY <2>3
  <2>5. /\ e <= n
        /\ IF c = 0 THEN e <= StartTime + TickEvery + 2 * l
           ELSE inputs.Time # 0 /\ c <= e /\ c >= e - TickEvery - 2 * l
    BY <2>1 DEF CountsInv
  <2>6. e <= n1
    BY <2>1, <2>5
  <2>7. IF c = 0 THEN e <= StartTime + TickEvery + 2 * l1
        ELSE inputs'.Time # 0 /\ c <= e /\ c >= e - TickEvery - 2 * l1
    BY <1>1, <2>4, <2>5, Zenon
  <2>. QED BY <2>1, <2>2, <2>6, <2>7 DEF CountsInv
<1>2. CASE ControllerComputesState
  <2>1. /\ state' = computeState(Params, inputs, state) /\ UNCHANGED <<now, late, inputs>>
        /\ computeState(Params, inputs, state) # state
        /\ enteredAt' = IF state'.Node = state.Node THEN enteredAt ELSE now
    BY <1>2 DEF ControllerComputesState, ComputeState, clock
  <2>2. state'.Node # state.Node /\ state'.Changed = inputs.Time
    <3>1. state'.Node = computeStateNode(Params, inputs, state)
      BY <2>1 DEF computeState
    <3>2. computeStateNode(Params, inputs, state) # state.Node
      BY <1>0, <2>1, FixedPoint DEF TypeOK
    <3>. QED BY <2>1, <3>1, <3>2 DEF computeState
  <2>3. Seen <= now /\ Seen >= now - TickEvery - 2 * late
    BY SeenRecent
  <2>. QED BY <1>10, <2>1, <2>2, <2>3 DEF CountsInv, Clocked, Seen
<1>3. ASSUME UNCHANGED <<enteredAt, state, now, late>>, inputs'.Time = inputs.Time PROVE CountsInv'
  BY <1>1, <1>3 DEF Clocked
<1>4. ASSUME NEW f \in Bound, SetterSends(f) PROVE CountsInv'
  <2>1. PICK v \in InputValues[f] :
           /\ Accept([inputs EXCEPT ![f] = v])
           /\ [inputs EXCEPT ![f] = v] \in InputSet
           /\ [inputs EXCEPT ![f] = v].Time = inputs.Time
    BY <1>4, SetterAccepted
  <2>2. [inputs EXCEPT ![f] = v].Time >= inputs.Time
    BY <1>10, <2>1
  <2>3. inputs' = [inputs EXCEPT ![f] = v] /\ UNCHANGED state
    BY <1>0, <2>1, <2>2, Accepted
  <2>4. inputs'.Time = inputs.Time
    BY <2>1, <2>3
  <2>5. UNCHANGED <<enteredAt, now, late>>
    BY <1>4 DEF SetterSends, clock
  <2>. QED BY <1>3, <2>3, <2>4, <2>5
<1>5. CASE TickerSends
  <2>1. inputs'.Time = tickSend /\ tickSend # 0 /\ UNCHANGED state
    BY <1>0, <1>5, TickAccepted, Accepted
  <2>2. UNCHANGED <<enteredAt, now, late>>
    BY <1>5 DEF TickerSends
  <2>. QED BY <1>1, <2>1, <2>2 DEF Clocked
<1>6. CASE Advance
  <2>1. UNCHANGED <<enteredAt, state, inputs>> /\ now' = now + 1 /\ now' \in Nat
    BY <1>6 DEF Advance, vars, Clocked
  <2>2. late' >= late /\ late' \in Nat
    <3>1. Clocked'
      BY ClockedStep
    <3>2. late' = (IF Waited' > late THEN Waited' ELSE late) /\ Waited' \in Int
      BY <1>6, <3>1 DEF Advance, Clocked, Waited
    <3>. QED BY <3>1, <3>2 DEF Clocked
  <2>. QED BY <1>1, <2>1, <2>2 DEF Clocked
<1>7. CASE \/ ControllerRuns \/ ControllerComputesOutputs \/ ControllerStops \/ RunEnds
  BY <1>3, <1>7 DEF ControllerRuns, ControllerComputesOutputs, ControllerStops, RunEnds, Run,
                    ComputeOutputs, Stop, End, clock
<1>8. ASSUME NEW f \in Bound,
             Produce(f) \/ SendInitial(f) \/ SetterReceives(f) \/ SetterFills(f) \/ SetterEnds(f)
      PROVE  UNCHANGED <<enteredAt, state, now, late, inputs>>
  BY <1>8 DEF Produce, SendInitial, SetterReceives, SetterFills, SetterEnds, clock, vars
<1>9. CASE \/ ControllerFills \/ StoreTake \/ StoreForward \/ TickerReceives \/ Cancel
           \/ RunLeaves \/ SendPanics \/ UNCHANGED dvars
  BY <1>3, <1>9 DEF ControllerFills, StoreTake, StoreForward, TickerReceives, Cancel, RunLeaves,
                    SendPanics, clock, vars, dvars
<1>. QED
  BY <1>2, <1>3, <1>4, <1>5, <1>6, <1>7, <1>8, <1>9 DEF DeviceNext

\* CountsRealTime in every reachable state.
THEOREM DeviceCountsRealTime == DeviceSpec => []CountsRealTime
<1>1. DeviceTypes /\ Clocked /\ CountsInv => CountsRealTime
  <2>. SUFFICES ASSUME DeviceTypes, Clocked, CountsInv PROVE CountsRealTime
    OBVIOUS
  <2>1. inputs.Time \in Int /\ state.Changed \in Int
    BY DEF DeviceTypes, TypeOK, InputSet, StateSet
  <2>2. Seen <= now /\ Seen >= now - TickEvery - 2 * late
    BY SeenRecent
  <2>3. timeInState(inputs, state) = inputs.Time - state.Changed
    BY DEF timeInState
  <2>4. CASE state.Changed = 0
    BY <2>4 DEF CountsInv, CountsRealTime, Clocked
  <2>5. CASE state.Changed # 0
    <3>1. /\ Seen = inputs.Time /\ state.Changed <= enteredAt /\ enteredAt \in Nat
          /\ state.Changed >= enteredAt - TickEvery - 2 * late
      BY <2>5 DEF CountsInv, Seen
    <3>. QED BY <2>1, <2>2, <2>3, <2>5, <3>1 DEF CountsRealTime, Clocked
  <2>. QED BY <2>4, <2>5
<1>. QED BY <1>1, DeviceIsController, CountsInit, CountsStep, PTL DEF DeviceSpec

-----------------------------------------------------------------------------
(* The values on their way: what is in a channel, and not yet taken.       *)

\* The last entry for register k of a sequence has the value w; or there is none.
LastEntry(q, k, w) ==
  \E i \in 1..Len(q) : /\ q[i].key = k /\ q[i].val = w
                       /\ \A j \in (i + 1)..Len(q) : q[j].key # k
NoEntry(q, k) == \A i \in 1..Len(q) : q[i].key # k

\* What a send and a receive do to the last entry for a register.
LEMMA EntryAppended ==
  ASSUME NEW S, NEW q \in Seq(S), NEW e \in S, NEW k, NEW w
  PROVE  /\ e.key = k /\ e.val = w => LastEntry(Append(q, e), k, w)
         /\ e.key # k /\ LastEntry(q, k, w) => LastEntry(Append(q, e), k, w)
         /\ e.key # k /\ NoEntry(q, k) => NoEntry(Append(q, e), k)
<1>0. Append(q, e) \in Seq(S) /\ Len(q) \in Nat
  BY Appended
<1>. PICK r \in Seq(S), n \in Nat : r = Append(q, e) /\ n = Len(q)
  BY <1>0, Zenon
<1>1. Len(r) = n + 1 /\ r[n + 1] = e /\ \A i \in 1..n : r[i] = q[i]
  BY Appended
<1>2. e.key = k /\ e.val = w => LastEntry(r, k, w)
  BY <1>1 DEF LastEntry
<1>3. e.key # k /\ LastEntry(q, k, w) => LastEntry(r, k, w)
  BY <1>1 DEF LastEntry
<1>4. e.key # k /\ NoEntry(q, k) => NoEntry(r, k)
  BY <1>1 DEF NoEntry
<1>. QED BY <1>2, <1>3, <1>4

LEMMA EntryTaken ==
  ASSUME NEW S, NEW q \in Seq(S), q # <<>>, NEW k, NEW w
  PROVE  /\ NoEntry(q, k) => Head(q).key # k /\ NoEntry(Tail(q), k)
         /\ LastEntry(q, k, w) => \/ LastEntry(Tail(q), k, w)
                                  \/ Head(q).key = k /\ Head(q).val = w /\ NoEntry(Tail(q), k)
<1>0. Tail(q) \in Seq(S) /\ Len(Tail(q)) \in Nat /\ Head(q) \in S
  BY HeadAndTail
<1>. PICK r \in Seq(S), n \in Nat, h \in S : r = Tail(q) /\ n = Len(r) /\ h = Head(q)
  BY <1>0, Zenon
<1>1. Len(q) = n + 1 /\ q[1] = h /\ \A i \in 1..n : r[i] = q[i + 1]
  BY HeadAndTail
<1>2. NoEntry(q, k) => h.key # k /\ NoEntry(r, k)
  BY <1>1 DEF NoEntry
<1>3. ASSUME LastEntry(q, k, w)
      PROVE  LastEntry(r, k, w) \/ (h.key = k /\ h.val = w /\ NoEntry(r, k))
  <2>1. PICK i \in 1..(n + 1) : /\ q[i].key = k /\ q[i].val = w
                                /\ \A j \in (i + 1)..(n + 1) : q[j].key # k
    BY <1>1, <1>3 DEF LastEntry
  <2>2. \A j \in i..n : r[j].key # k
    BY <1>1, <2>1
  <2>3. CASE i = 1
    BY <1>1, <2>1, <2>2, <2>3 DEF NoEntry
  <2>4. CASE i # 1
    <3>1. PICK p \in 1..n : p + 1 = i
      BY <2>4
    <3>2. r[p].key = k /\ r[p].val = w /\ \A j \in (p + 1)..n : r[j].key # k
      BY <1>1, <2>1, <2>2, <3>1
    <3>3. \A j \in (p + 1)..Len(r) : r[j].key # k
      BY <3>2
    <3>4. p \in 1..Len(r)
      BY <3>1
    <3>. QED BY <3>2, <3>3, <3>4 DEF LastEntry
  <2>. QED BY <2>3, <2>4
<1>. QED BY <1>2, <1>3

\* The state storage has w as the value of register k, or will have it when it
\* has taken what is in its channel.
Latest(k, w) == LastEntry(input, k, w) \/ (NoEntry(input, k) /\ stored[k] = <<w>>)

\* The storage takes an entry without changing what will be the latest value.
LEMMA LatestTaken ==
  ASSUME DeviceTypes, NEW k \in StateKeys, NEW w, Latest(k, w),
         UNCHANGED <<input, stored>> \/ StoreTake
  PROVE  Latest(k, w)'
<1>1. CASE UNCHANGED <<input, stored>>
  BY <1>1 DEF Latest
<1>2. CASE StoreTake
  <2>1. PICK v \in Entries : v = Head(input)
    BY <1>2, HeadAndTail DEF StoreTake, DeviceTypes
  <2>2. /\ input' = Tail(input) /\ input # <<>> /\ input \in Seq(Entries)
        /\ stored' = IF stored[v.key] = <<v.val>> THEN stored
                     ELSE [stored EXCEPT ![v.key] = <<v.val>>]
    BY <1>2, <2>1 DEF StoreTake, DeviceTypes
  <2>3. \/ LastEntry(input', k, w)
        \/ NoEntry(input', k) /\ v.key = k /\ v.val = w
        \/ NoEntry(input', k) /\ v.key # k /\ stored[k] = <<w>>
    BY <2>1, <2>2, EntryTaken DEF Latest
  <2>4. v.key = k /\ v.val = w => stored'[k] = <<w>>
    BY <2>2 DEF DeviceTypes
  <2>5. v.key # k => stored'[k] = stored[k]
    BY <2>2 DEF DeviceTypes
  <2>. QED BY <2>3, <2>4, <2>5 DEF Latest
<1>. QED BY <1>1, <1>2

LEMMA LatestAppended ==
  ASSUME DeviceTypes, NEW k \in StateKeys, NEW w, NEW e \in Entries,
         input' = Append(input, e), stored' = stored
  PROVE  /\ e.key = k /\ e.val = w => Latest(k, w)'
         /\ e.key # k /\ Latest(k, w) => Latest(k, w)'
BY EntryAppended DEF Latest, DeviceTypes

-----------------------------------------------------------------------------
(* RegistersPublished.                                                     *)

\* The controller has filled w, or will have.
Published(k, w) == LastEntry(toFill, k, w) \/ (NoEntry(toFill, k) /\ Latest(k, w))

\* Outputs and State are filled with what the controller has computed.
PublishedInv ==
  pc # "new" => /\ Published(<<"genset", "Outputs">>, outputs)
                /\ state.Node # "Off" => Published(<<"genset", "State">>, state.Node)

PublishedKeys == {<<"genset", "Outputs">>, <<"genset", "State">>}

\* No other routine fills Outputs or State.
LEMMA PublishedKept ==
  ASSUME DeviceTypes, NEW k \in PublishedKeys, NEW w, Published(k, w),
         [DeviceNext]_dvars, UNCHANGED toFill \/ ControllerFills
  PROVE  Published(k, w)'
<1>0. k \in StateKeys /\ k[1] = "genset" /\ k[2] \in Own /\ k[2] # "Available"
  BY BoundFields DEF PublishedKeys, Own
<1>1. CASE ControllerFills
  <2>1. PICK e \in OwnEntries : e = Head(toFill)
    BY <1>1, HeadAndTail DEF ControllerFills, DeviceTypes
  <2>2. /\ toFill # <<>> /\ toFill \in Seq(OwnEntries) /\ toFill' = Tail(toFill)
        /\ input' = Append(input, e) /\ stored' = stored /\ e \in Entries
    BY <1>1, <2>1 DEF ControllerFills, DeviceTypes, OwnEntries
  <2>3. \/ LastEntry(toFill', k, w)
        \/ NoEntry(toFill', k) /\ e.key = k /\ e.val = w
        \/ NoEntry(toFill', k) /\ e.key # k /\ Latest(k, w)
    BY <2>1, <2>2, EntryTaken DEF Published
  <2>. QED BY <1>0, <2>2, <2>3, LatestAppended DEF Published
<1>2. CASE UNCHANGED toFill
  <2>. SUFFICES ASSUME Latest(k, w) PROVE Latest(k, w)'
    BY <1>2 DEF Published
  <2>1. CASE UNCHANGED <<input, stored>> \/ StoreTake
    BY <1>0, <2>1, LatestTaken
  <2>2. ASSUME NEW e \in Entries, input' = Append(input, e), stored' = stored, Fill(e)
        PROVE  Latest(k, w)'
    <3>1. ~ControllerFills
      <4>1. \A q \in Seq(OwnEntries) : q # <<>> => Tail(q) # q
        BY HeadAndTail
      <4>. QED BY <1>2, <4>1 DEF ControllerFills, DeviceTypes
    <3>2. \/ \E f \in Bound : e.key = <<"bound", f>> \/ e.key = <<"genset", f>>
          \/ e.key = <<"genset", "Available">>
      BY <3>1, <2>2 DEF Fill, Value
    <3>3. e.key # k
      BY <3>2, BoundFields DEF PublishedKeys, Own
    <3>. QED BY <1>0, <2>2, <3>3, LatestAppended
  <2>. QED BY <2>1, <2>2, StoreStep
<1>. QED BY <1>1, <1>2

LEMMA PublishedInit == DeviceInit => PublishedInv
BY DEF DeviceInit, Init, PublishedInv

LEMMA PublishedStep == DeviceTypes /\ PublishedInv /\ [DeviceNext]_dvars => PublishedInv'
<1>. SUFFICES ASSUME DeviceTypes, PublishedInv, [DeviceNext]_dvars PROVE PublishedInv'
  OBVIOUS
<1>. PICK ko \in PublishedKeys, ks \in PublishedKeys :
       ko = <<"genset", "Outputs">> /\ ks = <<"genset", "State">> /\ ko # ks
  BY DEF PublishedKeys
<1>. USE DEF Value
<1>1. CASE ControllerRuns
  <2>. PICK s \in StateSet, o \in OutputSet : s = state /\ o = outputs
    BY DEF DeviceTypes, TypeOK
  <2>1. state' = s /\ outputs' = o /\ toFill' = StateFills(s) \o OutputFills(o)
    BY <1>1 DEF ControllerRuns, Run
  <2>. PICK q : q = StateFills(s) \o OutputFills(o)
    OBVIOUS
  <2>2. LastEntry(q, ko, o)
    <3>1. CASE s.Node # "Off"
      <4>1. Len(q) = 3 /\ q[3] = Value("genset", "Outputs", o)
        BY <3>1 DEF StateFills, OutputFills
      <4>. QED BY <4>1 DEF LastEntry
    <3>2. CASE s.Node = "Off"
      <4>1. Len(q) = 2 /\ q[2] = Value("genset", "Outputs", o)
        BY <3>2 DEF StateFills, OutputFills
      <4>. QED BY <4>1 DEF LastEntry
    <3>. QED BY <3>1, <3>2
  <2>3. s.Node # "Off" => LastEntry(q, ks, s.Node)
    <3>. SUFFICES ASSUME s.Node # "Off" PROVE LastEntry(q, ks, s.Node)
      OBVIOUS
    <3>1. /\ Len(q) = 3 /\ q[1] = Value("genset", "State", s.Node)
          /\ q[2] = Value("genset", "StateChanged", s.Changed) /\ q[3] = Value("genset", "Outputs", o)
      BY DEF StateFills, OutputFills
    <3>. QED BY <3>1 DEF LastEntry
  <2>. QED BY <2>1, <2>2, <2>3 DEF PublishedInv, Published
<1>2. CASE ControllerComputesState
  <2>. PICK s \in StateSet, o \in OutputSet : s = state' /\ o = outputs
    <3>1. TypeOK'
      BY <1>2, TypeStep DEF DeviceTypes, ControllerComputesState, AnyNext
    <3>. QED BY <3>1 DEF DeviceTypes, TypeOK
  <2>1. /\ state' = s /\ outputs' = o /\ toFill' = StateFills(s) /\ toFill = <<>>
        /\ UNCHANGED <<pc, input, stored>> /\ pc # "new"
    BY <1>2 DEF ControllerComputesState, ComputeState, store, Computing
  <2>2. Latest(ko, o)
    BY <2>1 DEF PublishedInv, Published, LastEntry
  <2>. PICK q : q = StateFills(s)
    OBVIOUS
  <2>3. NoEntry(q, ko)
    BY DEF StateFills, NoEntry
  <2>4. s.Node # "Off" => LastEntry(q, ks, s.Node)
    BY DEF StateFills, LastEntry
  <2>5. Latest(ko, o)'
    BY <2>1, <2>2 DEF Latest
  <2>. QED BY <2>1, <2>3, <2>4, <2>5 DEF PublishedInv, Published
<1>3. CASE ControllerComputesOutputs
  <2>. PICK n, o, p : n = state.Node /\ o = outputs' /\ p = outputs
    OBVIOUS
  <2>1. /\ state' = state /\ toFill = <<>> /\ toFill' = IF o = p THEN <<>> ELSE OutputFills(o)
        /\ UNCHANGED <<input, stored>> /\ pc # "new"
    BY <1>3 DEF ControllerComputesOutputs, ComputeOutputs, store, Computing
  <2>2. Latest(ko, p) /\ (n # "Off" => Latest(ks, n))
    BY <2>1 DEF PublishedInv, Published, LastEntry
  <2>3. Latest(ko, p)' /\ (n # "Off" => Latest(ks, n)')
    BY <2>1, <2>2 DEF Latest
  <2>. PICK q : q = OutputFills(o)
    OBVIOUS
  <2>4. LastEntry(q, ko, o) /\ NoEntry(q, ks)
    BY DEF OutputFills, LastEntry, NoEntry
  <2>5. NoEntry(<<>>, ko) /\ NoEntry(<<>>, ks)
    BY DEF NoEntry
  <2>6. Published(ko, o)'
    BY <2>1, <2>3, <2>4, <2>5 DEF Published
  <2>7. n # "Off" => Published(ks, n)'
    BY <2>1, <2>3, <2>4, <2>5 DEF Published
  <2>. QED BY <2>1, <2>6, <2>7 DEF PublishedInv
<1>4. ASSUME UNCHANGED toFill \/ ControllerFills, UNCHANGED <<state, outputs>>,
             pc' # "new" => pc # "new"
      PROVE  PublishedInv'
  <2>. SUFFICES ASSUME pc' # "new"
                PROVE  /\ Published(ko, outputs)'
                       /\ state'.Node # "Off" => Published(ks, state.Node)'
    BY DEF PublishedInv
  <2>. PICK n, o : n = state.Node /\ o = outputs
    OBVIOUS
  <2>1. state'.Node = n /\ outputs' = o
    BY <1>4
  <2>2. Published(ko, o) /\ (n # "Off" => Published(ks, n))
    BY <1>4 DEF PublishedInv
  <2>3. Published(ko, o)' /\ (n # "Off" => Published(ks, n)')
    BY <1>4, <2>2, PublishedKept
  <2>. QED BY <2>1, <2>3 DEF Published
<1>5. ASSUME \/ TickerSends \/ ControllerStops \/ RunEnds \/ \E f \in Bound : SetterSends(f)
      PROVE  PublishedInv'
  <2>1. /\ UNCHANGED <<toFill, state, outputs>>
        /\ pc' # "new" => pc # "new"
    BY <1>5 DEF TickerSends, SetterSends, ControllerStops, RunEnds, Accept, Receive, End, Stop, vars
  <2>. QED BY <1>4, <2>1
<1>6. ASSUME UNCHANGED vars, UNCHANGED toFill \/ ControllerFills PROVE PublishedInv'
  BY <1>4, <1>6 DEF vars
<1>. QED
  BY <1>1, <1>2, <1>3, <1>5, <1>6
  DEF DeviceNext, ControllerFills, StoreTake, StoreForward, Produce, SetterReceives, SendInitial,
      SetterFills, SetterEnds, Advance, TickerReceives, Cancel, RunLeaves, SendPanics, dvars

\* RegistersPublished in every reachable state.
THEOREM DevicePublishes == DeviceSpec => []RegistersPublished
<1>1. DeviceTypes /\ PublishedInv => RegistersPublished
  <2>. SUFFICES ASSUME DeviceTypes, PublishedInv, Quiet
                PROVE  /\ stored[<<"genset", "Outputs">>] = <<outputs>>
                       /\ state.Node # "Off" => stored[<<"genset", "State">>] = <<state.Node>>
    BY DEF RegistersPublished
  <2>1. pc # "new" /\ toFill = <<>> /\ input = <<>>
    BY DEF Quiet
  <2>2. \A k, w : Published(k, w) => stored[k] = <<w>>
    BY <2>1 DEF Published, Latest, LastEntry
  <2>. QED BY <2>1, <2>2 DEF PublishedInv
<1>. QED BY <1>1, DeviceIsController, PublishedInit, PublishedStep, PTL DEF DeviceSpec

-----------------------------------------------------------------------------
(* InputsFollow: the way of a value from the storage to the controller and *)
(* back.                                                                   *)

\* The controller has w as its input f, and the genset shows it or will.
Shown(f, w) ==
  /\ inputs[f] = w
  /\ IF setter[f] = "fill" THEN held[f] = <<w>> ELSE Latest(<<"genset", f>>, w)

\* The last value the storage has forwarded for f is w: it is in the subscription,
\* with the setter, or has arrived.
Forwarded(f, w) ==
  \/ queue[f] # <<>> /\ queue[f][Len(queue[f])] = w
  \/ queue[f] = <<>> /\ setter[f] = "send" /\ held[f] = <<w>>
  \/ queue[f] = <<>> /\ setter[f] # "send" /\ Shown(f, w)

\* The last value of f on its way to the controller is w.
Way(f, w) ==
  \/ forwarding = <<Value("bound", f, w)>>
  \/ /\ forwarding = <<>> \/ forwarding[1].key # <<"bound", f>>
     /\ Forwarded(f, w)

\* The value w of f in the storage is on its way, or will be sent as the initial
\* one; or the initial value is on its way behind it.
OnWay(f, w) ==
  \/ Way(f, w)
  \/ f \in overtaken /\ \E v : Forwarded(f, v)
  \/ initial[f] = <<w>>
  \/ ctxDone

\* The latest value of a bound register is the last one produced, and the one the
\* storage has goes all the way to the controller and back.
FollowInv ==
  /\ forwarding # <<>> => stored[forwarding[1].key] = <<forwarding[1].val>>
  /\ \A f \in Bound :
       /\ last[f] # <<>> => Latest(<<"bound", f>>, last[f][1])
       /\ \A w : stored[<<"bound", f>>] = <<w>> => OnWay(f, w)

LEMMA FollowInit == DeviceInit => FollowInv
<1>. SUFFICES ASSUME DeviceInit PROVE FollowInv
  OBVIOUS
<1>1. forwarding = <<>>
  BY DEF DeviceInit
<1>2. ASSUME NEW f \in Bound
      PROVE  /\ last[f] # <<>> => Latest(<<"bound", f>>, last[f][1])
             /\ stored[<<"bound", f>>] = initial[f]
  <2>1. PICK k \in StateKeys : k = <<"bound", f>>
    BY BoundFields
  <2>2. stored[k] = initial[f] /\ last[f] = initial[f] /\ initial[f] \in Maybe(InputValues[f])
    BY <2>1 DEF DeviceInit
  <2>3. NoEntry(input, k)
    BY <2>1 DEF DeviceInit, NoEntry, Value
  <2>4. last[f] # <<>> => stored[k] = <<last[f][1]>>
    BY <2>2 DEF Maybe
  <2>. QED BY <2>1, <2>2, <2>3, <2>4 DEF Latest
<1>. QED BY <1>1, <1>2 DEF FollowInv, OnWay

\* The value last produced is the last of its register in the storage.
LEMMA ProducedStep ==
  ASSUME DeviceTypes, FollowInv, [DeviceNext]_dvars, NEW f \in Bound, NEW m,
         last'[f] = m, m # <<>>
  PROVE  Latest(<<"bound", f>>, m[1])'
<1>. PICK k \in StateKeys : k = <<"bound", f>>
  BY BoundFields
<1>. SUFFICES Latest(k, m[1])'
  BY Zenon
<1>1. last[f] = m /\ (UNCHANGED <<input, stored>> \/ StoreTake) => Latest(k, m[1])'
  BY LatestTaken DEF FollowInv
<1>2. ASSUME NEW g \in Bound, Produce(g) PROVE Latest(k, m[1])'
  <2>1. PICK v \in InputValues[g] :
           input' = Append(input, Value("bound", g, v)) /\ last' = [last EXCEPT ![g] = <<v>>]
    BY <1>2 DEF Produce
  <2>2. stored' = stored
    BY <1>2 DEF Produce
  <2>3. Value("bound", g, v) \in Entries
    BY InputEntry
  <2>4. CASE g = f
    <3>1. m[1] = v
      BY <2>1, <2>4 DEF DeviceTypes
    <3>2. Value("bound", g, v).key = k /\ Value("bound", g, v).val = m[1]
      BY <2>4, <3>1 DEF Value
    <3>. QED BY <2>1, <2>2, <2>3, <3>2, LatestAppended
  <2>5. CASE g # f
    <3>1. Latest(k, m[1])
      BY <2>1, <2>5 DEF FollowInv
    <3>2. Value("bound", g, v).key # k
      BY <2>5 DEF Value
    <3>. QED BY <2>1, <2>2, <2>3, <3>1, <3>2, LatestAppended
  <2>. QED BY <2>4, <2>5
<1>3. ASSUME NEW e \in Entries, input' = Append(input, e), stored' = stored, Fill(e), last' = last
      PROVE  Latest(k, m[1])' \/ \E g \in Bound : Produce(g)
  <2>1. CASE \E g \in Bound : Produce(g)
    BY <2>1
  <2>2. CASE ~ \E g \in Bound : Produce(g)
    <3>1. e.key[1] = "genset"
      BY <1>3, <2>2 DEF Fill, Value, OwnEntries
    <3>2. Latest(k, m[1])
      BY <1>3 DEF FollowInv
    <3>. QED BY <1>3, <3>1, <3>2, LatestAppended
  <2>. QED BY <2>1, <2>2
<1>4. last' = last \/ \E g \in Bound : Produce(g)
  BY DEF DeviceNext, dvars, world, StoreTake, StoreForward, SetterReceives, SendInitial, SetterSends,
         SetterFills, SetterEnds, Advance, TickerReceives, TickerSends, Cancel, RunEnds, RunLeaves,
         SendPanics, ControllerRuns, ControllerComputesState, ControllerComputesOutputs,
         ControllerFills, ControllerStops
<1>5. CASE last' = last
  <2>1. last[f] = m
    BY <1>5
  <2>2. \/ UNCHANGED <<input, stored>> \/ StoreTake
        \/ \E e \in Entries : input' = Append(input, e) /\ stored' = stored /\ Fill(e)
    BY StoreStep, Zenon
  <2>. QED BY <1>1, <1>2, <1>3, <1>5, <2>1, <2>2
<1>. QED BY <1>2, <1>4, <1>5

\* Only its own setter fills the input of the genset.
LEMMA ShownKept ==
  ASSUME DeviceTypes, [DeviceNext]_dvars, NEW f \in Bound, NEW w,
         Latest(<<"genset", f>>, w), ~SetterFills(f)
  PROVE  Latest(<<"genset", f>>, w)'
<1>. PICK k \in StateKeys : k = <<"genset", f>>
  BY BoundFields
<1>. SUFFICES ASSUME Latest(k, w) PROVE Latest(k, w)'
  BY Zenon
<1>1. UNCHANGED <<input, stored>> \/ StoreTake => Latest(k, w)'
  BY LatestTaken
<1>2. ASSUME NEW e \in Entries, input' = Append(input, e), stored' = stored, Fill(e)
      PROVE  Latest(k, w)'
  <2>1. \/ e.key[1] = "bound"
        \/ \E g \in Bound : g # f /\ e.key = <<"genset", g>>
        \/ \E r \in Own : e.key = <<"genset", r>>
    BY <1>2 DEF Fill, Value, OwnEntries, Own
  <2>2. e.key # k
    BY <2>1, BoundFields
  <2>. QED BY <1>2, <2>2, LatestAppended
<1>3. \/ UNCHANGED <<input, stored>> \/ StoreTake
      \/ \E e \in Entries : input' = Append(input, e) /\ stored' = stored /\ Fill(e)
  BY StoreStep, Zenon
<1>. QED BY <1>1, <1>2, <1>3

\* What is forwarded is not lost.
LEMMA ForwardedStep ==
  ASSUME DeviceTypes, Clocked, [DeviceNext]_dvars, NEW f \in Bound, NEW w, Forwarded(f, w),
         StoreForward => forwarding[1].key # <<"bound", f>>, ~SendInitial(f)
  PROVE  Forwarded(f, w)'
<1>0. TypeOK
  BY DEF DeviceTypes
<1>1. ASSUME Latest(<<"genset", f>>, w), ~SetterFills(f) PROVE Latest(<<"genset", f>>, w)'
  BY <1>1, ShownKept
<1>2. ASSUME queue'[f] = queue[f], setter'[f] = setter[f], held'[f] = held[f],
             inputs'[f] = inputs[f], ~SetterFills(f)
      PROVE  Forwarded(f, w)'
  BY <1>1, <1>2 DEF Forwarded, Shown
<1>3. CASE SetterReceives(f)
  <2>. PICK q \in Seq(Contents), r \in Seq(Contents) : q = queue[f] /\ r = Tail(q) /\ q # <<>>
    <3>1. queue[f] \in Seq(Contents) /\ queue[f] # <<>>
      BY <1>3 DEF SetterReceives, DeviceTypes
    <3>. QED BY <3>1, HeadAndTail
  <2>1. queue'[f] = r /\ setter'[f] = "send" /\ held'[f] = <<Head(q)>>
    BY <1>3 DEF SetterReceives, DeviceTypes
  <2>2. q[Len(q)] = w
    BY <1>3 DEF Forwarded, SetterReceives
  <2>3. /\ Head(q) = q[1] /\ Len(r) = Len(q) - 1 /\ Len(q) \in Nat \ {0}
        /\ \A i \in 1..(Len(q) - 1) : r[i] = q[i + 1]
    BY HeadAndTail
  <2>4. r # <<>> => r[Len(r)] = w
    BY <2>2, <2>3
  <2>5. ASSUME r = <<>> PROVE Head(q) = w
    <3>1. Len(r) = 0
      BY <2>5
    <3>2. Len(q) = 1
      BY <2>3, <3>1
    <3>. QED BY <2>2, <2>3, <3>2
  <2>. QED BY <2>1, <2>4, <2>5 DEF Forwarded
<1>4. ASSUME NEW g \in Bound, SetterSends(g) PROVE Forwarded(f, w)'
  <2>1. PICK v \in InputValues[g] :
           /\ held[g] = <<v>> /\ setter[g] = "send" /\ Accept([inputs EXCEPT ![g] = v])
           /\ [inputs EXCEPT ![g] = v] \in InputSet
           /\ [inputs EXCEPT ![g] = v].Time = inputs.Time
    BY <1>4, SetterAccepted
  <2>2. [inputs EXCEPT ![g] = v].Time >= inputs.Time
    BY <1>0, <2>1 DEF TypeOK, InputSet
  <2>3. inputs' = [inputs EXCEPT ![g] = v]
    BY <1>0, <2>1, <2>2, Accepted
  <2>4. g \in DOMAIN inputs
    BY <1>0, BoundFields DEF TypeOK, InputSet, SwitchFields, MeasuredFields
  <2>5. CASE g = f
    <3>1. inputs'[f] = v
      BY <2>3, <2>4, <2>5
    <3>2. setter'[f] = "fill" /\ held' = held /\ queue' = queue
      BY <1>4, <2>5 DEF SetterSends, DeviceTypes, subs
    <3>3. queue[f] = <<>> => v = w
      BY <2>1, <2>5 DEF Forwarded
    <3>. QED BY <2>1, <2>5, <3>1, <3>2, <3>3 DEF Forwarded, Shown
  <2>6. CASE g # f
    <3>1. inputs'[f] = inputs[f]
      BY <2>3, <2>6
    <3>2. /\ setter'[f] = setter[f] /\ held' = held /\ queue' = queue /\ UNCHANGED <<input, stored>>
      BY <1>4, <2>6 DEF SetterSends, DeviceTypes, store, subs
    <3>3. Latest(<<"genset", f>>, w) => Latest(<<"genset", f>>, w)'
      BY <3>2 DEF Latest
    <3>. QED BY <3>1, <3>2, <3>3 DEF Forwarded, Shown
  <2>. QED BY <2>5, <2>6
<1>5. CASE SetterFills(f)
  <2>1. PICK v \in InputValues[f] : held[f] = <<v>>
    BY <1>5 DEF SetterFills, DeviceTypes, Maybe
  <2>2. /\ setter[f] = "fill" /\ input' = Append(input, Value("genset", f, v)) /\ stored' = stored
        /\ setter'[f] = "recv" /\ UNCHANGED <<queue, inputs>>
    BY <1>5, <2>1 DEF SetterFills, DeviceTypes, vars, subs
  <2>3. CASE queue[f] # <<>>
    BY <2>2, <2>3 DEF Forwarded
  <2>4. CASE queue[f] = <<>>
    <3>1. v = w /\ inputs[f] = w
      BY <2>1, <2>2, <2>4 DEF Forwarded, Shown
    <3>2. Value("genset", f, v) \in Entries
      BY InputEntry
    <3>3. Latest(<<"genset", f>>, w)'
      BY <2>2, <3>1, <3>2, BoundFields, LatestAppended DEF Value
    <3>. QED BY <2>2, <2>4, <3>1, <3>3 DEF Forwarded, Shown
  <2>. QED BY <2>3, <2>4
<1>6. CASE SetterEnds(f)
  <2>1. /\ setter[f] = "recv" /\ setter'[f] = "ended"
        /\ UNCHANGED <<queue, inputs, input, stored>>
    BY <1>6 DEF SetterEnds, DeviceTypes, vars, store, subs
  <2>2. Latest(<<"genset", f>>, w) => Latest(<<"genset", f>>, w)'
    BY <2>1 DEF Latest
  <2>. QED BY <2>1, <2>2 DEF Forwarded, Shown
<1>7. ASSUME NEW g \in Bound, g # f,
             SendInitial(g) \/ SetterReceives(g) \/ SetterFills(g) \/ SetterEnds(g)
      PROVE  /\ queue'[f] = queue[f] /\ setter'[f] = setter[f] /\ held'[f] = held[f]
             /\ inputs' = inputs
  BY <1>7 DEF SetterReceives, SendInitial, SetterFills, SetterEnds, DeviceTypes, vars, subs
<1>8. CASE StoreForward
  <2>1. PICK v \in Entries : forwarding = <<v>>
    BY <1>8 DEF StoreForward, DeviceTypes, Maybe
  <2>2. v.key # <<"bound", f>> /\ v.key \in StateKeys
    BY <1>8, <2>1 DEF Entries
  <2>3. v.key[1] = "bound" => v.key[2] # f
    BY <2>2 DEF StateKeys
  <2>4. queue'[f] = queue[f]
    BY <1>8, <2>1, <2>3 DEF StoreForward, DeviceTypes
  <2>5. UNCHANGED <<setter, held, inputs, input, stored>>
    BY <1>8 DEF StoreForward, vars
  <2>6. Latest(<<"genset", f>>, w) => Latest(<<"genset", f>>, w)'
    BY <2>5 DEF Latest
  <2>. QED BY <2>4, <2>5, <2>6 DEF Forwarded, Shown
<1>9. CASE TickerSends
  <2>1. inputs' = [inputs EXCEPT !.Time = tickSend]
    BY <1>0, <1>9, TickAccepted, Accepted
  <2>2. inputs'[f] = inputs[f]
    <3>1. f # "Time" /\ f \in DOMAIN inputs
      BY <1>0, BoundFields DEF TypeOK, InputSet, SwitchFields, MeasuredFields
    <3>. QED BY <2>1, <3>1
  <2>3. UNCHANGED <<queue, setter, held, input, stored>>
    BY <1>9 DEF TickerSends, setters, subs, store
  <2>4. Latest(<<"genset", f>>, w) => Latest(<<"genset", f>>, w)'
    BY <2>3 DEF Latest
  <2>. QED BY <2>2, <2>3, <2>4 DEF Forwarded, Shown
<1>10. ASSUME UNCHANGED <<queue, setter, held, inputs>>, ~SetterFills(f) PROVE Forwarded(f, w)'
  BY <1>2, <1>10
<1>11. ASSUME \/ ControllerRuns \/ ControllerComputesState \/ ControllerComputesOutputs
              \/ ControllerStops \/ RunEnds \/ ControllerFills \/ StoreTake \/ Advance
              \/ TickerReceives \/ Cancel \/ RunLeaves \/ SendPanics \/ UNCHANGED dvars
              \/ \E g \in Bound : Produce(g)
       PROVE  UNCHANGED <<queue, setter, held, inputs>>
  BY <1>11 DEF ControllerRuns, ControllerComputesState, ControllerComputesOutputs,
               ControllerStops, RunEnds, ControllerFills, StoreTake, Advance, TickerReceives,
               Cancel, RunLeaves, SendPanics, Produce, dvars, vars, setters, subs, Run, ComputeState,
               ComputeOutputs, Stop, End
<1>12. CASE ~SetterFills(f)
  <2>1. ASSUME NEW g \in Bound,
               SendInitial(g) \/ SetterReceives(g) \/ SetterFills(g) \/ SetterEnds(g)
        PROVE  Forwarded(f, w)'
    BY <1>2, <1>3, <1>6, <1>7, <1>12, <2>1
  <2>. QED BY <1>4, <1>8, <1>9, <1>10, <1>11, <1>12, <2>1 DEF DeviceNext
<1>. QED BY <1>5, <1>12

\* What is forwarded is what the storage has.
LEMMA ForwardingStep ==
  ASSUME DeviceTypes, FollowInv, [DeviceNext]_dvars, forwarding' # <<>>
  PROVE  stored'[forwarding'[1].key] = <<forwarding'[1].val>>
<1>1. CASE StoreTake
  <2>1. PICK v \in Entries : v = Head(input)
    BY <1>1, HeadAndTail DEF StoreTake, DeviceTypes
  <2>2. v.key \in StateKeys /\ forwarding' = <<v>> /\ stored' = [stored EXCEPT ![v.key] = <<v.val>>]
    BY <1>1, <2>1 DEF StoreTake, Entries
  <2>. QED BY <2>2 DEF DeviceTypes
<1>2. CASE ~StoreTake
  <2>1. stored' = stored
    BY <1>2, StoreStep
  <2>2. forwarding' = forwarding
    BY <1>2
    DEF DeviceNext, StoreForward, Produce, SendInitial, SetterReceives, SetterSends, SetterFills,
        SetterEnds, Advance, TickerReceives, TickerSends, Cancel, RunEnds, RunLeaves, SendPanics,
        dvars, store, ControllerRuns, ControllerComputesState, ControllerComputesOutputs,
        ControllerFills, ControllerStops
  <2>. QED BY <2>1, <2>2 DEF FollowInv
<1>. QED BY <1>1, <1>2

\* What has become the value of a bound register is on its way, or what was still is.
LEMMA WayStep ==
  ASSUME DeviceTypes, Clocked, FollowInv, [DeviceNext]_dvars, NEW f \in Bound, NEW w,
         stored'[<<"bound", f>>] = <<w>>
  PROVE  OnWay(f, w)'
<1>. PICK k \in StateKeys : k = <<"bound", f>>
  BY BoundFields
<1>0. ASSUME stored[k] = <<w>>, ~SendInitial(f), f \in overtaken => f \in overtaken',
             StoreForward => forwarding[1].key # k,
             Way(f, w) => Way(f, w)'
      PROVE  OnWay(f, w)'
  <2>1. OnWay(f, w)
    BY <1>0 DEF FollowInv
  <2>2. \A v : Forwarded(f, v) => Forwarded(f, v)'
    BY <1>0, ForwardedStep
  <2>3. initial'[f] = initial[f]
    <3>1. ASSUME NEW g \in Bound, SendInitial(g) PROVE initial'[f] = initial[f]
      BY <1>0, <3>1 DEF SendInitial, DeviceTypes
    <3>. QED
      BY <3>1
      DEF DeviceNext, StoreTake, StoreForward, Produce, SetterReceives, SetterSends, SetterFills,
          SetterEnds, Advance, TickerReceives, TickerSends, Cancel, RunEnds, RunLeaves, SendPanics,
          dvars, setters, subs, ControllerRuns, ControllerComputesState, ControllerComputesOutputs,
          ControllerFills, ControllerStops
  <2>4. ctxDone => ctxDone'
    BY DEF DeviceNext, StoreTake, StoreForward, Produce, SendInitial, SetterReceives, SetterSends,
           SetterFills, SetterEnds, Advance, TickerReceives, TickerSends, Cancel, RunEnds, RunLeaves,
           SendPanics, dvars, ends, ControllerRuns, ControllerComputesState,
           ControllerComputesOutputs, ControllerFills, ControllerStops
  <2>. QED BY <1>0, <2>1, <2>2, <2>3, <2>4 DEF OnWay
<1>1. CASE StoreTake
  <2>1. PICK v \in Entries : v = Head(input)
    BY <1>1, HeadAndTail DEF StoreTake, DeviceTypes
  <2>2. /\ forwarding = <<>> /\ v.key \in StateKeys
        /\ \/ stored[v.key] = <<v.val>> /\ UNCHANGED <<stored, forwarding>>
           \/ /\ stored[v.key] # <<v.val>> /\ forwarding' = <<v>>
              /\ stored' = [stored EXCEPT ![v.key] = <<v.val>>]
    BY <1>1, <2>1 DEF StoreTake, Entries
  <2>3. CASE forwarding' = <<v>> /\ v.key = k
    <3>1. stored' = [stored EXCEPT ![k] = <<v.val>>]
      BY <2>2, <2>3
    <3>2. v.val = w
      BY <3>1 DEF DeviceTypes
    <3>3. v = Value("bound", f, w)
      BY <2>3, <3>2 DEF Entries, Value
    <3>. QED BY <2>3, <3>3 DEF Way, OnWay
  <2>4. CASE forwarding' = <<>> \/ (forwarding' = <<v>> /\ v.key # k)
    <3>1. stored[k] = <<w>>
      <4>1. CASE stored' = stored
        BY <4>1
      <4>2. CASE forwarding' = <<v>> /\ v.key # k /\ stored' = [stored EXCEPT ![v.key] = <<v.val>>]
        <5>1. stored'[k] = stored[k]
          BY <4>2
        <5>. QED BY <5>1
      <4>3. <<v>> # <<>>
        OBVIOUS
      <4>. QED BY <2>2, <2>4, <4>1, <4>2, <4>3
    <3>2. ~StoreForward /\ ~SendInitial(f) /\ overtaken' = overtaken
      <4>1. input' = Tail(input) /\ input # <<>> /\ overtaken' = overtaken
        BY <1>1 DEF StoreTake, setters, subs
      <4>2. Tail(input) # input
        BY <4>1, HeadAndTail DEF DeviceTypes
      <4>. QED BY <2>2, <4>1, <4>2 DEF StoreForward, SendInitial, store
    <3>3. Way(f, w) => Way(f, w)'
      <4>1. Forwarded(f, w) => Forwarded(f, w)'
        BY <3>2, ForwardedStep
      <4>. QED BY <2>2, <2>4, <4>1 DEF Way
    <3>. QED BY <1>0, <3>1, <3>2, <3>3
  <2>. QED BY <2>2, <2>3, <2>4
<1>2. CASE StoreForward
  <2>1. stored[k] = <<w>> /\ forwarding' = <<>> /\ forwarding # <<>> /\ initial' = initial
    BY <1>2 DEF StoreForward
  <2>2. CASE forwarding[1].key = k
    <3>0. PICK v \in Entries : forwarding = <<v>>
      BY <2>1 DEF DeviceTypes, Maybe
    <3>1. v.key = k /\ v.val = w
      BY <2>1, <2>2, <3>0 DEF FollowInv
    <3>2. queue' = [queue EXCEPT ![f] = Append(queue[f], w)]
      BY <1>2, <3>0, <3>1 DEF StoreForward
    <3>3. queue[f] \in Seq(InputValues[f]) /\ w \in InputValues[f]
      BY <3>1 DEF DeviceTypes, Entries
    <3>. PICK q \in Seq(InputValues[f]) : q = queue[f]
      BY <3>3
    <3>4. queue'[f] = Append(q, w)
      BY <3>2 DEF DeviceTypes
    <3>5. /\ Append(q, w) # <<>> /\ Append(q, w)[Len(Append(q, w))] = w
      BY <3>3, Appended
    <3>. QED BY <2>1, <3>4, <3>5 DEF Way, Forwarded, OnWay
  <2>3. CASE forwarding[1].key # k
    <3>1. ~SendInitial(f)
      BY <2>1 DEF SendInitial, store
    <3>2. Forwarded(f, w) => Forwarded(f, w)'
      BY <2>3, <3>1, ForwardedStep
    <3>3. Way(f, w) => Way(f, w)'
      BY <2>1, <2>3, <3>2 DEF Way, Value
    <3>4. f \in overtaken => f \in overtaken'
      <4>1. PICK v \in Entries : forwarding = <<v>>
        BY <2>1 DEF DeviceTypes, Maybe
      <4>2. v.key[1] = "bound" => v.key[2] # f
        BY <2>3, <4>1 DEF Entries, StateKeys
      <4>. QED BY <1>2, <4>1, <4>2 DEF StoreForward
    <3>5. \A v : Forwarded(f, v) => Forwarded(f, v)'
      BY <2>3, <3>1, ForwardedStep
    <3>6. ctxDone' = ctxDone
      BY <1>2 DEF StoreForward, ends
    <3>. QED BY <2>1, <3>3, <3>4, <3>5, <3>6 DEF FollowInv, OnWay
  <2>. QED BY <2>2, <2>3
<1>3. CASE SendInitial(f)
  <2>1. stored' = stored /\ forwarding' = forwarding /\ ctxDone' = ctxDone
    BY <1>3 DEF SendInitial, store, ends
  <2>2. PICK x \in InputValues[f] : initial[f] = <<x>>
    BY <1>3 DEF SendInitial, DeviceTypes, Maybe
  <2>3. CASE ctxDone
    BY <2>1, <2>3 DEF OnWay
  <2>4. CASE ~ctxDone
    <3>1. /\ queue' = [queue EXCEPT ![f] = Append(queue[f], x)]
          /\ overtaken' = IF Replaced(f, x) THEN overtaken \cup {f} ELSE overtaken
      BY <1>3, <2>2, <2>4 DEF SendInitial
    <3>. PICK q \in Seq(InputValues[f]) : q = queue[f]
      BY DEF DeviceTypes
    <3>2. queue'[f] = Append(q, x) /\ Append(q, x) # <<>> /\ Append(q, x)[Len(Append(q, x))] = x
      <4>1. queue'[f] = Append(q, x)
        BY <3>1 DEF DeviceTypes
      <4>2. Append(q, x) # <<>> /\ Append(q, x)[Len(Append(q, x))] = x
        BY Appended
      <4>. QED BY <4>1, <4>2
    <3>3. Forwarded(f, x)'
      BY <3>2 DEF Forwarded
    <3>4. CASE forwarding # <<>> /\ forwarding[1].key = k
      <4>1. PICK v \in Entries : forwarding = <<v>>
        BY <3>4 DEF DeviceTypes, Maybe
      <4>2. v.key = k /\ v.val = w
        BY <2>1, <3>4, <4>1 DEF FollowInv
      <4>3. v = Value("bound", f, w)
        BY <4>2 DEF Entries, Value
      <4>. QED BY <2>1, <4>1, <4>3 DEF Way, OnWay
    <3>5. CASE ~(forwarding # <<>> /\ forwarding[1].key = k)
      <4>1. CASE x = w
        BY <2>1, <3>3, <3>5, <4>1 DEF Way, OnWay
      <4>2. CASE x # w
        <5>1. Replaced(f, x)
          BY <2>1, <3>5, <4>2 DEF Replaced
        <5>. QED BY <3>1, <3>3, <5>1 DEF OnWay
      <4>. QED BY <4>1, <4>2
    <3>. QED BY <3>4, <3>5
  <2>. QED BY <2>3, <2>4
<1>4. CASE ~StoreTake /\ ~StoreForward /\ ~SendInitial(f)
  <2>1. stored' = stored
    BY <1>4, StoreStep
  <2>2. forwarding' = forwarding
    BY <1>4
    DEF DeviceNext, Produce, SendInitial, SetterReceives, SetterSends, SetterFills, SetterEnds,
        Advance, TickerReceives, TickerSends, Cancel, RunEnds, RunLeaves, SendPanics, dvars, store,
        ControllerRuns, ControllerComputesState, ControllerComputesOutputs, ControllerFills,
        ControllerStops
  <2>3. f \in overtaken => f \in overtaken'
    BY <1>4
    DEF DeviceNext, Produce, SendInitial, SetterReceives, SetterSends, SetterFills, SetterEnds,
        Advance, TickerReceives, TickerSends, Cancel, RunEnds, RunLeaves, SendPanics, dvars, setters,
        subs, ControllerRuns, ControllerComputesState, ControllerComputesOutputs, ControllerFills,
        ControllerStops
  <2>4. Way(f, w) => Way(f, w)'
    BY <1>4, <2>2, ForwardedStep DEF Way
  <2>. QED BY <1>0, <1>4, <2>1, <2>3, <2>4
<1>. QED BY <1>1, <1>2, <1>3, <1>4

\* InputsFollow in every reachable state.
THEOREM DeviceInputsFollow == DeviceSpec => []InputsFollow
<1>1. DeviceTypes /\ Clocked /\ FollowInv /\ [DeviceNext]_dvars => FollowInv'
  <2>. SUFFICES ASSUME DeviceTypes, Clocked, FollowInv, [DeviceNext]_dvars PROVE FollowInv'
    OBVIOUS
  <2>1. ASSUME NEW f \in Bound PROVE last'[f] # <<>> => Latest(<<"bound", f>>, last[f][1])'
    <3>. PICK m, w : m = last'[f] /\ w = m[1]
      OBVIOUS
    <3>1. m # <<>> => Latest(<<"bound", f>>, w)'
      BY ProducedStep
    <3>. QED BY <3>1 DEF Latest
  <2>2. ASSUME NEW f \in Bound, NEW w, stored'[<<"bound", f>>] = <<w>> PROVE OnWay(f, w)'
    BY <2>2, WayStep
  <2>3. forwarding' # <<>> => stored'[forwarding'[1].key] = <<forwarding'[1].val>>
    BY ForwardingStep
  <2>. QED BY <2>1, <2>2, <2>3 DEF FollowInv
<1>2. DeviceTypes /\ FollowInv => InputsFollow
  <2>. SUFFICES ASSUME DeviceTypes, FollowInv, Quiet, NEW f \in Bound, last[f] # <<>>
                PROVE  /\ f \notin overtaken => inputs[f] = last[f][1]
                       /\ stored[<<"genset", f>>] = <<inputs[f]>>
    BY DEF InputsFollow
  <2>1. PICK w : last[f] = <<w>>
    BY DEF DeviceTypes, Maybe
  <2>2. /\ input = <<>> /\ forwarding = <<>> /\ queue[f] = <<>> /\ setter[f] = "recv"
        /\ initial[f] = <<>> /\ ~ctxDone
    BY DEF Quiet
  <2>3. \A k, v : Latest(k, v) => stored[k] = <<v>>
    BY <2>2 DEF Latest, LastEntry
  <2>4. stored[<<"bound", f>>] = <<w>>
    <3>1. last[f] # <<>> /\ last[f][1] = w
      BY <2>1
    <3>2. Latest(<<"bound", f>>, w)
      BY <3>1 DEF FollowInv
    <3>. QED BY <2>3, <3>2
  <2>5. OnWay(f, w)
    BY <2>4 DEF FollowInv
  <2>6. \A v : Forwarded(f, v) => Shown(f, v)
    BY <2>2 DEF Forwarded
  <2>7. Shown(f, w) \/ (f \in overtaken /\ \E v : Shown(f, v))
    BY <2>2, <2>5, <2>6 DEF Way, OnWay
  <2>. QED BY <2>1, <2>2, <2>3, <2>7 DEF Shown
<1>. QED BY <1>1, <1>2, DeviceIsController, FollowInit, PTL DEF DeviceSpec
=============================================================================
