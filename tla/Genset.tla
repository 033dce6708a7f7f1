------------------------------- MODULE Genset -------------------------------
(***************************************************************************)
(* The pure functions of package genset (genset/controller.go): the        *)
(* transition function of the generator controller, its checks and its     *)
(* outputs.  Every operator takes the parameters p, the inputs i and the   *)
(* state s the Go function of the same name takes.                         *)
(*                                                                         *)
(* Floats are compared and added only, so integers stand for them; times   *)
(* and durations are integers in one unit.                                 *)
(***************************************************************************)
EXTENDS Integers

Nodes == {"Error", "Reset", "Off", "Ready", "Priming", "Cranking", "WarmUp",
          "Producing", "EngineCoolDown", "EnclosureCoolDown"}

\* Params, Inputs, State and Outputs of controller.go.
ParamSet ==
  [ PrimingTimeout : Nat, CrankingTimeout : Nat,
    WarmUpTimeout : Nat, WarmUpMinTime : Nat, WarmUpTemp : Int,
    EngineCoolDownTimeout : Nat, EngineCoolDownMinTime : Nat, EngineCoolDownTemp : Int,
    EnclosureCoolDownTimeout : Nat, EnclosureCoolDownMinTime : Nat,
    EnclosureCoolDownTemp : Int,
    EngineTempMin : Int, EngineTempMax : Int, AuxTemp0Min : Int, AuxTemp0Max : Int,
    AuxTemp1Min : Int, AuxTemp1Max : Int,
    SinglePhase : BOOLEAN, UMin : Int, UMax : Int, FMin : Int, FMax : Int,
    PMax : Int, PTotMax : Int ]

InputSet ==
  [ Time : Int,
    ArmSwitch : BOOLEAN, CommandSwitch : BOOLEAN, ResetSwitch : BOOLEAN,
    IOAvailable : BOOLEAN, FireDetected : BOOLEAN,
    EngineTemp : Int, AuxTemp0 : Int, AuxTemp1 : Int,
    OutputAvailable : BOOLEAN,
    U1 : Int, U2 : Int, U3 : Int, P1 : Int, P2 : Int, P3 : Int, F : Int ]

\* The inputs a setter writes, by type; Time is written by the ticker only.
SwitchFields == {"ArmSwitch", "CommandSwitch", "ResetSwitch", "IOAvailable",
                 "FireDetected", "OutputAvailable"}
MeasuredFields == {"EngineTemp", "AuxTemp0", "AuxTemp1",
                   "U1", "U2", "U3", "P1", "P2", "P3", "F"}

StateSet == [Node : Nodes, Changed : Int]

OutputSet ==
  [ Ignition : BOOLEAN, Starter : BOOLEAN, Fan : BOOLEAN, Pump : BOOLEAN,
    Load : BOOLEAN, TimeInState : Int, IoCheck : BOOLEAN, OutputCheck : BOOLEAN ]

-----------------------------------------------------------------------------
Within(x, lo, hi) == lo <= x /\ x <= hi

ioCheck(p, i) ==
  /\ ~i.FireDetected
  /\ i.IOAvailable
  /\ Within(i.EngineTemp, p.EngineTempMin, p.EngineTempMax)
  /\ Within(i.AuxTemp0, p.AuxTemp0Min, p.AuxTemp0Max)
  /\ Within(i.AuxTemp1, p.AuxTemp1Min, p.AuxTemp1Max)

outputCheck(p, i) ==
  /\ i.OutputAvailable
  /\ Within(i.F, p.FMin, p.FMax)
  /\ Within(i.U1, p.UMin, p.UMax)
  /\ i.P1 <= p.PMax
  /\ IF p.SinglePhase
       THEN i.P1 <= p.PTotMax
       ELSE /\ Within(i.U2, p.UMin, p.UMax)
            /\ Within(i.U3, p.UMin, p.UMax)
            /\ i.P2 <= p.PMax
            /\ i.P3 <= p.PMax
            /\ i.P1 + i.P2 + i.P3 <= p.PTotMax

masterSwitch(i) == i.ArmSwitch /\ i.CommandSwitch

\* Mutant: the operands of Sub swapped.
timeInState_swapped(i, s) == s.Changed - i.Time

timeInState(i, s) == i.Time - s.Changed

\* Mutant: the minimum time not waited for.
PhaseOver_noMinimum(t, minTime, timeout, tempReached) ==
  t >= timeout \/ tempReached

\* A cool-down or warm-up phase of t so far is over: never before its minimum
\* time, then at its timeout or as soon as the temperature is right.
PhaseOver(t, minTime, timeout, tempReached) ==
  t >= minTime /\ (t >= timeout \/ tempReached)

\* The switch over prev.Node: the transitions of one node only.
SingleStateTransition(p, i, s) ==
  LET n == s.Node
      t == timeInState(i, s)
      m == masterSwitch(i)
  IN CASE n = "Reset" /\ ~m -> "Off"
       [] n = "Off" /\ i.IOAvailable -> "Ready"
       [] n = "Ready" /\ m -> "Priming"
       [] n = "Priming" /\ ~m -> "Ready"
       [] n = "Priming" /\ m /\ t >= p.PrimingTimeout -> "Cranking"
       [] n = "Cranking" /\ ~m -> "Ready"
       [] n = "Cranking" /\ m /\ t >= p.CrankingTimeout -> "Error"
       [] n = "Cranking" /\ m /\ t < p.CrankingTimeout /\ outputCheck(p, i) -> "WarmUp"
       [] n = "WarmUp" /\ ~m -> "EnclosureCoolDown"
       [] /\ n = "WarmUp" /\ m
          /\ PhaseOver(t, p.WarmUpMinTime, p.WarmUpTimeout, i.EngineTemp >= p.WarmUpTemp)
          -> "Producing"
       [] n = "Producing" /\ ~m -> "EngineCoolDown"
       [] n = "EngineCoolDown" /\ m -> "Producing"
       [] /\ n = "EngineCoolDown" /\ ~m
          /\ PhaseOver(t, p.EngineCoolDownMinTime, p.EngineCoolDownTimeout,
                       i.EngineTemp <= p.EngineCoolDownTemp)
          -> "EnclosureCoolDown"
       [] n = "EnclosureCoolDown" /\ m -> "Priming"
       [] /\ n = "EnclosureCoolDown" /\ ~m
          /\ PhaseOver(t, p.EnclosureCoolDownMinTime, p.EnclosureCoolDownTimeout,
                       i.EngineTemp <= p.EnclosureCoolDownTemp)
          -> "Ready"
       [] OTHER -> n

\* Mutant: a load that fails the output check stays connected.
OutputGuarded_noLoad == {"WarmUp", "EngineCoolDown"}

\* The nodes a failed IO check turns into Error, and those where the
\* generator must deliver a good output.
IoGuarded == Nodes \ {"Reset", "Off", "Error"}
OutputGuarded == {"WarmUp", "Producing", "EngineCoolDown"}

\* Mutant: the reset switch leads to Off at once.
computeStateNode_resetToOff(p, i, s) ==
  IF i.ResetSwitch THEN "Off"
  ELSE IF s.Node \in IoGuarded /\ ~ioCheck(p, i) THEN "Error"
  ELSE SingleStateTransition(p, i, s)

computeStateNode(p, i, s) ==
  IF i.ResetSwitch THEN "Reset"
  ELSE IF \/ s.Node \in IoGuarded /\ ~ioCheck(p, i)
          \/ s.Node \in OutputGuarded /\ ~outputCheck(p, i)
    THEN "Error"
    ELSE SingleStateTransition(p, i, s)

\* Mutant: a transition does not restart the time in the state.
computeState_keepsChanged(p, i, s) ==
  [Node |-> computeStateNode(p, i, s), Changed |-> s.Changed]

computeState(p, i, s) ==
  LET n == computeStateNode(p, i, s)
  IN [Node |-> n, Changed |-> IF n # s.Node THEN i.Time ELSE s.Changed]

IgnitionNodes == {"Cranking", "WarmUp", "Producing", "EngineCoolDown"}
PumpNodes == IgnitionNodes \cup {"Priming"}
FanNodes == PumpNodes \cup {"EnclosureCoolDown"}

computeOutputs(p, i, s) ==
  [ Ignition |-> s.Node \in IgnitionNodes,
    Starter |-> s.Node = "Cranking",
    Fan |-> s.Node \in FanNodes,
    Pump |-> s.Node \in PumpNodes,
    Load |-> s.Node = "Producing",
    TimeInState |-> timeInState(i, s),
    IoCheck |-> ioCheck(p, i),
    OutputCheck |-> outputCheck(p, i) ]
=============================================================================
