-------------------------- MODULE GensetController --------------------------
(***************************************************************************)
(* genset.Controller: one goroutine owns inputs, state and outputs.  It    *)
(* takes one input change at a time from the unbuffered channel            *)
(* changeInputs and recomputes the state, one iteration of the loop of     *)
(* compute() per step, then the outputs.  The callers of UpdateInputs are  *)
(* the setters and the one second ticker of gensetDevice.                  *)
(***************************************************************************)
EXTENDS Genset

CONSTANTS
  Params,         \* the controller's parameters
  InitialInputs,  \* the inputs NewController is given
  InputValues,    \* for each input but Time, the values the setters may write
  TickSteps,      \* time between two ticks the controller receives
  MaxTime         \* bound on inputs.Time

ASSUME ParamsAssumption == Params \in ParamSet
ASSUME InitialInputsAssumption == InitialInputs \in InputSet
ASSUME InputValuesAssumption ==
  /\ DOMAIN InputValues \subseteq SwitchFields \cup MeasuredFields
  /\ \A f \in DOMAIN InputValues :
       InputValues[f] \subseteq IF f \in SwitchFields THEN BOOLEAN ELSE Int
ASSUME TickStepsAssumption == TickSteps \subseteq Nat \ {0}
ASSUME MaxTimeAssumption == MaxTime \in Nat

VARIABLES
  inputs,   \* Controller.inputs
  state,    \* Controller.state
  outputs,  \* Controller.outputs, which is what OnOutputUpdate was last given
  pc,       \* where the controller's goroutine is
  iter,     \* i of the loop in compute()
  closed,   \* changeInputs is closed
  lockout,  \* history: what must still happen before the engine may start
  run       \* history: the last run of the engine

vars == <<inputs, state, outputs, pc, iter, closed, lockout, run>>

-----------------------------------------------------------------------------
(* History.  lockout follows the operator's switches: after a failure the  *)
(* reset switch must be pressed, then with it released the master switch   *)
(* must be off.  run records when the engine was first seen running, if it *)
(* was loaded and when the load was last removed.                          *)

LockoutAfterInput(i) ==
  IF i.ResetSwitch THEN "needMasterOff"
  ELSE IF lockout = "needMasterOff" /\ ~masterSwitch(i) THEN "no"
  ELSE lockout

RunAfter(s, t) ==
  CASE s.Node = "WarmUp" -> [start |-> t, loaded |-> FALSE, unload |-> t]
    [] s.Node = "Producing" -> [run EXCEPT !.loaded = TRUE]
    [] s.Node = "EngineCoolDown" -> [run EXCEPT !.unload = t]
    [] s.Node \in {"Error", "Reset"} -> [run EXCEPT !.loaded = FALSE]
    [] OTHER -> run

-----------------------------------------------------------------------------
\* Mutant: fewer iterations than the longest chain of transitions.
MaxIterations_short == 3

\* The iterations of the loop in compute().
MaxIterations == 8

\* NewController
Init ==
  /\ inputs = InitialInputs
  /\ state = [Node |-> "Off", Changed |-> InitialInputs.Time]
  /\ outputs = computeOutputs(Params, inputs, state)
  /\ pc = "new" /\ iter = 0 /\ closed = FALSE
  /\ lockout = IF InitialInputs.ResetSwitch THEN "needMasterOff" ELSE "no"
  /\ run = [start |-> InitialInputs.Time, loaded |-> FALSE, unload |-> InitialInputs.Time]

\* Run: publish the initial state and outputs, then compute.
Run ==
  /\ pc = "new"
  /\ pc' = "first" /\ iter' = 0
  /\ UNCHANGED <<inputs, state, outputs, closed, lockout, run>>

\* The initial computation, which Run waits for, and those of the main loop.
Computing == {"first", "compute"}

\* An iteration of the loop that changes the state.
ComputeState ==
  /\ pc \in Computing /\ iter < MaxIterations
  /\ computeState(Params, inputs, state) # state
  /\ state' = computeState(Params, inputs, state)
  /\ iter' = iter + 1
  /\ lockout' = IF state'.Node = "Error" THEN "needReset" ELSE lockout
  /\ run' = RunAfter(state', inputs.Time)
  /\ UNCHANGED <<inputs, outputs, pc, closed>>

\* The loop ends, at the final state or exhausted; the outputs follow.
ComputeOutputs ==
  /\ pc \in Computing
  /\ iter = MaxIterations \/ computeState(Params, inputs, state) = state
  /\ outputs' = computeOutputs(Params, inputs, state)
  /\ pc' = "idle" /\ iter' = 0
  /\ UNCHANGED <<inputs, state, closed, lockout, run>>

\* The goroutine receives a Change; inputs it leaves as they are cost nothing.
Receive(next) ==
  /\ pc = "idle" /\ ~closed
  /\ next # inputs
  /\ inputs' = next
  /\ pc' = "compute" /\ iter' = 0
  /\ lockout' = LockoutAfterInput(next)
  /\ UNCHANGED <<state, outputs, closed, run>>

UpdateInputs ==
  \E f \in DOMAIN InputValues : \E v \in InputValues[f] :
    Receive([inputs EXCEPT ![f] = v])

Tick ==
  \E d \in TickSteps :
    /\ inputs.Time + d <= MaxTime
    /\ Receive([inputs EXCEPT !.Time = inputs.Time + d])

\* End closes changeInputs, called after Run has returned.
End ==
  /\ pc \notin {"new", "first"} /\ ~closed
  /\ closed' = TRUE
  /\ UNCHANGED <<inputs, state, outputs, pc, iter, lockout, run>>

\* The range over the closed channel ends.
Stop ==
  /\ pc = "idle" /\ closed
  /\ pc' = "ended"
  /\ UNCHANGED <<inputs, state, outputs, iter, closed, lockout, run>>

Next == \/ Run \/ ComputeState \/ ComputeOutputs
        \/ UpdateInputs \/ Tick \/ End \/ Stop

Spec == Init /\ [][Next]_vars

-----------------------------------------------------------------------------
\* The controller implements EnginePhases: each transition of the state machine
\* moves the engine along one edge of it, or not at all.
PhaseOf(n) ==
  CASE n \in {"Off", "Ready", "Priming", "EnclosureCoolDown"} -> "stopped"
    [] n = "Cranking" -> "cranking"
    [] n \in {"WarmUp", "EngineCoolDown"} -> "running"
    [] n = "Producing" -> "loaded"
    [] n \in {"Error", "Reset"} -> "locked"

Engine == INSTANCE EnginePhases WITH phase <- PhaseOf(state.Node)

\* The state machine of controller.go starts, loads, unloads and stops the
\* engine in the order EnginePhases promises.
EngineSpec == Engine!Spec

-----------------------------------------------------------------------------
\* Every variable has its type.
TypeOK ==
  /\ inputs \in InputSet
  /\ state \in StateSet
  /\ outputs \in OutputSet
  /\ pc \in {"new", "first", "compute", "idle", "ended"}
  /\ iter \in 0..MaxIterations
  /\ closed \in BOOLEAN
  /\ lockout \in {"no", "needReset", "needMasterOff"}
  /\ run \in [start : Int, loaded : BOOLEAN, unload : Int]

AtRest == pc \in {"idle", "ended"}

\* "assume we reach the final state in max 8 iterations" (controller.go:177):
\* whatever the inputs, when the controller waits for the next change no
\* transition is left to take, and the outputs are those of this state.
Settled ==
  AtRest => /\ computeState(Params, inputs, state) = state
            /\ outputs = computeOutputs(Params, inputs, state)

\* The measured supply is good on every phase in use: the meaning of the
\* UMin..PTotMax parameters, said per phase.
Phases == IF Params.SinglePhase THEN {1} ELSE {1, 2, 3}
Voltage(i, k) == CASE k = 1 -> i.U1 [] k = 2 -> i.U2 [] k = 3 -> i.U3
Power(i, k) == CASE k = 1 -> i.P1 [] k = 2 -> i.P2 [] k = 3 -> i.P3
TotalPower(i) == IF Params.SinglePhase THEN i.P1 ELSE i.P1 + i.P2 + i.P3
SupplyGood(i) ==
  /\ i.OutputAvailable
  /\ i.F >= Params.FMin /\ i.F <= Params.FMax
  /\ \A k \in Phases : /\ Voltage(i, k) >= Params.UMin
                       /\ Voltage(i, k) <= Params.UMax
                       /\ Power(i, k) <= Params.PMax
  /\ TotalPower(i) <= Params.PTotMax

\* What drives the machine against what is measured, at rest: no ignition,
\* pump or fan with a failed IO check or the reset switch pressed; the load
\* connected only while commanded and with a good supply on every phase; the
\* starter never turned by a running engine, nor for CrankingTimeout or longer.
OutputsProtected ==
  AtRest =>
    /\ outputs.Fan => ioCheck(Params, inputs) /\ ~inputs.ResetSwitch
    /\ outputs.Ignition => outputs.Pump /\ outputs.Fan
    /\ outputs.Load => masterSwitch(inputs) /\ SupplyGood(inputs) /\ outputs.Ignition
    /\ outputs.Starter => /\ masterSwitch(inputs) /\ ~SupplyGood(inputs)
                          /\ inputs.Time - state.Changed < Params.CrankingTimeout

\* "Re-start only after manual reset" (gensetDevice/README.md): after a
\* failure the engine stays off until the reset switch was pressed and, after
\* its release, the master switch was off; also through a long computation.
LockoutHolds ==
  AtRest /\ lockout # "no" =>
    ~outputs.Ignition /\ ~outputs.Pump /\ state.Node \in {"Error", "Reset"}

\* The load is connected only to an engine seen running for WarmUpMinTime,
\* over any number of interrupted cool-downs.
WarmBeforeLoad ==
  state.Node \in {"Producing", "EngineCoolDown"} =>
    inputs.Time - run.start >= Params.WarmUpMinTime

\* An engine that carried load is stopped, other than by a failure or a reset,
\* no earlier than EngineCoolDownMinTime after its load was removed for good.
CooledDown ==
  run.loaded /\ state.Node \notin {"Producing", "EngineCoolDown"} =>
    inputs.Time - run.unload >= Params.EngineCoolDownMinTime

TimedNodes == {"Priming", "Cranking", "WarmUp", "EngineCoolDown", "EnclosureCoolDown"}
Longest(n) ==
  LET later(a, b) == IF a >= b THEN a ELSE b
  IN CASE n = "Priming" -> Params.PrimingTimeout
       [] n = "Cranking" -> Params.CrankingTimeout
       [] n = "WarmUp" -> later(Params.WarmUpMinTime, Params.WarmUpTimeout)
       [] n = "EngineCoolDown" ->
            later(Params.EngineCoolDownMinTime, Params.EngineCoolDownTimeout)
       [] n = "EnclosureCoolDown" ->
            later(Params.EnclosureCoolDownMinTime, Params.EnclosureCoolDownTimeout)

\* No phase with a timeout outlasts it: at the later of its minimum time and its
\* timeout the controller has left it, whatever the temperatures and switches do
\* and however late the tick comes.
PhasesBounded ==
  AtRest /\ state.Node \in TimedNodes => inputs.Time - state.Changed < Longest(state.Node)
=============================================================================
