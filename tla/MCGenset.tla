------------------------------ MODULE MCGenset ------------------------------
\* Instances of GensetController for TLC.
EXTENDS GensetController

BaseParams ==
  [ PrimingTimeout |-> 0, CrankingTimeout |-> 2,
    WarmUpTimeout |-> 2, WarmUpMinTime |-> 1, WarmUpTemp |-> 50,
    EngineCoolDownTimeout |-> 2, EngineCoolDownMinTime |-> 1, EngineCoolDownTemp |-> 70,
    EnclosureCoolDownTimeout |-> 2, EnclosureCoolDownMinTime |-> 1,
    EnclosureCoolDownTemp |-> 30,
    EngineTempMin |-> -10, EngineTempMax |-> 90, AuxTemp0Min |-> -10, AuxTemp0Max |-> 120,
    AuxTemp1Min |-> -10, AuxTemp1Max |-> 120,
    SinglePhase |-> FALSE, UMin |-> 220, UMax |-> 240, FMin |-> 45, FMax |-> 55,
    PMax |-> 3, PTotMax |-> 5 ]

\* genset.Inputs{} but for measurements, which are good where no run varies them.
ColdInputs ==
  [ Time |-> 0,
    ArmSwitch |-> FALSE, CommandSwitch |-> FALSE, ResetSwitch |-> FALSE,
    IOAvailable |-> FALSE, FireDetected |-> FALSE,
    EngineTemp |-> 20, AuxTemp0 |-> 20, AuxTemp1 |-> 20,
    OutputAvailable |-> FALSE,
    U1 |-> 230, U2 |-> 230, U3 |-> 230, P1 |-> 2, P2 |-> 2, P3 |-> 1, F |-> 50 ]

Armed == [ColdInputs EXCEPT !.ArmSwitch = TRUE]

\* The operator's switches, the availabilities, a temperature each side of every
\* threshold (20 cold, 60 warm, 80 hot, 91 too hot), and a power within the limit
\* of its phase and beyond that of the total.
ControlInputs ==
  [CommandSwitch |-> BOOLEAN, ResetSwitch |-> BOOLEAN, IOAvailable |-> BOOLEAN,
   OutputAvailable |-> BOOLEAN, EngineTemp |-> {20, 60, 80, 91}, P3 |-> {1, 2}]
=============================================================================
