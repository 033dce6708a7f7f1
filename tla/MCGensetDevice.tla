---------------------------- MODULE MCGensetDevice ----------------------------
\* Instances of GensetDevice for TLC.
EXTENDS GensetDevice

\* Times in seconds but StartTime: any time of day is longer after the zero
\* time than every timeout.
DeviceParams ==
  [ PrimingTimeout |-> 2, CrankingTimeout |-> 2,
    WarmUpTimeout |-> 2, WarmUpMinTime |-> 1, WarmUpTemp |-> 50,
    EngineCoolDownTimeout |-> 2, EngineCoolDownMinTime |-> 1, EngineCoolDownTemp |-> 70,
    EnclosureCoolDownTimeout |-> 2, EnclosureCoolDownMinTime |-> 1,
    EnclosureCoolDownTemp |-> 30,
    EngineTempMin |-> -10, EngineTempMax |-> 90, AuxTemp0Min |-> -10, AuxTemp0Max |-> 120,
    AuxTemp1Min |-> -10, AuxTemp1Max |-> 120,
    SinglePhase |-> TRUE, UMin |-> 220, UMax |-> 240, FMin |-> 45, FMax |-> 55,
    PMax |-> 3, PTotMax |-> 3 ]

\* genset.Inputs{}: every limit of the parameters above but UMin and FMin is
\* met by zero.
ZeroInputs ==
  [ Time |-> 0,
    ArmSwitch |-> FALSE, CommandSwitch |-> FALSE, ResetSwitch |-> FALSE,
    IOAvailable |-> FALSE, FireDetected |-> FALSE,
    EngineTemp |-> 0, AuxTemp0 |-> 0, AuxTemp1 |-> 0,
    OutputAvailable |-> FALSE,
    U1 |-> 0, U2 |-> 0, U3 |-> 0, P1 |-> 0, P2 |-> 0, P3 |-> 0, F |-> 0 ]

\* The IO unit comes and goes, and the reset switch is pressed.
ResetInputs == [ResetSwitch |-> {TRUE}, IOAvailable |-> BOOLEAN]
=============================================================================
