---------------------------- MODULE EnginePhases ----------------------------
(***************************************************************************)
(* What the generator controller promises of the engine: it is started     *)
(* from standstill, runs without load before it is loaded, is unloaded     *)
(* before it is stopped in the ordinary way, and can be cut off at any     *)
(* moment, after which it is locked until it is released.                  *)
(***************************************************************************)
VARIABLE phase

Init == phase = "stopped"

Crank == phase = "stopped" /\ phase' = "cranking"
Catch == phase = "cranking" /\ phase' = "running"
Connect == phase = "running" /\ phase' = "loaded"
Disconnect == phase = "loaded" /\ phase' = "running"
TurnOff == phase \in {"cranking", "running"} /\ phase' = "stopped"
CutOff == phase # "locked" /\ phase' = "locked"
Release == phase = "locked" /\ phase' = "stopped"

Next == \/ Crank \/ Catch \/ Connect \/ Disconnect
        \/ TurnOff \/ CutOff \/ Release

Spec == Init /\ [][Next]_phase
=============================================================================
