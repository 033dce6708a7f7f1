------------------------------ MODULE MCModbus ------------------------------
\* An instance of Modbus for TLC.  Two registers of the Finder have one name, as
\* PFt does in its list.
EXTENDS Modbus

RegistersDef ==
  << [name |-> "PFt", addr |-> "a1", len |-> 4, static |-> FALSE],
     [name |-> "Model", addr |-> "a2", len |-> 16, static |-> TRUE],
     [name |-> "F", addr |-> "a3", len |-> 4, static |-> FALSE],
     [name |-> "PFt", addr |-> "a4", len |-> 4, static |-> FALSE] >>
=============================================================================
