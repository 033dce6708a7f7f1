---------------------------- MODULE MCMqttDevice ----------------------------
\* An instance of MqttDevice for TLC: the other side offers its availability,
\* the values, or commands.  A connection is lost in each case, and made again or
\* structure messages race; commands are for registers of different messages.
EXTENDS MqttDevice

CONSTANT n1

Case(os, ns, r, u, b) == [offers |-> os, names |-> ns, retains |-> r, connections |-> u, batches |-> b]

SettingsDef ==
  {Case({"availability"}, {n1}, FALSE, 2, 2), Case({"realtime"}, {n1}, TRUE, 2, 2),
   Case({"realtime"}, {n1}, FALSE, 2, 2), Case({"telemetry", "realtime"}, {n1}, FALSE, 2, 2),
   Case({"command"}, Names, FALSE, 1, 2)}
=============================================================================
