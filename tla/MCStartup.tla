----------------------------- MODULE MCStartup -----------------------------
EXTENDS Startup

\* Two names, of which up to three devices are made, one of them of a section
\* that behaves like the others; a client that may receive one of them, and may
\* list another.
Assignments ==
  {f \in [Sections -> SUBSET Names] :
     /\ f["victron"] = {} /\ f["http"] \subseteq {"a"}
     /\ Cardinality(f["http"]) + Cardinality(f["modbus"]) + Cardinality(f["gpio"])
          + Cardinality(f["mqtt"]) + Cardinality(f["genset"]) \in 1..3}

Listings ==
  {[f \in Forwarders |-> {}], [f \in Forwarders |-> IF f = "realtime" THEN {"b"} ELSE {}]}

MCConfigs ==
  {[devices |-> f, modbus |-> {"x"}, bus |-> [n \in Names |-> IF n = "a" THEN "x" ELSE y],
    bindings |-> b, viewed |-> {"a"},
    clients |-> [m \in {"m"} |->
      [receives |-> r, readOnly |-> o, enabled |-> {"hass", "realtime", "command"}, listed |-> l]]]
   : f \in Assignments, y \in {"x", "y"}, b \in {{}, {"b"}}, r \in {{}, {"a"}, {"a", "b"}},
     o \in BOOLEAN, l \in Listings}
=============================================================================
