------------------------ MODULE MCRegisterForwarders ------------------------
\* An instance of RegisterForwarders for TLC: the filters come from
\* configurations, the kinds are a read-only number and a writable switch.
EXTENDS RegisterForwarders

CONSTANTS n1, n2

F == INSTANCE RegisterFilters WITH AvailabilityName <- "Available"

Sensor == [category |-> "c1", type |-> "number", writable |-> FALSE, keys |-> 0]
Switch == [category |-> "c2", type |-> "enum", writable |-> TRUE, keys |-> 2]
KindsDef == {Sensor, Switch}

All == [includeRegisters |-> {}, skipRegisters |-> {}, includeCategories |-> {},
        skipCategories |-> {}, defaultInclude |-> TRUE]
SomeRegisters == [All EXCEPT !.includeRegisters = {n1}, !.skipCategories = {"c1"}]

FilterDef ==
  [s \in Subs |->
     CASE s = Command -> {r \in Registers : F!WritableFilter(All, r)}
       [] s = Hass -> {r \in Registers : F!RegisterValueFilter(SomeRegisters, r)}
       [] OTHER -> {r \in Registers : F!RegisterValueFilter(All, r)}]

\* Commands, and structure messages or discovery.
MCInit ==
  /\ Init
  /\ subPc[Command] = "new"
  /\ {subPc[Structure], subPc[Hass]} = {"new", "off"}

MCSpec == MCInit /\ [][Next]_vars /\ Fairness
=============================================================================
