--------------------------- MODULE MCValueSenders ---------------------------
\* An instance of ValueSenders for TLC.
EXTENDS ValueSenders

CONSTANTS n1, o1

\* The view skips the enumeration.
ViewDef == {n1, Avail}
=============================================================================
