--------------------------- MODULE MCValueStorage ---------------------------
\* An instance of ValueStorage for TLC.
EXTENDS ValueStorage

CONSTANTS k1, v1, s1, s2

\* Every subscription lets every key through.
FilterAll == [s \in Subs |-> Keys]
=============================================================================
