------------------------- MODULE MCServiceOwnership ------------------------
EXTENDS ServiceOwnership, TLC

CONSTANTS s1, s2, d1, d2, d3

\* Two sessions and a call that names none.
MCBy == d1 :> s1 @@ d2 :> s2 @@ d3 :> NoSession
============================================================================
