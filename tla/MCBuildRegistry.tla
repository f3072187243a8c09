-------------------------- MODULE MCBuildRegistry --------------------------
EXTENDS BuildRegistry, TLC

Symmetry == Permutations(Tasks)

\* Bound: two evictions overlap, no more.
TwoEvictions == Cardinality({t \in Tasks : pc[t] # "off"}) <= 2
============================================================================
