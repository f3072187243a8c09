--------------------------- MODULE MCSandboxSync ---------------------------
(* Model values and symmetry for checking SandboxSync with TLC. *)
EXTENDS SandboxSync, TLC

Symmetry == Permutations(Calls) \cup Permutations(Revs)
============================================================================
