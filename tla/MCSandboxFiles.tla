--------------------------- MODULE MCSandboxFiles --------------------------
(* SandboxFiles for TLC: the calls are interchangeable.                    *)
EXTENDS SandboxFiles, TLC

CallSymmetry == Permutations(Calls)
=============================================================================
