--------------------------- MODULE MCPowerSettings ---------------------------
(* PowerSettings for TLC: the threads are interchangeable.                 *)
EXTENDS PowerSettings, TLC

CallerSymmetry == Permutations(Callers)
=============================================================================
