------------------------- MODULE MCSimulatorService -------------------------
(* Small instances of SimulatorService for TLC. *)
EXTENDS SimulatorService, TLC

CONSTANTS e1, e2, w1, w2

MCEnvs1 == {e1}
MCEnvs2 == {e1, e2}
MCWorkers2 == {w1, w2}

\* Environments and workers are interchangeable.
Symmetry2 == Permutations(MCEnvs2) \cup Permutations(MCWorkers2)
=============================================================================
