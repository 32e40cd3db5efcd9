------------------------- MODULE MCScenarioDispatch -------------------------
(* Two workers, of which the first has a second scenario to run. *)
EXTENDS ScenarioDispatch, TLC

CONSTANTS w1, w2

MCWorkers == {w1, w2}
MCShare == (w1 :> 2) @@ (w2 :> 1)
=============================================================================
