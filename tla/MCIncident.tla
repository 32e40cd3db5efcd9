----------------------------- MODULE MCIncident -----------------------------
(***************************************************************************)
(* Two sessions, three threads: the harness threads of the two sessions,   *)
(* which also call tools, and a third that may close at any time.          *)
(***************************************************************************)
EXTENDS Incident, TLC

CONSTANTS t1, t2, t3, s1, s2

MCThreads == {t1, t2, t3}
MCSessions == {s1, s2}
MCHarness == (s1 :> t1) @@ (s2 :> t2)
MCTwoThreads == {t1, t2}
=============================================================================
