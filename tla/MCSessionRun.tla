---------------------------- MODULE MCSessionRun ----------------------------
(* Two calls, with one artifacts directory or with two.  The first runs one  *)
(* scenario on both of its workers at the same time, the second two scenarios *)
(* on one worker.                                                            *)
EXTENDS SessionRun, TLC

CONSTANTS r1, r2, s, t, here, there

MCRuns == {r1, r2}
MCRoots == (r1 :> {here}) @@ (r2 :> {here, there})
MCSuite == (r1 :> <<s, s>>) @@ (r2 :> <<s, t>>)
MCSize == (r1 :> 2) @@ (r2 :> 1)
MCKinds == (r1 :> {"own"}) @@ (r2 :> {"kept", "user"})
MCTraced == {r1}
=============================================================================
