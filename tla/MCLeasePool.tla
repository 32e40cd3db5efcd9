---------------------------- MODULE MCLeasePool ----------------------------
(***************************************************************************)
(* Model values and bounds for LeasePool.  MaxActive + |Backends| - 1      *)
(* record names are enough: a thread that provisions finds fewer than      *)
(* MaxActive records in the pool and holds none itself, and each of the    *)
(* other backends refers to one at most.                                   *)
(***************************************************************************)
EXTENDS LeasePool, TLC

CONSTANTS r1, r2, r3, b1, b2, s1, s2

MCRecords2 == {r1, r2}
MCRecords3 == {r1, r2, r3}
MCBackends == {b1, b2}
MCOneScale == {s1}
MCTwoScales == {s1, s2}
MCNoTime == {0}
MCLimits == {0, 1}
MCLongLimits == {1, 3}

\* Records, backends and scales are interchangeable in every safety property.
MCSymmetry ==
  Permutations(MCRecords3) \cup Permutations(MCBackends) \cup Permutations(MCTwoScales)
=============================================================================
