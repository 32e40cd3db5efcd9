------------------------------ MODULE Tracker ------------------------------
(***************************************************************************)
(* The list of active faults (platform/faults/services/tracking.py), which *)
(* the injector of LinkFaults and that of DeviceFaults share.              *)
(***************************************************************************)
EXTENDS Naturals, Sequences

\* FaultTracker.remove_faults: the faults of other kinds, in their order.
Without(faults, kinds) ==
  LET kept[n \in 0..Len(faults)] ==
        IF n = 0 THEN <<>>
        ELSE IF faults[n].kind \in kinds THEN kept[n - 1] ELSE Append(kept[n - 1], faults[n])
  IN kept[Len(faults)]
=============================================================================
