--------------------------- MODULE MCDeviceFaults ---------------------------
(* The faults of one device, two of them at a time. *)
EXTENDS DeviceFaults

MCKinds == AllKinds
MCStacks == {"netem", "acl_misconfig"}
=============================================================================
