------------------------- MODULE MCWorkerReadiness -------------------------
(* Two devices, one with two addresses, of which the final check asks one. *)
EXTENDS WorkerReadiness

MCDevices == {"spine1", "leaf1"}
MCClients == {"c1", "c2"}
MCAddresses == [d \in MCDevices |-> IF d = "spine1" THEN {} ELSE {"a", "b"}]
MCTargets == {"spine1"}
=============================================================================
