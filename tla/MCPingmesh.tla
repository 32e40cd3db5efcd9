---------------------------- MODULE MCPingmesh ----------------------------
EXTENDS Pingmesh

\* One target on two batches of ports, and two targets in turn on one batch.
MCPolicies == {[targets |-> 1, size |-> 1, ports |-> 2, per |-> 1],
               [targets |-> 2, size |-> 1, ports |-> 1, per |-> 1]}

\* One target on one batch of two ports.
MCShort == {[targets |-> 1, size |-> 1, ports |-> 2, per |-> 2]}
=============================================================================
