---------------------------- MODULE DeviceFaults ----------------------------
(***************************************************************************)
(* The faults of one device and the tracker that promises to undo them     *)
(* (platform/faults/handlers except link.py, services/tracking.py,         *)
(* FaultInjector.recover_all).  A handler runs alone, on the executor's    *)
(* thread, so a whole handler is one step; what makes it hard is that each *)
(* of its commands may be refused, may time out after it took effect, or   *)
(* may report success without having any, and each state it reads back may *)
(* be unreadable.  Every outcome is a member of a set of results.          *)
(*                                                                         *)
(* After Heal the device answers every command and every read, and nothing *)
(* more is injected.                                                       *)
(***************************************************************************)
EXTENDS Tracker, SequencesExt

CONSTANTS
  DeviceKinds,      \* the faults injected, of AllKinds
  MaxDeviceFaults,  \* bound: faults tracked at a time
  Stacks,           \* groups of which several faults are injected before a recovery
  OwnRoute,         \* the device has a static route of its own for the target
  UnreadableMtu     \* the kernel's MTU may be unreadable while other commands work

Impairments == {"packet_corruption", "packet_loss", "high_latency"}
Neighbor == {"peer_as_mismatch", "password_mismatch", "update_source_mismatch"}
Policy == {"network_statement_missing", "route_map_deny_prefix"}
AllKinds == {"mtu_mismatch", "blackhole_route", "static_route_misconfig", "acl_misconfig",
             "device_down"} \cup Impairments \cup Neighbor \cup Policy

\* the faults one recovery takes from the tracker together (its remove_faults predicate)
Group(kind) ==
  IF kind \in Impairments THEN "netem"
  ELSE IF kind \in Neighbor THEN "neighbor"
  ELSE IF kind \in Policy THEN "policy" ELSE kind

ASSUME DeviceKindsAssumption == DeviceKinds \subseteq AllKinds
ASSUME DeviceBoundAssumption == MaxDeviceFaults \in Nat
ASSUME SwitchesAssumption == OwnRoute \in BOOLEAN /\ UnreadableMtu \in BOOLEAN

VARIABLES
  dev,              \* the device
  deviceFaults,     \* FaultTracker.active_faults
  devicePending,    \* recover_all: the faults of its copy not yet looked at
  deviceRemaining,  \* recover_all: remaining_faults
  phase,            \* "idle", or inside recover_all
  healed            \* the device answers everything from now on

deviceVars == <<dev, deviceFaults, devicePending, deviceRemaining, phase, healed>>

Mtus == {"original", "faulty"}
Device ==
  [mtu : Mtus, configured : Mtus, qdisc : {"none"} \cup Impairments,
   routes : SUBSET {"Null0", "wrong", "own"}, neighbor : SUBSET Neighbor,
   policy : SUBSET {"network", "prefix-list", "deny"}, rules : Nat,
   acl : SUBSET {"table", "rule"}, running : BOOLEAN, parked : BOOLEAN, whole : BOOLEAN]
DeviceFault == [kind : DeviceKinds, residual : BOOLEAN, original : BOOLEAN]

Original ==
  [mtu |-> "original", configured |-> "original", qdisc |-> "none",
   routes |-> IF OwnRoute THEN {"own"} ELSE {}, neighbor |-> {}, policy |-> {"network"},
   rules |-> 0, acl |-> {}, running |-> TRUE, parked |-> FALSE, whole |-> TRUE]

DeviceTypeOK ==
  /\ dev \in Device
  /\ deviceFaults \in Seq(DeviceFault) /\ devicePending \in Seq(DeviceFault) /\ deviceRemaining \in Seq(DeviceFault)
  /\ phase \in {"idle", "recovering"} /\ healed \in BOOLEAN

DeviceInit ==
  /\ dev = Original /\ deviceFaults = <<>> /\ devicePending = <<>> /\ deviceRemaining = <<>>
  /\ phase = "idle" /\ healed = FALSE

----------------------------------------------------------------------------
(* Commands and readbacks *)

\* A command that turns the device into one of `partial` or, when it runs to its end, into `full`.
Run(d, partial, full) ==
  IF healed THEN {[ok |-> TRUE, dev |-> full]}
  ELSE [ok : BOOLEAN, dev : {d, full} \cup partial]

\* What a check that demands a readable state can say of p.
Confirmed(p) == IF healed THEN {p} ELSE {p, FALSE}

\* Runs of a command, each followed by the readback of what it should have done.
Verified(runs, good) ==
  UNION {{[ok |-> r.ok /\ c, dev |-> r.dev] : c \in Confirmed(good[r.dev])} : r \in runs}

\* vtysh reports only what it applied; used where the readback looks at a session.
Applied(runs, full) == {r \in runs : r.ok => r.dev = full}

(* InterfaceRuntime.get_interface_mtu falls back to CONFIG_DB, then to the other ports *)
ReadMtu(d) == {d.mtu} \cup (IF UnreadableMtu /\ ~healed THEN {d.configured, "original"} ELSE {})

(* ImpairmentHandler._apply_mtu: `config interface mtu`, then, if that is not read back, `ip link` *)
ApplyMtu(d, mtu) ==
  LET config == Run(d, {[d EXCEPT !.configured = mtu]}, [d EXCEPT !.mtu = mtu, !.configured = mtu])
      link(e) == Run(e, {}, [e EXCEPT !.mtu = mtu])
      read(runs) == UNION {{[ok |-> r.ok /\ m = mtu, dev |-> r.dev] : m \in ReadMtu(r.dev)} : r \in runs}
      first == read(config)
  IN {r \in first : r.ok} \cup UNION {read(link(r.dev)) : r \in {s \in first : ~s.ok}}

(* recover_tc_rules, and the compensation of _finish_netem_injection *)
DeleteQdisc(d) == Verified(Run(d, {}, [d EXCEPT !.qdisc = "none"]), [e \in Device |-> e.qdisc = "none"])

(* vtysh -c "configure terminal" ... "write memory" on the routes of the target *)
RemoveRoute(d, statement) == Run(d, {}, [d EXCEPT !.routes = @ \ {statement}])

RecoverBlackhole(d) == Verified(RemoveRoute(d, "Null0"), [e \in Device |-> "Null0" \notin e.routes])

\* the second command set, `no ip route <target>`, runs when the first is refused
RecoverStaticRoute(d) ==
  LET first == RemoveRoute(d, "wrong")
      everything(e) == Run(e, {}, [e EXCEPT !.routes = {}])
      runs == {r \in first : r.ok} \cup UNION {everything(r.dev) : r \in {s \in first : ~s.ok}}
  IN Verified(runs, [e \in Device |-> e.routes = {}])

(* recover_bgp_neighbor_misconfig writes the fault's original value and waits for the session *)
RecoverNeighbor(d, kind, original) ==
  LET full == IF original THEN [d EXCEPT !.neighbor = @ \ {kind}] ELSE [d EXCEPT !.neighbor = @ \cup {kind}]
  IN Verified(Applied(Run(d, {}, full), full), [e \in Device |-> e.neighbor = {}])

(* _running_config, _bgp_prefix_present: the prefix of the policy is originated *)
Originated(d) == "network" \in d.policy

(* recover_route_policy_misconfig *)
RecoverPolicy(d, kind) ==
  IF kind = "network_statement_missing"
  THEN Verified(Run(d, {}, [d EXCEPT !.policy = @ \cup {"network"}]), [e \in Device |-> Originated(e)])
  ELSE Verified(Run(d, {[d EXCEPT !.policy = @ \ {"deny"}]}, [d EXCEPT !.policy = @ \ {"deny", "prefix-list"}]),
                [e \in Device |-> e.policy \cap {"deny", "prefix-list"} = {}])

(* recover_acl_misconfig: one iptables rule and both CONFIG_DB entries, whatever each returns *)
AclAbsent(d) == d.rules = 0 /\ d.acl = {}
AclPresent(d) == d.rules > 0 /\ d.acl = {"table", "rule"}
RecoverAcl(d) ==
  LET rule == Run(d, {}, [d EXCEPT !.rules = IF @ = 0 THEN 0 ELSE @ - 1])
      entries(e) == {r.dev : r \in Run(e, {[e EXCEPT !.acl = @ \ {"rule"}], [e EXCEPT !.acl = @ \ {"table"}]},
                                       [e EXCEPT !.acl = {}])}
  IN UNION {{[ok |-> c, dev |-> e] : c \in Confirmed(AclAbsent(e))}
             : e \in UNION {entries(r.dev) : r \in rule}}

(* _settled_stop_state: the node has stopped and its parking namespace is there *)
Parked(d) == ~d.running /\ d.parked

(* SystemHandler._start_and_wait: only a stopped node with a parking namespace is started (that
   either state may be unreadable is a start that does nothing) *)
StartNode(d) ==
  LET started == [d EXCEPT !.running = TRUE, !.parked = FALSE]
      runs == Run(d, {[started EXCEPT !.whole = FALSE], [started EXCEPT !.running = FALSE, !.whole = FALSE],
                      [started EXCEPT !.parked = TRUE]}, started)
      activated(e) == Confirmed(e.running /\ ~e.parked /\ e.whole)
  IN IF Parked(d)
     THEN UNION {{[ok |-> c, dev |-> r.dev] : c \in activated(r.dev)} : r \in runs}
     ELSE {[ok |-> FALSE, dev |-> d]}

(* what FaultSpec.recover_active_fault does for a fault of each kind *)
Recovery(d, f) ==
  CASE f.kind = "mtu_mismatch"           -> ApplyMtu(d, IF f.original THEN "original" ELSE "faulty")
    [] f.kind \in Impairments            -> DeleteQdisc(d)
    [] f.kind = "blackhole_route"        -> RecoverBlackhole(d)
    [] f.kind = "static_route_misconfig" -> RecoverStaticRoute(d)
    [] f.kind \in Neighbor               -> RecoverNeighbor(d, f.kind, f.original)
    [] f.kind \in Policy                 -> RecoverPolicy(d, f.kind)
    [] f.kind = "acl_misconfig"          -> RecoverAcl(d)
    [] f.kind = "device_down"            -> StartNode(d)

----------------------------------------------------------------------------
(* Injection: the attempt, and what its failure leaves behind *)

(* inject_device_down: what counts is the settled state, whatever `containerlab stop` returned *)
StopNode(d) ==
  LET stopped == {r.dev : r \in Run(d, {[d EXCEPT !.running = FALSE, !.whole = FALSE], [d EXCEPT !.parked = TRUE]},
                                    [d EXCEPT !.running = FALSE, !.parked = TRUE])}
  IN UNION {{[ok |-> c, dev |-> e] : c \in Confirmed(Parked(e))} : e \in stopped}

(* inject_packet_corruption, inject_packet_loss and inject_high_latency: `tc qdisc replace` *)
SetQdisc(d, kind) == Verified(Run(d, {}, [d EXCEPT !.qdisc = kind]), [e \in Device |-> e.qdisc = kind])

\* Mutant: only CONFIG_DB is read back, not the rule that drops the packets.
TrustConfigDb(d) ==
  LET rule == Run(d, {}, [d EXCEPT !.rules = @ + 1])
      entries(e) == {r.dev : r \in Run(e, {[e EXCEPT !.acl = {"table"}], [e EXCEPT !.acl = {"rule"}]},
                                       [e EXCEPT !.acl = {"table", "rule"}])}
      written == UNION {IF r.ok THEN entries(r.dev) ELSE {r.dev} : r \in rule}
  IN UNION {{[ok |-> c, dev |-> e] : c \in Confirmed(e.acl = {"table", "rule"})} : e \in written}

(* inject_acl_misconfig *)
InsertAcl(d) ==
  LET rule == Run(d, {}, [d EXCEPT !.rules = @ + 1])
      entries(e) == {r.dev : r \in Run(e, {[e EXCEPT !.acl = {"table"}], [e EXCEPT !.acl = {"rule"}]},
                                       [e EXCEPT !.acl = {"table", "rule"}])}
      written == UNION {IF r.ok THEN entries(r.dev) ELSE {r.dev} : r \in rule}
  IN UNION {{[ok |-> c, dev |-> e] : c \in Confirmed(AclPresent(e))} : e \in written}

AddRoute(d, statement) ==
  Verified(Run(d, {}, [d EXCEPT !.routes = @ \cup {statement}]), [e \in Device |-> statement \in e.routes])

(* inject_blackhole_route, inject_static_route_misconfig *)
InjectBlackhole(d) == AddRoute(d, "Null0")
InjectStaticRoute(d) == AddRoute(d, "wrong")

(* inject_bgp_neighbor_misconfig *)
Misconfigure(d, kind) ==
  LET full == [d EXCEPT !.neighbor = @ \cup {kind}]
  IN Verified(Applied(Run(d, {}, full), full), [e \in Device |-> e.neighbor # {}])

(* inject_route_policy_misconfig *)
WithdrawNetwork(d) == Verified(Run(d, {}, [d EXCEPT !.policy = @ \ {"network"}]), [e \in Device |-> ~Originated(e)])

DenyPrefix(d) ==
  LET listed == [d EXCEPT !.policy = @ \cup {"prefix-list"}]
  IN Verified(Run(d, {listed}, [listed EXCEPT !.policy = @ \cup {"deny"}]),
              [e \in Device |-> {"prefix-list", "deny"} \subseteq e.policy])

(* FaultSpec.inject_episode *)
Attempt(d, kind) ==
  CASE kind = "mtu_mismatch"              -> ApplyMtu(d, "faulty")
    [] kind \in Impairments               -> SetQdisc(d, kind)
    [] kind = "blackhole_route"           -> InjectBlackhole(d)
    [] kind = "static_route_misconfig"    -> InjectStaticRoute(d)
    [] kind \in Neighbor                  -> Misconfigure(d, kind)
    [] kind = "network_statement_missing" -> WithdrawNetwork(d)
    [] kind = "route_map_deny_prefix"     -> DenyPrefix(d)
    [] kind = "acl_misconfig"             -> InsertAcl(d)
    [] kind = "device_down"               -> StopNode(d)

\* recover_<kind> of the handlers that compensate with it; a node that did not stop cleanly, and
\* is not read back as untouched, is left as it is
Compensation(d, f) ==
  IF f.kind = "device_down"
  THEN {[ok |-> c, dev |-> d] : c \in Confirmed(d.running /\ ~d.parked)}
  ELSE Recovery(d, f)

Untracked(seq, kind) == Without(seq, {k \in AllKinds : Group(k) = Group(kind)})

\* inject_mtu_mismatch and _finish_netem_injection compensate without touching the tracker
Forgets(kind) == kind \notin Impairments \cup {"mtu_mismatch", "device_down"}

MayInject(kind) ==
  /\ phase = "idle" /\ ~healed /\ Len(deviceFaults) < MaxDeviceFaults
  /\ \A f \in ToSet(deviceFaults) : /\ Group(f.kind) = Group(kind) => Group(kind) \in Stacks
                                    /\ f.kind # "device_down" /\ kind # "device_down"
  /\ kind \in Policy => Originated(dev)

\* the state to go back to, as the handler saw it before the fault
Snapshots(kind) ==
  CASE kind = "mtu_mismatch" -> {m = "original" : m \in ReadMtu(dev)}
    [] kind \in Neighbor     -> {kind \notin dev.neighbor}
    [] OTHER                 -> {TRUE}

InjectOnDevice(kind) ==
  /\ MayInject(kind)
  /\ \E original \in Snapshots(kind), a \in Attempt(dev, kind) :
       LET f == [kind |-> kind, residual |-> ~a.ok, original |-> original]
       IN IF a.ok
          THEN dev' = a.dev /\ deviceFaults' = Append(deviceFaults, f)
          ELSE \E c \in Compensation(a.dev, f) :
                 /\ dev' = c.dev
                 /\ deviceFaults' = IF ~c.ok THEN Append(deviceFaults, f)
                              ELSE IF Forgets(kind) THEN Untracked(deviceFaults, kind) ELSE deviceFaults
  /\ UNCHANGED <<devicePending, deviceRemaining, phase, healed>>

----------------------------------------------------------------------------
(* FaultInjector.recover_all *)

StartRecovery ==
  /\ phase = "idle" /\ deviceFaults # <<>>
  /\ phase' = "recovering" /\ devicePending' = deviceFaults /\ deviceRemaining' = <<>>
  /\ UNCHANGED <<dev, deviceFaults, healed>>

\* Mutant: a fault stays listed whatever its recovery reports.
KeepEveryFault ==
  /\ devicePending # <<>>
  /\ devicePending' = Tail(devicePending)
  /\ \E r \in Recovery(dev, Head(devicePending)) :
       /\ dev' = r.dev
       /\ deviceFaults' = IF r.ok THEN Untracked(deviceFaults, Head(devicePending).kind) ELSE deviceFaults
       /\ deviceRemaining' = Append(deviceRemaining, Head(devicePending))
  /\ UNCHANGED <<phase, healed>>

RecoverNextOnDevice ==
  /\ devicePending # <<>>
  /\ devicePending' = Tail(devicePending)
  /\ \E r \in Recovery(dev, Head(devicePending)) :
       /\ dev' = r.dev
       /\ deviceFaults' = IF r.ok THEN Untracked(deviceFaults, Head(devicePending).kind) ELSE deviceFaults
       /\ deviceRemaining' = IF r.ok THEN deviceRemaining ELSE Append(deviceRemaining, Head(devicePending))
  /\ UNCHANGED <<phase, healed>>

\* Mutant: the tracker is cleared although some recoveries failed.
ForgetRemaining ==
  /\ phase = "recovering" /\ devicePending = <<>>
  /\ deviceFaults' = <<>> /\ deviceRemaining' = <<>> /\ phase' = "idle"
  /\ UNCHANGED <<dev, devicePending, healed>>

EndRecovery ==
  /\ phase = "recovering" /\ devicePending = <<>>
  /\ deviceFaults' = deviceRemaining /\ deviceRemaining' = <<>> /\ phase' = "idle"
  /\ UNCHANGED <<dev, devicePending, healed>>

Heal == ~healed /\ healed' = TRUE /\ UNCHANGED <<dev, deviceFaults, devicePending, deviceRemaining, phase>>

DeviceNext == (\E kind \in DeviceKinds : InjectOnDevice(kind)) \/ StartRecovery \/ RecoverNextOnDevice \/ EndRecovery \/ Heal

\* _cleanup_after_scenario calls recover_all again while faults remain
DeviceFairness == WF_deviceVars(StartRecovery) /\ WF_deviceVars(RecoverNextOnDevice) /\ WF_deviceVars(EndRecovery)

DeviceSpec == DeviceInit /\ [][DeviceNext]_deviceVars /\ DeviceFairness

----------------------------------------------------------------------------
(* Properties *)

\* The live state of the device; CONFIG_DB's MTU is not part of it.
DeviceClean(d) == [d EXCEPT !.configured = "original"] = Original

\* Between calls, a device none of whose faults is tracked is in its original state: every change
\* an injection could not undo, and every recovery that was not read back, is still tracked.
UntrackedMeansOriginal == phase = "idle" /\ deviceFaults = <<>> => DeviceClean(dev)

InEffect(d, kind) ==
  CASE kind = "mtu_mismatch"              -> d.mtu = "faulty"
    [] kind \in Impairments               -> d.qdisc = kind
    [] kind = "blackhole_route"           -> "Null0" \in d.routes
    [] kind = "static_route_misconfig"    -> "wrong" \in d.routes
    [] kind \in Neighbor                  -> kind \in d.neighbor
    [] kind = "network_statement_missing" -> ~Originated(d)
    [] kind = "route_map_deny_prefix"     -> {"prefix-list", "deny"} \subseteq d.policy
    [] kind = "acl_misconfig"             -> AclPresent(d)
    [] kind = "device_down"               -> Parked(d)

\* An injection that reports success has put its fault into effect: what the diagnosis is scored
\* against is really there, whatever the commands returned.
InjectedInEffect ==
  [][(phase = "idle" /\ Len(deviceFaults') > Len(deviceFaults) /\ ~Last(deviceFaults').residual)
       => InEffect(dev', Last(deviceFaults').kind)]_deviceVars

\* Once the device answers, repeated recovery empties the tracker, except of a node that was
\* stopped: one whose parking namespace was lost, or that runs again without being ready, is
\* never started a second time.
RecoveryConverges ==
  healed ~> (phase = "idle" /\ (deviceFaults = <<>> \/ \E f \in ToSet(deviceFaults) : f.kind = "device_down"))
=============================================================================
