--------------------------- MODULE WorkerReadiness ---------------------------
(***************************************************************************)
(* Bringing up one deployed worker: activation of its SONiC devices        *)
(* (runtime/apply_configs.py), the health check (runtime/health.py and     *)
(* observability/validation.py) before and after the client agents are     *)
(* started (client_agent/deploy.py), in the order of                       *)
(* deploy_worker_transactionally.                                          *)
(*                                                                         *)
(* Devices boot, converge and flap on their own.  Every reading may fail,  *)
(* every command may be refused or run into its timeout.                   *)
(***************************************************************************)
EXTENDS Naturals, FiniteSets

CONSTANTS
  Devices, Clients,
  Addresses,        \* for each device, the addresses its ConfigDB declares
  Targets,          \* _convergence_targets without all_routing_devices
  AgentTarget,      \* the client whose agent the final check asks
  ParallelDevices,  \* devices activated at a time
  MaxTries,         \* bound: readiness attempts per device
  Retries           \* bound: polls of one stage of the health check

ASSUME WorkerSetsAssumption == /\ IsFiniteSet(Devices) /\ IsFiniteSet(Clients)
                               /\ Targets \subseteq Devices /\ AgentTarget \in Clients
ASSUME WorkerBoundsAssumption == {ParallelDevices, MaxTries, Retries} \subseteq Nat \ {0}

VARIABLES
  boot,       \* how far SONiC has started on each device
  kernel,     \* the addresses its kernel has
  telemetry,  \* its telemetry server: none, that of the image, the one activation started
  converged,  \* its BGP sessions and interfaces are all up
  task,       \* where its activation is
  missing,    \* addresses the activation found missing
  tries,      \* readiness attempts used
  agent,      \* for each client: its agent processes
  start,      \* where their start is
  scheduled,  \* the clients whose container was listed as running, so that a start is tried
  phase,      \* what the worker's thread is doing
  check,      \* the health check under way
  flapped,    \* history: devices that lost their sessions since the first check began
  late,       \* clients on which a start command goes on after its timeout
  unstopped   \* clients on which the cleanup could not stop the agent

deviceVars == <<boot, kernel, telemetry, converged, flapped>>
taskVars == <<task, missing, tries>>
agentVars == <<agent, start, scheduled, late, unstopped>>
workerVars == <<deviceVars, taskVars, agentVars, phase, check>>

Boots == {"starting", "configdb", "ready"}
Ended == {"ok", "failed", "raised"}
NoCheck == [stage |-> "none", left |-> {}, attempt |-> 0, final |-> FALSE]

WorkerTypeOK ==
  /\ boot \in [Devices -> Boots] /\ \A d \in Devices : kernel[d] \subseteq Addresses[d] /\ missing[d] \subseteq Addresses[d]
  /\ telemetry \in [Devices -> {"none", "image", "activated"}]
  /\ converged \in [Devices -> BOOLEAN] /\ flapped \subseteq Devices
  /\ task \in [Devices -> {"queued", "wait", "activate", "inspect", "repair", "verify"} \cup Ended]
  /\ tries \in [Devices -> 0..MaxTries]
  /\ agent \in [Clients -> {"none", "previous", "new"}]
  /\ start \in [Clients -> {"queued", "wait", "ok", "failed"}]
  /\ scheduled \subseteq Clients /\ late \subseteq Clients /\ unstopped \subseteq Clients
  /\ phase \in {"apply", "check", "listing", "agents", "cleanup", "ready", "failed"}
  /\ check \in [stage : {"none", "containers", "network", "ping", "agents", "observe"},
                left : SUBSET (Devices \cup Clients), attempt : 0..Retries, final : BOOLEAN]

WorkerInit ==
  /\ boot = [d \in Devices |-> "starting"] /\ kernel = [d \in Devices |-> {}]
  /\ telemetry = [d \in Devices |-> "image"] /\ converged = [d \in Devices |-> FALSE]
  /\ task = [d \in Devices |-> "queued"] /\ missing = [d \in Devices |-> {}] /\ tries = [d \in Devices |-> 0]
  /\ agent \in [Clients -> {"none", "previous"}] /\ start = [c \in Clients |-> "queued"]
  /\ scheduled = {} /\ late = {} /\ unstopped = {} /\ flapped = {}
  /\ phase = "apply" /\ check = NoCheck

----------------------------------------------------------------------------
(* The devices *)

\* ConfigDB answers first; once all services run, some addresses may be missing from the kernel.
Boot(d) ==
  /\ \/ boot[d] = "starting" /\ boot' = [boot EXCEPT ![d] = "configdb"] /\ UNCHANGED kernel
     \/ /\ boot[d] = "configdb" /\ boot' = [boot EXCEPT ![d] = "ready"]
        /\ \E present \in SUBSET Addresses[d] : kernel' = [kernel EXCEPT ![d] = present]
  /\ UNCHANGED <<telemetry, converged, flapped, taskVars, agentVars, phase, check>>

Converge(d) ==
  /\ ~converged[d] /\ task[d] = "ok"
  /\ converged' = [converged EXCEPT ![d] = TRUE]
  /\ UNCHANGED <<boot, kernel, telemetry, flapped, taskVars, agentVars, phase, check>>

Flap(d) ==
  /\ converged[d]
  /\ converged' = [converged EXCEPT ![d] = FALSE]
  /\ flapped' = IF phase = "apply" THEN flapped ELSE flapped \cup {d}
  /\ UNCHANGED <<boot, kernel, telemetry, taskVars, agentVars, phase, check>>

----------------------------------------------------------------------------
(* apply_configs: one thread per device, at most Parallel at a time *)

Moved(d, to) == task' = [task EXCEPT ![d] = to]
Threads == {d \in Devices : task[d] \notin {"queued"} \cup Ended}

(* _apply_single_device: the files it needs may be missing *)
StartActivation(d) ==
  /\ phase = "apply" /\ task[d] = "queued" /\ Cardinality(Threads) < ParallelDevices
  /\ Moved(d, "wait") \/ Moved(d, "failed")
  /\ UNCHANGED <<deviceVars, missing, tries, agentVars, phase, check>>

\* _wait_for_sonic asks ConfigDB, vtysh, the services, then ConfigDB and COUNTERS_DB
SonicReady(d) == boot[d] = "ready"

WaitForSonic(d) ==
  /\ task[d] = "wait"
  /\ \/ SonicReady(d) /\ Moved(d, "activate") /\ UNCHANGED tries
     \/ /\ tries' = [tries EXCEPT ![d] = @ + 1]
        /\ Moved(d, IF tries'[d] = MaxTries THEN "failed" ELSE "wait")
  /\ UNCHANGED <<deviceVars, missing, agentVars, phase, check>>

(* _activate_preseed_device stops the telemetry server and starts its own; its timeout is not caught *)
Activate(d) ==
  /\ task[d] = "activate"
  /\ \/ telemetry' = [telemetry EXCEPT ![d] = "activated"] /\ Moved(d, "inspect")
     \/ /\ \E t \in {telemetry[d], "none", "activated"} : telemetry' = [telemetry EXCEPT ![d] = t]
        /\ Moved(d, "failed") \/ Moved(d, "raised")
  /\ UNCHANGED <<boot, kernel, converged, flapped, missing, tries, agentVars, phase, check>>

\* _expected_interface_addresses: those its ConfigDB declares
Expected(d) == Addresses[d]

(* _kernel_interface_addresses *)
Absent(d) == Expected(d) \ kernel[d]

(* _reconcile_preseed_interfaces *)
Inspect(d) ==
  /\ task[d] = "inspect"
  /\ \/ missing' = [missing EXCEPT ![d] = Absent(d)] /\ Moved(d, IF Expected(d) = {} THEN "ok" ELSE "repair")
     \/ Expected(d) # {} /\ Moved(d, "failed") /\ UNCHANGED missing
  /\ UNCHANGED <<deviceVars, tries, agentVars, phase, check>>

Repair(d) ==
  /\ task[d] = "repair"
  /\ \/ missing[d] = {} /\ Moved(d, "verify") /\ UNCHANGED <<kernel, missing>>
     \/ \E a \in missing[d] :
          /\ missing' = [missing EXCEPT ![d] = @ \ {a}]
          /\ \/ kernel' = [kernel EXCEPT ![d] = @ \cup {a}] /\ UNCHANGED task
             \/ UNCHANGED <<kernel, task>>      \* reported as done
             \/ UNCHANGED kernel /\ Moved(d, "failed")
  /\ UNCHANGED <<boot, telemetry, converged, flapped, tries, agentVars, phase, check>>

\* Mutant: what was set is not read back.
TrustRepair(d) ==
  /\ task[d] = "verify" /\ Moved(d, "ok")
  /\ UNCHANGED <<deviceVars, missing, tries, agentVars, phase, check>>

Verify(d) ==
  /\ task[d] = "verify"
  /\ \/ Absent(d) = {} /\ Moved(d, "ok")
     \/ Moved(d, "failed")
  /\ UNCHANGED <<deviceVars, missing, tries, agentVars, phase, check>>

StartCheck(final) == phase' = "check" /\ check' = [NoCheck EXCEPT !.stage = "containers", !.final = final]

(* apply_configs returns, or its first future.result() raises; deploy_worker_lab refuses failed devices *)
EndApply ==
  /\ phase = "apply" /\ \A d \in Devices : task[d] \in Ended
  /\ IF \A d \in Devices : task[d] = "ok"
     THEN StartCheck(FALSE)
     ELSE phase' = "failed" /\ UNCHANGED check
  /\ UNCHANGED <<deviceVars, taskVars, agentVars>>

----------------------------------------------------------------------------
(* check_worker_health: five stages in order, each polled at most Retries times *)

\* An error in any stage fails the worker; the second check is the last stage of the bring-up.
StageFails == phase' = "failed" /\ check' = NoCheck
StageEnds(next, left) == check' = [check EXCEPT !.stage = next, !.left = left, !.attempt = 0] /\ UNCHANGED phase
\* Mutant: polls are not counted.
PollForEver(left) == check' = [check EXCEPT !.left = left] /\ UNCHANGED phase

PollAgain(left) ==
  IF check.attempt + 1 = Retries THEN StageFails
  ELSE check' = [check EXCEPT !.left = left, !.attempt = @ + 1] /\ UNCHANGED phase

At(stage) == phase = "check" /\ check.stage = stage
EndStage == UNCHANGED <<deviceVars, taskVars, agentVars>>

\* Mutant: the first check, too, asks a sample of the devices.
SampleDevices ==
  /\ At("containers")
  /\ StageEnds("network", Targets) \/ StageFails
  /\ EndStage

(* the telegraf sidecar runs, and no container is missing *)
CheckContainers ==
  /\ At("containers")
  /\ StageEnds("network", IF check.final THEN Targets ELSE Devices) \/ StageFails
  /\ EndStage

\* fewer established sessions or active interfaces than the topology expects
NotConverged(d) == ~converged[d]

\* Only the devices that were not converged yet are asked again.
PollNetwork ==
  /\ At("network")
  /\ \E unreadable \in SUBSET check.left :
       LET left == {d \in check.left : NotConverged(d) \/ d \in unreadable}
       IN IF left = {} THEN StageEnds("ping", {}) ELSE PollAgain(left)
  /\ EndStage

PingClient ==
  /\ At("ping")
  /\ \/ StageEnds(IF check.final THEN "agents" ELSE "observe", IF check.final THEN {AgentTarget} ELSE {})
     \/ PollAgain({})
  /\ EndStage

\* ready, with a heartbeat that is not too old
PollAgents ==
  /\ At("agents")
  /\ \/ (\A c \in check.left : agent[c] # "none") /\ StageEnds("observe", {})
     \/ PollAgain(check.left)
  /\ EndStage

(* check_observability *)
PollTelemetry ==
  /\ At("observe")
  /\ \/ phase' = (IF check.final THEN "ready" ELSE "listing") /\ check' = NoCheck
     \/ PollAgain({})
  /\ EndStage

----------------------------------------------------------------------------
(* deploy_client_agents *)

Started(c, to) == start' = [start EXCEPT ![c] = to]

(* _running_containers: nothing runs in a container that docker does not list.  When docker ps *)
(* fails no container passes for running; when it does not end in time that is not caught.     *)
ListContainers ==
  /\ phase = "listing"
  /\ \/ /\ scheduled' \in SUBSET Clients /\ phase' = "agents"
        /\ agent' = [c \in Clients |-> IF c \in scheduled' THEN agent[c] ELSE "none"]
     \/ scheduled' = {} /\ phase' \in {"agents", "failed"} /\ UNCHANGED agent
  /\ start' = [c \in Clients |-> IF c \in scheduled' THEN "queued" ELSE "failed"]
  /\ UNCHANGED <<deviceVars, taskVars, late, unstopped, check>>

\* _start_client stops what runs and starts both processes
StartAgent(c) ==
  /\ phase = "agents" /\ start[c] = "queued"
  /\ \/ agent' = [agent EXCEPT ![c] = "new"] /\ Started(c, "wait") /\ UNCHANGED late
     \/ /\ \E a \in {agent[c], "none", "new"} : agent' = [agent EXCEPT ![c] = a]
        /\ Started(c, "failed") /\ late' \in {late, late \cup {c}}
  /\ UNCHANGED <<deviceVars, taskVars, phase, check, scheduled, unstopped>>

(* _wait_until_ready *)
WaitUntilReady(c) ==
  /\ start[c] = "wait"
  /\ Started(c, "ok") \/ Started(c, "failed")
  /\ UNCHANGED <<deviceVars, taskVars, agent, scheduled, late, unstopped, phase, check>>

\* the shell of a start command that timed out goes on inside the container
LateStart(c) ==
  /\ c \in late
  /\ agent' = [agent EXCEPT ![c] = "new"]
  /\ UNCHANGED <<deviceVars, taskVars, start, scheduled, late, unstopped, phase, check>>

\* Mutant: only the agents that did start are left to the cleanup.
CleanUpSuccesses ==
  /\ phase = "agents" /\ \A c \in Clients : start[c] \in {"ok", "failed"}
  /\ IF \A c \in Clients : start[c] = "ok"
     THEN StartCheck(TRUE)
     ELSE phase' = "cleanup" /\ check' = [NoCheck EXCEPT !.left = {c \in Clients : start[c] = "ok"}]
  /\ UNCHANGED <<deviceVars, taskVars, agentVars>>

EndAgents ==
  /\ phase = "agents" /\ \A c \in Clients : start[c] \in {"ok", "failed"}
  /\ IF \A c \in Clients : start[c] = "ok"
     THEN StartCheck(TRUE)
     ELSE phase' = "cleanup" /\ check' = [NoCheck EXCEPT !.left = scheduled]
  /\ UNCHANGED <<deviceVars, taskVars, agentVars>>

(* _cleanup_started_clients, for the containers that were scheduled *)
StopAgent(c) ==
  /\ phase = "cleanup" /\ c \in check.left
  /\ check' = [check EXCEPT !.left = @ \ {c}]
  /\ \/ agent' = [agent EXCEPT ![c] = "none"] /\ UNCHANGED unstopped
     \/ unstopped' = unstopped \cup {c} /\ agent' \in {agent, [agent EXCEPT ![c] = "none"]}
  /\ UNCHANGED <<deviceVars, taskVars, start, scheduled, late, phase>>

EndCleanup ==
  /\ phase = "cleanup" /\ check.left = {}
  /\ phase' = "failed" /\ check' = NoCheck
  /\ UNCHANGED <<deviceVars, taskVars, agentVars>>

----------------------------------------------------------------------------
Activation(d) ==
  StartActivation(d) \/ WaitForSonic(d) \/ Activate(d) \/ Inspect(d) \/ Repair(d) \/ Verify(d)
Health == CheckContainers \/ PollNetwork \/ PingClient \/ PollAgents \/ PollTelemetry
AgentSteps(c) == StartAgent(c) \/ WaitUntilReady(c) \/ StopAgent(c)
Bringup == EndApply \/ Health \/ ListContainers \/ EndAgents \/ EndCleanup

WorkerNext ==
  \/ \E d \in Devices : Boot(d) \/ Converge(d) \/ Flap(d) \/ Activation(d)
  \/ \E c \in Clients : AgentSteps(c) \/ LateStart(c)
  \/ Bringup

WorkerFairness ==
  /\ \A d \in Devices : WF_workerVars(Activation(d))
  /\ \A c \in Clients : WF_workerVars(AgentSteps(c))
  /\ WF_workerVars(Bringup)

WorkerSpec == WorkerInit /\ [][WorkerNext]_workerVars /\ WorkerFairness

----------------------------------------------------------------------------
(* Properties *)

\* A worker declared ready runs on activated devices only: all the addresses of its ConfigDB are
\* in the kernel, the telemetry server is the one activation started, and every client runs the
\* agents this bring-up started.
ReadyMeansActivated ==
  phase = "ready" =>
    /\ \A d \in Devices : kernel[d] = Addresses[d] /\ telemetry[d] = "activated"
    /\ \A c \in Clients : agent[c] = "new"

\* Agents are started, and a worker is ready, only once every device has been seen converged: a
\* device that is not converged then has lost its sessions since the first check began.
NetworkWasConverged ==
  phase \in {"listing", "agents", "ready"} => \A d \in Devices : converged[d] \/ d \in flapped

\* When not every agent could be started none is left running, except where the cleanup says so
\* and where the shell of a timed-out start command went on.  When docker listed no container
\* nothing was started, and nothing stopped either: the agents of before run on, unreported.
AgentsAllOrNone ==
  phase = "failed" /\ (\E c \in Clients : start[c] = "failed") =>
    \A c \in Clients : \/ agent[c] = "none" \/ c \in unstopped \cup late
                       \/ scheduled = {} /\ agent[c] = "previous"

\* How a bring-up ended is true either way: ready on activated devices with agents on all clients,
\* or failed with agents of this bring-up on none.
BringUpTruthful == ReadyMeansActivated /\ AgentsAllOrNone

\* Every bring-up ends, ready or refused: no stage waits for ever.
BringUpEnds == <>(phase \in {"ready", "failed"})
=============================================================================
