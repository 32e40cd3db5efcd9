--------------------------- MODULE TrafficControl ---------------------------
(***************************************************************************)
(* Background traffic: the controller that switches all clients of a       *)
(* topology together (traffic/controller.py, traffic/scenario_execution.py *)
(* and client_agent/control.py), and the traffic process of each client    *)
(* (native/client-agent: control.rs, traffic.rs).                          *)
(*                                                                         *)
(* One operation is sent to all clients in parallel, each request at most  *)
(* twice (request_agent gives up after 3 s).  A request may be lost, its   *)
(* answer may be lost, and a request that was given up may be carried out  *)
(* late: the process reads it until 5 s after it accepted the connection,  *)
(* two seconds after the sender gave up, which is before the next start or *)
(* stop of the episode but possibly after later requests of this one.      *)
(* verify_active_flows is one more round of status requests; it changes    *)
(* nothing and is left out.                                                *)
(***************************************************************************)
EXTENDS Naturals, FiniteSets

CONSTANTS
  Clients,
  Flows,     \* the flows of a client's plan
  MaxGen,    \* bound: matrices started
  MaxPolls,  \* bound: rounds of status requests until the 15 s deadline
  MaxLost    \* bound: requests and answers lost

ASSUME TrafficSetsAssumption == IsFiniteSet(Clients) /\ IsFiniteSet(Flows) /\ Clients # {}
ASSUME TrafficBoundsAssumption == MaxGen \in Nat \ {0} /\ MaxPolls \in Nat \ {0} /\ MaxLost \in Nat

VARIABLES
  agent,   \* status and plan of each traffic process
  flow,    \* transport of each flow of its scheduler
  ctl,     \* the controller: its generation, and what its last operation came to
  call,    \* the requests that start_matrix or stop_all is sending
  todo,    \* attempts left for each client that has not answered yet
  result,  \* what the answers of this round come to
  polls,   \* rounds of status requests so far
  gens,    \* generations handed out
  lost, late

agentVars == <<agent, flow>>
callVars == <<call, todo, result, polls>>
trafficVars == <<agentVars, ctl, callVars, gens, lost, late>>

Ops == {"reset", "load_plan", "enable", "disable", "status"}
Request == [client : Clients, op : Ops, gen : 0..MaxGen]
Process == [gen : 0..MaxGen, plan : BOOLEAN, enabled : BOOLEAN, sender : BOOLEAN, active : 0..Cardinality(Flows)]
Fresh == [gen |-> 0, plan |-> FALSE, enabled |-> FALSE, sender |-> FALSE, active |-> 0]
Idle == [f \in Flows |-> "down"]

TrafficTypeOK ==
  /\ agent \in [Clients -> Process]
  /\ flow \in [Clients -> [Flows -> {"down", "connecting", "up"}]]
  /\ ctl \in [gen : 0..MaxGen, state : {"new", "active", "failed", "stopped"}]
  /\ call \in Ops \cup {"none", "undo"} /\ todo \in [Clients -> 0..2]
  /\ result \in {"ok", "waiting", "error"} /\ polls \in 0..MaxPolls
  /\ gens \in 0..MaxGen /\ lost \in 0..MaxLost /\ late \subseteq Request

TrafficInit ==
  /\ agent = [c \in Clients |-> Fresh] /\ flow = [c \in Clients |-> Idle]
  /\ ctl = [gen |-> 0, state |-> "new"]
  /\ call = "none" /\ todo = [c \in Clients |-> 0] /\ result = "ok" /\ polls = 0
  /\ gens = 0 /\ lost = 0 /\ late = {}

----------------------------------------------------------------------------
(* The traffic process *)

Disabled(p) == [p EXCEPT !.enabled = FALSE, !.sender = FALSE, !.active = 0]

Enabled(p) == IF p.sender THEN p ELSE [p EXCEPT !.enabled = TRUE, !.sender = Flows # {}, !.active = 0]

\* The listeners of the plan are bound; should one not be, none is left.
Loaded(gen) == {[ok |-> TRUE, p |-> [Fresh EXCEPT !.gen = gen, !.plan = TRUE]], [ok |-> FALSE, p |-> Fresh]}

\* What a request does to process p, and whether it is refused.
Handled(p, op, gen) ==
  CASE op = "reset"     -> {[ok |-> TRUE, p |-> Fresh]}
    [] op = "load_plan" -> Loaded(gen)
    [] op = "enable"    -> {[ok |-> p.gen = gen /\ p.plan, p |-> IF p.gen = gen /\ p.plan THEN Enabled(p) ELSE p]}
    [] op = "disable"   -> {[ok |-> p.gen = gen, p |-> IF p.gen = gen THEN Disabled(p) ELSE p]}
    [] op = "status"    -> {[ok |-> TRUE, p |-> p]}

\* A scheduler that is aborted drops the sockets of its flows.
CarryOut(c, p) ==
  /\ agent' = [agent EXCEPT ![c] = p]
  /\ flow' = IF p.sender /\ agent[c].sender THEN flow ELSE [flow EXCEPT ![c] = Idle]

(* service_flow: a connection attempt begins, succeeds, fails, or breaks *)

\* set_flow_active
FlowIs(c, f, state, active) ==
  /\ flow' = [flow EXCEPT ![c][f] = state]
  /\ agent' = [agent EXCEPT ![c].active = active]
  /\ UNCHANGED <<ctl, callVars, gens, lost, late>>

Active(c) == agent[c].active

BeginAttempt(c, f) == agent[c].sender /\ flow[c][f] = "down" /\ FlowIs(c, f, "connecting", Active(c))

Connected(c, f) == agent[c].sender /\ flow[c][f] = "connecting" /\ FlowIs(c, f, "up", Active(c) + 1)

AttemptFailed(c, f) == agent[c].sender /\ flow[c][f] = "connecting" /\ FlowIs(c, f, "down", Active(c))

Disconnected(c, f) ==
  /\ agent[c].sender /\ flow[c][f] = "up"
  /\ FlowIs(c, f, "down", IF Active(c) = 0 THEN 0 ELSE Active(c) - 1)

ServiceFlow(c, f) == BeginAttempt(c, f) \/ Connected(c, f) \/ AttemptFailed(c, f) \/ Disconnected(c, f)

----------------------------------------------------------------------------
(* One round of requests *)

Send(op) ==
  /\ call' = op /\ todo' = [c \in Clients |-> 2] /\ result' = "ok"
  /\ polls' = IF op = "status" THEN polls + 1 ELSE 0

Op == IF call = "undo" THEN "reset" ELSE call
Asked(c) == [client |-> c, op |-> Op, gen |-> IF Op \in {"load_plan", "enable", "disable"} THEN ctl.gen ELSE 0]

(* _status_ready *)
Ready(c) == agent[c].enabled /\ agent[c].gen = ctl.gen /\ agent[c].active = Cardinality(Flows)

\* Mutant: an attempt that timed out counts as carried out.
CountAsDone(c) ==
  /\ lost < MaxLost /\ lost' = lost + 1
  /\ todo' = [todo EXCEPT ![c] = 0] /\ UNCHANGED result

\* An attempt that gets no answer: _request_with_retry tries a second time and then gives up.
Unanswered(c) ==
  /\ lost < MaxLost /\ lost' = lost + 1
  /\ todo' = [todo EXCEPT ![c] = @ - 1]
  /\ result' = IF todo[c] = 1 THEN "error" ELSE result

Answered(c, ok) ==
  /\ todo' = [todo EXCEPT ![c] = 0] /\ UNCHANGED lost
  /\ result' = IF ~ok THEN "error"
               ELSE IF call = "status" /\ ~Ready(c) /\ result = "ok" THEN "waiting" ELSE result

Deliver(c) ==
  /\ todo[c] > 0
  /\ \E h \in Handled(agent[c], Op, Asked(c).gen) :
       CarryOut(c, h.p) /\ (Answered(c, h.ok) \/ Unanswered(c))
  /\ UNCHANGED <<ctl, call, polls, gens, late>>

Lose(c) ==
  /\ todo[c] > 0 /\ Unanswered(c)
  /\ late' \in {late, late \cup {Asked(c)}}
  /\ UNCHANGED <<agentVars, ctl, call, polls, gens>>

CarryOutLate(r) ==
  /\ r \in late /\ late' = late \ {r}
  /\ \E h \in Handled(agent[r.client], r.op, r.gen) : CarryOut(r.client, h.p)
  /\ UNCHANGED <<ctl, callVars, gens, lost>>

----------------------------------------------------------------------------
(* The controller *)

RoundOver(op) == call = op /\ \A c \in Clients : todo[c] = 0

\* setup_traffic makes a controller of its own; start_matrix clears every client first.
StartMatrix ==
  /\ call = "none" /\ late = {} /\ gens < MaxGen /\ gens' = gens + 1
  /\ ctl' = [gen |-> 0, state |-> "new"] /\ Send("reset")
  /\ UNCHANGED <<agentVars, lost, late>>

GiveUp == Send("undo") /\ UNCHANGED ctl

LoadPlans ==
  /\ RoundOver("reset")
  /\ \/ result = "error" /\ GiveUp
     \/ result = "ok" /\ ctl' = [ctl EXCEPT !.gen = gens] /\ Send("load_plan")
  /\ UNCHANGED <<agentVars, gens, lost, late>>

EnableAll ==
  /\ RoundOver("load_plan")
  /\ \/ result = "error" /\ GiveUp
     \/ result = "ok" /\ Send("enable") /\ UNCHANGED ctl
  /\ UNCHANGED <<agentVars, gens, lost, late>>

AskStatus ==
  /\ RoundOver("enable")
  /\ \/ result = "error" /\ GiveUp
     \/ result = "ok" /\ Send("status") /\ UNCHANGED ctl
  /\ UNCHANGED <<agentVars, gens, lost, late>>

Return(c) == call' = "none" /\ ctl' = c /\ result' = "ok" /\ polls' = 0 /\ UNCHANGED todo

\* Mutant: the deadline is taken anew in every round.
PollAnew ==
  /\ RoundOver("status")
  /\ \/ result = "ok" /\ Return([ctl EXCEPT !.state = "active"])
     \/ result = "waiting" /\ call' = call /\ todo' = [c \in Clients |-> 2] /\ result' = "ok" /\ UNCHANGED <<polls, ctl>>
     \/ result = "error" /\ GiveUp
  /\ UNCHANGED <<agentVars, gens, lost, late>>

PollReady ==
  /\ RoundOver("status")
  /\ \/ result = "ok" /\ Return([ctl EXCEPT !.state = "active"])
     \/ result = "waiting" /\ polls < MaxPolls /\ Send("status") /\ UNCHANGED ctl
     \/ (result = "error" \/ (result = "waiting" /\ polls = MaxPolls)) /\ GiveUp
  /\ UNCHANGED <<agentVars, gens, lost, late>>

(* _reset_all_best_effort: whatever it came to, the generation is forgotten and the start raises *)
EndUndo ==
  /\ RoundOver("undo") /\ Return([gen |-> 0, state |-> "failed"])
  /\ UNCHANGED <<agentVars, gens, lost, late>>

(* stop_all of a controller without a generation sends nothing *)
StopAll ==
  /\ call = "none" /\ late = {} /\ ctl.state # "new"
  /\ \/ ctl.gen # 0 /\ Send("disable") /\ UNCHANGED ctl
     \/ ctl.gen = 0 /\ Return([gen |-> 0, state |-> "stopped"])
  /\ UNCHANGED <<agentVars, gens, lost, late>>

\* A stop that failed raises and leaves the controller as it was.
EndStop ==
  /\ RoundOver("disable")
  /\ Return(IF result = "error" THEN ctl ELSE [gen |-> 0, state |-> "stopped"])
  /\ UNCHANGED <<agentVars, gens, lost, late>>

Controller == LoadPlans \/ EnableAll \/ AskStatus \/ PollReady \/ EndUndo \/ EndStop

TrafficNext ==
  \/ StartMatrix \/ StopAll \/ Controller
  \/ \E c \in Clients : Deliver(c) \/ Lose(c) \/ \E f \in Flows : ServiceFlow(c, f)
  \/ \E r \in late : CarryOutLate(r)

\* A request is answered or runs into its timeout, and the controller's thread goes on.
TrafficFairness == WF_trafficVars(Controller) /\ \A c \in Clients : WF_trafficVars(Deliver(c) \/ Lose(c))

TrafficSpec == TrafficInit /\ [][TrafficNext]_trafficVars /\ TrafficFairness
----------------------------------------------------------------------------
(* Properties *)

Sending(c) == agent[c].sender /\ \E f \in Flows : flow[c][f] = "up"

\* The clients of a topology never send by the plans of two different matrices at once, although each
\* of them switches on its own and any request or answer can be lost (start_matrix).
NeverMixed == \A c, d \in Clients : Sending(c) /\ Sending(d) => agent[c].gen = agent[d].gen

\* When stop_all has disabled a matrix and returns, no client's scheduler is running, however often
\* its requests were carried out twice or unanswered.
StopSilences ==
  [][call = "disable" /\ call' = "none" /\ ctl'.state = "stopped" => \A c \in Clients : ~agent[c].sender]_trafficVars

\* start_matrix and stop_all come to an end, also if a client never answers or never gets ready.
CallsReturn == call # "none" ~> call = "none"

\* After stop_traffic has returned, no client sends: "Stop all active traffic flows."
StoppedMeansSilent == ctl.state = "stopped" => \A c \in Clients : ~agent[c].sender
=============================================================================
