------------------------ MODULE WorkerServiceProofs ------------------------
(***************************************************************************)
(* Proofs about what runs beside the labs of a worker: the background      *)
(* traffic of its clients (TrafficControl), their Pingmesh agents with the *)
(* analysis of their rows (Pingmesh), and the BGP collector (BgpTelemetry) *)
(***************************************************************************)
EXTENDS TrafficControl, Pingmesh, BgpTelemetry, TLAPS, FiniteSetTheorems, WellFoundedInduction

----------------------------------------------------------------------------
(* The background traffic *)

\* Which processes run a scheduler is all that matters: the flows do not count.
Running(c) == agent[c].sender

TrafficTyped ==
  /\ agent \in [Clients -> [gen : 0..MaxGen, plan : BOOLEAN, enabled : BOOLEAN, sender : BOOLEAN, active : Nat]]
  /\ todo \in [Clients -> 0..2] /\ call \in Ops \cup {"none", "undo"}
  /\ call = "none" => \A c \in Clients : todo[c] = 0

\* One generation is in use at a time.
Generations ==
  /\ ctl.gen \in {0, gens}
  /\ call \in {"load_plan", "enable", "status", "disable"} => ctl.gen = gens
  /\ gens \in 0..MaxGen /\ ctl \in [gen : 0..MaxGen, state : {"new", "active", "failed", "stopped"}]
  /\ ctl.state = "stopped" => ctl.gen = 0
  /\ call = "disable" => ctl.gen # 0
  /\ call \in {"reset", "load_plan", "enable", "status"} => ctl.state = "new"
  /\ \A r \in late : r.client \in Clients /\ r.op \in Ops /\ (r.op \in {"load_plan", "enable", "disable"} => r.gen = gens)

\* While all clients are cleared, or stopped, nothing but that can still arrive late.
Silencing == {"reset", "disable"}
LateIsSilencing == call \in Silencing => \A r \in late : r.op = call

\* A client that has been cleared, or stopped, in this round runs nothing.
Silenced == call \in Silencing /\ result # "error" => \A c \in Clients : todo[c] = 0 => ~Running(c)

\* All schedulers are of one generation; it is the last one as soon as one of that can be started.
Starting == call \in {"load_plan", "enable", "status"} \/ \E r \in late : r.op = "enable"
OneGeneration ==
  /\ \A c, d \in Clients : Running(c) /\ Running(d) => agent[c].gen = agent[d].gen
  /\ Starting => \A c \in Clients : Running(c) => agent[c].gen = gens

TrafficInv == TrafficTyped /\ Generations /\ LateIsSilencing /\ Silenced /\ OneGeneration

----------------------------------------------------------------------------

LEMMA TrafficInvInit == TrafficInit => TrafficInv
  BY TrafficBoundsAssumption DEF TrafficInit, TrafficInv, TrafficTyped, Generations, LateIsSilencing, Silenced, OneGeneration, Starting,
     Running, Fresh, Silencing

\* What a request does to a process: it starts a scheduler only of the generation it names.
LEMMA Carried ==
  ASSUME NEW p \in [gen : 0..MaxGen, plan : BOOLEAN, enabled : BOOLEAN, sender : BOOLEAN, active : Nat],
         NEW op \in Ops, NEW gen \in 0..MaxGen, NEW h \in Handled(p, op, gen)
  PROVE  /\ h.p \in [gen : 0..MaxGen, plan : BOOLEAN, enabled : BOOLEAN, sender : BOOLEAN, active : Nat]
         /\ h.p.sender => \/ p.sender /\ h.p.gen = p.gen
                          \/ op = "enable" /\ h.p.gen = gen
         /\ op = "reset" \/ (op = "disable" /\ h.ok) => ~h.p.sender
         /\ op = "disable" => ~h.p.sender \/ (p.sender /\ h.p.gen = p.gen)
<1>1. /\ Fresh \in [gen : 0..MaxGen, plan : BOOLEAN, enabled : BOOLEAN, sender : BOOLEAN, active : Nat]
      /\ ~Fresh.sender
  BY TrafficBoundsAssumption DEF Fresh
<1>2. CASE op = "reset"
  BY <1>1, <1>2 DEF Handled
<1>3. CASE op = "load_plan"
  <2>1. h \in Loaded(gen)
    BY <1>3 DEF Handled
  <2>2. h.p = Fresh \/ h.p = [Fresh EXCEPT !.gen = gen, !.plan = TRUE]
    BY <2>1 DEF Loaded
  <2>3. /\ [Fresh EXCEPT !.gen = gen, !.plan = TRUE]
             \in [gen : 0..MaxGen, plan : BOOLEAN, enabled : BOOLEAN, sender : BOOLEAN, active : Nat]
        /\ ~[Fresh EXCEPT !.gen = gen, !.plan = TRUE].sender
    BY <1>1
  <2> QED
    BY <1>1, <1>3, <2>2, <2>3
<1>4. CASE op = "enable"
  <2>1. /\ Enabled(p) \in [gen : 0..MaxGen, plan : BOOLEAN, enabled : BOOLEAN, sender : BOOLEAN, active : Nat]
        /\ Enabled(p).gen = p.gen
    BY DEF Enabled
  <2> QED
    BY <1>4, <2>1 DEF Handled
<1>5. CASE op = "disable"
  <2>1. /\ Disabled(p) \in [gen : 0..MaxGen, plan : BOOLEAN, enabled : BOOLEAN, sender : BOOLEAN, active : Nat]
        /\ ~Disabled(p).sender
    BY DEF Disabled
  <2>2. CASE p.gen = gen
    <3>1. h.p = Disabled(p)
      BY <1>5, <2>2 DEF Handled
    <3> QED
      BY <1>5, <2>1, <3>1
  <2>3. CASE p.gen # gen
    <3>1. h = [ok |-> FALSE, p |-> p]
      BY <1>5, <2>3 DEF Handled
    <3> QED
      BY <1>5, <3>1
  <2> QED
    BY <2>2, <2>3
<1>6. CASE op = "status"
  BY <1>6 DEF Handled
<1> QED
  BY <1>2, <1>3, <1>4, <1>5, <1>6 DEF Ops

LEMMA AskedRequest ==
  ASSUME TrafficInv, NEW c \in Clients, call \in Ops \cup {"undo"}
  PROVE  /\ Op \in Ops /\ Op = (IF call = "undo" THEN "reset" ELSE call)
         /\ Asked(c).client = c /\ Asked(c).op = Op /\ Asked(c).gen \in 0..MaxGen
         /\ Op \in {"load_plan", "enable", "disable"} => Asked(c).gen = gens
<1>1. Op \in Ops /\ Op = (IF call = "undo" THEN "reset" ELSE call)
  BY DEF Op, Ops
<1>2. /\ Asked(c).client = c /\ Asked(c).op = Op
      /\ Asked(c).gen = IF Op \in {"load_plan", "enable", "disable"} THEN ctl.gen ELSE 0
  BY DEF Asked
<1>3. /\ Op \in {"load_plan", "enable", "disable"} => ctl.gen = gens
      /\ gens \in 0..MaxGen /\ 0 \in 0..MaxGen
  BY <1>1, TrafficBoundsAssumption DEF TrafficInv, Generations
<1> QED
  BY <1>1, <1>2, <1>3

\* One process is changed by a request.
LEMMA ProcessChanges ==
  ASSUME TrafficInv, NEW c \in Clients, NEW op \in Ops, NEW gen \in 0..MaxGen,
         NEW h \in Handled(agent[c], op, gen), CarryOut(c, h.p), op = "enable" => Starting /\ gen = gens
  PROVE  /\ agent' \in [Clients -> [gen : 0..MaxGen, plan : BOOLEAN, enabled : BOOLEAN, sender : BOOLEAN, active : Nat]]
         /\ agent'[c] = h.p /\ \A d \in Clients \ {c} : agent'[d] = agent[d]
         /\ \A a, b \in Clients : agent'[a].sender /\ agent'[b].sender => agent'[a].gen = agent'[b].gen
         /\ Starting => \A a \in Clients : agent'[a].sender => agent'[a].gen = gens
<1>1. /\ agent \in [Clients -> [gen : 0..MaxGen, plan : BOOLEAN, enabled : BOOLEAN, sender : BOOLEAN, active : Nat]]
      /\ \A a, b \in Clients : agent[a].sender /\ agent[b].sender => agent[a].gen = agent[b].gen
      /\ Starting => \A a \in Clients : agent[a].sender => agent[a].gen = gens
  BY DEF TrafficInv, TrafficTyped, OneGeneration, Running
<1>2. /\ h.p \in [gen : 0..MaxGen, plan : BOOLEAN, enabled : BOOLEAN, sender : BOOLEAN, active : Nat]
      /\ h.p.sender => \/ agent[c].sender /\ h.p.gen = agent[c].gen
                       \/ op = "enable" /\ h.p.gen = gen
  <2>1. agent[c] \in [gen : 0..MaxGen, plan : BOOLEAN, enabled : BOOLEAN, sender : BOOLEAN, active : Nat]
    BY <1>1
  <2> QED
    BY <2>1, Carried
<1>3. /\ agent' \in [Clients -> [gen : 0..MaxGen, plan : BOOLEAN, enabled : BOOLEAN, sender : BOOLEAN, active : Nat]]
      /\ agent'[c] = h.p /\ \A d \in Clients \ {c} : agent'[d] = agent[d]
  BY <1>1, <1>2 DEF CarryOut
<1>4. ASSUME NEW a \in Clients, agent'[a].sender, Starting PROVE agent'[a].gen = gens
  BY <1>1, <1>2, <1>3, <1>4
<1>5. ASSUME NEW a \in Clients, agent'[a].sender, ~Starting PROVE agent[a].sender /\ agent'[a].gen = agent[a].gen
  BY <1>1, <1>2, <1>3, <1>5
<1>6. \A a, b \in Clients : agent'[a].sender /\ agent'[b].sender => agent'[a].gen = agent'[b].gen
  BY <1>1, <1>4, <1>5
<1> QED
  BY <1>3, <1>4, <1>6

LEMMA DeliverKeeps ==
  ASSUME TrafficInv, NEW c \in Clients, Deliver(c)
  PROVE  TrafficInv'
<1>1. call \in Ops \cup {"undo"} /\ todo[c] > 0
  BY DEF Deliver, TrafficInv, TrafficTyped
<1>2. /\ Op \in Ops /\ Op = (IF call = "undo" THEN "reset" ELSE call) /\ Asked(c).gen \in 0..MaxGen
      /\ Op \in {"load_plan", "enable", "disable"} => Asked(c).gen = gens
  BY <1>1, AskedRequest
<1>3. PICK h \in Handled(agent[c], Op, Asked(c).gen) : CarryOut(c, h.p) /\ (Answered(c, h.ok) \/ Unanswered(c))
  BY DEF Deliver
<1>4. Op = "enable" => Starting /\ Asked(c).gen = gens
  BY <1>1, <1>2 DEF Starting
<1>5. /\ agent' \in [Clients -> [gen : 0..MaxGen, plan : BOOLEAN, enabled : BOOLEAN, sender : BOOLEAN, active : Nat]]
      /\ agent'[c] = h.p /\ \A d \in Clients \ {c} : agent'[d] = agent[d]
      /\ \A a, b \in Clients : agent'[a].sender /\ agent'[b].sender => agent'[a].gen = agent'[b].gen
      /\ Starting => \A a \in Clients : agent'[a].sender => agent'[a].gen = gens
  BY <1>2, <1>3, <1>4, ProcessChanges
<1>6. agent[c] \in [gen : 0..MaxGen, plan : BOOLEAN, enabled : BOOLEAN, sender : BOOLEAN, active : Nat]
  BY DEF TrafficInv, TrafficTyped
<1>7. Op = "reset" \/ (Op = "disable" /\ h.ok) => ~h.p.sender
  BY <1>2, <1>3, <1>6, Carried
<1>8. UNCHANGED <<ctl, call, gens, late>>
  BY DEF Deliver
<1>9. /\ todo' \in [Clients -> 0..2] /\ \A d \in Clients \ {c} : todo'[d] = todo[d]
      /\ result # "error" /\ todo'[c] = 0 => h.ok \/ result' = "error"
      /\ result = "error" => result' = "error"
  BY <1>1, <1>3 DEF Answered, Unanswered, TrafficInv, TrafficTyped
<1>10. Silenced'
  <2>1. ASSUME call \in Silencing, result' # "error", NEW d \in Clients, todo'[d] = 0
        PROVE  ~agent'[d].sender
    <3>1. CASE d = c
      <4>1. todo'[c] = 0 /\ result # "error"
        BY <1>9, <2>1, <3>1
      <4>2. h.ok
        BY <1>9, <2>1, <4>1
      <4>3. Op \in {"reset", "disable"}
        BY <1>2, <2>1 DEF Silencing
      <4> QED
        BY <1>5, <1>7, <3>1, <4>2, <4>3
    <3>2. CASE d # c
      BY <1>5, <1>9, <2>1, <3>2 DEF TrafficInv, Silenced, Running
    <3> QED
      BY <3>1, <3>2
  <2> QED
    BY <1>8, <2>1 DEF Silenced, Running
<1>11. TrafficTyped'
  BY <1>1, <1>5, <1>8, <1>9 DEF TrafficInv, TrafficTyped
<1>12. Generations' /\ LateIsSilencing'
  BY <1>8 DEF TrafficInv, Generations, LateIsSilencing
<1>13. OneGeneration'
  BY <1>5, <1>8 DEF OneGeneration, Running, Starting
<1> QED
  BY <1>10, <1>11, <1>12, <1>13 DEF TrafficInv

LEMMA LoseKeeps ==
  ASSUME TrafficInv, NEW c \in Clients, Lose(c)
  PROVE  TrafficInv'
<1>1. call \in Ops \cup {"undo"} /\ todo[c] > 0
  BY DEF Lose, TrafficInv, TrafficTyped
<1>2. /\ Op \in Ops /\ Op = (IF call = "undo" THEN "reset" ELSE call)
      /\ Asked(c).client = c /\ Asked(c).op = Op
      /\ Op \in {"load_plan", "enable", "disable"} => Asked(c).gen = gens
  BY <1>1, AskedRequest
<1>3. late' \subseteq late \cup {Asked(c)} /\ UNCHANGED <<agentVars, ctl, call, gens>>
  BY DEF Lose
<1>4. /\ todo' \in [Clients -> 0..2] /\ \A d \in Clients \ {c} : todo'[d] = todo[d]
      /\ todo'[c] = 0 => result' = "error"
      /\ result = "error" => result' = "error"
  BY <1>1 DEF Lose, Unanswered, TrafficInv, TrafficTyped
<1>5. TrafficTyped' /\ Generations'
  BY <1>1, <1>2, <1>3, <1>4 DEF TrafficInv, TrafficTyped, Generations, agentVars
<1>6. LateIsSilencing'
  BY <1>2, <1>3 DEF TrafficInv, LateIsSilencing, Silencing
<1>7. Silenced'
  BY <1>3, <1>4 DEF TrafficInv, Silenced, Running, agentVars
<1>8. Starting' => Starting
  BY <1>2, <1>3 DEF Starting
<1>9. OneGeneration'
  BY <1>3, <1>8 DEF TrafficInv, OneGeneration, Running, agentVars
<1> QED
  BY <1>5, <1>6, <1>7, <1>9 DEF TrafficInv

LEMMA LateKeeps ==
  ASSUME TrafficInv, NEW r \in late, CarryOutLate(r)
  PROVE  TrafficInv'
<1>1. /\ r.client \in Clients /\ r.op \in Ops /\ gens \in 0..MaxGen
      /\ r.op \in {"load_plan", "enable", "disable"} => r.gen = gens
  BY DEF TrafficInv, Generations
<1>2. PICK h \in Handled(agent[r.client], r.op, r.gen) : CarryOut(r.client, h.p)
  BY DEF CarryOutLate
<1>3. PICK gen \in 0..MaxGen : h \in Handled(agent[r.client], r.op, gen) /\ (r.op = "enable" => gen = gens)
  <2>1. CASE r.op \in {"load_plan", "enable", "disable"}
    BY <1>1, <1>2, <2>1
  <2>2. CASE r.op \in {"reset", "status"}
    BY <1>1, <1>2, <2>2 DEF Handled
  <2> QED
    BY <1>1, <2>1, <2>2 DEF Ops
<1>4. r.op = "enable" => Starting
  BY DEF Starting
<1>5. /\ agent' \in [Clients -> [gen : 0..MaxGen, plan : BOOLEAN, enabled : BOOLEAN, sender : BOOLEAN, active : Nat]]
      /\ agent'[r.client] = h.p /\ \A d \in Clients \ {r.client} : agent'[d] = agent[d]
      /\ \A a, b \in Clients : agent'[a].sender /\ agent'[b].sender => agent'[a].gen = agent'[b].gen
      /\ Starting => \A a \in Clients : agent'[a].sender => agent'[a].gen = gens
  BY <1>1, <1>2, <1>3, <1>4, ProcessChanges
<1>6. agent[r.client] \in [gen : 0..MaxGen, plan : BOOLEAN, enabled : BOOLEAN, sender : BOOLEAN, active : Nat]
  BY <1>1 DEF TrafficInv, TrafficTyped
<1>7. r.op \in {"reset", "disable"} => ~h.p.sender \/ agent[r.client].sender
  BY <1>1, <1>3, <1>6, Carried
<1>8. UNCHANGED <<ctl, call, todo, result, gens>> /\ late' = late \ {r}
  BY DEF CarryOutLate, callVars
<1>9. Silenced'
  <2>1. call \in Silencing => r.op \in {"reset", "disable"}
    BY DEF TrafficInv, LateIsSilencing, Silencing
  <2> QED
    BY <1>1, <1>5, <1>7, <1>8, <2>1 DEF TrafficInv, Silenced, Running
<1>10. TrafficTyped' /\ Generations' /\ LateIsSilencing'
  BY <1>5, <1>8 DEF TrafficInv, TrafficTyped, Generations, LateIsSilencing
<1>11. Starting' => Starting
  BY <1>8 DEF Starting
<1>12. OneGeneration'
  BY <1>5, <1>8, <1>11 DEF OneGeneration, Running
<1> QED
  BY <1>9, <1>10, <1>12 DEF TrafficInv

\* The flows of a scheduler come and go.
LEMMA FlowKeeps ==
  ASSUME TrafficInv, NEW c \in Clients, NEW f \in Flows, ServiceFlow(c, f)
  PROVE  TrafficInv'
<1>1. agent[c] \in [gen : 0..MaxGen, plan : BOOLEAN, enabled : BOOLEAN, sender : BOOLEAN, active : Nat]
  BY DEF TrafficInv, TrafficTyped
<1>2. PICK n \in Nat : agent' = [agent EXCEPT ![c].active = n]
  BY <1>1 DEF ServiceFlow, BeginAttempt, Connected, AttemptFailed, Disconnected, FlowIs, Active
<1>3. UNCHANGED <<ctl, callVars, gens, late>>
  BY DEF ServiceFlow, BeginAttempt, Connected, AttemptFailed, Disconnected, FlowIs
<1>4. /\ agent' \in [Clients -> [gen : 0..MaxGen, plan : BOOLEAN, enabled : BOOLEAN, sender : BOOLEAN, active : Nat]]
      /\ \A d \in Clients : agent'[d].sender = agent[d].sender /\ agent'[d].gen = agent[d].gen
  BY <1>2 DEF TrafficInv, TrafficTyped
<1> QED
  BY <1>3, <1>4 DEF TrafficInv, TrafficTyped, Generations, LateIsSilencing, Silenced, OneGeneration, Starting, Running, callVars

\* The controller begins a round, or ends an operation.
LEMMA ControllerKeeps ==
  ASSUME TrafficInv, StartMatrix \/ StopAll \/ Controller
  PROVE  TrafficInv'
<1>1. UNCHANGED <<agentVars, late>>
  BY DEF StartMatrix, StopAll, Controller, LoadPlans, EnableAll, AskStatus, PollReady, EndUndo, EndStop
<1>2. /\ agent \in [Clients -> [gen : 0..MaxGen, plan : BOOLEAN, enabled : BOOLEAN, sender : BOOLEAN, active : Nat]]
      /\ \A c, d \in Clients : Running(c) /\ Running(d) => agent[c].gen = agent[d].gen
  BY DEF TrafficInv, TrafficTyped, OneGeneration
<1>3. \A c \in Clients : Running(c)' <=> Running(c)
  BY <1>1 DEF Running, agentVars
<1>4. CASE StartMatrix
  <2>1. call' = "reset" /\ todo' = [c \in Clients |-> 2] /\ late = {} /\ gens' \in 0..MaxGen /\ ctl'.gen = 0
    BY <1>4, TrafficBoundsAssumption DEF StartMatrix, Send, TrafficInv, Generations
  <2>2. ctl' = [gen |-> 0, state |-> "new"]
    BY <1>4 DEF StartMatrix
  <2> QED
    BY <1>1, <1>2, <1>3, <2>1, <2>2, TrafficBoundsAssumption DEF TrafficInv, TrafficTyped, Generations, LateIsSilencing, Silenced, OneGeneration, Starting,
       Ops, Silencing, agentVars
<1>5. CASE LoadPlans \/ EnableAll \/ AskStatus \/ PollReady
  <2>1. gens' = gens /\ call \in {"reset", "load_plan", "enable", "status"}
    BY <1>5 DEF LoadPlans, EnableAll, AskStatus, PollReady, RoundOver
  <2>2. CASE call' = "undo"
    <3>1. todo' = [c \in Clients |-> 2] /\ ctl' = ctl
      BY <1>5, <2>2 DEF LoadPlans, EnableAll, AskStatus, PollReady, GiveUp, Send, Return
    <3> QED
      BY <1>1, <1>2, <1>3, <2>1, <2>2, <3>1 DEF TrafficInv, TrafficTyped, Generations, LateIsSilencing, Silenced,
         OneGeneration, Starting, Silencing, agentVars
  <2>3. CASE call' = "none"
    <3>1. PollReady /\ Return([ctl EXCEPT !.state = "active"])
      BY <1>5, <2>3 DEF LoadPlans, EnableAll, AskStatus, PollReady, GiveUp, Send
    <3>2. UNCHANGED todo /\ ctl' = [ctl EXCEPT !.state = "active"] /\ \A c \in Clients : todo[c] = 0
      BY <3>1 DEF PollReady, Return, RoundOver
    <3> QED
      BY <1>1, <1>2, <1>3, <2>1, <2>3, <3>2 DEF TrafficInv, TrafficTyped, Generations, LateIsSilencing, Silenced,
         OneGeneration, Starting, Silencing, agentVars
  <2>4. CASE call' \notin {"undo", "none"}
    <3>1. /\ call' \in {"load_plan", "enable", "status"} /\ todo' = [c \in Clients |-> 2]
          /\ ctl' = ctl \/ ctl' = [ctl EXCEPT !.gen = gens]
          /\ call = "reset" => ctl' = [ctl EXCEPT !.gen = gens]
      BY <1>5, <2>4 DEF LoadPlans, EnableAll, AskStatus, PollReady, GiveUp, Send, Return, RoundOver
    <3>3. (call = "reset" => result = "ok") /\ \A c \in Clients : todo[c] = 0
      BY <1>5, <2>4 DEF LoadPlans, EnableAll, AskStatus, PollReady, GiveUp, Send, Return, RoundOver
    <3>4. ctl'.gen = gens /\ ctl'.state = "new" /\ ctl' \in [gen : 0..MaxGen, state : {"new", "active", "failed", "stopped"}]
      BY <2>1, <3>1 DEF TrafficInv, Generations
    <3>2. \A c \in Clients : Running(c) => agent[c].gen = gens
      BY <2>1, <3>3 DEF TrafficInv, Silenced, Silencing, OneGeneration, Starting
    <3> QED
      BY <1>1, <1>2, <1>3, <2>1, <2>4, <3>1, <3>2, <3>4 DEF TrafficInv, TrafficTyped, Generations, LateIsSilencing, Silenced,
         OneGeneration, Starting, Silencing, Ops, agentVars
  <2> QED
    BY <2>2, <2>3, <2>4
<1>6. CASE StopAll \/ EndUndo \/ EndStop
  <2>1. CASE StopAll /\ call' = "disable"
    <3>1. todo' = [c \in Clients |-> 2] /\ ctl' = ctl /\ ctl.gen # 0 /\ late = {} /\ gens' = gens
      BY <2>1 DEF StopAll, Send, Return
    <3> QED
      BY <1>1, <1>2, <1>3, <2>1, <3>1 DEF TrafficInv, TrafficTyped, Generations, LateIsSilencing, Silenced, OneGeneration,
         Starting, Silencing, Ops, agentVars
  <2>2. CASE call' = "none"
    <3>1. /\ gens' = gens /\ UNCHANGED todo /\ \A c \in Clients : todo[c] = 0
          /\ \/ ctl' = ctl
             \/ \E st \in {"failed", "stopped"} : ctl' = [gen |-> 0, state |-> st]
      BY <1>6, <2>2 DEF StopAll, EndUndo, EndStop, Send, Return, RoundOver, TrafficInv, TrafficTyped
    <3> QED
      BY <1>1, <1>2, <1>3, <2>2, <3>1, TrafficBoundsAssumption DEF TrafficInv, TrafficTyped, Generations, LateIsSilencing, Silenced, OneGeneration,
         Starting, Silencing, agentVars
  <2>3. call' \in {"disable", "none"} /\ (call' = "disable" => StopAll)
    BY <1>6 DEF StopAll, EndUndo, EndStop, Send, Return
  <2> QED
    BY <2>1, <2>2, <2>3
<1> QED
  BY <1>4, <1>5, <1>6 DEF Controller

LEMMA TrafficInvStep == TrafficInv /\ [TrafficNext]_trafficVars => TrafficInv'
<1> SUFFICES ASSUME TrafficInv, [TrafficNext]_trafficVars PROVE TrafficInv'
  OBVIOUS
<1>1. CASE UNCHANGED trafficVars
  BY <1>1 DEF TrafficInv, TrafficTyped, Generations, LateIsSilencing, Silenced, OneGeneration, Starting, Running, trafficVars,
     agentVars, callVars
<1> QED
  BY <1>1, ControllerKeeps, DeliverKeeps, LoseKeeps, LateKeeps, FlowKeeps DEF TrafficNext

\* The clients of a topology never send by the plans of two matrices at once: start_matrix hands out
\* a new generation only after every client has answered that it was cleared, and a request that is
\* carried out late starts nothing but the generation it names.
THEOREM MatricesNeverMix == TrafficSpec => []NeverMixed
<1>1. TrafficInv => NeverMixed
  BY DEF TrafficInv, OneGeneration, Running, NeverMixed, Sending
<1> QED
  BY <1>1, TrafficInvInit, TrafficInvStep, PTL DEF TrafficSpec

\* When stop_all returns without an error no client runs a scheduler, whichever requests were lost,
\* repeated or carried out late on the way.
THEOREM StoppedIsSilent == TrafficSpec => StopSilences
<1> DEFINE Stops == call = "disable" /\ call' = "none" /\ ctl'.state = "stopped" => \A c \in Clients : ~agent[c].sender
<1>1. TrafficInv /\ [TrafficNext]_trafficVars => [Stops]_trafficVars
  <2> SUFFICES ASSUME TrafficInv, [TrafficNext]_trafficVars, call = "disable", call' = "none", ctl'.state = "stopped"
               PROVE  \A c \in Clients : ~agent[c].sender
    OBVIOUS
  <2>1. EndStop
    <3>1. ~UNCHANGED trafficVars
      BY DEF trafficVars, callVars
    <3>2. \A c \in Clients : ~Deliver(c) /\ ~Lose(c)
      BY DEF Deliver, Lose
    <3>3. \A c \in Clients, f \in Flows : ~ServiceFlow(c, f)
      BY DEF ServiceFlow, BeginAttempt, Connected, AttemptFailed, Disconnected, FlowIs, callVars
    <3>4. \A r \in late : ~CarryOutLate(r)
      BY DEF CarryOutLate, callVars
    <3>5. ~StartMatrix /\ ~StopAll /\ ~LoadPlans /\ ~EnableAll /\ ~AskStatus /\ ~PollReady /\ ~EndUndo
      BY DEF StartMatrix, StopAll, LoadPlans, EnableAll, AskStatus, PollReady, EndUndo, RoundOver
    <3> QED
      BY <3>1, <3>2, <3>3, <3>4, <3>5 DEF TrafficNext, Controller
  <2>2. (\A c \in Clients : todo[c] = 0) /\ (result # "error" \/ ctl.state = "stopped")
    BY <2>1 DEF EndStop, RoundOver, Return
  <2>3. ctl.state # "stopped"
    BY DEF TrafficInv, Generations
  <2> QED
    BY <2>2, <2>3 DEF TrafficInv, Silenced, Silencing, Running
<1> QED
  BY <1>1, TrafficInvInit, TrafficInvStep, PTL DEF TrafficSpec, StopSilences

----------------------------------------------------------------------------
(* Sums *)

\* Induction over the numbers up to m, for a set instead of a predicate.
LEMMA UpTo ==
  ASSUME NEW m \in Nat, NEW T, 0 \in T, \A n \in 0..m : n \in T /\ n < m => n + 1 \in T
  PROVE  0..m \subseteq T
<1> DEFINE bad == (0..m) \ T
           less == OpToRel(<, Nat)
<1> SUFFICES ASSUME bad # {} PROVE FALSE
  OBVIOUS
<1>1. bad \subseteq Nat
  OBVIOUS
<1>2. \A x, y \in Nat : y < x => <<y, x>> \in less
  BY DEF OpToRel
<1>3. IsWellFoundedOn(less, Nat)
  BY NatLessThanWellFounded
<1>4. PICK x \in bad : \A y \in bad : ~(<<y, x>> \in less)
  <2> HIDE DEF bad, less
  <2> QED  BY <1>1, <1>3, WFMin
<1>5. x \in Nat /\ x # 0 /\ x - 1 \in 0..m /\ x - 1 < m /\ (x - 1) + 1 = x /\ x - 1 < x /\ x - 1 \in Nat
  OBVIOUS
<1>6. x - 1 \notin bad
  <2> HIDE DEF bad, less
  <2>1. x - 1 \in Nat /\ <<x - 1, x>> \in less
    BY <1>2, <1>5
  <2> QED  BY <1>4, <2>1
<1> QED
  BY <1>5, <1>6

\* The sum over rows of one field is g[rows] for a function g of the sets of rows.
Some(s) == CHOOSE x \in s : TRUE
Sums(rows, field, g) ==
  [s \in SUBSET rows |-> IF s = {} THEN 0 ELSE Some(s)[field] + g[s \ {Some(s)}]]

LEMMA TotalUnfolds == \A rows, field : Total(rows, field) = (CHOOSE g : g = Sums(rows, field, g))[rows]
  BY DEF Total, MapThenSumSet, MapThenFoldSet, Sums, Some

\* Fields that agree on every row have the same sum.
LEMMA SameTotal ==
  ASSUME NEW rows, NEW a, NEW b, \A r \in rows : r[a] = r[b]
  PROVE  Total(rows, a) = Total(rows, b)
<1>1. ASSUME NEW g PROVE Sums(rows, a, g) = Sums(rows, b, g)
  <2>1. ASSUME NEW s \in SUBSET rows, s # {} PROVE Some(s)[a] = Some(s)[b]
    BY <2>1 DEF Some
  <2> QED  BY <2>1 DEF Sums
<1>2. (CHOOSE g : g = Sums(rows, a, g)) = (CHOOSE g : g = Sums(rows, b, g))
  BY <1>1
<1> QED  BY <1>2, TotalUnfolds

LEMMA SomeFacts ==
  ASSUME NEW s, IsFiniteSet(s), s # {}
  PROVE  /\ Some(s) \in s /\ IsFiniteSet(s \ {Some(s)})
         /\ Cardinality(s) \in Nat \ {0} /\ Cardinality(s \ {Some(s)}) = Cardinality(s) - 1
  BY FS_RemoveElement, FS_CardinalityType, FS_EmptySet DEF Some

\* Such a function exists for finite sets of rows.
LEMMA SumsExist ==
  ASSUME NEW rows, IsFiniteSet(rows), NEW field, \A r \in rows : r[field] \in Nat
  PROVE  \E g : g = Sums(rows, field, g)
<1> DEFINE m == Cardinality(rows)
           Small(n) == {s \in SUBSET rows : Cardinality(s) <= n}
           At(g, s) == IF s = {} THEN 0 ELSE Some(s)[field] + g[s \ {Some(s)}]
           T == {n \in 0..m : \E g : \A s \in Small(n) : g[s] = At(g, s)}
<1>1. m \in Nat /\ \A s \in SUBSET rows : IsFiniteSet(s) /\ Cardinality(s) \in Nat /\ Cardinality(s) <= m
  BY FS_CardinalityType, FS_Subset
<1>2. 0 \in T
  <2> DEFINE g == [s \in SUBSET rows |-> 0]
  <2>1. ASSUME NEW s \in Small(0) PROVE g[s] = At(g, s)
    <3>1. s \in SUBSET rows /\ Cardinality(s) <= 0 /\ Cardinality(s) \in Nat /\ IsFiniteSet(s)
      BY <1>1
    <3>2. s = {}
      BY <3>1, FS_EmptySet
    <3> QED  BY <3>1, <3>2
  <2> HIDE DEF g, At, Small
  <2> QED  BY <1>1, <2>1
<1>3. ASSUME NEW n \in 0..m, n \in T, n < m PROVE n + 1 \in T
  <2>1. PICK g : \A s \in Small(n) : g[s] = At(g, s)
    BY <1>3
  <2> DEFINE h == [s \in SUBSET rows |-> At(g, s)]
  <2>2. \A s \in Small(n) : h[s] = g[s]
    BY <2>1
  <2>3. ASSUME NEW s \in Small(n + 1) PROVE h[s] = At(h, s)
    <3>1. CASE s = {}
      BY <3>1
    <3>2. CASE s # {}
      <4>1. s \ {Some(s)} \in Small(n)
        BY <1>1, <3>2, SomeFacts
      <4>2. h[s] = Some(s)[field] + g[s \ {Some(s)}]
        BY <3>2
      <4>3. h[s \ {Some(s)}] = g[s \ {Some(s)}]
        <5> HIDE DEF h, Small
        <5> QED  BY <2>2, <4>1
      <4> HIDE DEF h
      <4> QED  BY <3>2, <4>2, <4>3
    <3> QED  BY <3>1, <3>2
  <2>4. n + 1 \in 0..m
    BY <1>1, <1>3
  <2> HIDE DEF h, At, Small
  <2> QED  BY <2>3, <2>4
<1>4. m \in T
  <2> HIDE DEF T, m
  <2> QED  BY <1>1, <1>2, <1>3, UpTo
<1>5. PICK g : \A s \in SUBSET rows : g[s] = At(g, s)
  BY <1>1, <1>4
<1> DEFINE h == [s \in SUBSET rows |-> g[s]]
<1>6. h = Sums(rows, field, h)
  BY <1>5 DEF Sums
<1> QED  BY <1>6

\* A sum of numbers is a number, and zero only if all of them are.
LEMMA TotalFacts ==
  ASSUME NEW rows, IsFiniteSet(rows), NEW field, \A r \in rows : r[field] \in Nat
  PROVE  /\ Total(rows, field) \in Nat
         /\ Total(rows, field) = 0 <=> \A r \in rows : r[field] = 0
<1>1. PICK g : g = Sums(rows, field, g) /\ Total(rows, field) = g[rows]
  BY SumsExist, TotalUnfolds
<1> DEFINE m == Cardinality(rows)
           Good(s) == g[s] \in Nat /\ (g[s] = 0 <=> \A r \in s : r[field] = 0)
           T == {n \in 0..m : \A s \in SUBSET rows : Cardinality(s) = n => Good(s)}
<1>2. m \in Nat /\ \A s \in SUBSET rows : IsFiniteSet(s) /\ Cardinality(s) \in Nat /\ Cardinality(s) <= m
  BY FS_CardinalityType, FS_Subset
<1>3. \A s \in SUBSET rows : g[s] = IF s = {} THEN 0 ELSE Some(s)[field] + g[s \ {Some(s)}]
  BY <1>1 DEF Sums
<1>4. 0 \in T
  BY <1>2, <1>3, FS_EmptySet
<1>5. ASSUME NEW n \in 0..m, n \in T, n < m PROVE n + 1 \in T
  <2>1. ASSUME NEW s \in SUBSET rows, Cardinality(s) = n + 1 PROVE Good(s)
    <3>1. s # {} /\ IsFiniteSet(s)
      BY <1>2, <2>1, FS_EmptySet
    <3>2. Cardinality(s \ {Some(s)}) = n /\ s \ {Some(s)} \in SUBSET rows /\ Some(s) \in s
      BY <1>2, <2>1, <3>1, SomeFacts
    <3>3. Good(s \ {Some(s)}) /\ Some(s)[field] \in Nat
      BY <1>5, <3>2
    <3>4. g[s] = Some(s)[field] + g[s \ {Some(s)}]
      BY <1>3, <3>1
    <3> QED  BY <3>2, <3>3, <3>4
  <2> HIDE DEF Good
  <2> QED  BY <1>2, <1>5, <2>1
<1>6. m \in T
  <2> HIDE DEF T, m
  <2> QED  BY <1>2, <1>4, <1>5, UpTo
<1> QED  BY <1>1, <1>6

----------------------------------------------------------------------------
(* What the analysis reads from rows that are true *)

Counters == {"sent", "lost", "dfSent", "dfLost", "drops", "errors", "probed", "missed", "dfMissed"}

\* A row counts as sent and lost exactly the probes of its cycle, and the errors it admits tell whether
\* every probe of the cycle was sent.
Truthful(r) ==
  /\ r.target \in TargetsOf /\ \A field \in Counters : r[field] \in Nat
  /\ r.lost = r.missed /\ r.dfLost = r.dfMissed /\ r.sent = r.probed /\ r.missed <= r.probed
  /\ r.errors = 0 \/ r.errors = r.drops => r.probed = ActivePorts(r.batch)
  /\ r.errors = 0 => r.dfSent > 0 /\ r.drops = 0

TruthfulRows(rows) == IsFiniteSet(rows) /\ \A r \in rows : Truthful(r)

LEMMA Totals ==
  ASSUME NEW rows, TruthfulRows(rows), NEW field \in Counters
  PROVE  /\ Total(rows, field) \in Nat
         /\ Total(rows, field) = 0 <=> \A r \in rows : r[field] = 0
  BY TotalFacts DEF TruthfulRows, Truthful

LEMMA Parts ==
  ASSUME NEW rows, TruthfulRows(rows), NEW part \in SUBSET rows
  PROVE  TruthfulRows(part)
  BY FS_Subset DEF TruthfulRows

LEMMA OnFacts ==
  ASSUME NEW rows, TruthfulRows(rows), NEW t, NEW b
  PROVE  /\ TruthfulRows(On(rows, t, b)) /\ On(rows, t, b) \subseteq rows
         /\ \A r \in On(rows, t, b) : r.target = t /\ r.batch = b
  BY Parts DEF On

LEMMA SampledFacts ==
  ASSUME NEW rows, TruthfulRows(rows), NEW t
  PROVE  /\ TruthfulRows(Sampled(rows, t)) /\ Sampled(rows, t) \subseteq rows
         /\ \A r \in Sampled(rows, t) : r.target = t /\ r.sent > 0
         /\ \A r \in rows : r.target = t /\ r.sent > 0 => r \in Sampled(rows, t)
  BY Parts DEF Sampled

\* Where no small packet was lost and all large ones were, that many probes went unanswered.
LEMMA LargeOnlyIsMissed ==
  ASSUME NEW rows, TruthfulRows(rows), LargeOnlyLost(rows)
  PROVE  Total(rows, "dfMissed") > Confirm /\ Total(rows, "missed") = 0
<1>1. Total(rows, "dfLost") = Total(rows, "dfMissed") /\ Total(rows, "lost") = Total(rows, "missed")
  <2>1. \A r \in rows : r["dfLost"] = r["dfMissed"] /\ r["lost"] = r["missed"]
    BY DEF TruthfulRows, Truthful
  <2> QED  BY <2>1, SameTotal
<1>2. \A field \in Counters : Total(rows, field) \in Nat
  BY Totals
<1>3. Confirm \in Nat
  BY SizesAssumption
<1> QED  BY <1>1, <1>2, <1>3 DEF LargeOnlyLost, Counters

LEMMA PortsActive ==
  ASSUME policy \in Policies, NEW b \in 0..PortBatches - 1
  PROVE  ActivePorts(b) \in Nat \ {0}
<1> DEFINE n == policy.ports
           d == policy.per
<1>1. n \in Nat \ {0} /\ d \in Nat \ {0} /\ d <= n
  BY PoliciesAssumption
<1>2. PortBatches = (n + d - 1) \div d
  BY DEF PortBatches, Ceil
<1>3. PortBatches \in Nat /\ d * PortBatches <= n + d - 1
  <2> HIDE DEF n, d
  <2>1. n + d - 1 \in Nat
    BY <1>1
  <2> QED  BY <1>1, <1>2, <2>1
<1>4. d * (b + 1) <= d * PortBatches /\ d * (b + 1) = b * d + d /\ b * d \in Nat
  <2> HIDE DEF n, d
  <2>1. b + 1 <= PortBatches /\ b \in Nat
    BY <1>3
  <2> QED  BY <1>1, <1>3, <2>1
<1>5. n - b * d \in Nat \ {0}
  <2> HIDE DEF n, d
  <2> QED  BY <1>1, <1>3, <1>4
<1>6. ActivePorts(b) = IF d <= n - b * d THEN d ELSE n - b * d
  <2> HIDE DEF n, d
  <2>1. ActivePorts(b) = Min({d, n - b * d})
    BY DEF ActivePorts, n, d
  <2> QED  BY <1>1, <1>5, <2>1 DEF Min
<1> QED  BY <1>1, <1>5, <1>6

LEMMA WindowFacts ==
  ASSUME TruthfulRows(db), NEW from, NEW to
  PROVE  TruthfulRows(Window(from, to))
  BY Parts DEF Window

\* In complete rows every client was probed from every port of a batch.
LEMMA CompleteMeansProbed ==
  ASSUME policy \in Policies, NEW rows, TruthfulRows(rows), Complete(rows),
         NEW d \in TargetsOf, NEW b \in 0..PortBatches - 1
  PROVE  \E r \in On(rows, d, b) : r.probed = ActivePorts(b)
<1>1. PICK r \in On(rows, d, b) : r.errors = 0 \/ Explained(r, rows)
  BY OnFacts DEF Complete
<1>2. Truthful(r) /\ r.batch = b
  BY OnFacts DEF TruthfulRows
<1>3. r.errors = 0 \/ r.errors = r.drops
  BY <1>1 DEF Explained
<1> QED  BY <1>2, <1>3 DEF Truthful

LEMMA SomePortBatch ==
  ASSUME policy \in Policies
  PROVE  0 \in 0..PortBatches - 1
<1> DEFINE n == policy.ports
           d == policy.per
<1>1. n \in Nat \ {0} /\ d \in Nat \ {0} /\ n + d - 1 \in Nat
  BY PoliciesAssumption
<1>2. (n + d - 1) \div d \in Nat /\ n + d - 1 < d * ((n + d - 1) \div d) + d
  <2> HIDE DEF n, d
  <2> QED  BY <1>1
<1>3. (n + d - 1) \div d # 0
  <2> HIDE DEF n, d
  <2> QED  BY <1>1, <1>2
<1> QED  BY <1>2, <1>3 DEF PortBatches, Ceil

LEMMA CompleteMeansSampled ==
  ASSUME policy \in Policies, NEW rows, TruthfulRows(rows), Complete(rows), NEW d \in TargetsOf
  PROVE  Sampled(rows, d) # {}
<1>1. PICK r \in On(rows, d, 0) : r.probed = ActivePorts(0)
  BY SomePortBatch, CompleteMeansProbed
<1>2. ActivePorts(0) \in Nat \ {0}
  BY SomePortBatch, PortsActive
<1>3. r \in rows /\ r.target = d /\ Truthful(r)
  BY OnFacts DEF TruthfulRows
<1> QED  BY <1>1, <1>2, <1>3, SampledFacts DEF Truthful

\* All is lost only where no probe was answered, and something is lost only where a probe was not.
LEMMA AllLost ==
  ASSUME NEW rows, TruthfulRows(rows), \A r \in rows : r.missed = r.probed
  PROVE  Total(rows, "lost") >= Total(rows, "sent")
<1>1. \A r \in rows : r["lost"] = r["sent"]
  BY DEF TruthfulRows, Truthful
<1>2. Total(rows, "lost") = Total(rows, "sent")
  BY <1>1, SameTotal
<1>3. Total(rows, "lost") \in Nat
  BY Totals DEF Counters
<1> QED  BY <1>2, <1>3

LEMMA NoneLost ==
  ASSUME NEW rows, TruthfulRows(rows), \A r \in rows : r.missed = 0
  PROVE  Total(rows, "lost") = 0
<1>1. \A r \in rows : r["lost"] = 0
  BY DEF TruthfulRows, Truthful
<1> QED  BY <1>1, Totals DEF Counters

LEMMA GateMeansAnswered ==
  ASSUME policy \in Policies, NEW rows, TruthfulRows(rows), PassesGate(rows), NEW d \in TargetsOf
  PROVE  \E r \in rows : r.target = d /\ r.missed < r.probed
<1> DEFINE mine == Sampled(rows, d)
<1>1. mine # {} /\ TruthfulRows(mine) /\ \A r \in mine : r \in rows /\ r.target = d
  BY CompleteMeansSampled, SampledFacts DEF PassesGate
<1>2. ~(Total(mine, "lost") >= Total(mine, "sent"))
  BY <1>1 DEF PassesGate, Unreachable
<1>3. PICK r \in mine : r.missed # r.probed
  BY <1>1, <1>2, AllLost
<1>4. Truthful(r)
  BY <1>1 DEF TruthfulRows
<1>5. r.missed \in Nat /\ r.probed \in Nat /\ r.missed <= r.probed
  BY <1>4 DEF Truthful, Counters
<1> QED  BY <1>1, <1>3, <1>5

LEMMA TruthfulMeansProbed == policy \in Policies /\ TruthfulRows(db) => GateMeansProbed
  BY WindowFacts, CompleteMeansProbed, GateMeansAnswered DEF GateMeansProbed

LEMMA TruthfulMeansConfirmed == TruthfulRows(db) => SuspicionConfirmed
<1> SUFFICES ASSUME TruthfulRows(db), NEW f, NEW t, NEW d, Suspect(Window(f, t), d)
             PROVE  \E b \in 0..PortBatches - 1 :
                      LET mine == On(Window(f, t), d, b)
                      IN Total(mine, "dfMissed") > Confirm /\ Total(mine, "missed") = 0
  BY DEF SuspicionConfirmed
<1>1. PICK b \in 0..PortBatches - 1 : LargeOnlyLost(On(Window(f, t), d, b))
  BY DEF Suspect
<1>2. TruthfulRows(On(Window(f, t), d, b))
  BY WindowFacts, OnFacts
<1> QED  BY <1>1, <1>2, LargeOnlyIsMissed

LEMMA ReportsLossFacts ==
  ASSUME NEW base, NEW rows, NEW t, TruthfulRows(rows), ReportsLoss(base, rows, t)
  PROVE  \E r \in Sampled(rows, t) : r.missed > 0
<1> DEFINE mine == Sampled(rows, t)
<1>1. TruthfulRows(mine) /\ \A r \in mine : r.sent > 0
  BY SampledFacts
<1>2. mine # {} /\ (Total(mine, "lost") >= Total(mine, "sent") \/ Total(mine, "lost") >= MinLost)
  BY DEF ReportsLoss, Lossy
<1>3. Total(mine, "lost") \in Nat /\ Total(mine, "sent") \in Nat /\ MinLost \in Nat /\ MinLost > 0
  BY <1>1, Totals, SizesAssumption DEF Counters
<1>4. Total(mine, "sent") # 0
  <2>1. ~ \A r \in mine : r["sent"] = 0
    BY <1>1, <1>2
  <2> QED  BY <1>1, <2>1, Totals DEF Counters
<1>5. Total(mine, "lost") # 0
  BY <1>2, <1>3, <1>4
<1>6. PICK r \in mine : r.missed # 0
  BY <1>1, <1>5, NoneLost
<1>7. r.missed \in Nat
  BY <1>1 DEF TruthfulRows, Truthful, Counters
<1> QED  BY <1>6, <1>7

LEMMA UnreachableReported ==
  ASSUME policy \in Policies, NEW base, TruthfulRows(base), PassesGate(base), NEW d \in TargetsOf,
         NEW rows, Unreachable(rows, d)
  PROVE  ReportsLoss(base, rows, d)
<1>1. Sampled(base, d) # {}
  BY CompleteMeansSampled DEF PassesGate
<1> QED  BY <1>1 DEF Unreachable, ReportsLoss

LEMMA SameLoss ==
  ASSUME NEW rows, TruthfulRows(rows)
  PROVE  /\ Total(rows, "missed") = Total(rows, "lost") /\ Total(rows, "probed") = Total(rows, "sent")
         /\ Total(rows, "dfMissed") = Total(rows, "dfLost")
         /\ \A field \in Counters : Total(rows, field) \in Nat
<1>1. \A r \in rows : r["missed"] = r["lost"] /\ r["probed"] = r["sent"] /\ r["dfMissed"] = r["dfLost"]
  BY DEF TruthfulRows, Truthful
<1> QED  BY <1>1, SameTotal, Totals

\* The threshold of a report is 5 % above the loss of the baseline.
LEMMA BelowThreshold ==
  ASSUME NEW missing \in Nat, NEW sent \in Nat, NEW before \in Nat, NEW was \in Nat, 20 * missing >= sent, sent > 0,
         ~(20 * missing * before >= 20 * was * sent + sent * before)
  PROVE  /\ was > 0
         /\ 20 * was < before => 10 * missing < sent
<1>1. 20 * missing * before < 20 * was * sent + sent * before
  OBVIOUS
<1>2. was > 0
  <2> SUFFICES ASSUME was = 0 PROVE FALSE
    OBVIOUS
  <2>1. 20 * was * sent + sent * before = sent * before
    OBVIOUS
  <2>2. 20 * missing * before >= sent * before
    OBVIOUS
  <2> QED  BY <1>1, <2>1, <2>2
<1>3. ASSUME 20 * was < before, 10 * missing >= sent PROVE FALSE
  <2>1. 20 * missing * before >= (sent + sent) * before
    <3>1. 20 * missing >= sent + sent
      BY <1>3
    <3> QED  BY <3>1
  <2>2. (sent + sent) * before = sent * before + sent * before
    OBVIOUS
  <2>3. 20 * was * sent <= before * sent /\ before * sent = sent * before
    BY <1>3
  <2>4. 20 * missing * before \in Nat /\ 20 * was * sent \in Nat /\ sent * before \in Nat
    OBVIOUS
  <2> QED  BY <1>1, <2>1, <2>2, <2>3, <2>4
<1> QED  BY <1>2, <1>3

\* What a path lost in the baseline where it now loses packets and is not reported.
LEMMA MaskedFacts ==
  ASSUME policy \in Policies, NEW base, TruthfulRows(base), PassesGate(base),
         NEW d \in TargetsOf, NEW rows, TruthfulRows(rows), Masked(base, rows, d)
  PROVE  /\ Total(Sampled(base, d), "missed") > 0
         /\ \/ Lossy(base, d) \/ ~(Total(Sampled(base, d), "missed") >= MinLost)
            \/ ~(10 * Total(Sampled(rows, d), "missed") >= Total(Sampled(rows, d), "probed"))
<1> DEFINE was == Sampled(base, d)
           mine == Sampled(rows, d)
           sent == Total(mine, "sent")
           lost1 == Total(mine, "lost")
           before == Total(was, "sent")
           lost0 == Total(was, "lost")
<1>1. was # {} /\ TruthfulRows(was) /\ TruthfulRows(mine) /\ \A r \in mine : r.sent > 0
  BY CompleteMeansSampled, SampledFacts DEF PassesGate
<1>2. sent \in Nat /\ lost1 \in Nat /\ before \in Nat /\ lost0 \in Nat /\ MinLost \in Nat /\ MinLost > 0
  BY <1>1, Totals, SizesAssumption DEF Counters
<1>3. Lossy(rows, d) /\ lost1 >= MinLost /\ 20 * lost1 >= sent
  BY DEF Masked, Lossy
<1>4. mine # {}
  <2>1. mine = {} => \A r \in mine : r.missed = 0
    OBVIOUS
  <2> QED  BY <1>1, <1>2, <1>3, <2>1, NoneLost
<1>5. sent > 0
  <2>1. ~ \A r \in mine : r["sent"] = 0
    BY <1>1, <1>4
  <2>2. sent # 0
    BY <1>1, <2>1, Totals DEF Counters
  <2> QED  BY <1>2, <2>2
<1>6. ~(20 * lost1 * before >= 20 * lost0 * sent + sent * before)
  BY <1>1, <1>3, <1>4 DEF Masked, ReportsLoss
<1>7. lost0 > 0 /\ (20 * lost0 < before => 10 * lost1 < sent)
  <2> HIDE DEF sent, lost1, before, lost0
  <2> QED  BY <1>2, <1>3, <1>5, <1>6, BelowThreshold
<1>8. Lossy(base, d) \/ ~(lost0 >= MinLost) \/ 20 * lost0 < before
  BY <1>2 DEF Lossy
<1>9. Total(was, "missed") = lost0 /\ Total(mine, "missed") = lost1 /\ Total(mine, "probed") = sent
  BY <1>1, SameLoss
<1>10. Lossy(base, d) \/ ~(lost0 >= MinLost) \/ ~(10 * lost1 >= sent)
  <2> HIDE DEF sent, lost1, before, lost0
  <2> QED  BY <1>2, <1>7, <1>8
<1> QED  BY <1>7, <1>9, <1>10

\* What a batch lost in the baseline where it now loses the large packets and is not reported.
LEMMA LargeOnlyHidden ==
  ASSUME policy \in Policies, NEW base, TruthfulRows(base), PassesGate(base),
         NEW d \in TargetsOf, NEW rows, NEW b \in 0..PortBatches - 1,
         LargeOnlyLost(On(rows, d, b)), ~ReportsMtu(base, rows, d), ~(Total(On(base, d, b), "missed") > 0)
  PROVE  LET was == On(base, d, b)
         IN /\ 20 * Total(was, "dfMissed") > 17 * Total(was, "dfSent")
            /\ Total(was, "dfSent") <= Confirm \/ Total(was, "dfMissed") < Total(was, "dfSent")
<1> DEFINE was == On(base, d, b)
<1>2. TruthfulRows(was) /\ \A q \in was : q \in base /\ q.target = d /\ q.batch = b
  BY OnFacts
<1>3. PICK r \in was : r.probed = ActivePorts(b)
  BY CompleteMeansProbed DEF PassesGate
<1>0. Total(was, "missed") = Total(was, "lost") /\ Total(was, "dfMissed") = Total(was, "dfLost")
      /\ (\A field \in Counters : Total(was, field) \in Nat)
  BY <1>2, SameLoss
<1>1. Total(was, "lost") = 0 /\ \A q \in was : q.missed = 0
  <2>1. Total(was, "missed") = 0
    BY <1>0 DEF Counters
  <2>2. \A q \in was : q["missed"] = 0
    BY <1>2, <2>1, Totals DEF Counters
  <2> QED  BY <1>0, <2>1, <2>2
\* No error of the batch is explained.
<1>4. \A q \in was : q.errors = 0
  <2> SUFFICES ASSUME NEW q \in was, Explained(q, base) PROVE FALSE
    BY <1>2 DEF PassesGate
  <2> DEFINE good == {x \in On(base, q.target, q.batch) : x.sent > 0}
  <2>1. TruthfulRows(good) /\ \A x \in good : x.missed = 0
    BY <1>1, <1>2, Parts
  <2>2. Total(good, "lost") = 0
    BY <2>1, NoneLost
  <2>3. MinLost \in Nat /\ MinLost > 0
    BY SizesAssumption
  <2> QED  BY <2>2, <2>3 DEF Explained
<1>5. Total(was, "drops") = 0
  <2>1. \A q \in was : q["drops"] = 0
    BY <1>2, <1>4 DEF TruthfulRows, Truthful
  <2> QED  BY <1>2, <2>1, Totals DEF Counters
<1>6. Truthful(r)
  BY <1>2, <1>3 DEF TruthfulRows
<1>7. ActivePorts(b) \in Nat \ {0}
  BY PortsActive
<1>8. r.dfSent > 0 /\ r.sent > 0 /\ r.dfSent \in Nat /\ r.sent \in Nat
  BY <1>3, <1>4, <1>6, <1>7 DEF Truthful, Counters
<1>9. Total(was, "dfSent") > 0 /\ Total(was, "sent") > 0
  <2>1. Total(was, "dfSent") \in Nat /\ Total(was, "sent") \in Nat
    BY <1>0 DEF Counters
  <2>2. ~(\A q \in was : q["dfSent"] = 0) /\ ~(\A q \in was : q["sent"] = 0)
    BY <1>3, <1>8
  <2>3. Total(was, "dfSent") # 0 /\ Total(was, "sent") # 0
    BY <1>2, <2>2, Totals DEF Counters
  <2> QED  BY <2>1, <2>3
<1>10. ~(20 * Total(was, "dfLost") <= 17 * Total(was, "dfSent"))
  BY <1>9 DEF ReportsMtu
<1>11. ~LargeOnlyLost(was)
  BY DEF PassesGate, Suspect
<1>12. ~(Total(was, "dfSent") >= Confirm + 1) \/ ~(Total(was, "dfLost") >= Total(was, "dfSent"))
  BY <1>1, <1>5, <1>9, <1>11 DEF LargeOnlyLost
<1>13. Total(was, "dfSent") \in Nat /\ Total(was, "dfLost") \in Nat /\ Confirm \in Nat
  BY <1>0, SizesAssumption DEF Counters
<1> HIDE DEF was
<1>14. /\ 20 * Total(was, "dfMissed") > 17 * Total(was, "dfSent")
       /\ Total(was, "dfSent") <= Confirm \/ Total(was, "dfMissed") < Total(was, "dfSent")
  BY <1>0, <1>10, <1>12, <1>13
<1> QED  BY <1>14 DEF was

LEMMA TruthfulMeansReported == policy \in Policies /\ TruthfulRows(db) => FaultsAreReported
<1> SUFFICES ASSUME policy \in Policies, TruthfulRows(db), NEW f, NEW t, PassesGate(Window(f, t)), NEW g, NEW u
             PROVE  LET base == Window(f, t)
                        rows == Window(g, u)
                        masked == {d \in TargetsOf : Masked(base, rows, d)}
                    IN /\ \A d \in TargetsOf : Unreachable(rows, d) => ReportsLoss(base, rows, d)
                       /\ \A d \in masked : Total(Sampled(base, d), "missed") > 0
                       /\ Cardinality({d \in masked : /\ Total(Sampled(base, d), "missed") >= MinLost
                                                      /\ 10 * Total(Sampled(rows, d), "missed") >= Total(Sampled(rows, d), "probed")})
                            <= LossyPaths
                       /\ \A d \in TargetsOf, b \in 0..PortBatches - 1 :
                            LargeOnlyLost(On(rows, d, b)) /\ ~ReportsMtu(base, rows, d) =>
                              LET was == On(base, d, b)
                              IN \/ Total(was, "missed") > 0
                                 \/ /\ 20 * Total(was, "dfMissed") > 17 * Total(was, "dfSent")
                                    /\ Total(was, "dfSent") <= Confirm \/ Total(was, "dfMissed") < Total(was, "dfSent")
  BY DEF FaultsAreReported
<1> DEFINE base == Window(f, t)
           rows == Window(g, u)
           masked == {d \in TargetsOf : Masked(base, rows, d)}
           most == {d \in masked : /\ Total(Sampled(base, d), "missed") >= MinLost
                                   /\ 10 * Total(Sampled(rows, d), "missed") >= Total(Sampled(rows, d), "probed")}
           lossy == {d \in TargetsOf : Lossy(base, d)}
<1>1. TruthfulRows(base) /\ TruthfulRows(rows) /\ PassesGate(base)
  BY WindowFacts
<1> HIDE DEF base, rows
<1>2. \A d \in TargetsOf : Unreachable(rows, d) => ReportsLoss(base, rows, d)
  BY <1>1, UnreachableReported
<1>3. \A d \in masked : Total(Sampled(base, d), "missed") > 0
  BY <1>1, MaskedFacts
<1>4. most \subseteq lossy
  BY <1>1, MaskedFacts
<1>5. Cardinality(most) <= LossyPaths
  <2>1. IsFiniteSet(lossy)
    <3>1. policy.targets \in Nat \ {0}
      BY PoliciesAssumption
    <3>2. IsFiniteSet(TargetsOf)
      BY <3>1, FS_Interval DEF TargetsOf
    <3> QED  BY <3>2, FS_Subset
  <2>2. Cardinality(lossy) <= LossyPaths
    BY <1>1 DEF PassesGate
  <2> HIDE DEF most, lossy
  <2>3. IsFiniteSet(most) /\ Cardinality(most) <= Cardinality(lossy)
    BY <1>4, <2>1, FS_Subset
  <2>4. Cardinality(most) \in Nat /\ Cardinality(lossy) \in Nat /\ LossyPaths \in Nat
    BY <2>1, <2>3, FS_CardinalityType, SizesAssumption
  <2> QED  BY <2>2, <2>3, <2>4
<1>6. ASSUME NEW d \in TargetsOf, NEW b \in 0..PortBatches - 1, LargeOnlyLost(On(rows, d, b)), ~ReportsMtu(base, rows, d),
             ~(Total(On(base, d, b), "missed") > 0)
      PROVE  /\ 20 * Total(On(base, d, b), "dfMissed") > 17 * Total(On(base, d, b), "dfSent")
             /\ Total(On(base, d, b), "dfSent") <= Confirm \/ Total(On(base, d, b), "dfMissed") < Total(On(base, d, b), "dfSent")
  BY <1>1, <1>6, LargeOnlyHidden
<1> QED  BY <1>2, <1>3, <1>5, <1>6 DEF base, rows

LEMMA TruthfulMeansPersistent == policy \in Policies /\ TruthfulRows(db) => LastingLossIsPersistent
<1> SUFFICES ASSUME policy \in Policies, TruthfulRows(db),
                    NEW f, NEW t, PassesGate(Window(f, t)), NEW g, NEW m, NEW n, NEW u, NEW d \in TargetsOf
             PROVE  LET rows == Window(g, u)
                        mine(w) == Sampled(Slice(rows, w[1], w[2]), d)
                        parts == [early |-> <<g, m>>, steady |-> <<n, u>>]
                        called == Persistence(WindowsObserved(Window(f, t), rows, parts, "loss", d))
                    IN /\ called = "persistent" => \A w \in DOMAIN parts : \E r \in mine(parts[w]) : r.missed > 0
                       /\ ((\A w \in DOMAIN parts : mine(parts[w]) # {}) /\ (\A r \in Sampled(rows, d) : r.missed = r.probed))
                            => called = "persistent"
  BY DEF LastingLossIsPersistent
<1> DEFINE base == Window(f, t)
           rows == Window(g, u)
           parts == [early |-> <<g, m>>, steady |-> <<n, u>>]
           part(w) == Slice(rows, parts[w][1], parts[w][2])
           observed == WindowsObserved(base, rows, parts, "loss", d)
<1>1. TruthfulRows(base) /\ TruthfulRows(rows) /\ DOMAIN parts = {"early", "steady"}
  BY WindowFacts
<1>2. ASSUME NEW w \in DOMAIN parts PROVE TruthfulRows(part(w)) /\ part(w) \subseteq rows
  BY <1>1, Parts DEF Slice
<1>3. observed = {w \in DOMAIN parts : ReportsLoss(base, rows, d) /\ ReportsLoss(base, part(w), d)}
  BY DEF WindowsObserved, Reported
<1>4. Persistence(observed) = "persistent" <=> observed = {"early", "steady"}
  BY DEF Persistence
<1>5. ASSUME observed = {"early", "steady"}, NEW w \in DOMAIN parts
      PROVE  \E r \in Sampled(part(w), d) : r.missed > 0
  <2>1. ReportsLoss(base, part(w), d)
    BY <1>1, <1>3, <1>5
  <2> HIDE DEF part, base
  <2> QED  BY <1>2, <1>5, <2>1, ReportsLossFacts
<1>6. ASSUME NEW some, TruthfulRows(some), some \subseteq rows, Sampled(some, d) # {},
             \A r \in Sampled(rows, d) : r.missed = r.probed
      PROVE  ReportsLoss(base, some, d)
  <2>1. TruthfulRows(Sampled(some, d)) /\ \A r \in Sampled(some, d) : r \in Sampled(rows, d)
    BY <1>1, <1>6, SampledFacts
  <2>2. Total(Sampled(some, d), "lost") >= Total(Sampled(some, d), "sent")
    BY <1>6, <2>1, AllLost
  <2>3. Sampled(base, d) # {}
    BY <1>1, CompleteMeansSampled DEF PassesGate
  <2> QED  BY <1>6, <2>2, <2>3 DEF ReportsLoss
<1>7. ASSUME \A w \in DOMAIN parts : Sampled(part(w), d) # {}, \A r \in Sampled(rows, d) : r.missed = r.probed
      PROVE  observed = {"early", "steady"}
  <2>1. \A w \in DOMAIN parts : ReportsLoss(base, part(w), d)
    <3> HIDE DEF part, base, rows
    <3> QED  BY <1>2, <1>6, <1>7
  <2>2. Sampled(rows, d) # {}
    <3> HIDE DEF part, base, rows
    <3>1. "early" \in DOMAIN parts
      BY <1>1
    <3> QED  BY <1>1, <1>2, <1>7, <3>1, SampledFacts
  <2>3. ReportsLoss(base, rows, d)
    BY <1>1, <1>6, <1>7, <2>2
  <2> HIDE DEF observed, part
  <2> QED  BY <1>1, <1>3, <2>1, <2>3
<1> QED  BY <1>4, <1>5, <1>7

----------------------------------------------------------------------------
(* Sets in sequence, and counting *)

\* f matches the elements of two sets.
Matches(f, S, T) ==
  f \in [S -> T] /\ (\A x, y \in S : f[x] = f[y] => x = y) /\ (\A t \in T : \E x \in S : f[x] = t)

LEMMA Matched ==
  ASSUME NEW S, NEW T, IsFiniteSet(S), NEW f, Matches(f, S, T)
  PROVE  IsFiniteSet(T) /\ Cardinality(T) = Cardinality(S)
<1>1. f \in Bijection(S, T)
  BY DEF Matches, Bijection, Injection, Surjection, IsInjective
<1> QED  BY <1>1, FS_Bijection DEF ExistsBijection

\* SetToSeq numbers the elements of a finite set.
LEMMA InSequence ==
  ASSUME NEW S, IsFiniteSet(S)
  PROVE  /\ Cardinality(S) \in Nat /\ Matches(SetToSeq(S), 1..Cardinality(S), S)
         /\ SetToSeq(S) \in Seq(S) /\ Len(SetToSeq(S)) = Cardinality(S) /\ DOMAIN SetToSeq(S) = 1..Cardinality(S)
<1> DEFINE n == Cardinality(S)
           f == SetToSeq(S)
<1>1. n \in Nat /\ ExistsBijection(1..n, S)
  BY FS_CardinalityType
<1>2. \E g \in [1..n -> S] : IsInjective(g)
  BY <1>1 DEF ExistsBijection, Bijection, Injection, IsInjective
<1>3. f \in [1..n -> S] /\ IsInjective(f)
  BY <1>2 DEF SetToSeq
<1>4. f \in Injection(1..n, S)
  BY <1>3 DEF Injection
<1>5. IsFiniteSet(1..n) /\ Cardinality(1..n) = n
  BY <1>1, FS_Interval
<1>6. f \in Surjection(1..n, S)
  BY <1>4, <1>5, FS_Injection
<1>7. Matches(f, 1..n, S)
  BY <1>3, <1>6 DEF Matches, IsInjective, Surjection
<1>8. f \in Seq(S) /\ Len(f) = n /\ DOMAIN f = 1..n
  <2> HIDE DEF f, n
  <2> QED  BY <1>1, <1>3
<1> QED  BY <1>1, <1>7, <1>8

LEMMA ApartAdd ==
  ASSUME NEW S, NEW T, IsFiniteSet(S), IsFiniteSet(T), S \cap T = {}
  PROVE  /\ IsFiniteSet(S \cup T) /\ Cardinality(S) \in Nat /\ Cardinality(T) \in Nat
         /\ Cardinality(S \cup T) = Cardinality(S) + Cardinality(T)
  BY FS_Union, FS_EmptySet, FS_CardinalityType

\* The probes of one kind to one target, by what became of them.
Answers == {"none", "read", "bare"}
Those(l, tk, outs, answers) == {p \in l : <<p.target, p.kind>> = tk /\ p.out \in outs /\ p.answer \in answers}
Number(l, tk, outs, answers) == Cardinality(Those(l, tk, outs, answers))

LEMMA NumberType ==
  ASSUME NEW l, IsFiniteSet(l), NEW tk, NEW o, NEW a
  PROVE  IsFiniteSet(Those(l, tk, o, a)) /\ Number(l, tk, o, a) \in Nat
  BY FS_Subset, FS_CardinalityType DEF Those, Number

LEMMA ByOutcome ==
  ASSUME NEW l, IsFiniteSet(l), NEW tk, NEW o1, NEW o2, o1 \cap o2 = {}, NEW a
  PROVE  Number(l, tk, o1 \cup o2, a) = Number(l, tk, o1, a) + Number(l, tk, o2, a)
<1>1. Those(l, tk, o1 \cup o2, a) = Those(l, tk, o1, a) \cup Those(l, tk, o2, a)
  BY DEF Those
<1>2. Those(l, tk, o1, a) \cap Those(l, tk, o2, a) = {}
  BY DEF Those
<1> QED  BY <1>1, <1>2, NumberType, ApartAdd DEF Number

LEMMA ByAnswer ==
  ASSUME NEW l, IsFiniteSet(l), NEW tk, NEW a1, NEW a2, a1 \cap a2 = {}, NEW o
  PROVE  Number(l, tk, o, a1 \cup a2) = Number(l, tk, o, a1) + Number(l, tk, o, a2)
<1>1. Those(l, tk, o, a1 \cup a2) = Those(l, tk, o, a1) \cup Those(l, tk, o, a2)
  BY DEF Those
<1>2. Those(l, tk, o, a1) \cap Those(l, tk, o, a2) = {}
  BY DEF Those
<1> QED  BY <1>1, <1>2, NumberType, ApartAdd DEF Number

LEMMA ByLog ==
  ASSUME NEW l1, NEW l2, IsFiniteSet(l1), IsFiniteSet(l2), l1 \cap l2 = {}, NEW tk, NEW o, NEW a
  PROVE  Number(l1 \cup l2, tk, o, a) = Number(l1, tk, o, a) + Number(l2, tk, o, a)
<1>1. Those(l1 \cup l2, tk, o, a) = Those(l1, tk, o, a) \cup Those(l2, tk, o, a)
  BY DEF Those
<1>2. Those(l1, tk, o, a) \cap Those(l2, tk, o, a) = {}
  BY DEF Those
<1> QED  BY <1>1, <1>2, NumberType, ApartAdd DEF Number

----------------------------------------------------------------------------
(* The books of a cycle agree with its log *)

ProbeSet == [kind : Kinds, target : TargetsOf, socket : Nat, seq : Nat, out : Outcomes, answer : Answers]
CounterSet == [sent : Nat, received : Nat, drops : Nat, invalid : Nat, errors : Nat]

\* Every probe has a sequence number of its own, none of an earlier cycle, and is waited for while it
\* is sent and not answered.
LogInv ==
  /\ used \in Nat /\ sequence \in Nat /\ used <= sequence
  /\ IsFiniteSet(log) /\ log \subseteq ProbeSet
  /\ \A p \in log : used <= p.seq /\ p.seq < sequence /\ (p.answer # "none" => p.out = "sent")
  /\ \A p, q \in log : p.seq = q.seq => p = q
  /\ pending = {p \in log : p.out = "sent" /\ p.answer = "none"}

Booked(s, l, tk) ==
  /\ s.sent = Number(l, tk, {"sent", "mtu", "path"}, Answers)
  /\ s.drops = Number(l, tk, {"mtu"}, Answers)
  /\ s.invalid = Number(l, tk, {"mtu"}, Answers) + Number(l, tk, Outcomes, {"bare"})
  /\ s.errors = Number(l, tk, {"mtu", "local"}, Answers) + Number(l, tk, Outcomes, {"bare"})
  /\ s.received = Number(l, tk, Outcomes, {"read"})

BookInv ==
  /\ stats \in [TargetsOf \X Kinds -> CounterSet]
  /\ \A tk \in TargetsOf \X Kinds : Booked(stats[tk], log, tk)

LEMMA Recounted ==
  ASSUME NEW s \in CounterSet, NEW all \in Nat, NEW large \in Nat, NEW failed \in Nat,
         NEW c, c = [s EXCEPT !.sent = @ + all, !.drops = @ + large, !.invalid = @ + large, !.errors = @ + failed]
  PROVE  c \in CounterSet
<1>1. s.sent + all \in Nat /\ s.drops + large \in Nat /\ s.invalid + large \in Nat /\ s.errors + failed \in Nat
  BY DEF CounterSet
<1> QED  BY <1>1 DEF CounterSet

\* SendAll when the probes in bad go wrong as what says.
SentAs(probes, bad, what) ==
  LET out(i) == IF i \in bad THEN what[i] ELSE "sent"
      tried == {[kind |-> probes[i].kind, target |-> probes[i].target, socket |-> probes[i].socket,
                 seq |-> sequence + i - 1, out |-> out(i), answer |-> "none"] : i \in DOMAIN probes}
      outs(tk) == LET mine == {i \in DOMAIN probes : probes[i].target = tk[1] /\ probes[i].kind = tk[2]}
                  IN [i \in mine |-> out(i)]
  IN /\ stats' = [tk \in DOMAIN stats |-> Counted(stats[tk], outs(tk))]
     /\ pending' = pending \cup {p \in tried : p.out = "sent"}
     /\ log' = log \cup tried
     /\ sequence' = sequence + Len(probes)

\* The probes that are sent next are logged and counted.
LEMMA SendKeeps ==
  ASSUME LogInv, BookInv, policy' = policy, used' = used,
         NEW probes, Len(probes) \in Nat, DOMAIN probes = 1..Len(probes),
         \A i \in DOMAIN probes : probes[i].kind \in Kinds /\ probes[i].target \in TargetsOf /\ probes[i].socket \in Nat,
         SendAll(probes, sequence, stats, pending, log)
  PROVE  /\ LogInv' /\ BookInv'
         /\ \A tk \in TargetsOf \X Kinds :
              Number(log', tk, Outcomes, Answers) = Number(log, tk, Outcomes, Answers)
                + Cardinality({i \in DOMAIN probes : probes[i].target = tk[1] /\ probes[i].kind = tk[2]})
<1>0. PICK bad \in UNION {kSubset(k, DOMAIN probes) : k \in 0..Min({MaxTrouble - trouble, Len(probes)})} :
             \E what \in [bad -> Outcomes \ {"sent"}] : SentAs(probes, bad, what)
  BY DEF SendAll, SentAs
<1>1. PICK what \in [bad -> Outcomes \ {"sent"}] : SentAs(probes, bad, what)
  BY <1>0
<1> DEFINE out(i) == IF i \in bad THEN what[i] ELSE "sent"
           probe(i) == [kind |-> probes[i].kind, target |-> probes[i].target, socket |-> probes[i].socket,
                        seq |-> sequence + i - 1, out |-> out(i), answer |-> "none"]
           tried == {probe(i) : i \in DOMAIN probes}
           mine(tk) == {i \in DOMAIN probes : probes[i].target = tk[1] /\ probes[i].kind = tk[2]}
           outs(tk) == [i \in mine(tk) |-> out(i)]
<1>2. \A i \in DOMAIN probes : out(i) \in Outcomes
  <2>1. "sent" \in Outcomes
    BY DEF Outcomes
  <2> QED  BY <2>1
<1>3. ASSUME NEW i \in DOMAIN probes
      PROVE  probe(i) \in ProbeSet /\ i \in 1..Len(probes) /\ sequence + i - 1 \in Nat
  <2>1. i \in 1..Len(probes) /\ sequence + i - 1 \in Nat
    BY DEF LogInv
  <2> HIDE DEF out
  <2>2. "none" \in Answers
    BY DEF Answers
  <2> QED  BY <1>2, <2>1, <2>2 DEF ProbeSet
<1>4. ASSUME NEW i \in DOMAIN probes, NEW j \in DOMAIN probes, probe(i).seq = probe(j).seq PROVE i = j
  BY <1>3, <1>4 DEF LogInv
<1>5. ASSUME NEW s \in SUBSET DOMAIN probes, NEW few, \A p : p \in few <=> \E i \in s : p = probe(i)
      PROVE  IsFiniteSet(few) /\ Cardinality(few) = Cardinality(s)
  <2> DEFINE f == [i \in s |-> probe(i)]
  <2>0. IsFiniteSet(1..Len(probes))
    BY FS_Interval
  <2>1. IsFiniteSet(s)
    BY <2>0, FS_Subset
  <2>2. Matches(f, s, few)
    <3> HIDE DEF probe
    <3> QED  BY <1>4, <1>5 DEF Matches
  <2> QED  BY <2>1, <2>2, Matched
<1>6. IsFiniteSet(tried) /\ tried \subseteq ProbeSet /\ \A p \in tried : p.answer = "none"
  <2> HIDE DEF probe
  <2>1. IsFiniteSet(tried)
    BY <1>5
  <2>2. \A i \in DOMAIN probes : probe(i).answer = "none"
    BY DEF probe
  <2> QED  BY <1>3, <2>1, <2>2
<1>7. \A p \in tried : sequence <= p.seq /\ p.seq < sequence + Len(probes)
  BY <1>3 DEF LogInv
<1>8. log \cap tried = {}
  <2> HIDE DEF tried
  <2>1. \A p \in log : p.seq < sequence /\ p.seq \in Nat
    BY DEF LogInv, ProbeSet
  <2>2. \A p \in tried : sequence <= p.seq /\ p.seq \in Nat
    BY <1>6, <1>7 DEF ProbeSet
  <2> QED  BY <2>1, <2>2 DEF LogInv
<1>9. log' = log \cup tried /\ sequence' = sequence + Len(probes) /\ pending' = pending \cup {p \in tried : p.out = "sent"}
  BY <1>1 DEF SentAs
<1>10. \A p, q \in tried : p.seq = q.seq => p = q
  BY <1>4
<1>11. LogInv'
  <2> HIDE DEF tried
  <2>1. IsFiniteSet(log \cup tried)
    BY <1>6, FS_Union DEF LogInv
  <2>2. ProbeSet' = ProbeSet
    BY DEF ProbeSet, TargetsOf
  <2>3. used' \in Nat /\ sequence' \in Nat /\ used' <= sequence'
    BY <1>9 DEF LogInv
  <2>4. \A p \in log' : p.seq \in Nat
    BY <1>6, <1>9 DEF LogInv, ProbeSet
  <2>5. \A p \in log' : used' <= p.seq /\ p.seq < sequence' /\ (p.answer # "none" => p.out = "sent")
    BY <1>6, <1>7, <1>9, <2>3, <2>4 DEF LogInv
  <2>6. \A p, q \in log' : p.seq = q.seq => p = q
    <3>1. \A p \in log, q \in tried : p.seq # q.seq
      BY <1>7, <1>9, <2>4 DEF LogInv
    <3> QED  BY <1>9, <1>10, <3>1 DEF LogInv
  <2>7. pending' = {p \in log' : p.out = "sent" /\ p.answer = "none"}
    BY <1>6, <1>9 DEF LogInv
  <2> QED  BY <1>6, <1>9, <2>1, <2>2, <2>3, <2>5, <2>6, <2>7 DEF LogInv
<1>12. ASSUME NEW tk \in TargetsOf \X Kinds, NEW o
       PROVE  /\ Number(tried, tk, o, Answers) = Cardinality({i \in mine(tk) : out(i) \in o})
              /\ Number(tried, tk, o, {"bare"}) = 0 /\ Number(tried, tk, o, {"read"}) = 0
  <2>1. \A i \in DOMAIN probes : /\ probe(i).target = probes[i].target /\ probe(i).kind = probes[i].kind
                                 /\ probe(i).out = out(i) /\ probe(i).answer \in Answers
    BY DEF Answers
  <2>2. \A p : p \in Those(tried, tk, o, Answers) <=> \E i \in {i \in mine(tk) : out(i) \in o} : p = probe(i)
    <3>1. tk = <<tk[1], tk[2]>>
      OBVIOUS
    <3> HIDE DEF probe, out
    <3> QED  BY <2>1, <3>1 DEF Those
  <2>3. Number(tried, tk, o, Answers) = Cardinality({i \in mine(tk) : out(i) \in o})
    <3> HIDE DEF probe, out, tried
    <3> QED  BY <1>5, <2>2 DEF Number
  <2>4. Those(tried, tk, o, {"bare"}) = {} /\ Those(tried, tk, o, {"read"}) = {}
    <3> HIDE DEF tried
    <3> QED  BY <1>6 DEF Those
  <2> QED  BY <2>3, <2>4, FS_EmptySet DEF Number
<1>13. ASSUME NEW tk \in TargetsOf \X Kinds, NEW o, NEW a
       PROVE  /\ Number(log', tk, o, a) = Number(log, tk, o, a) + Number(tried, tk, o, a)
              /\ Number(log, tk, o, a) \in Nat /\ Number(tried, tk, o, a) \in Nat
  <2> HIDE DEF tried
  <2> QED  BY <1>6, <1>8, <1>9, ByLog, NumberType DEF LogInv
<1> DEFINE n(tk, o) == Cardinality({i \in mine(tk) : out(i) \in o})
<1>14. ASSUME NEW tk \in TargetsOf \X Kinds
       PROVE  stats'[tk] = [stats[tk] EXCEPT !.sent = @ + n(tk, {"sent", "mtu", "path"}), !.drops = @ + n(tk, {"mtu"}),
                                             !.invalid = @ + n(tk, {"mtu"}), !.errors = @ + n(tk, {"mtu", "local"})]
  <2>1. stats'[tk] = Counted(stats[tk], outs(tk))
    BY <1>1 DEF BookInv, SentAs
  <2>2. \A o : {i \in DOMAIN outs(tk) : outs(tk)[i] \in o} = {i \in mine(tk) : out(i) \in o}
    <3> HIDE DEF mine, out
    <3> QED  OBVIOUS
  <2> HIDE DEF outs, mine, out
  <2> QED  BY <2>1, <2>2 DEF Counted, Quantify
<1>15. BookInv'
  <2>1. DOMAIN stats' = TargetsOf \X Kinds /\ stats' = [tk \in TargetsOf \X Kinds |-> stats'[tk]]
    BY <1>1 DEF BookInv, SentAs
  <2>2. ASSUME NEW tk \in TargetsOf \X Kinds
        PROVE  stats'[tk] \in CounterSet /\ Booked(stats'[tk], log', tk)
    <3>1. stats[tk] \in CounterSet /\ Booked(stats[tk], log, tk)
      BY DEF BookInv
    <3>2. \A o : n(tk, o) = Number(tried, tk, o, Answers) /\ n(tk, o) \in Nat
      <4> HIDE DEF n, tried, mine, out
      <4>1. \A o : n(tk, o) = Number(tried, tk, o, Answers)
        BY <1>12 DEF n
      <4> QED  BY <1>13, <4>1
    <3>3. \A o : Number(log', tk, o, Answers) = Number(log, tk, o, Answers) + n(tk, o)
      <4> HIDE DEF n, tried
      <4> QED  BY <1>13, <3>2
    <3>4. Number(log', tk, Outcomes, {"bare"}) = Number(log, tk, Outcomes, {"bare"})
          /\ Number(log', tk, Outcomes, {"read"}) = Number(log, tk, Outcomes, {"read"})
      <4> HIDE DEF tried, out, mine
      <4>1. Number(tried, tk, Outcomes, {"bare"}) = 0 /\ Number(tried, tk, Outcomes, {"read"}) = 0
        BY <1>12
      <4> QED  BY <1>13, <4>1
    <3> DEFINE s == stats[tk]
               all == n(tk, {"sent", "mtu", "path"})
               large == n(tk, {"mtu"})
               failed == n(tk, {"mtu", "local"})
    <3>5. s \in CounterSet /\ all \in Nat /\ large \in Nat /\ failed \in Nat
      BY <3>1, <3>2
    <3>6. stats'[tk] = [s EXCEPT !.sent = @ + all, !.drops = @ + large, !.invalid = @ + large, !.errors = @ + failed]
      BY <1>14
    <3>7. /\ Number(log', tk, {"sent", "mtu", "path"}, Answers) = s.sent + all
          /\ Number(log', tk, {"mtu"}, Answers) = s.drops + large
          /\ Number(log', tk, {"mtu"}, Answers) + Number(log', tk, Outcomes, {"bare"}) = s.invalid + large
          /\ Number(log', tk, {"mtu", "local"}, Answers) + Number(log', tk, Outcomes, {"bare"}) = s.errors + failed
          /\ Number(log', tk, Outcomes, {"read"}) = s.received
      <4> HIDE DEF n, tried
      <4>1. Number(log, tk, {"mtu"}, Answers) \in Nat /\ Number(log, tk, {"mtu", "local"}, Answers) \in Nat
            /\ Number(log, tk, Outcomes, {"bare"}) \in Nat
        BY <1>13
      <4> QED  BY <3>1, <3>3, <3>4, <3>5, <4>1 DEF Booked
    <3> HIDE DEF n, s, all, large, failed
    <3>8. stats'[tk] \in CounterSet
      BY <3>5, <3>6, Recounted
    <3>9. Booked(stats'[tk], log', tk)
      BY <3>5, <3>6, <3>7 DEF Booked, CounterSet
    <3> QED  BY <3>8, <3>9
  <2>3. TargetsOf' = TargetsOf
    BY DEF TargetsOf
  <2> QED  BY <2>1, <2>2, <2>3 DEF BookInv
<1>16. ASSUME NEW tk \in TargetsOf \X Kinds
       PROVE  Number(log', tk, Outcomes, Answers) = Number(log, tk, Outcomes, Answers) + Cardinality(mine(tk))
  <2>1. {i \in mine(tk) : out(i) \in Outcomes} = mine(tk)
    <3> HIDE DEF out
    <3> QED  BY <1>2
  <2> HIDE DEF tried, out, mine
  <2> QED  BY <1>12, <1>13, <2>1
<1> QED  BY <1>11, <1>15, <1>16

LEMMA Remarked ==
  ASSUME NEW p \in ProbeSet, NEW a \in Answers, NEW q, q = [p EXCEPT !.answer = a]
  PROVE  /\ q \in ProbeSet /\ q.kind = p.kind /\ q.target = p.target /\ q.seq = p.seq /\ q.out = p.out
         /\ q.answer = a /\ (a = p.answer => q = p)
  BY DEF ProbeSet

Replied(s, read, without) == [s EXCEPT !.received = @ + read, !.invalid = @ + without, !.errors = @ + without]

LEMMA Reread ==
  ASSUME NEW s \in CounterSet, NEW read \in Nat, NEW without \in Nat, NEW c, c = Replied(s, read, without)
  PROVE  /\ c \in CounterSet /\ c.sent = s.sent /\ c.drops = s.drops /\ c.received = s.received + read
         /\ c.invalid = s.invalid + without /\ c.errors = s.errors + without
<1>1. s.received + read \in Nat /\ s.invalid + without \in Nat /\ s.errors + without \in Nat
  BY DEF CounterSet, Replied
<1>2. c \in CounterSet
  BY <1>1 DEF CounterSet, Replied
<1>3. c.sent = s.sent /\ c.drops = s.drops /\ c.received = s.received + read
  BY DEF CounterSet, Replied
<1>4. c.invalid = s.invalid + without /\ c.errors = s.errors + without
  BY DEF CounterSet, Replied
<1> QED  BY <1>2, <1>3, <1>4

LEMMA RebookReplies ==
  ASSUME NEW s, NEW c, NEW l, IsFiniteSet(l), NEW l2, NEW tk, NEW read \in Nat, NEW without \in Nat,
         s \in CounterSet, Booked(s, l, tk), c = Replied(s, read, without),
         \A o : Number(l2, tk, o, Answers) = Number(l, tk, o, Answers),
         Number(l2, tk, Outcomes, {"read"}) = Number(l, tk, Outcomes, {"read"}) + read,
         Number(l2, tk, Outcomes, {"bare"}) = Number(l, tk, Outcomes, {"bare"}) + without
  PROVE  c \in CounterSet /\ Booked(c, l2, tk)
<1>1. /\ c \in CounterSet /\ c.sent = s.sent /\ c.drops = s.drops /\ c.received = s.received + read
      /\ c.invalid = s.invalid + without /\ c.errors = s.errors + without
  BY Reread
<1>2. Number(l, tk, {"mtu"}, Answers) \in Nat /\ Number(l, tk, {"mtu", "local"}, Answers) \in Nat
      /\ Number(l, tk, Outcomes, {"bare"}) \in Nat
  BY NumberType
<1>3. /\ Number(l2, tk, {"mtu"}, Answers) = Number(l, tk, {"mtu"}, Answers)
      /\ Number(l2, tk, {"mtu", "local"}, Answers) = Number(l, tk, {"mtu", "local"}, Answers)
      /\ Number(l2, tk, {"sent", "mtu", "path"}, Answers) = Number(l, tk, {"sent", "mtu", "path"}, Answers)
  OBVIOUS
<1> QED  BY <1>1, <1>2, <1>3 DEF Booked

\* Replies are booked to the probes they answer, whatever late replies come with them.
LEMMA ReadKeeps ==
  ASSUME LogInv, BookInv, policy' = policy, used' = used, sequence' = sequence,
         NEW answered \in SUBSET pending, NEW bare \in SUBSET pending, answered \cap bare = {}, Read(answered, bare)
  PROVE  /\ LogInv' /\ BookInv'
         /\ \A tk \in TargetsOf \X Kinds : Number(log', tk, Outcomes, Answers) = Number(log, tk, Outcomes, Answers)
<1> DEFINE fate(p) == IF p \in answered THEN "read" ELSE IF p \in bare THEN "bare" ELSE p.answer
           mark(p) == [p EXCEPT !.answer = fate(p)]
<1>1. log' = {mark(p) : p \in log}
  BY DEF Read
<1>2. PICK stale \in {{}} \cup {{q} : q \in 0..used - 1} : Handle({p.seq : p \in answered} \cup stale, {p.seq : p \in bare})
  BY DEF Read
<1> DEFINE stamped == {p.seq : p \in answered} \cup stale
           naked == {p.seq : p \in bare}
<1>3. \A p \in pending : p \in log /\ p \in ProbeSet /\ p.out = "sent" /\ p.answer = "none"
  BY DEF LogInv
<1>4. \A p \in log : p \in ProbeSet /\ p.seq \in Nat /\ p.seq \notin stale
  BY DEF LogInv, ProbeSet
<1>5. \A p \in pending : (p.seq \in stamped <=> p \in answered) /\ (p.seq \in naked <=> p \in bare)
  BY <1>3, <1>4 DEF LogInv
<1>6. ASSUME NEW p \in log
      PROVE  /\ mark(p) \in ProbeSet /\ mark(p).kind = p.kind /\ mark(p).target = p.target
             /\ mark(p).seq = p.seq /\ mark(p).out = p.out /\ mark(p).answer = fate(p)
             /\ fate(p) \in Answers /\ (fate(p) = p.answer => mark(p) = p)
  <2>1. fate(p) \in Answers
    BY <1>4 DEF Answers, ProbeSet
  <2> HIDE DEF fate
  <2> QED  BY <1>4, <2>1, Remarked
<1>7. \A p, q \in log : mark(p) = mark(q) => p = q
  <2>1. \A p, q \in log : p.seq = q.seq => p = q
    BY DEF LogInv
  <2> HIDE DEF mark
  <2> QED  BY <1>6, <2>1
<1>8. ASSUME NEW few \in SUBSET log, NEW seen, \A q : q \in seen <=> \E p \in few : q = mark(p)
      PROVE  IsFiniteSet(seen) /\ Cardinality(seen) = Cardinality(few)
  <2> DEFINE f == [p \in few |-> mark(p)]
  <2>1. IsFiniteSet(few)
    BY FS_Subset DEF LogInv
  <2>2. Matches(f, few, seen)
    <3> HIDE DEF mark
    <3> QED  BY <1>7, <1>8 DEF Matches
  <2> QED  BY <2>1, <2>2, Matched
<1>9. pending' = pending \ (answered \cup bare)
  <2>1. pending' = {p \in pending : p.seq \notin stamped \cup naked}
    BY <1>2 DEF Handle
  <2> HIDE DEF stamped, naked
  <2> QED  BY <1>5, <2>1
<1>10. LogInv'
  <2>1. ProbeSet' = ProbeSet
    BY DEF ProbeSet, TargetsOf
  <2>2. IsFiniteSet(log')
    <3> HIDE DEF mark
    <3> QED  BY <1>1, <1>8
  <2>3. log' \subseteq ProbeSet
    <3> HIDE DEF mark
    <3> QED  BY <1>1, <1>6
  <2>4. \A p \in log' : used <= p.seq /\ p.seq < sequence /\ (p.answer # "none" => p.out = "sent")
    <3>1. \A p \in log : fate(p) # "none" => p.out = "sent"
      BY <1>3 DEF LogInv
    <3> HIDE DEF mark, fate
    <3> QED  BY <1>1, <1>6, <3>1 DEF LogInv
  <2>5. \A p, q \in log' : p.seq = q.seq => p = q
    <3>1. \A p, q \in log : mark(p).seq = mark(q).seq => p = q
      <4> HIDE DEF mark
      <4> QED  BY <1>6 DEF LogInv
    <3> HIDE DEF mark
    <3> QED  BY <1>1, <3>1
  <2>6. \A p \in pending \ (answered \cup bare) : p \in log' /\ p.out = "sent" /\ p.answer = "none"
    <3>1. \A p \in pending \ (answered \cup bare) : p \in log /\ fate(p) = p.answer
      BY <1>3
    <3> HIDE DEF mark, fate
    <3> QED  BY <1>1, <1>3, <1>6, <3>1
  <2>7. \A q \in log' : q.out = "sent" /\ q.answer = "none" => q \in pending \ (answered \cup bare)
    <3> SUFFICES ASSUME NEW p \in log, mark(p).out = "sent", mark(p).answer = "none"
                 PROVE  mark(p) \in pending \ (answered \cup bare)
      <4> HIDE DEF mark
      <4> QED  BY <1>1
    <3>1. fate(p) = "none" /\ p.out = "sent"
      <4> HIDE DEF mark, fate
      <4> QED  BY <1>6
    <3>2. p \notin answered /\ p \notin bare /\ p.answer = "none"
      BY <3>1
    <3>3. p \in pending
      BY <3>1, <3>2 DEF LogInv
    <3>4. mark(p) = p
      <4> HIDE DEF mark, fate
      <4> QED  BY <1>6, <3>1, <3>2
    <3> QED  BY <3>2, <3>3, <3>4
  <2>8. pending' = {p \in log' : p.out = "sent" /\ p.answer = "none"}
    BY <1>9, <2>6, <2>7
  <2> QED  BY <2>1, <2>2, <2>3, <2>4, <2>5, <2>8 DEF LogInv
<1> DEFINE matched(who, tk) == {p \in who : <<p.target, p.kind>> = tk}
<1>11. ASSUME NEW tk, NEW o PROVE Number(log', tk, o, Answers) = Number(log, tk, o, Answers)
  <2>1. \A q : q \in Those(log', tk, o, Answers) <=> \E p \in Those(log, tk, o, Answers) : q = mark(p)
    <3>1. \A p \in log : mark(p).answer \in Answers /\ p.answer \in Answers
      <4> HIDE DEF mark, fate
      <4> QED  BY <1>4, <1>6 DEF ProbeSet
    <3> HIDE DEF mark
    <3> QED  BY <1>1, <1>6, <3>1 DEF Those
  <2>2. Those(log, tk, o, Answers) \in SUBSET log
    BY DEF Those
  <2> HIDE DEF mark
  <2> QED  BY <1>8, <2>1, <2>2 DEF Number
<1>12. ASSUME NEW tk \in TargetsOf \X Kinds, NEW a, NEW who, (a = "read" /\ who = answered) \/ (a = "bare" /\ who = bare)
       PROVE  /\ Number(log', tk, Outcomes, {a}) = Number(log, tk, Outcomes, {a}) + Cardinality(matched(who, tk))
              /\ Cardinality(matched(who, tk)) \in Nat
  <2>1. \A p \in log : fate(p) = a <=> p.answer = a \/ p \in who
    BY <1>3, <1>12
  <2>2. \A p \in who : p \in log /\ p.out \in Outcomes /\ p.answer # a
    BY <1>3, <1>12 DEF ProbeSet
  <2>3. \A p \in log : mark(p).answer = a <=> p.answer = a \/ p \in who
    <3> HIDE DEF mark, fate
    <3> QED  BY <1>6, <2>1
  <2>4. \A q : q \in Those(log', tk, Outcomes, {a})
               <=> \E p \in Those(log, tk, Outcomes, {a}) \cup matched(who, tk) : q = mark(p)
    <3> HIDE DEF mark
    <3> QED  BY <1>1, <1>6, <2>2, <2>3 DEF Those
  <2>5. Those(log, tk, Outcomes, {a}) \in SUBSET log /\ matched(who, tk) \in SUBSET log
    BY <2>2 DEF Those
  <2>6. Those(log, tk, Outcomes, {a}) \cap matched(who, tk) = {}
    BY <2>2 DEF Those
  <2> HIDE DEF mark, matched
  <2>7. IsFiniteSet(Those(log, tk, Outcomes, {a})) /\ IsFiniteSet(matched(who, tk))
    BY <2>5, FS_Subset DEF LogInv
  <2>8. Number(log', tk, Outcomes, {a}) = Cardinality(Those(log, tk, Outcomes, {a}) \cup matched(who, tk))
    <3>1. Those(log, tk, Outcomes, {a}) \cup matched(who, tk) \in SUBSET log
      BY <2>5
    <3> QED  BY <1>8, <2>4, <3>1 DEF Number
  <2> QED  BY <2>6, <2>7, <2>8, ApartAdd DEF Number
<1>13. ASSUME NEW tk \in TargetsOf \X Kinds
       PROVE  stats'[tk] = Replied(stats[tk], Cardinality(matched(answered, tk)), Cardinality(matched(bare, tk)))
  <2>1. {p \in pending : p.seq \in stamped /\ <<p.target, p.kind>> = tk} = matched(answered, tk)
    <3> HIDE DEF stamped
    <3> QED  BY <1>5
  <2>2. {p \in pending : p.seq \in naked /\ <<p.target, p.kind>> = tk} = matched(bare, tk)
    <3> HIDE DEF naked
    <3> QED  BY <1>5
  <2> HIDE DEF matched, stamped, naked
  <2>3. tk \in DOMAIN stats
    BY DEF BookInv
  <2> QED  BY <1>2, <2>1, <2>2, <2>3 DEF Handle, Replied, stamped, naked
<1>14. BookInv'
  <2>1. DOMAIN stats' = TargetsOf \X Kinds /\ stats' = [tk \in TargetsOf \X Kinds |-> stats'[tk]]
    BY <1>2 DEF BookInv, Handle
  <2>2. ASSUME NEW tk \in TargetsOf \X Kinds
        PROVE  stats'[tk] \in CounterSet /\ Booked(stats'[tk], log', tk)
    <3> DEFINE read == Cardinality(matched(answered, tk))
               without == Cardinality(matched(bare, tk))
    <3>1. stats[tk] \in CounterSet /\ Booked(stats[tk], log, tk)
      BY DEF BookInv
    <3> HIDE DEF matched
    <3>2. /\ read \in Nat /\ without \in Nat
          /\ Number(log', tk, Outcomes, {"read"}) = Number(log, tk, Outcomes, {"read"}) + read
          /\ Number(log', tk, Outcomes, {"bare"}) = Number(log, tk, Outcomes, {"bare"}) + without
      BY <1>12
    <3>3. stats'[tk] = Replied(stats[tk], read, without)
      BY <1>13
    <3> HIDE DEF read, without
    <3>4. IsFiniteSet(log) /\ \A o : Number(log', tk, o, Answers) = Number(log, tk, o, Answers)
      BY <1>11 DEF LogInv
    <3> QED  BY <3>1, <3>2, <3>3, <3>4, RebookReplies
  <2>3. TargetsOf' = TargetsOf
    BY DEF TargetsOf
  <2> QED  BY <2>1, <2>2, <2>3 DEF BookInv
<1> QED  BY <1>10, <1>11, <1>14

----------------------------------------------------------------------------
(* What a cycle sends *)

LEMMA FiniteImage ==
  ASSUME NEW S, IsFiniteSet(S), NEW f, S = DOMAIN f, NEW T, T = {f[x] : x \in S}
  PROVE  IsFiniteSet(T)
<1> DEFINE g == [x \in S |-> f[x]]
<1>1. g \in Surjection(S, T)
  BY DEF Surjection
<1> QED  BY <1>1, FS_Surjection

LEMMA CeilFacts ==
  ASSUME NEW n \in Nat \ {0}, NEW d \in Nat \ {0}
  PROVE  Ceil(n, d) \in Nat \ {0}
<1>1. n + d - 1 \in Nat
  OBVIOUS
<1>2. (n + d - 1) \div d \in Nat /\ n + d - 1 < d * ((n + d - 1) \div d) + d
  BY <1>1
<1>3. (n + d - 1) \div d # 0
  BY <1>2
<1> QED  BY <1>2, <1>3 DEF Ceil

RotationInv == policy \in Policies /\ phases \in Phases

LEMMA RotationFacts ==
  ASSUME RotationInv
  PROVE  /\ DestinationBatches \in Nat \ {0} /\ PortBatches \in Nat \ {0}
         /\ policy.targets \in Nat \ {0} /\ phases.target \in 0..policy.targets - 1 /\ phases.port \in 0..PortBatches - 1
         /\ \A c \in Nat : PortBatch(c) \in 0..PortBatches - 1 /\ ActiveTargets(c) \subseteq TargetsOf
         /\ \A t \in TargetsOf : Position(t) \in Nat
<1>1. policy.targets \in Nat \ {0} /\ policy.size \in Nat \ {0} /\ policy.ports \in Nat \ {0} /\ policy.per \in Nat \ {0}
  BY PoliciesAssumption DEF RotationInv
<1>2. DestinationBatches \in Nat \ {0} /\ PortBatches \in Nat \ {0}
  BY <1>1, CeilFacts DEF DestinationBatches, PortBatches
<1>3. phases.target \in 0..policy.targets - 1 /\ phases.port \in 0..PortBatches - 1
  BY DEF RotationInv, Phases, TargetsOf
<1>4. Epoch \in Nat \ {0}
  BY <1>2 DEF Epoch
<1>5. ASSUME NEW c \in Nat PROVE PortBatch(c) \in 0..PortBatches - 1
  <2>1. c % Epoch \in Nat
    BY <1>4
  <2>2. (c % Epoch) \div DestinationBatches \in Nat
    BY <1>2, <2>1
  <2>3. (c % Epoch) \div DestinationBatches + phases.port \in Nat
    BY <1>2, <1>3, <2>2
  <2> QED  BY <1>2, <2>3 DEF PortBatch
<1>6. ASSUME NEW c \in Nat PROVE ActiveTargets(c) \subseteq TargetsOf
  <2>1. ASSUME NEW i \in TargetsOf PROVE (phases.target + i) % policy.targets \in TargetsOf
    <3>1. phases.target + i \in Nat
      BY <1>1, <1>3 DEF TargetsOf
    <3> QED  BY <1>1, <3>1 DEF TargetsOf
  <2> QED  BY <2>1 DEF ActiveTargets
<1>7. ASSUME NEW t \in TargetsOf PROVE Position(t) \in Nat
  <2>1. t + policy.targets - phases.target \in Nat
    BY <1>1, <1>3 DEF TargetsOf
  <2>2. (t + policy.targets - phases.target) % policy.targets \in Nat
    BY <1>1, <2>1
  <2> QED  BY <1>2, <2>2 DEF Position
<1> QED  BY <1>1, <1>2, <1>3, <1>5, <1>6, <1>7

LEMMA TargetsFinite ==
  ASSUME RotationInv, cycle \in Nat
  PROVE  IsFiniteSet(ActiveTargets(cycle))
<1>1. IsFiniteSet(TargetsOf)
  <2>1. 0 \in Int /\ policy.targets - 1 \in Int
    BY RotationFacts
  <2> QED  BY <2>1, FS_Interval DEF TargetsOf
<1> QED  BY <1>1, RotationFacts, FS_Subset

\* The probes of a schedule to one target, by kind.
Planned(probes, t, k) == {i \in DOMAIN probes : probes[i].target = t /\ probes[i].kind = k}

\* Every target of the cycle gets one probe from every port of the batch, and a large one.
LEMMA ScheduleFacts ==
  ASSUME RotationInv, cycle \in Nat
  PROVE  /\ Len(Schedule) \in Nat /\ DOMAIN Schedule = 1..Len(Schedule)
         /\ \A i \in DOMAIN Schedule :
              Schedule[i].kind \in Kinds /\ Schedule[i].target \in TargetsOf /\ Schedule[i].socket \in Nat
         /\ \A t \in ActiveTargets(cycle) : /\ Cardinality(Planned(Schedule, t, "rtt")) = ActivePorts(PortBatch(cycle))
                                            /\ Cardinality(Planned(Schedule, t, "df")) \in Nat \ {0}
<1> DEFINE n == ActivePorts(PortBatch(cycle))
           small(t) == {[kind |-> "rtt", target |-> t, socket |-> s] : s \in 0..n - 1}
           large(t) == [kind |-> "df", target |-> t, socket |-> Position(t) % n]
           plan(t) == small(t) \cup {large(t)}
           all == UNION {plan(t) : t \in ActiveTargets(cycle)}
<1>1. n \in Nat \ {0}
  BY RotationFacts, PortsActive DEF RotationInv
<1>2. Schedule = SetToSeq(all)
  BY DEF Schedule
<1> HIDE DEF n
<1>3. ASSUME NEW t PROVE Cardinality(small(t)) = n /\ IsFiniteSet(small(t))
  <2> DEFINE f == [s \in 0..n - 1 |-> [kind |-> "rtt", target |-> t, socket |-> s]]
  <2>1. IsFiniteSet(0..n - 1) /\ Cardinality(0..n - 1) = n
    BY <1>1, FS_Interval
  <2>2. Matches(f, 0..n - 1, small(t))
    BY DEF Matches
  <2> HIDE DEF f, small
  <2> QED  BY <2>1, <2>2, Matched
<1>4. IsFiniteSet(all)
  <2> DEFINE f == [t \in ActiveTargets(cycle) |-> plan(t)]
             plans == {plan(t) : t \in ActiveTargets(cycle)}
  <2>1. IsFiniteSet(plans)
    <3>1. plans = {f[t] : t \in ActiveTargets(cycle)}
      OBVIOUS
    <3> HIDE DEF plans, plan
    <3> QED  BY <3>1, TargetsFinite, FiniteImage
  <2>2. \A t : IsFiniteSet(plan(t))
    <3> HIDE DEF small, large
    <3> QED  BY <1>3, FS_AddElement
  <2>3. \A p \in plans : IsFiniteSet(p)
    <3> HIDE DEF plan
    <3> QED  BY <2>2
  <2> HIDE DEF plans
  <2>4. IsFiniteSet(UNION plans)
    BY <2>1, <2>3, FS_UNION
  <2> QED  BY <2>4 DEF plans
<1> DEFINE m == Cardinality(all)
<1>5. /\ m \in Nat /\ Matches(Schedule, 1..m, all) /\ Len(Schedule) = m /\ DOMAIN Schedule = 1..m
  <2> HIDE DEF all
  <2> QED  BY <1>2, <1>4, InSequence
<1>6. \A e : e \in all <=> \E t \in ActiveTargets(cycle) : e \in small(t) \/ e = large(t)
  <2> HIDE DEF small, large
  <2> QED  OBVIOUS
<1>7. \A e \in all : e.kind \in Kinds /\ e.target \in TargetsOf /\ e.socket \in Nat
  <2> SUFFICES ASSUME NEW t \in ActiveTargets(cycle), NEW e, e \in small(t) \/ e = large(t)
               PROVE  e.kind \in Kinds /\ e.target \in TargetsOf /\ e.socket \in Nat
    <3> HIDE DEF all, small, large
    <3> QED  BY <1>6
  <2>1. t \in TargetsOf /\ Position(t) \in Nat
    BY RotationFacts
  <2>2. Position(t) % n \in Nat
    BY <1>1, <2>1
  <2>3. \A s \in 0..n - 1 : s \in Nat
    BY <1>1
  <2> QED  BY <2>1, <2>2, <2>3 DEF Kinds
<1>8. \A i \in DOMAIN Schedule : Schedule[i] \in all
  <2> HIDE DEF all, m
  <2> QED  BY <1>5 DEF Matches
<1>9. ASSUME NEW t \in ActiveTargets(cycle) PROVE Cardinality(Planned(Schedule, t, "rtt")) = n
  <2> DEFINE mine == Planned(Schedule, t, "rtt")
             f == [i \in mine |-> Schedule[i]]
  <2>1. \A e \in all : e.target = t /\ e.kind = "rtt" <=> e \in small(t)
    <3>1. \A u : \A e \in small(u) : e.target = u /\ e.kind = "rtt"
      OBVIOUS
    <3>2. \A u : large(u).kind = "df"
      OBVIOUS
    <3> HIDE DEF all, small, large
    <3> QED  BY <1>6, <3>1, <3>2
  <2>2. small(t) \subseteq all
    <3> HIDE DEF all, small, large
    <3> QED  BY <1>6
  <2>3. IsFiniteSet(mine)
    <3>1. IsFiniteSet(1..m)
      BY <1>5, FS_Interval
    <3>2. mine \in SUBSET (1..m)
      BY <1>5 DEF Planned
    <3> QED  BY <3>1, <3>2, FS_Subset
  <2>4. Matches(f, mine, small(t))
    <3> HIDE DEF all, small, large, m
    <3>1. \A i \in mine : i \in 1..m /\ f[i] = Schedule[i] /\ f[i] \in small(t)
      BY <1>5, <1>8, <2>1 DEF Planned
    <3>2. \A e \in small(t) : \E i \in mine : f[i] = e
      <4> SUFFICES ASSUME NEW e \in small(t) PROVE \E i \in mine : f[i] = e
        OBVIOUS
      <4>1. PICK i \in 1..m : Schedule[i] = e
        BY <1>5, <2>2 DEF Matches
      <4>2. i \in mine
        BY <1>5, <2>1, <2>2, <4>1 DEF Planned
      <4> QED  BY <4>1, <4>2
    <3>3. \A i, j \in mine : f[i] = f[j] => i = j
      BY <1>5, <3>1 DEF Matches
    <3> HIDE DEF mine
    <3>4. f \in [mine -> small(t)]
      BY <3>1
    <3> HIDE DEF f
    <3> QED  BY <3>2, <3>3, <3>4 DEF Matches
  <2> HIDE DEF f, small, mine
  <2> QED  BY <1>3, <2>3, <2>4, Matched DEF mine
<1>10. ASSUME NEW t \in ActiveTargets(cycle) PROVE Cardinality(Planned(Schedule, t, "df")) \in Nat \ {0}
  <2> DEFINE mine == Planned(Schedule, t, "df")
  <2>1. large(t) \in all
    <3> HIDE DEF all, small, large
    <3> QED  BY <1>6
  <2>2. PICK i \in 1..m : Schedule[i] = large(t)
    <3> HIDE DEF all, m, large
    <3> QED  BY <1>5, <2>1 DEF Matches
  <2>3. i \in mine
    <3>1. large(t).target = t /\ large(t).kind = "df"
      OBVIOUS
    <3> HIDE DEF large, m
    <3> QED  BY <1>5, <2>2, <3>1 DEF Planned
  <2>4. IsFiniteSet(mine)
    <3>1. IsFiniteSet(1..m)
      BY <1>5, FS_Interval
    <3>2. mine \in SUBSET (1..m)
      BY <1>5 DEF Planned
    <3> QED  BY <3>1, <3>2, FS_Subset
  <2> HIDE DEF mine
  <2> QED  BY <2>3, <2>4, FS_EmptySet, FS_CardinalityType DEF mine
<1>11. Len(Schedule) \in Nat /\ DOMAIN Schedule = 1..Len(Schedule)
  BY <1>5
<1>12. \A i \in DOMAIN Schedule :
         Schedule[i].kind \in Kinds /\ Schedule[i].target \in TargetsOf /\ Schedule[i].socket \in Nat
  <2> HIDE DEF all
  <2> QED  BY <1>7, <1>8
<1> QED  BY <1>9, <1>10, <1>11, <1>12 DEF n

----------------------------------------------------------------------------
(* The rows of a cycle *)

RowSet == [cycle : Nat, target : TargetsOf, batch : 0..PortBatches - 1, at : Nat, sent : Nat, lost : Nat,
           dfSent : Nat, dfLost : Nat, drops : Nat, errors : Nat, probed : Nat, missed : Nat, dfMissed : Nat]
GoodRows == {r \in RowSet : Truthful(r)}

\* What the counters of a target and kind say of its probes.
LEMMA BooksMean ==
  ASSUME LogInv, BookInv, NEW tk \in TargetsOf \X Kinds
  PROVE  /\ Valid(stats[tk]) = Number(log, tk, {"sent", "path"}, {"none", "read"})
         /\ Valid(stats[tk]) - stats[tk].received = Number(log, tk, {"sent", "path"}, {"none"})
         /\ Number(log, tk, {"sent", "path"}, {"none"}) \in Nat /\ Valid(stats[tk]) \in Nat
         /\ Number(log, tk, {"sent", "path"}, {"none"}) <= Valid(stats[tk])
         /\ stats[tk].errors \in Nat /\ stats[tk].drops \in Nat /\ stats[tk].drops <= stats[tk].errors
         /\ stats[tk].errors = 0 => Valid(stats[tk]) = Number(log, tk, Outcomes, Answers)
<1> DEFINE N(o, a) == Number(log, tk, o, a)
<1>1. \A o, a : N(o, a) \in Nat
  BY NumberType DEF LogInv
<1>2. N({"sent", "mtu", "path"}, Answers) = N({"sent", "path"}, Answers) + N({"mtu"}, Answers)
  <2>1. {"sent", "mtu", "path"} = {"sent", "path"} \cup {"mtu"} /\ {"sent", "path"} \cap {"mtu"} = {}
    OBVIOUS
  <2> QED  BY <2>1, ByOutcome DEF LogInv
<1>3. N(Outcomes, Answers) = N({"sent", "path"}, Answers) + N({"mtu", "local"}, Answers)
  <2>1. Outcomes = {"sent", "path"} \cup {"mtu", "local"} /\ {"sent", "path"} \cap {"mtu", "local"} = {}
    BY DEF Outcomes
  <2> QED  BY <2>1, ByOutcome DEF LogInv
<1>4. N({"mtu", "local"}, Answers) = N({"mtu"}, Answers) + N({"local"}, Answers)
  <2>1. {"mtu", "local"} = {"mtu"} \cup {"local"} /\ {"mtu"} \cap {"local"} = {}
    OBVIOUS
  <2> QED  BY <2>1, ByOutcome DEF LogInv
<1>5. N({"sent", "path"}, Answers) = N({"sent", "path"}, {"none", "read"}) + N({"sent", "path"}, {"bare"})
  <2>1. Answers = {"none", "read"} \cup {"bare"} /\ {"none", "read"} \cap {"bare"} = {}
    BY DEF Answers
  <2> QED  BY <2>1, ByAnswer DEF LogInv
<1>6. N({"sent", "path"}, {"none", "read"}) = N({"sent", "path"}, {"none"}) + N({"sent", "path"}, {"read"})
  <2>1. {"none", "read"} = {"none"} \cup {"read"} /\ {"none"} \cap {"read"} = {}
    OBVIOUS
  <2> QED  BY <2>1, ByAnswer DEF LogInv
<1>7. ASSUME NEW a \in {"read", "bare"} PROVE N({"sent", "path"}, {a}) = N(Outcomes, {a})
  <2>1. \A p \in log : p.answer = a => p.out = "sent"
    BY <1>7 DEF LogInv
  <2>2. Those(log, tk, {"sent", "path"}, {a}) = Those(log, tk, Outcomes, {a})
    BY <2>1 DEF Those, Outcomes
  <2> QED  BY <2>2 DEF Number
<1>8. N({"sent", "path"}, {"read"}) = N(Outcomes, {"read"}) /\ N({"sent", "path"}, {"bare"}) = N(Outcomes, {"bare"})
  BY <1>7
<1>9. Booked(stats[tk], log, tk)
  BY DEF BookInv
<1> DEFINE s == stats[tk]
           none == N({"sent", "path"}, {"none"})
           read == N({"sent", "path"}, {"read"})
           bare == N({"sent", "path"}, {"bare"})
           mtu == N({"mtu"}, Answers)
           local == N({"local"}, Answers)
<1>10. none \in Nat /\ read \in Nat /\ bare \in Nat /\ mtu \in Nat /\ local \in Nat
  BY <1>1
<1>11. /\ s.sent = none + read + bare + mtu /\ s.invalid = mtu + bare /\ s.received = read
       /\ s.drops = mtu /\ s.errors = mtu + local + bare
       /\ N({"sent", "path"}, {"none", "read"}) = none + read
       /\ N(Outcomes, Answers) = none + read + bare + mtu + local
  <2>1. s.sent = N({"sent", "mtu", "path"}, Answers) /\ s.invalid = mtu + N(Outcomes, {"bare"})
        /\ s.received = N(Outcomes, {"read"}) /\ s.drops = mtu
        /\ s.errors = N({"mtu", "local"}, Answers) + N(Outcomes, {"bare"})
    BY <1>9 DEF Booked
  <2> HIDE DEF N, s
  <2> QED  BY <1>2, <1>3, <1>4, <1>5, <1>6, <1>8, <1>10, <2>1
<1>12. Valid(s) = s.sent - s.invalid
  BY DEF Valid
<1>13. /\ Valid(s) = N({"sent", "path"}, {"none", "read"}) /\ Valid(s) - s.received = none
       /\ none \in Nat /\ Valid(s) \in Nat /\ none <= Valid(s)
       /\ s.errors \in Nat /\ s.drops \in Nat /\ s.drops <= s.errors
       /\ s.errors = 0 => Valid(s) = N(Outcomes, Answers)
  <2> HIDE DEF N, s, none, read, bare, mtu, local
  <2> QED  BY <1>10, <1>11, <1>12
<1> QED  BY <1>13

\* The row of a target is true of its probes.
LEMMA RowTruth ==
  ASSUME RotationInv, cycle \in Nat, LogInv, BookInv, NEW t \in ActiveTargets(cycle), NEW at \in Nat,
         Number(log, <<t, "rtt">>, Outcomes, Answers) = ActivePorts(PortBatch(cycle)),
         Number(log, <<t, "df">>, Outcomes, Answers) \in Nat \ {0}
  PROVE  RowOf(t, at) \in GoodRows
<1> DEFINE r == stats[<<t, "rtt">>]
           d == stats[<<t, "df">>]
           row == RowOf(t, at)
           missing(k) == Number(log, <<t, k>>, {"sent", "path"}, {"none"})
<1>1. t \in TargetsOf /\ PortBatch(cycle) \in 0..PortBatches - 1
  BY RotationFacts
<1>2. <<t, "rtt">> \in TargetsOf \X Kinds /\ <<t, "df">> \in TargetsOf \X Kinds
  BY <1>1 DEF Kinds
<1>3. /\ Valid(r) = Number(log, <<t, "rtt">>, {"sent", "path"}, {"none", "read"}) /\ Valid(r) - r.received = missing("rtt")
      /\ missing("rtt") \in Nat /\ Valid(r) \in Nat /\ missing("rtt") <= Valid(r)
      /\ r.errors \in Nat /\ r.drops \in Nat /\ r.drops <= r.errors
      /\ r.errors = 0 => Valid(r) = ActivePorts(PortBatch(cycle))
  BY <1>2, BooksMean
<1>4. /\ Valid(d) - d.received = missing("df") /\ missing("df") \in Nat /\ Valid(d) \in Nat
      /\ d.errors \in Nat /\ d.drops \in Nat /\ d.drops <= d.errors
      /\ d.errors = 0 => Valid(d) = Number(log, <<t, "df">>, Outcomes, Answers)
  BY <1>2, BooksMean
<1>5. \A p \in log : p.answer \in Answers
  BY DEF LogInv, ProbeSet
<1>6. ASSUME NEW k PROVE Cardinality({p \in Probes(k, t) : p.out \in {"sent", "path"} /\ p.answer = "none"}) = missing(k)
  <2>1. {p \in Probes(k, t) : p.out \in {"sent", "path"} /\ p.answer = "none"} = Those(log, <<t, k>>, {"sent", "path"}, {"none"})
    BY DEF Probes, Those
  <2> QED  BY <2>1 DEF Number
<1>7. Cardinality({p \in Probes("rtt", t) : p.out \in {"sent", "path"} /\ p.answer # "bare"}) = Valid(r)
  <2>1. {p \in Probes("rtt", t) : p.out \in {"sent", "path"} /\ p.answer # "bare"}
          = Those(log, <<t, "rtt">>, {"sent", "path"}, {"none", "read"})
    BY <1>5 DEF Probes, Those, Answers
  <2> QED  BY <1>3, <2>1 DEF Number
<1>8. row = [cycle |-> cycle, target |-> t, batch |-> PortBatch(cycle), at |-> at,
             sent |-> Valid(r), lost |-> missing("rtt"), dfSent |-> Valid(d), dfLost |-> missing("df"),
             drops |-> d.drops, errors |-> r.errors + d.errors,
             probed |-> Valid(r), missed |-> missing("rtt"), dfMissed |-> missing("df")]
  <2> HIDE DEF missing
  <2> QED  BY <1>3, <1>4, <1>6, <1>7 DEF RowOf
<1> HIDE DEF missing, r, d, row
<1>9. row \in RowSet
  BY <1>1, <1>3, <1>4, <1>8 DEF RowSet
<1>10. row.errors \in Nat /\ (row.errors = 0 => r.errors = 0 /\ d.errors = 0) /\ (row.errors = row.drops => r.errors = 0)
  BY <1>3, <1>4, <1>8
<1>11. Truthful(row)
  <2>1. \A field \in Counters : row[field] \in Nat
    BY <1>9 DEF RowSet, Counters
  <2>2. row.lost = row.missed /\ row.dfLost = row.dfMissed /\ row.sent = row.probed /\ row.missed <= row.probed /\ row.target = t
    BY <1>3, <1>8
  <2>3. row.errors = 0 \/ row.errors = row.drops => row.probed = ActivePorts(row.batch)
    BY <1>3, <1>8, <1>10
  <2>4. row.errors = 0 => row.dfSent > 0
    BY <1>4, <1>8, <1>10 DEF d
  <2>5. row.errors = 0 => row.drops = 0
    BY <1>4, <1>8, <1>10
  <2> QED  BY <1>1, <2>1, <2>2, <2>3, <2>4, <2>5 DEF Truthful
<1> QED  BY <1>9, <1>11 DEF GoodRows, row

----------------------------------------------------------------------------
(* The books and the log through a cycle *)

\* Every target of the cycle was sent one probe from every port of the batch, and a large one.
Scheduled ==
  \A t \in ActiveTargets(cycle) : /\ Number(log, <<t, "rtt">>, Outcomes, Answers) = ActivePorts(PortBatch(cycle))
                                  /\ Number(log, <<t, "df">>, Outcomes, Answers) \in Nat \ {0}

StepInv ==
  /\ cycle \in Nat /\ now \in Nat
  /\ step = "wait" => used = sequence /\ stats = Nothing /\ log = {} /\ pending = {}
  /\ step \in {"drain", "confirm", "last", "report"} => Scheduled

CycleInv == RotationInv /\ LogInv /\ BookInv /\ StepInv

LEMMA SameRotation ==
  ASSUME policy' = policy, phases' = phases
  PROVE  /\ RotationInv' <=> RotationInv
         /\ TargetsOf' = TargetsOf /\ PortBatches' = PortBatches
         /\ \A c : ActiveTargets(c)' = ActiveTargets(c) /\ PortBatch(c)' = PortBatch(c)
         /\ \A b : ActivePorts(b)' = ActivePorts(b)
<1>1. TargetsOf' = TargetsOf /\ PortBatches' = PortBatches /\ DestinationBatches' = DestinationBatches
  BY DEF TargetsOf, PortBatches, DestinationBatches
<1>2. Epoch' = Epoch
  BY <1>1 DEF Epoch
<1> QED  BY <1>1, <1>2 DEF RotationInv, Phases, ActiveTargets, DestinationBatch, PortBatch, ActivePorts

LEMMA NothingBooked ==
  ASSUME log = {}, stats = Nothing
  PROVE  BookInv
<1>1. ASSUME NEW tk, NEW o, NEW a PROVE Number(log, tk, o, a) = 0
  BY FS_EmptySet DEF Number, Those
<1>2. Zero \in CounterSet
  BY DEF Zero, CounterSet
<1>3. \A tk : Booked(Zero, log, tk)
  BY <1>1 DEF Booked, Zero
<1> QED  BY <1>2, <1>3 DEF BookInv, Nothing

LEMMA CycleInit == Init => CycleInv
<1> SUFFICES ASSUME Init PROVE CycleInv
  OBVIOUS
<1>1. BookInv
  BY NothingBooked DEF Init
<1>2. LogInv
  BY FS_EmptySet DEF Init, LogInv
<1> QED  BY <1>1, <1>2 DEF Init, CycleInv, RotationInv, StepInv

LEMMA LogIdle ==
  ASSUME CycleInv, UNCHANGED <<policy, phases, cycle, sequence, used, stats, pending, log>>, now' \in Nat,
         step' = step \/ step' = "dead"
  PROVE  CycleInv'
<1>1. RotationInv' /\ TargetsOf' = TargetsOf
  BY SameRotation DEF CycleInv
<1>2. LogInv'
  BY <1>1 DEF CycleInv, LogInv, ProbeSet
<1>3. BookInv'
  BY <1>1 DEF CycleInv, BookInv
<1>4. Scheduled => Scheduled'
  BY SameRotation DEF Scheduled, Number, Those
<1>5. StepInv'
  BY <1>4 DEF CycleInv, StepInv, Nothing, TargetsOf
<1> QED  BY <1>1, <1>2, <1>3, <1>5 DEF CycleInv

LEMMA KindsApart ==
  ASSUME NEW t \in TargetsOf
  PROVE  <<t, "rtt">> \in TargetsOf \X Kinds /\ <<t, "df">> \in TargetsOf \X Kinds
  BY DEF Kinds

LEMMA CycleSends == CycleInv /\ SendProbes => CycleInv'
<1> SUFFICES ASSUME CycleInv, SendProbes PROVE CycleInv'
  OBVIOUS
<1> USE DEF CycleInv
<1>1. stats = Nothing /\ log = {} /\ pending = {} /\ SendAll(Schedule, sequence, stats, pending, log)
  BY DEF SendProbes, FirstSequence, StepInv
<1>2. /\ policy' = policy /\ phases' = phases /\ used' = used /\ cycle' = cycle /\ now' = now /\ step' = "drain"
      /\ cycle \in Nat /\ now \in Nat
  BY DEF SendProbes, StepInv
<1>3. /\ Len(Schedule) \in Nat /\ DOMAIN Schedule = 1..Len(Schedule)
      /\ \A i \in DOMAIN Schedule :
           Schedule[i].kind \in Kinds /\ Schedule[i].target \in TargetsOf /\ Schedule[i].socket \in Nat
      /\ \A t \in ActiveTargets(cycle) : /\ Cardinality(Planned(Schedule, t, "rtt")) = ActivePorts(PortBatch(cycle))
                                         /\ Cardinality(Planned(Schedule, t, "df")) \in Nat \ {0}
  BY <1>2, ScheduleFacts
<1>4. /\ LogInv' /\ BookInv'
      /\ \A tk \in TargetsOf \X Kinds :
           Number(log', tk, Outcomes, Answers) = Number(log, tk, Outcomes, Answers)
             + Cardinality({i \in DOMAIN Schedule : Schedule[i].target = tk[1] /\ Schedule[i].kind = tk[2]})
  BY <1>1, <1>2, <1>3, SendKeeps
<1>5. ASSUME NEW t \in ActiveTargets(cycle)
      PROVE  /\ Number(log', <<t, "rtt">>, Outcomes, Answers) = ActivePorts(PortBatch(cycle))
             /\ Number(log', <<t, "df">>, Outcomes, Answers) \in Nat \ {0}
  <2>1. t \in TargetsOf
    BY <1>2, RotationFacts
  <2>2. ASSUME NEW k \in Kinds PROVE Number(log', <<t, k>>, Outcomes, Answers) = Cardinality(Planned(Schedule, t, k))
    <3>1. Number(log, <<t, k>>, Outcomes, Answers) = 0
      BY <1>1, FS_EmptySet DEF Number, Those
    <3>2. <<t, k>> \in TargetsOf \X Kinds /\ <<t, k>>[1] = t /\ <<t, k>>[2] = k
      BY <2>1
    <3>3. Planned(Schedule, t, k) = {i \in DOMAIN Schedule : Schedule[i].target = <<t, k>>[1] /\ Schedule[i].kind = <<t, k>>[2]}
      BY <3>2 DEF Planned
    <3>4. Cardinality(Planned(Schedule, t, k)) \in Nat
      <4>1. IsFiniteSet(1..Len(Schedule))
        <5>1. 1 \in Int /\ Len(Schedule) \in Int
          BY <1>3
        <5> QED  BY <5>1, FS_Interval
      <4>2. Planned(Schedule, t, k) \in SUBSET (1..Len(Schedule))
        BY <1>3 DEF Planned
      <4> QED  BY <4>1, <4>2, FS_Subset, FS_CardinalityType
    <3> QED  BY <1>4, <3>1, <3>2, <3>3, <3>4
  <2>3. Number(log', <<t, "rtt">>, Outcomes, Answers) = Cardinality(Planned(Schedule, t, "rtt"))
        /\ Number(log', <<t, "df">>, Outcomes, Answers) = Cardinality(Planned(Schedule, t, "df"))
    BY <2>2 DEF Kinds
  <2> QED  BY <1>3, <2>3
<1>6. Scheduled'
  BY <1>2, <1>5, SameRotation DEF Scheduled, Number, Those
<1> QED  BY <1>2, <1>4, <1>6, SameRotation DEF StepInv

\* Reading replies changes what became of the probes, and not which were sent.
LEMMA CycleReads ==
  ASSUME CycleInv, UNCHANGED <<policy, phases, cycle, now, sequence, used>>,
         step \in {"drain", "last"}, step' \in {"confirm", "report"},
         NEW answered \in SUBSET pending, NEW bare \in SUBSET pending, answered \cap bare = {}, Read(answered, bare)
  PROVE  CycleInv'
<1> USE DEF CycleInv
<1>1. /\ LogInv' /\ BookInv'
      /\ \A tk \in TargetsOf \X Kinds : Number(log', tk, Outcomes, Answers) = Number(log, tk, Outcomes, Answers)
  BY ReadKeeps
<1>2. Scheduled /\ cycle \in Nat /\ now \in Nat
  BY DEF StepInv
<1>3. \A t \in ActiveTargets(cycle) : t \in TargetsOf
  BY <1>2, RotationFacts
<1>4. \A t \in ActiveTargets(cycle) :
        /\ Number(log', <<t, "rtt">>, Outcomes, Answers) = ActivePorts(PortBatch(cycle))
        /\ Number(log', <<t, "df">>, Outcomes, Answers) \in Nat \ {0}
  BY <1>1, <1>2, <1>3, KindsApart DEF Scheduled
<1>5. Scheduled'
  BY <1>4, SameRotation DEF Scheduled, Number, Those
<1> QED  BY <1>1, <1>2, <1>5, SameRotation DEF StepInv

LEMMA CycleConfirms == CycleInv /\ ConfirmDf => CycleInv'
<1> SUFFICES ASSUME CycleInv, ConfirmDf PROVE CycleInv'
  OBVIOUS
<1> USE DEF CycleInv
<1> DEFINE asked == {[kind |-> "df", target |-> p.target, socket |-> p.socket, no |-> n] :
                        p \in UnansweredDf, n \in 1..Confirm}
           probes == SetToSeq(asked)
<1>1. /\ policy' = policy /\ phases' = phases /\ used' = used /\ cycle' = cycle /\ now' = now /\ step' = "last"
      /\ cycle \in Nat /\ now \in Nat /\ Scheduled /\ SendAll(probes, sequence, stats, pending, log)
  BY DEF ConfirmDf, StepInv
<1>2. \A p \in UnansweredDf : p \in log /\ p.target \in TargetsOf /\ p.socket \in Nat
  BY DEF UnansweredDf, LogInv, ProbeSet
<1>3. IsFiniteSet(asked)
  <2> DEFINE pairs == UnansweredDf \X (1..Confirm)
             f == [x \in pairs |-> [kind |-> "df", target |-> x[1].target, socket |-> x[1].socket, no |-> x[2]]]
  <2>1. IsFiniteSet(1..Confirm) /\ IsFiniteSet(UnansweredDf)
    <3>1. 1 \in Int /\ Confirm \in Int
      BY SizesAssumption
    <3>2. UnansweredDf \in SUBSET log
      BY <1>2
    <3>3. IsFiniteSet(UnansweredDf)
      BY <3>2, FS_Subset DEF LogInv
    <3> QED  BY <3>1, <3>3, FS_Interval
  <2>2. IsFiniteSet(pairs)
    BY <2>1, FS_Product
  <2>3. asked = {f[x] : x \in pairs}
    <3>1. ASSUME NEW e \in asked PROVE \E x \in pairs : e = f[x]
      <4>1. PICK p \in UnansweredDf : \E n \in 1..Confirm : e = [kind |-> "df", target |-> p.target, socket |-> p.socket, no |-> n]
        OBVIOUS
      <4>2. PICK n \in 1..Confirm : e = [kind |-> "df", target |-> p.target, socket |-> p.socket, no |-> n]
        BY <4>1
      <4>3. <<p, n>> \in pairs /\ f[<<p, n>>] = e
        BY <4>2
      <4> QED  BY <4>3
    <3>2. ASSUME NEW x \in pairs PROVE f[x] \in asked
      <4>1. x[1] \in UnansweredDf /\ x[2] \in 1..Confirm
        OBVIOUS
      <4> QED  BY <4>1
    <3> HIDE DEF asked, f, pairs
    <3> QED  BY <3>1, <3>2
  <2> HIDE DEF asked, pairs
  <2> QED  BY <2>2, <2>3, FiniteImage
<1>4. \A e \in asked : e.kind = "df" /\ e.target \in TargetsOf /\ e.socket \in Nat
  BY <1>2
<1>5. Len(probes) \in Nat /\ DOMAIN probes = 1..Len(probes) /\ \A i \in DOMAIN probes : probes[i] \in asked
  <2> HIDE DEF asked
  <2> QED  BY <1>3, InSequence DEF Matches
<1>6. \A i \in DOMAIN probes : probes[i].kind = "df" /\ probes[i].kind \in Kinds /\ probes[i].target \in TargetsOf /\ probes[i].socket \in Nat
  <2> HIDE DEF asked, probes
  <2> QED  BY <1>4, <1>5 DEF Kinds
<1> HIDE DEF asked, probes
<1>7. /\ LogInv' /\ BookInv'
      /\ \A tk \in TargetsOf \X Kinds :
           Number(log', tk, Outcomes, Answers) = Number(log, tk, Outcomes, Answers)
             + Cardinality({i \in DOMAIN probes : probes[i].target = tk[1] /\ probes[i].kind = tk[2]})
  BY <1>1, <1>5, <1>6, SendKeeps
<1>8. ASSUME NEW t \in ActiveTargets(cycle)
      PROVE  /\ Number(log', <<t, "rtt">>, Outcomes, Answers) = ActivePorts(PortBatch(cycle))
             /\ Number(log', <<t, "df">>, Outcomes, Answers) \in Nat \ {0}
  <2> DEFINE more(k) == {i \in DOMAIN probes : probes[i].target = <<t, k>>[1] /\ probes[i].kind = <<t, k>>[2]}
  <2>1. t \in TargetsOf
    BY <1>1, RotationFacts
  <2>2. /\ Number(log', <<t, "rtt">>, Outcomes, Answers) = Number(log, <<t, "rtt">>, Outcomes, Answers) + Cardinality(more("rtt"))
        /\ Number(log', <<t, "df">>, Outcomes, Answers) = Number(log, <<t, "df">>, Outcomes, Answers) + Cardinality(more("df"))
    BY <1>7, <2>1, KindsApart
  <2>3. more("rtt") = {}
    BY <1>6
  <2>4. Cardinality(more("df")) \in Nat
    <3>1. IsFiniteSet(1..Len(probes))
      BY <1>5, FS_Interval
    <3>2. more("df") \in SUBSET (1..Len(probes))
      BY <1>5
    <3> HIDE DEF more
    <3> QED  BY <3>1, <3>2, FS_Subset, FS_CardinalityType
  <2>5. Number(log, <<t, "rtt">>, Outcomes, Answers) = ActivePorts(PortBatch(cycle))
        /\ Number(log, <<t, "df">>, Outcomes, Answers) \in Nat \ {0}
    BY <1>1 DEF Scheduled
  <2>6. Number(log, <<t, "rtt">>, Outcomes, Answers) \in Nat
    BY NumberType DEF LogInv
  <2> HIDE DEF more
  <2> QED  BY <2>2, <2>3, <2>4, <2>5, <2>6, FS_EmptySet
<1>9. Scheduled'
  BY <1>1, <1>8, SameRotation DEF Scheduled, Number, Those
<1> QED  BY <1>1, <1>7, <1>9, SameRotation DEF StepInv

LEMMA CycleEnds == CycleInv /\ EndCycle => CycleInv'
<1> SUFFICES ASSUME CycleInv, EndCycle PROVE CycleInv'
  OBVIOUS
<1> USE DEF CycleInv
<1>1. /\ policy' = policy /\ phases' = phases /\ sequence' = sequence /\ used' = Max({used, sequence})
      /\ stats' = Nothing /\ pending' = {} /\ log' = {}
      /\ (step' = "wait" /\ now' = now + 1 /\ cycle' = cycle + 1) \/ (step' = "dead" /\ now' = now /\ cycle' = cycle)
  BY DEF EndCycle
<1>2. used' = sequence /\ sequence \in Nat
  <2>1. used \in Nat /\ sequence \in Nat /\ used <= sequence
    BY DEF LogInv
  <2> QED  BY <1>1, <2>1 DEF Max
<1>3. LogInv'
  BY <1>1, <1>2, FS_EmptySet DEF LogInv
<1>4. stats' = Nothing'
  BY <1>1, SameRotation DEF Nothing
<1>5. BookInv'
  <2>1. (log = {} /\ stats = Nothing => BookInv)'
    BY NothingBooked, PTL
  <2> QED  BY <1>1, <1>4, <2>1
<1>6. StepInv'
  BY <1>1, <1>2, <1>4 DEF StepInv
<1> QED  BY <1>1, <1>3, <1>5, <1>6, SameRotation

LEMMA CycleStep == CycleInv /\ [Next]_vars => CycleInv'
<1> SUFFICES ASSUME CycleInv, [Next]_vars PROVE CycleInv'
  OBVIOUS
<1>0. cycle \in Nat /\ now \in Nat /\ now + 1 \in Nat
  BY DEF CycleInv, StepInv
<1>1. CASE SkipTick
  BY <1>0, <1>1, LogIdle DEF SkipTick
<1>2. CASE SendProbes
  BY <1>2, CycleSends
<1>3. CASE FirstDrain
  <2>1. PICK missing \in UNION {kSubset(k, pending) : k \in 0..Min({MaxTrouble - trouble, Cardinality(pending)})} :
          \E bare \in {b \in {{}} \cup {{p} : p \in pending \ missing} : Cardinality(missing \cup b) <= MaxTrouble - trouble} :
             Read(pending \ (missing \cup bare), bare)
    BY <1>3 DEF FirstDrain
  <2>2. PICK bare \in {{}} \cup {{p} : p \in pending \ missing} : Read(pending \ (missing \cup bare), bare)
    BY <2>1
  <2>3. bare \in SUBSET pending /\ pending \ (missing \cup bare) \in SUBSET pending /\ (pending \ (missing \cup bare)) \cap bare = {}
    OBVIOUS
  <2>4. UNCHANGED <<policy, phases, cycle, now, sequence, used>> /\ step = "drain" /\ step' = "confirm"
    BY <1>3 DEF FirstDrain
  <2> QED  BY <2>2, <2>3, <2>4, CycleReads
<1>4. CASE ConfirmDf
  BY <1>4, CycleConfirms
<1>5. CASE LastDrain
  <2>1. PICK answered \in SUBSET pending : \E bare \in {{}} \cup {{p} : p \in pending \ answered} : Read(answered, bare)
    BY <1>5 DEF LastDrain
  <2>4. PICK bare \in {{}} \cup {{p} : p \in pending \ answered} : Read(answered, bare)
    BY <2>1
  <2>2. UNCHANGED <<policy, phases, cycle, now, sequence, used>> /\ step = "last" /\ step' = "report"
    BY <1>5 DEF LastDrain
  <2>3. bare \in SUBSET pending /\ answered \cap bare = {}
    OBVIOUS
  <2> QED  BY <2>2, <2>3, <2>4, CycleReads
<1>6. CASE EndCycle
  BY <1>6, CycleEnds
<1>7. CASE Die
  BY <1>0, <1>7, LogIdle DEF Die, probeVars
<1>8. CASE Collect \/ BatchTimeout \/ Posted \/ PostFailed \/ UNCHANGED vars
  BY <1>0, <1>8, LogIdle DEF Collect, BatchTimeout, Posted, PostFailed, loopVars, probeVars, vars
<1> QED
  BY <1>1, <1>2, <1>3, <1>4, <1>5, <1>6, <1>7, <1>8 DEF Next

----------------------------------------------------------------------------
(* The rows on their way to the database *)

RowsInv ==
  /\ queue \in Seq(GoodRows) /\ batch \in Seq(GoodRows)
  /\ IsFiniteSet(db) /\ db \subseteq GoodRows

LEMMA SequenceSets ==
  ASSUME NEW S, NEW s \in Seq(S)
  PROVE  /\ ToSet(s) \subseteq S /\ IsFiniteSet(ToSet(s))
         /\ s # <<>> => /\ Head(s) \in S /\ Tail(s) \in Seq(S)
                        /\ ToSet(s) = {Head(s)} \cup ToSet(Tail(s))
         /\ \A x \in S : Append(s, x) \in Seq(S) /\ ToSet(Append(s, x)) = ToSet(s) \cup {x}
         /\ \A t \in Seq(S) : s \o t \in Seq(S) /\ ToSet(s \o t) = ToSet(s) \cup ToSet(t)
<1>1. ToSet(s) \subseteq S
  BY DEF ToSet
<1>2. IsFiniteSet(ToSet(s))
  <2>1. Len(s) \in Int /\ 1 \in Int /\ DOMAIN s = 1..Len(s)
    OBVIOUS
  <2>2. IsFiniteSet(DOMAIN s)
    BY <2>1, FS_Interval
  <2> QED  BY <2>2, FiniteImage DEF ToSet
<1>3. ASSUME s # <<>>
      PROVE  Head(s) \in S /\ Tail(s) \in Seq(S) /\ ToSet(s) = {Head(s)} \cup ToSet(Tail(s))
  <2>1. Head(s) \in S /\ Tail(s) \in Seq(S)
    BY <1>3
  <2>2. ASSUME NEW i \in DOMAIN s PROVE s[i] \in {Head(s)} \cup ToSet(Tail(s))
    <3>1. CASE i = 1
      BY <1>3, <3>1
    <3>2. CASE i # 1
      <4>1. i - 1 \in DOMAIN Tail(s) /\ Tail(s)[i - 1] = s[i]
        BY <1>3, <3>2
      <4> QED  BY <4>1 DEF ToSet
    <3> QED  BY <3>1, <3>2
  <2>3. ASSUME NEW i \in DOMAIN Tail(s) PROVE Tail(s)[i] \in ToSet(s)
    <3>1. i + 1 \in DOMAIN s /\ Tail(s)[i] = s[i + 1]
      BY <1>3
    <3> QED  BY <3>1 DEF ToSet
  <2>4. Head(s) \in ToSet(s)
    <3>1. 1 \in DOMAIN s /\ Head(s) = s[1]
      BY <1>3
    <3> QED  BY <3>1 DEF ToSet
  <2> QED  BY <2>1, <2>2, <2>3, <2>4 DEF ToSet
<1>4. ASSUME NEW x \in S PROVE Append(s, x) \in Seq(S) /\ ToSet(Append(s, x)) = ToSet(s) \cup {x}
  <2>1. Append(s, x) \in Seq(S) /\ DOMAIN Append(s, x) = 1..Len(s) + 1 /\ Append(s, x)[Len(s) + 1] = x
        /\ DOMAIN s = 1..Len(s) /\ Len(s) \in Nat
    OBVIOUS
  <2>2. \A i \in DOMAIN s : Append(s, x)[i] = s[i]
    OBVIOUS
  <2>3. \A i \in 1..Len(s) + 1 : i \in 1..Len(s) \/ i = Len(s) + 1
    BY <2>1
  <2>4. Len(s) + 1 \in 1..Len(s) + 1 /\ \A i \in 1..Len(s) : i \in 1..Len(s) + 1
    BY <2>1
  <2> QED  BY <2>1, <2>2, <2>3, <2>4 DEF ToSet
<1>5. ASSUME NEW t \in Seq(S) PROVE s \o t \in Seq(S) /\ ToSet(s \o t) = ToSet(s) \cup ToSet(t)
  <2>1. s \o t \in Seq(S) /\ DOMAIN (s \o t) = 1..Len(s) + Len(t) /\ DOMAIN s = 1..Len(s) /\ DOMAIN t = 1..Len(t)
        /\ Len(s) \in Nat /\ Len(t) \in Nat
    OBVIOUS
  <2>2. \A i \in 1..Len(s) : (s \o t)[i] = s[i] /\ i \in 1..Len(s) + Len(t)
    OBVIOUS
  <2>3. \A i \in 1..Len(t) : (s \o t)[Len(s) + i] = t[i] /\ Len(s) + i \in 1..Len(s) + Len(t)
    OBVIOUS
  <2>4. \A i \in 1..Len(s) + Len(t) : i \in 1..Len(s) \/ \E j \in 1..Len(t) : i = Len(s) + j
    <3> SUFFICES ASSUME NEW i \in 1..Len(s) + Len(t), i \notin 1..Len(s) PROVE \E j \in 1..Len(t) : i = Len(s) + j
      OBVIOUS
    <3>1. i - Len(s) \in 1..Len(t) /\ i = Len(s) + (i - Len(s))
      BY <2>1
    <3> QED  BY <3>1
  <2>5. ToSet(s \o t) \subseteq ToSet(s) \cup ToSet(t)
    <3> SUFFICES ASSUME NEW i \in 1..Len(s) + Len(t) PROVE (s \o t)[i] \in ToSet(s) \cup ToSet(t)
      BY <2>1 DEF ToSet
    <3> QED  BY <2>1, <2>2, <2>3, <2>4 DEF ToSet
  <2>6. ToSet(s) \cup ToSet(t) \subseteq ToSet(s \o t)
    BY <2>1, <2>2, <2>3 DEF ToSet
  <2> QED  BY <2>1, <2>5, <2>6
<1> QED  BY <1>1, <1>2, <1>3, <1>4, <1>5

\* The rows of a cycle, and that all of them are true.
Reporting == {RowOf(t, Stamp) : t \in ActiveTargets(cycle)}

LEMMA ReportingFacts ==
  ASSUME CycleInv, step = "report"
  PROVE  /\ Reporting \subseteq GoodRows /\ IsFiniteSet(Reporting) /\ Stamp \in {now, now + 1}
         /\ SetToSeq(Reporting) \in Seq(GoodRows) /\ ToSet(SetToSeq(Reporting)) = Reporting
<1>1. now \in Nat /\ cycle \in Nat /\ Scheduled
  BY DEF CycleInv, StepInv
<1>2. Stamp \in {now, now + 1} /\ Stamp \in Nat
  BY <1>1 DEF Stamp
<1>3. \A t \in ActiveTargets(cycle) : RowOf(t, Stamp) \in GoodRows
  BY <1>1, <1>2, RowTruth DEF CycleInv, Scheduled
<1>4. IsFiniteSet(Reporting)
  <2> DEFINE f == [t \in ActiveTargets(cycle) |-> RowOf(t, Stamp)]
  <2>1. Reporting = {f[t] : t \in ActiveTargets(cycle)}
    BY DEF Reporting
  <2> QED  BY <1>1, <2>1, TargetsFinite, FiniteImage DEF CycleInv
<1>5. Reporting \subseteq GoodRows
  BY <1>3 DEF Reporting
<1> HIDE DEF Reporting
<1>6. SetToSeq(Reporting) \in Seq(Reporting) /\ Matches(SetToSeq(Reporting), 1..Cardinality(Reporting), Reporting)
      /\ DOMAIN SetToSeq(Reporting) = 1..Cardinality(Reporting)
  BY <1>4, InSequence
<1>7. ToSet(SetToSeq(Reporting)) = Reporting
  BY <1>6 DEF ToSet, Matches
<1>8. SetToSeq(Reporting) \in Seq(GoodRows)
  <2> HIDE DEF GoodRows
  <2> QED  BY <1>5, <1>6
<1> QED  BY <1>2, <1>4, <1>5, <1>7, <1>8

LEMMA RowsStep == CycleInv /\ RowsInv /\ [Next]_vars => RowsInv'
<1> SUFFICES ASSUME CycleInv, RowsInv, [Next]_vars PROVE RowsInv'
  OBVIOUS
<1>1. GoodRows' = GoodRows
  <2>1. policy' = policy /\ phases' = phases
    BY DEF Next, SkipTick, SendProbes, FirstDrain, ConfirmDf, LastDrain, EndCycle, Die, Collect, BatchTimeout, Posted, PostFailed, vars
  <2> QED  BY <2>1, SameRotation DEF GoodRows, RowSet, Truthful
<1>2. <<>> \in Seq(GoodRows)
  OBVIOUS
<1>3. CASE SkipTick \/ SendProbes \/ FirstDrain \/ ConfirmDf \/ LastDrain \/ UNCHANGED vars
  BY <1>1, <1>3 DEF RowsInv, SkipTick, SendProbes, FirstDrain, ConfirmDf, LastDrain, vars, writerVars
<1>4. CASE EndCycle
  <2>1. step = "report" /\ SetToSeq(Reporting) \in Seq(GoodRows)
    BY <1>4, ReportingFacts DEF EndCycle
  <2>2. /\ queue' = queue \o SetToSeq(Reporting) \/ queue' = <<>>
        /\ batch' = batch \/ batch' = <<>>
        /\ db' = db
    BY <1>4 DEF EndCycle, Reporting
  <2>3. queue \o SetToSeq(Reporting) \in Seq(GoodRows)
    BY <2>1, SequenceSets DEF RowsInv
  <2>4. queue' \in Seq(GoodRows) /\ batch' \in Seq(GoodRows)
    BY <1>2, <2>2, <2>3 DEF RowsInv
  <2> QED  BY <1>1, <2>2, <2>4 DEF RowsInv
<1>5. CASE Die
  BY <1>1, <1>2, <1>5 DEF RowsInv, Die
<1>6. CASE Collect
  <2>1. queue # <<>> /\ batch' = Append(batch, Head(queue)) /\ queue' = Tail(queue) /\ db' = db
    BY <1>6 DEF Collect
  <2>2. Head(queue) \in GoodRows /\ Tail(queue) \in Seq(GoodRows)
    BY <2>1, SequenceSets DEF RowsInv
  <2>3. Append(batch, Head(queue)) \in Seq(GoodRows)
    BY <2>2, SequenceSets DEF RowsInv
  <2> QED  BY <1>1, <2>1, <2>2, <2>3 DEF RowsInv
<1>7. CASE BatchTimeout
  BY <1>1, <1>7 DEF RowsInv, BatchTimeout
<1>8. CASE Posted \/ PostFailed
  <2>1. /\ queue' = queue
        /\ batch' = batch \/ batch' = <<>>
        /\ db' = db \/ db' = db \cup ToSet(batch)
    BY <1>8 DEF Posted, PostFailed
  <2>2. IsFiniteSet(ToSet(batch)) /\ ToSet(batch) \subseteq GoodRows
    BY SequenceSets DEF RowsInv
  <2>3. IsFiniteSet(db')
    BY <2>1, <2>2, FS_Union DEF RowsInv
  <2>4. queue' \in Seq(GoodRows) /\ batch' \in Seq(GoodRows)
    BY <1>2, <2>1 DEF RowsInv
  <2> QED  BY <1>1, <2>1, <2>2, <2>3, <2>4 DEF RowsInv
<1> QED
  BY <1>3, <1>4, <1>5, <1>6, <1>7, <1>8 DEF Next

----------------------------------------------------------------------------
(* The ticks, and the rows of the cycle of each *)

LEMMA Divides ==
  ASSUME NEW d \in Nat \ {0}, NEW q \in Nat, NEW r \in 0..d - 1
  PROVE  d * q + r \in Nat /\ (d * q + r) % d = r /\ (d * q + r) \div d = q
  OBVIOUS

LEMMA Reaches ==
  ASSUME NEW n \in Nat \ {0}, NEW a \in Nat, NEW e \in 0..n - 1
  PROVE  \E i \in 0..n - 1 : (a + i) % n = e
<1> DEFINE r == a % n
           q == a \div n
<1>1. r \in 0..n - 1 /\ q \in Nat /\ a = n * q + r
  OBVIOUS
<1> HIDE DEF r, q
<1>2. CASE r <= e
  <2>1. a + (e - r) = n * q + e /\ e - r \in 0..n - 1
    BY <1>1, <1>2
  <2>2. n * q + e \in Nat /\ (n * q + e) % n = e /\ (n * q + e) \div n = q
    BY <1>1, Divides
  <2> QED  BY <2>1, <2>2
<1>3. CASE e < r
  <2>1. n * (q + 1) = n * q + n /\ n * q \in Nat
    BY <1>1
  <2>2. a + (e - r + n) = n * (q + 1) + e /\ e - r + n \in 0..n - 1 /\ q + 1 \in Nat
    BY <1>1, <1>3, <2>1
  <2>3. n * (q + 1) + e \in Nat /\ (n * (q + 1) + e) % n = e /\ (n * (q + 1) + e) \div n = q + 1
    BY <2>2, Divides
  <2> QED  BY <2>2, <2>3
<1> QED  BY <1>1, <1>2, <1>3

\* In as many cycles as the rotation has, wherever they begin, every target is probed from every batch.
LEMMA RotationCovers ==
  ASSUME RotationInv, NEW first \in Nat, NEW t \in TargetsOf, NEW b \in 0..PortBatches - 1
  PROVE  /\ Epoch \in Nat \ {0}
         /\ \E i \in 0..Epoch - 1 : t \in ActiveTargets(first + i) /\ PortBatch(first + i) = b
<1> DEFINE D == DestinationBatches
           P == PortBatches
           N == policy.targets
<1>1. /\ D \in Nat \ {0} /\ P \in Nat \ {0} /\ N \in Nat \ {0}
      /\ phases.target \in 0..N - 1 /\ phases.port \in 0..P - 1 /\ t \in 0..N - 1
  BY RotationFacts DEF TargetsOf
<1> HIDE DEF D, P, N
<1>2. PICK j \in 0..N - 1 : (phases.target + j) % N = t
  <2>1. phases.target \in Nat
    BY <1>1
  <2> QED  BY <1>1, <2>1, Reaches
<1>3. PICK q \in 0..P - 1 : (phases.port + q) % P = b
  <2>1. phases.port \in Nat /\ b \in 0..P - 1
    BY <1>1 DEF P
  <2> QED  BY <1>1, <2>1, Reaches
<1> DEFINE s == j % D
           e == D * q + s
<1>4. Epoch = D * P /\ Epoch \in Nat \ {0}
  BY <1>1 DEF Epoch, D, P
<1>5. s \in 0..D - 1 /\ q \in Nat /\ q <= P - 1
  BY <1>1
<1> HIDE DEF s
<1>6. e \in 0..Epoch - 1
  <2>1. D * q <= D * (P - 1) /\ D * (P - 1) = D * P - D
    BY <1>1, <1>5
  <2>2. D * q \in Nat /\ D * P \in Nat
    BY <1>1, <1>5
  <2> HIDE DEF e
  <2>3. e = D * q + s
    BY DEF e
  <2> QED  BY <1>1, <1>4, <1>5, <2>1, <2>2, <2>3
<1>7. e % D = s /\ e \div D = q
  <2>1. D * q + s \in Nat /\ (D * q + s) % D = s /\ (D * q + s) \div D = q
    BY <1>1, <1>5, Divides
  <2> QED  BY <2>1
<1> HIDE DEF e
<1>8. PICK i \in 0..Epoch - 1 : (first + i) % Epoch = e
  BY <1>4, <1>6, Reaches
<1>9. PortBatch(first + i) = b
  <2>1. PortBatch(first + i) = (e \div D + phases.port) % P
    BY <1>8 DEF PortBatch, D, P
  <2>2. q + phases.port = phases.port + q
    BY <1>1, <1>5
  <2> QED  BY <1>3, <1>7, <2>1, <2>2
<1>10. t \in ActiveTargets(first + i)
  <2>1. DestinationBatch(first + i) = j % D
    BY <1>7, <1>8 DEF DestinationBatch, D, s
  <2>2. j \in TargetsOf /\ t = (phases.target + j) % policy.targets
    BY <1>2 DEF N, TargetsOf
  <2> QED  BY <2>1, <2>2 DEF ActiveTargets, D
<1> QED  BY <1>4, <1>9, <1>10

\* The cycle that began at a tick that was not skipped.
CycleAt(x) == Cardinality((0..x - 1) \ skips)

LEMMA CycleCounts ==
  ASSUME NEW x \in Nat
  PROVE  /\ CycleAt(0) = 0 /\ CycleAt(x) \in Nat
         /\ x \in skips => CycleAt(x + 1) = CycleAt(x)
         /\ x \notin skips => CycleAt(x + 1) = CycleAt(x) + 1
<1> DEFINE S == (0..x - 1) \ skips
<1>1. IsFiniteSet(S) /\ CycleAt(x) = Cardinality(S) /\ x \notin S
  <2>1. 0 \in Int /\ x - 1 \in Int
    OBVIOUS
  <2>2. IsFiniteSet(0..x - 1)
    BY <2>1, FS_Interval
  <2>3. S \in SUBSET (0..x - 1)
    OBVIOUS
  <2>4. x \notin 0..x - 1
    OBVIOUS
  <2>5. IsFiniteSet(S)
    <3> HIDE DEF S
    <3> QED  BY <2>2, <2>3, FS_Subset
  <2> QED  BY <2>4, <2>5 DEF CycleAt
<1>2. 0..(x + 1) - 1 = (0..x - 1) \cup {x}
  OBVIOUS
<1>3. x \in skips => CycleAt(x + 1) = CycleAt(x)
  <2>1. x \in skips => (0..(x + 1) - 1) \ skips = S
    BY <1>2
  <2> QED  BY <1>1, <2>1 DEF CycleAt
<1>4. x \notin skips => CycleAt(x + 1) = CycleAt(x) + 1
  <2>1. x \notin skips => (0..(x + 1) - 1) \ skips = S \cup {x}
    BY <1>2
  <2> HIDE DEF S
  <2> QED  BY <1>1, <2>1, FS_AddElement DEF CycleAt
<1>5. CycleAt(0) = 0
  <2>1. (0..0 - 1) \ skips = {}
    OBVIOUS
  <2> QED  BY <2>1, FS_EmptySet DEF CycleAt
<1> HIDE DEF S
<1> QED  BY <1>1, <1>3, <1>4, <1>5, FS_CardinalityType

\* The rows of a cycle, on their way or stored, are stamped with its tick or the next.
Shown(c, x) ==
  \A t \in ActiveTargets(c) : \E r \in Rows : r.target = t /\ r.batch = PortBatch(c) /\ r.at \in {x, x + 1}

TickInv ==
  /\ skips \subseteq Nat /\ (\A s \in skips : s < now) /\ cycle = CycleAt(now)
  /\ step # "dead" => \A x \in (0..now - 1) \ skips : \A c \in Nat : c = CycleAt(x) => Shown(c, x)

LEMMA ShownLasts ==
  ASSUME policy' = policy, phases' = phases, Rows \subseteq Rows'
  PROVE  \A c, x : Shown(c, x) => Shown(c, x)'
  BY SameRotation DEF Shown

LEMMA TicksKept ==
  ASSUME TickInv, UNCHANGED <<policy, phases, now, cycle, skips>>,
         step' # "dead" => step # "dead" /\ Rows \subseteq Rows'
  PROVE  TickInv'
<1>1. \A x : CycleAt(x)' = CycleAt(x)
  BY DEF CycleAt
<1>2. CycleAt(now)' = CycleAt(now)
  BY DEF CycleAt
<1>3. step' # "dead" => \A c, x : Shown(c, x) => Shown(c, x)'
  BY ShownLasts
<1> QED  BY <1>1, <1>2, <1>3 DEF TickInv

LEMMA RowsMove ==
  ASSUME RowsInv, Collect \/ Posted \/ PostFailed
  PROVE  Rows \subseteq Rows'
<1>1. CASE Collect
  <2>1. queue # <<>> /\ batch' = Append(batch, Head(queue)) /\ queue' = Tail(queue) /\ db' = db
    BY <1>1 DEF Collect
  <2>2. Head(queue) \in GoodRows /\ ToSet(queue) = {Head(queue)} \cup ToSet(Tail(queue))
    BY <2>1, SequenceSets DEF RowsInv
  <2>3. ToSet(Append(batch, Head(queue))) = ToSet(batch) \cup {Head(queue)}
    BY <2>2, SequenceSets DEF RowsInv
  <2>4. Rows' = ToSet(queue') \cup ToSet(batch') \cup db'
    BY DEF Rows, ToSet
  <2> QED  BY <2>1, <2>2, <2>3, <2>4 DEF Rows
<1>2. CASE Posted
  <2>1. queue' = queue /\ db' = db \cup ToSet(batch)
    BY <1>2 DEF Posted
  <2>2. Rows' = ToSet(queue') \cup ToSet(batch') \cup db'
    BY DEF Rows, ToSet
  <2> QED  BY <2>1, <2>2 DEF Rows
<1>3. CASE PostFailed
  <2>1. queue' = queue /\ batch' = batch /\ db \subseteq db'
    BY <1>3 DEF PostFailed
  <2>2. Rows' = ToSet(queue') \cup ToSet(batch') \cup db'
    BY DEF Rows, ToSet
  <2> QED  BY <2>1, <2>2 DEF Rows
<1> QED  BY <1>1, <1>2, <1>3

LEMMA TickSkipped == CycleInv /\ TickInv /\ SkipTick => TickInv'
<1> SUFFICES ASSUME CycleInv, TickInv, SkipTick PROVE TickInv'
  OBVIOUS
<1>1. /\ now \in Nat /\ now' = now + 1 /\ skips' = skips \cup {now} /\ cycle' = cycle /\ step' = step
      /\ policy' = policy /\ phases' = phases /\ queue' = queue /\ batch' = batch /\ db' = db /\ step # "dead"
  BY DEF SkipTick, writerVars, CycleInv, StepInv
<1>2. \A x \in 0..now : CycleAt(x)' = CycleAt(x)
  <2>1. \A x \in 0..now : (0..x - 1) \ skips' = (0..x - 1) \ skips
    BY <1>1
  <2> QED  BY <2>1 DEF CycleAt
<1>3. CycleAt(now)' = CycleAt(now)
  <2>1. (0..(now + 1) - 1) \ (skips \cup {now}) = (0..now - 1) \ skips
    BY <1>1
  <2> QED  BY <1>1, <2>1 DEF CycleAt
<1>4. \A c, x : Shown(c, x) => Shown(c, x)'
  BY <1>1, ShownLasts DEF Rows, ToSet
<1>5. skips' \subseteq Nat /\ (\A s \in skips' : s < now') /\ cycle' = CycleAt(now)'
  BY <1>1, <1>3 DEF TickInv
<1>6. \A x \in (0..now' - 1) \ skips' : x \in (0..now - 1) \ skips /\ x \in 0..now
  BY <1>1
<1>7. \A x \in (0..now' - 1) \ skips' : \A c \in Nat : c = CycleAt(x)' => Shown(c, x)'
  BY <1>1, <1>2, <1>4, <1>6 DEF TickInv
<1> QED  BY <1>5, <1>7 DEF TickInv

LEMMA TickReported == CycleInv /\ RowsInv /\ TickInv /\ EndCycle => TickInv'
<1> SUFFICES ASSUME CycleInv, RowsInv, TickInv, EndCycle PROVE TickInv'
  OBVIOUS
<1>1. CASE step' = "dead"
  <2>1. cycle' = cycle /\ now' = now /\ skips' = skips
    BY <1>1 DEF EndCycle
  <2>2. CycleAt(now)' = CycleAt(now)
    BY <2>1 DEF CycleAt
  <2> QED  BY <1>1, <2>1, <2>2 DEF TickInv
<1>2. CASE step' # "dead"
  <2>1. /\ now' = now + 1 /\ cycle' = cycle + 1 /\ skips' = skips /\ policy' = policy /\ phases' = phases
        /\ queue' = queue \o SetToSeq(Reporting) /\ batch' = batch /\ db' = db
        /\ step = "report" /\ now \in Nat /\ cycle \in Nat
    BY <1>2 DEF EndCycle, Reporting, CycleInv, StepInv
  <2>2. /\ SetToSeq(Reporting) \in Seq(GoodRows) /\ ToSet(SetToSeq(Reporting)) = Reporting
        /\ Stamp \in {now, now + 1}
    BY <2>1, ReportingFacts
  <2>3. Rows' = Rows \cup Reporting
    <3>1. ToSet(queue \o SetToSeq(Reporting)) = ToSet(queue) \cup Reporting
      BY <2>2, SequenceSets DEF RowsInv
    <3>2. Rows' = ToSet(queue') \cup ToSet(batch') \cup db'
      BY DEF Rows, ToSet
    <3> QED  BY <2>1, <3>1, <3>2 DEF Rows
  <2>4. ASSUME NEW c, c = cycle, NEW x, x = now PROVE Shown(c, x)'
    <3>1. \A t \in ActiveTargets(c) : \E r \in Rows' : r.target = t /\ r.batch = PortBatch(c) /\ r.at \in {x, x + 1}
      <4>1. \A t : RowOf(t, Stamp).target = t /\ RowOf(t, Stamp).batch = PortBatch(cycle) /\ RowOf(t, Stamp).at = Stamp
        BY DEF RowOf
      <4> QED  BY <2>2, <2>3, <2>4, <4>1 DEF Reporting
    <3> QED  BY <2>1, <3>1, SameRotation DEF Shown
  <2>5. \A c, x : Shown(c, x) => Shown(c, x)'
    BY <2>1, <2>3, ShownLasts
  <2>6. \A x : CycleAt(x)' = CycleAt(x)
    BY <2>1 DEF CycleAt
  <2>7. now \notin skips /\ CycleAt(now) = cycle /\ CycleAt(now + 1) = cycle + 1
    BY <2>1, CycleCounts DEF TickInv
  <2>8. CycleAt(now)' = cycle'
    <3>1. CycleAt(now)' = CycleAt(now + 1)
      BY <2>1 DEF CycleAt
    <3> QED  BY <2>1, <2>7, <3>1
  <2>9. \A x \in (0..now' - 1) \ skips' : x = now \/ x \in (0..now - 1) \ skips
    BY <2>1
  <2>10. \A x \in (0..now' - 1) \ skips' : \A c \in Nat : c = CycleAt(x)' => Shown(c, x)'
    <3> SUFFICES ASSUME NEW x \in (0..now' - 1) \ skips', NEW c \in Nat, c = CycleAt(x) PROVE Shown(c, x)'
      BY <2>6
    <3>1. CASE x = now
      BY <2>4, <2>7, <3>1
    <3>2. CASE x \in (0..now - 1) \ skips
      <4>1. Shown(c, x)
        BY <2>1, <3>2 DEF TickInv
      <4> QED  BY <2>5, <4>1
    <3> QED  BY <2>9, <3>1, <3>2
  <2>11. skips' \subseteq Nat /\ \A s \in skips' : s < now'
    BY <2>1 DEF TickInv
  <2> QED  BY <2>8, <2>10, <2>11 DEF TickInv
<1> QED  BY <1>1, <1>2

LEMMA TickStep == CycleInv /\ RowsInv /\ TickInv /\ [Next]_vars => TickInv'
<1> SUFFICES ASSUME CycleInv, RowsInv, TickInv, [Next]_vars PROVE TickInv'
  OBVIOUS
<1>1. CASE SkipTick
  BY <1>1, TickSkipped
<1>2. CASE EndCycle
  BY <1>2, TickReported
<1>3. CASE SendProbes \/ FirstDrain \/ ConfirmDf \/ LastDrain \/ BatchTimeout \/ UNCHANGED vars
  <2>1. UNCHANGED <<policy, phases, now, cycle, skips>> /\ (step' # "dead" => step # "dead") /\ UNCHANGED <<queue, batch, db>>
    BY <1>3 DEF SendProbes, FirstDrain, ConfirmDf, LastDrain, BatchTimeout, writerVars, loopVars, vars
  <2>2. Rows' = Rows
    BY <2>1 DEF Rows, ToSet
  <2> QED  BY <2>1, <2>2, TicksKept
<1>4. CASE Die
  BY <1>4, TicksKept DEF Die
<1>5. CASE Collect \/ Posted \/ PostFailed
  <2>1. UNCHANGED <<policy, phases, now, cycle, skips>> /\ step' = step
    BY <1>5 DEF Collect, Posted, PostFailed, loopVars
  <2> QED  BY <1>5, <2>1, RowsMove, TicksKept
<1> QED
  BY <1>1, <1>2, <1>3, <1>4, <1>5 DEF Next

\* A window as long as the rotation and the grace holds the rows of every target and batch.
LEMMA WindowCovers ==
  ASSUME CycleInv, RowsInv, TickInv, step = "wait", queue = <<>>, batch = <<>>,
         NEW f \in Nat, f + CompleteWindow <= now, skips \cap (f..f + CompleteWindow) = {},
         NEW t \in TargetsOf, NEW b \in 0..PortBatches - 1
  PROVE  On(Window(f, f + CompleteWindow), t, b) # {}
<1>1. Rows = db /\ now \in Nat
  BY DEF Rows, ToSet, CycleInv, StepInv
<1>2. Epoch \in Nat \ {0} /\ CompleteWindow = Epoch + 2
  BY RotationCovers DEF CompleteWindow, CycleInv
<1> DEFINE m == Epoch - 1
           first == CycleAt(f)
           T == {n \in 0..m : CycleAt(f + n) = first + n}
<1>3. m \in Nat /\ first \in Nat
  BY <1>2, CycleCounts
<1>4. \A n \in 0..m : f + n \in Nat /\ f + n \notin skips /\ f + n < now
  <2> HIDE DEF m
  <2>1. \A n \in 0..m : f + n \in f..f + CompleteWindow /\ f + n < f + CompleteWindow
    BY <1>2, <1>3 DEF m
  <2> QED  BY <1>1, <1>2, <2>1
<1>5. 0 \in T
  BY <1>3
<1>6. ASSUME NEW n \in 0..m, n \in T, n < m PROVE n + 1 \in T
  <2>1. CycleAt((f + n) + 1) = CycleAt(f + n) + 1
    BY <1>4, CycleCounts
  <2>2. (f + n) + 1 = f + (n + 1) /\ n + 1 \in 0..m
    BY <1>3, <1>6
  <2> HIDE DEF m, first
  <2> QED  BY <1>3, <1>6, <2>1, <2>2
<1>7. 0..m \subseteq T
  <2> HIDE DEF T, m
  <2> QED  BY <1>3, <1>5, <1>6, UpTo
<1>8. PICK i \in 0..m : t \in ActiveTargets(first + i) /\ PortBatch(first + i) = b
  <2> HIDE DEF first
  <2> QED  BY <1>3, RotationCovers DEF CycleInv, m
<1> DEFINE x == f + i
           c == first + i
<1>9. c = CycleAt(x) /\ c \in Nat /\ x \in (0..now - 1) \ skips
  <2> HIDE DEF m, first
  <2> QED  BY <1>1, <1>3, <1>4, <1>7
<1>10. PICK r \in db : r.target = t /\ r.batch = b /\ r.at \in {x, x + 1}
  <2>1. Shown(c, x)
    <3> HIDE DEF c, x
    <3> QED  BY <1>9 DEF TickInv
  <2> QED  BY <1>1, <1>8, <2>1 DEF Shown
<1>11. f <= r.at /\ r.at < f + CompleteWindow
  <2>1. i \in Nat /\ i <= Epoch - 1
    BY <1>2
  <2> QED  BY <1>2, <1>10, <2>1
<1> QED  BY <1>10, <1>11 DEF On, Window

LEMMA WindowsComplete == CycleInv /\ RowsInv /\ TickInv => WindowIsComplete
<1> SUFFICES ASSUME CycleInv, RowsInv, TickInv, step = "wait", queue = <<>>, batch = <<>>, NEW f \in Begins,
                    f + CompleteWindow <= now, skips \cap (f..f + CompleteWindow) = {},
                    \A r \in Window(f, f + CompleteWindow) : r.errors = 0
             PROVE  Complete(Window(f, f + CompleteWindow))
  BY DEF WindowIsComplete
<1>1. f \in Nat
  BY SizesAssumption DEF Begins
<1> QED  BY <1>1, WindowCovers DEF Complete

----------------------------------------------------------------------------
(* The inductive invariant *)

PingInv == CycleInv /\ RowsInv /\ TickInv

\* The books of a cycle agree with its probes, every row under way or stored is true, and the rows of
\* every cycle stand at its tick (run_probe_cycle, build_result, metrics_writer).
THEOREM PingInvHolds == Spec => []PingInv
<1>1. Init => PingInv
  <2> SUFFICES ASSUME Init PROVE PingInv
    OBVIOUS
  <2>1. CycleInv
    BY CycleInit
  <2>2. RowsInv
    BY FS_EmptySet DEF Init, RowsInv
  <2>3. TickInv
    <3>1. CycleAt(0) = 0
      BY CycleCounts
    <3> QED  BY <3>1 DEF Init, TickInv
  <2> QED  BY <2>1, <2>2, <2>3 DEF PingInv
<1>2. PingInv /\ [Next]_vars => PingInv'
  BY CycleStep, RowsStep, TickStep DEF PingInv
<1> QED  BY <1>1, <1>2, PTL DEF Spec

LEMMA PingInvMeans ==
  ASSUME PingInv
  PROVE  policy \in Policies /\ TruthfulRows(db) /\ \A r \in Rows : Truthful(r)
<1>1. \A r \in GoodRows : Truthful(r)
  BY DEF GoodRows
<1>2. ToSet(queue) \subseteq GoodRows /\ ToSet(batch) \subseteq GoodRows
  BY SequenceSets DEF PingInv, RowsInv
<1> QED  BY <1>1, <1>2 DEF PingInv, CycleInv, RotationInv, RowsInv, TruthfulRows, Rows

\* Every row that leaves the agent counts as lost exactly the probes of its own cycle that were sent and
\* had no reply (drain_replies, build_result).
THEOREM LossesAreReal == Spec => []LossIsReal
<1>1. PingInv => LossIsReal
  BY PingInvMeans DEF LossIsReal, Truthful
<1> QED  BY <1>1, PingInvHolds, PTL

\* A path is suspected to drop large packets only if more than Confirm of them went unanswered on one
\* batch of ports on which every small one was answered (analyze_snapshot_rows).
THEOREM SuspicionsAreConfirmed == Spec => []SuspicionConfirmed
<1>1. PingInv => SuspicionConfirmed
  BY PingInvMeans, TruthfulMeansConfirmed
<1> QED  BY <1>1, PingInvHolds, PTL

\* A window counts as complete when every client was probed from every port, and only then
\* (summarize_coverage, complete_window_seconds).
THEOREM CoverageIsTrue == Spec => []CoverageMeansProbes
<1>1. PingInv => CoverageMeansProbes
  BY PingInvMeans, TruthfulMeansProbed, WindowsComplete DEF CoverageMeansProbes, PingInv
<1> QED  BY <1>1, PingInvHolds, PTL

\* A baseline that passes the gate hides of a fault of a later window only what the baseline had itself, and
\* nothing of how long it lasts (baseline_gate_errors, analyze_snapshot_rows).
THEOREM BaselinesHideOnlyTheirOwn == Spec => []BaselineHidesOnlyItsOwn
<1>1. PingInv => BaselineHidesOnlyItsOwn
  BY PingInvMeans, TruthfulMeansReported, TruthfulMeansPersistent DEF BaselineHidesOnlyItsOwn
<1> QED  BY <1>1, PingInvHolds, PTL

----------------------------------------------------------------------------
(* The BGP collector and its spool *)

MarkerLine == [spool_segment : Segment]

\* The batches that were written, and the polls whose batches may still be.
Written == Batches(Spooled \cup stored)
Pending == polling \cup done

\* While a round is collected, its polls have times of their own, and later ones will have later times.
PendingInv ==
  /\ phase \notin {"collect", "refused"} => Pending = {}
  /\ phase = "collect" =>
       /\ \A l \in Written : l.at <= time
       /\ \A p \in Pending : p.at <= time /\ \A l \in Written : l.at # p.at
       /\ \A p, q \in Pending : p.at = q.at => p = q

TimesBounded == \E t \in Nat : \A l \in Written : l.at <= t

\* Behind a marker there are only markers.
MarkersLast(file) == \A i, j \in DOMAIN file : i < j /\ file[i] \in MarkerLine => file[j] \in MarkerLine

\* A marker that a death left in the active segment is the one that this segment will be sealed with, before
\* another batch is written.
ActiveInv ==
  /\ MarkersLast(active)
  /\ \A m \in Lines(active) \cap MarkerLine :
       /\ m.spool_segment.no = 0 /\ Rotates
       /\ \E b \in Batches(Lines(active)) : b.at = m.spool_segment.at
       /\ \A b \in Batches(Lines(active)) : b.at <= m.spool_segment.at

\* A sealed segment bears the time of one of its batches and no other marker than its own; what it shares
\* no time with is the active segment.
SealedInv ==
  \A s \in DOMAIN sealed :
    /\ MarkersLast(sealed[s])
    /\ \A m \in Lines(sealed[s]) \cap MarkerLine : m = Marker(s)
    /\ \E b \in Batches(Lines(sealed[s])) : b.at = s.at
    /\ \A b \in Batches(Lines(active)) : b.at # s.at
    /\ Marker(s) \in stored => Lines(sealed[s]) \subseteq stored

\* The time of a stored marker stays taken; a stored marker of the active segment has that segment stored.
StoredInv ==
  \A m \in stored \cap MarkerLine :
    /\ \E b \in Written : b.at = m.spool_segment.at
    /\ \A b \in Batches(Lines(active)) : b.at = m.spool_segment.at =>
         m \in Lines(active) /\ Lines(active) \subseteq stored

BgpInv == BgpTypeOK /\ PendingInv /\ TimesBounded /\ ActiveInv /\ SealedInv /\ StoredInv

\* A set of numbers with a bound has a maximum.
LEMMA MaxOf ==
  ASSUME NEW s \in SUBSET Nat, s # {}, NEW m \in Nat, \A x \in s : x <= m
  PROVE  Max(s) \in s /\ \A x \in s : x <= Max(s)
<1> DEFINE reached == {n \in Nat : \E x \in s : x >= n}
<1>1. SUFFICES ASSUME \A x \in s : \E y \in s : ~(y <= x) PROVE FALSE
  <2>1. PICK x \in s : \A y \in s : x >= y
    BY <1>1
  <2> QED  BY <2>1 DEF Max
<1>2. 0 \in reached
  <2>1. PICK x \in s : TRUE
    BY s # {}
  <2> QED  BY <2>1
<1>3. ASSUME NEW n \in 0..m, n \in reached, n < m PROVE n + 1 \in reached
  <2>1. PICK x \in s : x >= n
    BY <1>3
  <2>2. PICK y \in s : ~(y <= x)
    BY <1>1
  <2> QED  BY <2>1, <2>2
<1>4. 0..m \subseteq reached
  <2> HIDE DEF reached
  <2> QED  BY <1>2, <1>3, UpTo
<1>5. m \in 0..m
  OBVIOUS
<1>6. PICK x \in s : x >= m
  BY <1>4, <1>5
<1>7. PICK y \in s : ~(y <= x)
  BY <1>1
<1> QED
  BY <1>6, <1>7

LEMMA BatchesAre == \A lines \in SUBSET Line : Batches(lines) = lines \cap Batch /\ lines \ Batches(lines) = lines \cap MarkerLine
<1>1. \A l \in Batch : "dev" \in DOMAIN l
  BY DEF Batch
<1>2. \A l \in MarkerLine : "dev" \notin DOMAIN l
  BY DEF MarkerLine
<1> QED
  BY <1>1, <1>2 DEF Batches, Line, MarkerLine

LEMMA Appended ==
  ASSUME NEW s, NEW file \in Seq(s), NEW l \in s
  PROVE  /\ Append(file, l) \in Seq(s) /\ Lines(Append(file, l)) = Lines(file) \cup {l}
         /\ Len(Append(file, l)) = Len(file) + 1
         /\ DOMAIN Append(file, l) = 1..Len(file) + 1 /\ DOMAIN file = 1..Len(file) /\ Len(file) \in Nat
         /\ \A i \in DOMAIN file : Append(file, l)[i] = file[i]
         /\ Append(file, l)[Len(file) + 1] = l
  BY DEF Lines

LEMMA LinesIn == \A s : \A file \in Seq(s) : Lines(file) \subseteq s /\ (file # <<>> => Lines(file) # {})
  BY DEF Lines

LEMMA SpoolLines == BgpTypeOK => Spooled \cup stored \in SUBSET Line /\ Lines(active) \in SUBSET Line /\ \A s \in DOMAIN sealed : Lines(sealed[s]) \in SUBSET Line
  BY LinesIn DEF BgpTypeOK, Spooled

LEMMA WrittenAre == BgpTypeOK => Written = (Spooled \cup stored) \cap Batch /\ \A l \in Written : l.at \in Nat
  BY SpoolLines, BatchesAre DEF Written, Batch

\* The next round is later than all that was written.
LEMMA LastTimeIs == BgpTypeOK /\ TimesBounded => LastTime \in Nat /\ \A l \in Written : l.at <= LastTime
<1> DEFINE times == {0} \cup {b.at : b \in Written}
<1> SUFFICES ASSUME BgpTypeOK, TimesBounded PROVE LastTime \in Nat /\ \A l \in Written : l.at <= LastTime
  OBVIOUS
<1>1. times \in SUBSET Nat /\ times # {}
  BY WrittenAre
<1>2. PICK t \in Nat : \A l \in Written : l.at <= t
  BY DEF TimesBounded
<1>3. \A x \in times : x <= t
  BY <1>2
<1>4. Max(times) \in times /\ \A x \in times : x <= Max(times)
  <2> HIDE DEF times
  <2> QED  BY <1>1, <1>3, MaxOf
<1>5. LastTime = Max(times)
  BY DEF LastTime, Written
<1> QED
  BY <1>1, <1>4, <1>5

\* The active segment will be sealed under the time of its last batch, which no segment bears yet.
LEMMA NextSegmentIs ==
  ASSUME BgpTypeOK, TimesBounded, ActiveInv, SealedInv, active # <<>>
  PROVE  /\ NextSegment \in Segment \ DOMAIN sealed
         /\ NextSegment.no = 0
         /\ \E b \in Lines(active) \cap Batch : b.at = NextSegment.at
         /\ \A b \in Lines(active) \cap Batch : b.at <= NextSegment.at
         /\ \A m \in Lines(active) \cap MarkerLine : m = Marker(NextSegment)
<1> DEFINE batches == Lines(active) \cap Batch
           markers == Lines(active) \cap MarkerLine
           times == {b.at : b \in batches} \cup {m.spool_segment.at : m \in markers}
           last == Max(times)
           id == [at |-> last, no |-> 0]
<1>1. Batches(Lines(active)) = batches /\ Lines(active) \ batches = markers
  BY SpoolLines, BatchesAre
<1>2. \A b \in batches : b.at \in Nat
  BY DEF Batch
<1>3. \A m \in markers : m.spool_segment \in Segment /\ m.spool_segment.at \in Nat /\ m.spool_segment.no = 0
  BY <1>1 DEF MarkerLine, Segment, ActiveInv
<1>4. \A m \in markers : (\E b \in batches : b.at = m.spool_segment.at) /\ \A b \in batches : b.at <= m.spool_segment.at
  BY <1>1 DEF ActiveInv
<1>5. batches # {}
  <2>1. Lines(active) # {}
    BY LinesIn DEF BgpTypeOK
  <2> QED  BY <1>1, <1>4, <2>1
<1>6. PICK t \in Nat : \A b \in batches : b.at <= t
  <2>1. batches \subseteq Written
    BY WrittenAre DEF Spooled
  <2> QED  BY <2>1 DEF TimesBounded
<1>7. times \in SUBSET Nat /\ times # {} /\ \A x \in times : x <= t
  BY <1>2, <1>3, <1>4, <1>5, <1>6
<1>8. last \in times /\ \A x \in times : x <= last
  <2> HIDE DEF times
  <2> QED  BY <1>7, MaxOf
<1>9. PICK b \in batches : b.at = last
  BY <1>4, <1>8
<1>10. \A c \in batches : c.at <= last
  BY <1>8
<1>11. id \notin DOMAIN sealed
  BY <1>1, <1>9 DEF SealedInv
<1>12. NextSegment = id
  <2> DEFINE numbers == {n \in 0..Cardinality(DOMAIN sealed) : [at |-> last, no |-> n] \notin DOMAIN sealed}
  <2>1. Times(active) = times
    BY <1>1 DEF Times
  <2>2. 0 \in numbers /\ \A n \in numbers : n \in Nat /\ 0 <= n
    <3>1. Cardinality(DOMAIN sealed) \in Nat
      BY FS_CardinalityType DEF BgpTypeOK
    <3> QED  BY <3>1, <1>11
  <2>3. Min(numbers) = 0
    <3> HIDE DEF numbers
    <3>1. \A n \in numbers : (\A k \in numbers : n <= k) => n = 0
      BY <2>2
    <3> QED  BY <2>2, <3>1 DEF Min
  <2> QED  BY <2>1, <2>3 DEF NextSegment
<1>13. \A m \in markers : m = Marker(id)
  <2> SUFFICES ASSUME NEW m \in markers PROVE m = Marker(id)
    OBVIOUS
  <2>1. m.spool_segment.at = last
    <3>1. PICK c \in batches : c.at = m.spool_segment.at
      BY <1>4
    <3>2. b.at <= m.spool_segment.at
      BY <1>4, <1>9
    <3> QED  BY <1>2, <1>3, <1>9, <1>10, <3>1, <3>2
  <2>2. m.spool_segment = id
    BY <1>3, <2>1 DEF Segment
  <2> QED  BY <2>2 DEF Marker, MarkerLine
<1>14. id \in Segment
  BY <1>7, <1>8 DEF Segment
<1> HIDE DEF last
<1> QED
  BY <1>9, <1>10, <1>11, <1>12, <1>13, <1>14

----------------------------------------------------------------------------
(* The steps that leave the spool and what is stored alone *)

LEMMA SpoolKept ==
  ASSUME TimesBounded, ActiveInv, SealedInv, StoredInv, UNCHANGED <<spoolVars, stored>>
  PROVE  TimesBounded' /\ ActiveInv' /\ SealedInv' /\ StoredInv' /\ Written' = Written /\ Spooled' = Spooled
<1>1. active' = active /\ sealed' = sealed /\ stored' = stored
  BY DEF spoolVars
<1>2. Spooled' = Spooled /\ Written' = Written
  BY <1>1 DEF Spooled, Written
<1> QED
  BY <1>1, <1>2 DEF TimesBounded, ActiveInv, SealedInv, StoredInv, Rotates

LEMMA RoundBegins == BgpInv /\ BeginRound => BgpInv'
<1> SUFFICES ASSUME BgpInv, BeginRound PROVE BgpInv'
  OBVIOUS
<1>1. TimesBounded' /\ ActiveInv' /\ SealedInv' /\ StoredInv' /\ Written' = Written
  BY SpoolKept DEF BgpInv, BeginRound
<1>2. LastTime \in Nat /\ \A l \in Written : l.at <= LastTime
  BY LastTimeIs DEF BgpInv
<1>3. BgpTypeOK'
  <2>1. full' \in BOOLEAN
    BY DEF BeginRound
  <2> QED  BY <1>2, <2>1 DEF BgpInv, BgpTypeOK, BeginRound, spoolVars
<1>4. PendingInv'
  <2>1. Pending' = {} /\ phase' = "collect" /\ time' = LastTime
    BY DEF BgpInv, PendingInv, Pending, BeginRound
  <2> QED  BY <1>1, <1>2, <2>1 DEF PendingInv
<1> QED
  BY <1>1, <1>3, <1>4 DEF BgpInv

LEMMA PollLaunched == ASSUME NEW d \in Devices PROVE BgpInv /\ Launch(d) => BgpInv'
<1> SUFFICES ASSUME BgpInv, Launch(d) PROVE BgpInv'
  OBVIOUS
<1> DEFINE p == [dev |-> d, at |-> time + 1]
<1>1. TimesBounded' /\ ActiveInv' /\ SealedInv' /\ StoredInv' /\ Written' = Written
  BY SpoolKept DEF BgpInv, Launch
<1>2. BgpTypeOK'
  BY DEF BgpInv, BgpTypeOK, Launch, spoolVars
<1>3. PendingInv'
  <2>1. Pending' = Pending \cup {p} /\ phase = "collect" /\ phase' = "collect" /\ time' = time + 1 /\ time \in Nat
    BY DEF Pending, Launch, BgpInv, BgpTypeOK
  <2>2. (\A l \in Written : l.at \in Nat /\ l.at <= time) /\ \A q \in Pending : q.at \in Nat /\ q.at <= time
    BY <2>1, WrittenAre DEF BgpInv, PendingInv, Pending, BgpTypeOK, Batch
  <2>3. \A q \in Pending' : q.at <= time' /\ \A l \in Written : l.at # q.at
    BY <2>1, <2>2 DEF BgpInv, PendingInv
  <2>4. \A q, r \in Pending' : q.at = r.at => q = r
    BY <2>1, <2>2 DEF BgpInv, PendingInv
  <2>5. \A l \in Written : l.at <= time'
    BY <2>1, <2>2
  <2> QED  BY <1>1, <2>1, <2>3, <2>4, <2>5 DEF PendingInv
<1> QED
  BY <1>1, <1>2, <1>3 DEF BgpInv

LEMMA PollFinished == ASSUME NEW p \in polling PROVE BgpInv /\ Finish(p) => BgpInv'
<1> SUFFICES ASSUME BgpInv, Finish(p) PROVE BgpInv'
  OBVIOUS
<1>1. TimesBounded' /\ ActiveInv' /\ SealedInv' /\ StoredInv' /\ Written' = Written
  BY SpoolKept DEF BgpInv, Finish
<1>2. p.dev \in Devices /\ p.at \in Nat
  BY DEF BgpInv, BgpTypeOK
<1>3. PICK s \in States \cup {"none"} :
        done' = done \cup {BatchOf(p, s)} /\ tracker' = [tracker EXCEPT ![p.dev] = Tracked(p.dev, s)]
  BY DEF Finish
<1>4. tracker \in [Devices -> States \cup {"none"}] /\ tracker[p.dev] \in States \cup {"none"}
  BY <1>2 DEF BgpInv, BgpTypeOK
<1>5. BatchOf(p, s) \in Batch
  <2>1. Row(s) \in {"up", "down", "none"}
    BY DEF Row
  <2>2. Event(p.dev, s) \in {<<>>} \cup (States \X States)
    BY <1>3, <1>4 DEF Event
  <2> QED  BY <1>2, <1>3, <2>1, <2>2 DEF BatchOf, Batch
<1>6. Tracked(p.dev, s) \in States \cup {"none"}
  BY <1>3, <1>4 DEF Tracked
<1>7. BgpTypeOK'
  BY <1>3, <1>4, <1>5, <1>6 DEF BgpInv, BgpTypeOK, Finish, spoolVars
<1>8. PendingInv'
  <2>1. Pending' \subseteq (Pending \ {p}) \cup {BatchOf(p, s)} \cup (done \cap {p}) /\ p \in Pending
    BY <1>3 DEF Pending, Finish
  <2>2. BatchOf(p, s).at = p.at
    BY DEF BatchOf
  <2>3. p \notin done
    <3>1. \A b \in Batch : "ok" \in DOMAIN b
      BY DEF Batch
    <3>2. "ok" \notin DOMAIN p
      BY DEF BgpInv, BgpTypeOK
    <3> QED  BY <3>1, <3>2 DEF BgpInv, BgpTypeOK
  <2>4. phase' = phase /\ time' = time /\ phase \in {"collect", "refused"}
    BY <2>1 DEF Finish, BgpInv, PendingInv
  <2>5. ASSUME phase = "collect"
        PROVE  (\A q \in Pending' : q.at <= time /\ \A l \in Written : l.at # q.at) /\ \A q, r \in Pending' : q.at = r.at => q = r
    <3>1. \A q \in Pending : q.at <= time /\ \A l \in Written : l.at # q.at
      BY <2>5 DEF BgpInv, PendingInv
    <3>2. \A q, r \in Pending : q.at = r.at => q = r
      BY <2>5 DEF BgpInv, PendingInv
    <3> QED  BY <2>1, <2>2, <2>3, <3>1, <3>2
  <2>6. phase = "collect" => \A l \in Written : l.at <= time
    BY DEF BgpInv, PendingInv
  <2> QED  BY <1>1, <2>4, <2>5, <2>6 DEF PendingInv
<1> QED
  BY <1>1, <1>7, <1>8 DEF BgpInv

\* A round that was refused, or has written everything, and a new collector for a dead one.
LEMMA RoundEnds == BgpInv /\ (Refuse \/ EndRefused \/ EndRound \/ Restart) => BgpInv'
<1> SUFFICES ASSUME BgpInv, Refuse \/ EndRefused \/ EndRound \/ Restart PROVE BgpInv'
  OBVIOUS
<1>1. TimesBounded' /\ ActiveInv' /\ SealedInv' /\ StoredInv' /\ Written' = Written
  BY SpoolKept DEF BgpInv, Refuse, EndRefused, EndRound, Restart
<1>2. BgpTypeOK'
  <2>1. CASE Refuse
    BY <2>1 DEF BgpInv, BgpTypeOK, Refuse, spoolVars
  <2>2. CASE EndRefused
    <3>1. {b.dev : b \in done} \subseteq Devices
      BY DEF BgpInv, BgpTypeOK, Batch
    <3> QED  BY <2>2, <3>1 DEF BgpInv, BgpTypeOK, EndRefused, spoolVars
  <2>3. CASE EndRound
    BY <2>3 DEF BgpInv, BgpTypeOK, EndRound, spoolVars
  <2>4. CASE Restart
    BY <2>4 DEF BgpInv, BgpTypeOK, Restart, spoolVars
  <2> QED  BY <2>1, <2>2, <2>3, <2>4
<1>3. PendingInv'
  BY DEF BgpInv, PendingInv, Pending, Refuse, EndRefused, EndRound, Restart
<1> QED
  BY <1>1, <1>2, <1>3 DEF BgpInv

----------------------------------------------------------------------------
(* The steps on the spool *)

\* A batch that is about to be written has a time that nothing written has; the polls still under way are others.
LEMMA BatchIsNew ==
  ASSUME BgpInv, phase = "collect", NEW b \in done
  PROVE  b \in Batch /\ b.at <= time /\ b \notin polling /\ \A l \in Written : l.at # b.at
<1>1. b \in Batch /\ b \in Pending
  BY DEF BgpInv, BgpTypeOK, Pending
<1>2. b \notin polling
  <2>1. "ok" \in DOMAIN b
    BY <1>1 DEF Batch
  <2>2. \A p \in polling : "ok" \notin DOMAIN p
    BY DEF BgpInv, BgpTypeOK
  <2> QED  BY <2>1, <2>2
<1> QED
  BY <1>1, <1>2 DEF BgpInv, PendingInv

\* What a batch that is written does to the round, wherever the spool puts it.
LEMMA WriteCounts ==
  ASSUME BgpInv, NEW b, Write(b), Written' = Written \cup {b}
  PROVE  PendingInv' /\ TimesBounded'
<1>1. phase = "collect" /\ b \in done /\ phase' = "collect" /\ time' = time /\ polling' = polling /\ done' = done \ {b}
  BY DEF Write
<1>2. b \in Batch /\ b.at <= time /\ b \notin polling /\ \A l \in Written : l.at # b.at
  BY <1>1, BatchIsNew
<1>3. Pending' = Pending \ {b} /\ b \in Pending
  BY <1>1, <1>2 DEF Pending
<1>4. /\ \A l \in Written : l.at <= time
      /\ \A p \in Pending : p.at <= time /\ \A l \in Written : l.at # p.at
      /\ \A p, q \in Pending : p.at = q.at => p = q
  BY <1>1 DEF BgpInv, PendingInv
<1>5. PendingInv'
  <2>1. \A l \in Written' : l.at <= time
    BY <1>2, <1>4
  <2>2. \A p \in Pending' : p.at <= time /\ \A l \in Written' : l.at # p.at
    BY <1>3, <1>4
  <2>3. \A p, q \in Pending' : p.at = q.at => p = q
    BY <1>3, <1>4
  <2> QED  BY <1>1, <2>1, <2>2, <2>3 DEF PendingInv
<1>6. TimesBounded'
  BY <1>1, <1>2, <1>4 DEF TimesBounded, BgpInv, BgpTypeOK
<1> QED
  BY <1>5, <1>6

LEMMA BatchAppended == ASSUME NEW b, BgpInv, Write(b), ~Rotates PROVE BgpInv' /\ Written' = Written \cup {b}
<1>1. active' = Append(active, b) /\ sealed' = sealed /\ stored' = stored /\ phase = "collect" /\ b \in done
  BY DEF Write
<1>2. b \in Batch /\ \A l \in Written : l.at # b.at
  BY <1>1, BatchIsNew
<1>3. active \in Seq(Line) /\ b \in Line
  BY <1>2 DEF BgpInv, BgpTypeOK, Line
<1>4. active' \in Seq(Line) /\ Lines(active') = Lines(active) \cup {b}
  BY <1>1, <1>3, Appended
<1>5. Lines(active) \subseteq Batch
  <2>1. Lines(active) \in SUBSET Line
    BY SpoolLines DEF BgpInv
  <2> QED  BY <2>1 DEF BgpInv, ActiveInv, Line, MarkerLine
<1>6. Lines(active') \subseteq Batch /\ Batches(Lines(active')) = Batches(Lines(active)) \cup {b}
  <2>1. Lines(active') \in SUBSET Line /\ Lines(active) \in SUBSET Line
    BY <1>2, <1>3, <1>4, <1>5 DEF Line
  <2> QED  BY <1>2, <1>4, <1>5, <2>1, BatchesAre
<1>7. BgpTypeOK'
  BY <1>1, <1>4 DEF BgpInv, BgpTypeOK, Write
<1>8. Spooled' = Spooled \cup {b}
  BY <1>1, <1>4 DEF Spooled
<1>9. Written' = Written \cup {b}
  <2>1. Written = (Spooled \cup stored) \cap Batch
    BY WrittenAre DEF BgpInv
  <2>2. (BgpTypeOK => Written = (Spooled \cup stored) \cap Batch)'
    BY WrittenAre, PTL
  <2> QED  BY <1>1, <1>2, <1>7, <1>8, <2>1, <2>2
<1>10. \A l \in Batch : l \notin MarkerLine
  BY DEF Batch, MarkerLine
<1>11. ActiveInv'
  <2>1. MarkersLast(active')
    BY <1>4, <1>6, <1>10 DEF MarkersLast, Lines
  <2> QED  BY <1>6, <1>10, <2>1 DEF ActiveInv
<1>12. SealedInv'
  <2> SUFFICES ASSUME NEW s \in DOMAIN sealed PROVE b.at # s.at
    BY <1>1, <1>6 DEF SealedInv, BgpInv
  <2>1. Batches(Lines(sealed[s])) \subseteq Written
    BY DEF Written, Batches, Spooled
  <2> QED  BY <1>2, <2>1 DEF SealedInv, BgpInv
<1>13. StoredInv'
  <2> SUFFICES ASSUME NEW m \in stored \cap MarkerLine
        PROVE (\E c \in Written : c.at = m.spool_segment.at) /\ \A c \in Batches(Lines(active')) : c.at # m.spool_segment.at
    BY <1>1, <1>9 DEF StoredInv
  <2>1. PICK l \in Written : l.at = m.spool_segment.at
    BY DEF StoredInv, BgpInv
  <2>2. \A c \in Batches(Lines(active)) : c.at # m.spool_segment.at
    BY <1>5, <1>10 DEF StoredInv, BgpInv
  <2> QED  BY <1>2, <1>6, <2>1, <2>2
<1>14. PendingInv' /\ TimesBounded'
  BY <1>9, WriteCounts
<1> QED
  BY <1>7, <1>9, <1>11, <1>12, <1>13, <1>14 DEF BgpInv

LEMMA MarkerBehind ==
  ASSUME NEW file \in Seq(Line), MarkersLast(file), NEW m \in MarkerLine
  PROVE  MarkersLast(Append(file, m))
<1>1. DOMAIN Append(file, m) = 1..Len(file) + 1 /\ DOMAIN file = 1..Len(file) /\ Len(file) \in Nat
      /\ (\A i \in DOMAIN file : Append(file, m)[i] = file[i]) /\ Append(file, m)[Len(file) + 1] = m
  BY Appended DEF Line, MarkerLine
<1> SUFFICES ASSUME NEW i \in 1..Len(file) + 1, NEW j \in 1..Len(file) + 1, i < j, Append(file, m)[i] \in MarkerLine
      PROVE  Append(file, m)[j] \in MarkerLine
  BY <1>1 DEF MarkersLast
<1>2. CASE j = Len(file) + 1
  BY <1>1, <1>2
<1>3. CASE j # Len(file) + 1
  BY <1>1, <1>3 DEF MarkersLast
<1> QED
  BY <1>2, <1>3

\* What a marker adds to the active segment.
LEMMA Marked ==
  ASSUME BgpInv, active # <<>>
  PROVE  LET file == Append(active, Marker(NextSegment))
         IN /\ Marker(NextSegment) \in MarkerLine
            /\ file \in Seq(Line) /\ Lines(file) = Lines(active) \cup {Marker(NextSegment)}
            /\ Batches(Lines(file)) = Batches(Lines(active)) /\ Batches(Lines(active)) = Lines(active) \cap Batch
            /\ MarkersLast(file)
            /\ Len(file) = Len(active) + 1 /\ Len(active) \in Nat
            /\ \A m \in Lines(file) \cap MarkerLine : m = Marker(NextSegment)
<1> DEFINE mark == Marker(NextSegment)
           file == Append(active, mark)
<1>1. NextSegment \in Segment
  BY NextSegmentIs DEF BgpInv
<1>2. mark \in MarkerLine /\ mark \in Line
  BY <1>1 DEF Marker, MarkerLine, Line
<1>3. active \in Seq(Line)
  BY DEF BgpInv, BgpTypeOK
<1>4. file \in Seq(Line) /\ Lines(file) = Lines(active) \cup {mark} /\ Len(file) = Len(active) + 1 /\ Len(active) \in Nat
  BY <1>2, <1>3, Appended
<1>5. Lines(file) \in SUBSET Line /\ Lines(active) \in SUBSET Line
  BY <1>2, <1>3, <1>4, LinesIn
<1>6. mark \notin Batch
  BY <1>2 DEF MarkerLine, Batch
<1>7. Batches(Lines(file)) = Batches(Lines(active)) /\ Batches(Lines(active)) = Lines(active) \cap Batch
  <2> HIDE DEF mark, file
  <2>1. Batches(Lines(file)) = Lines(file) \cap Batch /\ Batches(Lines(active)) = Lines(active) \cap Batch
    BY <1>5, BatchesAre
  <2> QED  BY <1>4, <1>6, <2>1
<1>8. MarkersLast(file)
  BY <1>2, <1>3, MarkerBehind DEF BgpInv, ActiveInv
<1>9. \A m \in Lines(file) \cap MarkerLine : m = mark
  BY <1>4, NextSegmentIs DEF BgpInv
<1> QED
  BY <1>2, <1>4, <1>7, <1>8, <1>9

\* The name is new: no sealed segment is overwritten.
LEMMA Sealing ==
  ASSUME BgpInv, active # <<>>, Seal(NextSegment)
  PROVE  /\ DOMAIN sealed' = DOMAIN sealed \cup {NextSegment} /\ NextSegment \notin DOMAIN sealed
         /\ \A s \in DOMAIN sealed : sealed'[s] = sealed[s]
         /\ sealed'[NextSegment] = Append(active, Marker(NextSegment))
<1>1. NextSegment \notin DOMAIN sealed
  BY NextSegmentIs DEF BgpInv
<1> HIDE DEF NextSegment
<1> QED
  BY <1>1 DEF Seal

LEMMA BatchSealsSegment == ASSUME NEW b, BgpInv, Write(b), Rotates PROVE BgpInv' /\ Written' = Written \cup {b}
<1> DEFINE id == NextSegment
           file == Append(active, Marker(id))
<1>1. active' = <<b>> /\ Seal(id) /\ stored' = stored /\ phase = "collect" /\ b \in done /\ active # <<>>
  BY DEF Write, Rotates
<1>2. b \in Batch /\ (\A l \in Written : l.at # b.at) /\ b \in Line
  BY <1>1, BatchIsNew DEF Line
<1>3. DOMAIN sealed' = DOMAIN sealed \cup {id} /\ id \notin DOMAIN sealed /\ (\A s \in DOMAIN sealed : sealed'[s] = sealed[s]) /\ sealed'[id] = file
  BY <1>1, Sealing
<1>4. id \in Segment /\ (\E c \in Lines(active) \cap Batch : c.at = id.at)
  BY <1>1, NextSegmentIs DEF BgpInv
<1>5. /\ file \in Seq(Line) /\ Lines(file) = Lines(active) \cup {Marker(id)} /\ Batches(Lines(file)) = Batches(Lines(active))
      /\ Batches(Lines(active)) = Lines(active) \cap Batch /\ MarkersLast(file) /\ Marker(id) \in MarkerLine
      /\ \A m \in Lines(file) \cap MarkerLine : m = Marker(id)
  BY <1>1, Marked
<1>6. active' \in Seq(Line) /\ Lines(active') = {b} /\ DOMAIN active' = {1} /\ active'[1] = b
  BY <1>1, <1>2 DEF Lines
<1>7. Batches(Lines(active')) = {b}
  BY <1>2, <1>6, BatchesAre
<1> HIDE DEF id, file
<1>8. BgpTypeOK'
  <2>1. IsFiniteSet(DOMAIN sealed') /\ DOMAIN sealed' \subseteq Segment
    BY <1>3, <1>4, FS_AddElement DEF BgpInv, BgpTypeOK
  <2>2. \A s \in DOMAIN sealed' : sealed'[s] \in Seq(Line)
    BY <1>3, <1>5 DEF BgpInv, BgpTypeOK
  <2> QED  BY <1>1, <1>6, <2>1, <2>2 DEF BgpInv, BgpTypeOK, Write
<1>9. Spooled' = Spooled \cup {b, Marker(id)}
  <2>1. \A l : l \in Spooled <=> l \in Lines(active) \/ \E s \in DOMAIN sealed : l \in Lines(sealed[s])
    BY DEF Spooled
  <2>2. \A l : l \in Spooled' <=> l = b \/ \E s \in DOMAIN sealed' : l \in Lines(sealed'[s])
    BY <1>6 DEF Spooled
  <2>3. \A l : (\E s \in DOMAIN sealed' : l \in Lines(sealed'[s])) <=> l \in Lines(file) \/ \E s \in DOMAIN sealed : l \in Lines(sealed[s])
    BY <1>3
  <2> QED  BY <1>5, <2>1, <2>2, <2>3
<1>10. \A l \in Batch : l \notin MarkerLine
  BY DEF Batch, MarkerLine
<1>11. Written' = Written \cup {b}
  <2>1. Written = (Spooled \cup stored) \cap Batch
    BY WrittenAre DEF BgpInv
  <2>2. (BgpTypeOK => Written = (Spooled \cup stored) \cap Batch)'
    BY WrittenAre, PTL
  <2> QED  BY <1>1, <1>2, <1>5, <1>8, <1>9, <1>10, <2>1, <2>2
<1>12. ActiveInv'
  <2>1. MarkersLast(active')
    BY <1>6 DEF MarkersLast
  <2> QED  BY <1>2, <1>6, <1>10, <2>1 DEF ActiveInv
<1>13. SealedInv'
  <2>1. ASSUME NEW s \in DOMAIN sealed PROVE
          /\ MarkersLast(sealed'[s]) /\ (\A m \in Lines(sealed'[s]) \cap MarkerLine : m = Marker(s))
          /\ (\E c \in Batches(Lines(sealed'[s])) : c.at = s.at) /\ b.at # s.at
          /\ Marker(s) \in stored => Lines(sealed'[s]) \subseteq stored
    <3>1. Batches(Lines(sealed[s])) \subseteq Written
      BY DEF Written, Batches, Spooled
    <3> QED  BY <1>2, <1>3, <2>1, <3>1 DEF SealedInv, BgpInv
  <2>2. /\ MarkersLast(sealed'[id]) /\ (\A m \in Lines(sealed'[id]) \cap MarkerLine : m = Marker(id))
        /\ \E c \in Batches(Lines(sealed'[id])) : c.at = id.at
    BY <1>3, <1>4, <1>5
  <2>3. b.at # id.at
    <3>1. Batches(Lines(active)) \subseteq Written
      BY DEF Written, Batches, Spooled
    <3> QED  BY <1>2, <1>4, <1>5, <3>1
  <2>4. Marker(id) \in stored => Lines(sealed'[id]) \subseteq stored
    <3>1. Marker(id).spool_segment = id
      BY DEF Marker
    <3> QED  BY <1>3, <1>4, <1>5, <3>1 DEF StoredInv, BgpInv
  <2> QED  BY <1>1, <1>3, <1>7, <2>1, <2>2, <2>3, <2>4 DEF SealedInv
<1>14. StoredInv'
  <2> SUFFICES ASSUME NEW m \in stored \cap MarkerLine
        PROVE (\E c \in Written : c.at = m.spool_segment.at) /\ b.at # m.spool_segment.at
    BY <1>1, <1>7, <1>11 DEF StoredInv
  <2>1. PICK l \in Written : l.at = m.spool_segment.at
    BY DEF StoredInv, BgpInv
  <2> QED  BY <1>2, <2>1
<1>15. PendingInv' /\ TimesBounded'
  BY <1>11, WriteCounts
<1> QED
  BY <1>8, <1>11, <1>12, <1>13, <1>14, <1>15 DEF BgpInv

\* A death after the marker was appended leaves a segment that is sealed by the next batch.
LEMMA DeathKeeps == BgpInv /\ Crash => BgpInv' /\ Written' = Written
<1> SUFFICES ASSUME BgpInv, Crash PROVE BgpInv' /\ Written' = Written
  OBVIOUS
<1>1. sealed' = sealed /\ stored' = stored /\ phase' = "dead" /\ Pending' = {}
  BY DEF Crash, Pending
<1>2. PendingInv'
  BY <1>1 DEF PendingInv
<1>3. CASE active' = active
  <2>1. TimesBounded' /\ ActiveInv' /\ SealedInv' /\ StoredInv' /\ Written' = Written
    BY <1>1, <1>3, SpoolKept DEF BgpInv, spoolVars
  <2>2. BgpTypeOK'
    BY <1>3, BgpSizesAssumption DEF BgpInv, BgpTypeOK, Crash
  <2> QED  BY <1>2, <2>1, <2>2 DEF BgpInv
<1>4. CASE active' # active
  <2> DEFINE id == NextSegment
  <2>1. active' = Append(active, Marker(id)) /\ Rotates /\ active # <<>>
    BY <1>4 DEF Crash, Rotates
  <2>2. /\ active' \in Seq(Line) /\ Lines(active') = Lines(active) \cup {Marker(id)} /\ Batches(Lines(active')) = Batches(Lines(active))
        /\ MarkersLast(active') /\ Marker(id) \in MarkerLine /\ Batches(Lines(active)) = Lines(active) \cap Batch
        /\ Len(active') = Len(active) + 1 /\ Len(active) \in Nat
        /\ \A m \in Lines(active') \cap MarkerLine : m = Marker(id)
    BY <2>1, Marked
  <2>3. /\ id \in Segment /\ id.no = 0 /\ (\E b \in Batches(Lines(active)) : b.at = id.at)
        /\ \A b \in Batches(Lines(active)) : b.at <= id.at
    BY <2>1, <2>2, NextSegmentIs DEF BgpInv
  <2>4. Marker(id).spool_segment = id
    BY DEF Marker
  <2> HIDE DEF id
  <2>5. BgpTypeOK'
    BY <2>2, BgpSizesAssumption DEF BgpInv, BgpTypeOK, Crash
  <2>6. Written' = Written
    <3>1. Written = (Spooled \cup stored) \cap Batch
      BY WrittenAre DEF BgpInv
    <3>2. (BgpTypeOK => Written = (Spooled \cup stored) \cap Batch)'
      BY WrittenAre, PTL
    <3>3. Spooled' = Spooled \cup {Marker(id)}
      BY <1>1, <2>2 DEF Spooled
    <3>4. \A l \in Batch : l \notin MarkerLine
      BY DEF Batch, MarkerLine
    <3> QED  BY <1>1, <2>2, <2>5, <3>1, <3>2, <3>3, <3>4
  <2>7. ActiveInv'
    <3>1. Rotates'
      <4>1. active' # <<>>
        BY <2>2 DEF Lines
      <4> QED  BY <2>1, <2>2, <4>1, BgpSizesAssumption DEF Rotates
    <3> QED  BY <2>2, <2>3, <2>4, <3>1 DEF ActiveInv
  <2>8. SealedInv'
    BY <1>1, <2>2 DEF BgpInv, SealedInv
  <2>9. StoredInv'
    BY <1>1, <2>2, <2>6 DEF BgpInv, StoredInv
  <2>10. TimesBounded'
    BY <2>6 DEF BgpInv, TimesBounded
  <2> QED  BY <1>2, <2>5, <2>6, <2>7, <2>8, <2>9, <2>10 DEF BgpInv
<1> QED
  BY <1>3, <1>4

\* Only what is stored is deleted with a segment that is ingested.
LEMMA DeletedAreStored ==
  ASSUME BgpInv, DeleteSegments
  PROVE  /\ DOMAIN sealed' \subseteq DOMAIN sealed
         /\ \A s \in DOMAIN sealed' : sealed'[s] = sealed[s]
         /\ \A s \in DOMAIN sealed \ DOMAIN sealed' : Lines(sealed[s]) \subseteq stored
<1>1. CASE sealed' = sealed
  BY <1>1
<1>2. CASE sealed' = [s \in DOMAIN sealed \ Ingested |-> sealed[s]]
  BY <1>2 DEF Ingested, BgpInv, SealedInv
<1> QED
  BY <1>1, <1>2 DEF DeleteSegments

LEMMA SegmentsDeleted == BgpInv /\ DeleteSegments => BgpInv' /\ Written' = Written
<1> SUFFICES ASSUME BgpInv, DeleteSegments PROVE BgpInv' /\ Written' = Written
  OBVIOUS
<1>1. /\ DOMAIN sealed' \subseteq DOMAIN sealed /\ \A s \in DOMAIN sealed' : sealed'[s] = sealed[s]
      /\ \A s \in DOMAIN sealed \ DOMAIN sealed' : Lines(sealed[s]) \subseteq stored
  BY DeletedAreStored
<1>2. active' = active /\ stored' = stored /\ phase = "cleanup" /\ phase' = "wait" /\ polling' = polling /\ done' = done
  BY DEF DeleteSegments
<1>3. BgpTypeOK'
  <2>1. IsFiniteSet(DOMAIN sealed')
    BY <1>1, FS_Subset DEF BgpInv, BgpTypeOK
  <2> QED  BY <1>1, <1>2, <2>1 DEF BgpInv, BgpTypeOK, DeleteSegments
<1>4. Written' = Written
  <2>1. Spooled' \cup stored = Spooled \cup stored
    BY <1>1, <1>2 DEF Spooled
  <2> QED  BY <1>2, <2>1 DEF Written
<1>5. PendingInv'
  BY <1>2 DEF BgpInv, PendingInv, Pending
<1>6. TimesBounded' /\ ActiveInv' /\ StoredInv'
  BY <1>2, <1>4 DEF BgpInv, TimesBounded, ActiveInv, StoredInv, Rotates
<1>7. SealedInv'
  BY <1>1, <1>2 DEF BgpInv, SealedInv
<1> QED
  BY <1>3, <1>4, <1>5, <1>6, <1>7 DEF BgpInv

\* A set of numbers that is not empty has a minimum.
LEMMA MinOf ==
  ASSUME NEW s \in SUBSET Nat, s # {}
  PROVE  Min(s) \in s /\ \A x \in s : Min(s) <= x
<1> DEFINE below == {n \in Nat : \A x \in s : n <= x}
<1>1. SUFFICES ASSUME \A x \in s : \E y \in s : ~(x <= y) PROVE FALSE
  <2>1. PICK x \in s : \A y \in s : x <= y
    BY <1>1
  <2> QED  BY <2>1 DEF Min
<1>2. PICK m \in s : TRUE
  BY s # {}
<1>3. 0 \in below
  OBVIOUS
<1>4. ASSUME NEW n \in 0..m + 1, n \in below, n < m + 1 PROVE n + 1 \in below
  <2>1. n \notin s
    BY <1>1, <1>4
  <2> QED  BY <1>4, <2>1
<1>5. 0..m + 1 \subseteq below
  <2> HIDE DEF below
  <2>1. m + 1 \in Nat
    BY <1>2
  <2> QED  BY <1>3, <1>4, <2>1, UpTo
<1>6. m + 1 \in 0..m + 1
  BY <1>2
<1>7. m + 1 <= m
  <2> HIDE DEF below
  <2>1. m + 1 \in below
    BY <1>5, <1>6
  <2> QED  BY <1>2, <2>1 DEF below
<1> QED
  BY <1>2, <1>7

\* The first line of a file that is not stored: with a marker, all that precedes it is stored.
LEMMA Ingesting ==
  ASSUME NEW file \in Seq(Line), MarkersLast(file), NEW mark,
         \A m \in Lines(file) \cap MarkerLine : m = mark, Lines(file) \ stored # {}
  PROVE  LET l == file[Min({i \in DOMAIN file : file[i] \notin stored})]
         IN /\ l \in Lines(file) /\ l \notin stored
            /\ l \in MarkerLine => l = mark /\ Lines(file) \subseteq stored \cup {l}
<1> DEFINE unread == {i \in DOMAIN file : file[i] \notin stored}
           first == Min(unread)
<1>1. unread \in SUBSET Nat /\ unread # {}
  BY DEF Lines
<1>2. first \in unread /\ \A i \in unread : first <= i
  <2> HIDE DEF unread
  <2> QED  BY <1>1, MinOf
<1> HIDE DEF first
<1>3. file[first] \in Lines(file) /\ file[first] \notin stored
  BY <1>2 DEF Lines
<1>4. ASSUME file[first] \in MarkerLine, NEW i \in DOMAIN file PROVE file[i] \in stored \cup {file[first]}
  <2>1. CASE file[i] \in stored
    BY <2>1
  <2>2. CASE i = first
    BY <2>2
  <2>3. CASE file[i] \notin stored /\ i # first
    <3>1. first < i
      BY <1>1, <1>2, <2>3
    <3>2. file[i] \in MarkerLine /\ file[i] \in Lines(file)
      BY <1>2, <1>4, <3>1 DEF MarkersLast, Lines
    <3> QED  BY <1>3, <1>4, <3>2
  <2> QED  BY <2>1, <2>2, <2>3
<1>5. file[first] \in MarkerLine => file[first] = mark /\ Lines(file) \subseteq stored \cup {file[first]}
  BY <1>3, <1>4 DEF Lines
<1> QED
  BY <1>3, <1>5 DEF first

LEMMA StoredGrows ==
  ASSUME BgpInv, NEW l \in Spooled \ stored, stored' = stored \cup {l}, UNCHANGED <<spoolVars, tracker, roundVars, lostPolls, crashes>>
  PROVE  BgpTypeOK' /\ PendingInv' /\ TimesBounded' /\ ActiveInv' /\ Written' = Written
<1>1. active' = active /\ sealed' = sealed /\ phase' = phase /\ time' = time /\ polling' = polling /\ done' = done
  BY DEF spoolVars, roundVars
<1>2. BgpTypeOK'
  <2>1. l \in Line
    BY SpoolLines DEF BgpInv
  <2> QED  BY <2>1 DEF BgpInv, BgpTypeOK, spoolVars, roundVars
<1>3. Written' = Written
  <2>1. Spooled' = Spooled /\ Spooled' \cup stored' = Spooled \cup stored
    BY <1>1 DEF Spooled
  <2> QED  BY <2>1 DEF Written
<1> QED
  BY <1>1, <1>2, <1>3 DEF BgpInv, PendingInv, Pending, TimesBounded, ActiveInv, Rotates

LEMMA ActiveIngested == BgpInv /\ Ingest(active) => BgpInv' /\ Written' = Written
<1> SUFFICES ASSUME BgpInv, Ingest(active) PROVE BgpInv' /\ Written' = Written
  OBVIOUS
<1> DEFINE l == active[Min({i \in DOMAIN active : active[i] \notin stored})]
           id == NextSegment
<1>1. active # <<>> /\ stored' = stored \cup {l} /\ UNCHANGED <<spoolVars, tracker, roundVars, lostPolls, crashes>>
  BY DEF Ingest, Lines
<1>2. /\ id \in Segment /\ (\E b \in Lines(active) \cap Batch : b.at = id.at) /\ id \notin DOMAIN sealed
      /\ \A m \in Lines(active) \cap MarkerLine : m = Marker(id)
  BY <1>1, NextSegmentIs DEF BgpInv
<1>3. l \in Lines(active) /\ l \notin stored /\ (l \in MarkerLine => l = Marker(id) /\ Lines(active) \subseteq stored \cup {l})
  <2>1. active \in Seq(Line) /\ MarkersLast(active) /\ Lines(active) \ stored # {}
    BY DEF BgpInv, BgpTypeOK, ActiveInv, Ingest
  <2> HIDE DEF id
  <2> QED  BY <1>2, <2>1, Ingesting
<1> HIDE DEF l, id
<1>4. BgpTypeOK' /\ PendingInv' /\ TimesBounded' /\ ActiveInv' /\ Written' = Written
  <2>1. l \in Spooled \ stored
    BY <1>3 DEF Spooled
  <2> QED  BY <1>1, <2>1, StoredGrows
<1>5. active' = active /\ sealed' = sealed
  BY <1>1 DEF spoolVars
<1>6. Batches(Lines(active)) = Lines(active) \cap Batch
  BY SpoolLines, BatchesAre DEF BgpInv
<1>7. Marker(id).spool_segment = id /\ \A s : Marker(s).spool_segment = s
  BY DEF Marker
<1>8. SealedInv'
  <2> SUFFICES ASSUME NEW s \in DOMAIN sealed, Marker(s) \in stored' PROVE Marker(s) \in stored
    BY <1>1, <1>5 DEF BgpInv, SealedInv
  <2>1. Marker(s) \in MarkerLine
    BY DEF BgpInv, BgpTypeOK, Marker, MarkerLine
  <2>2. Marker(s) = l => s = id
    BY <1>3, <1>7, <2>1
  <2> QED  BY <1>1, <1>2, <2>2
<1>9. StoredInv'
  <2> SUFFICES ASSUME NEW m \in stored' \cap MarkerLine
        PROVE /\ \E b \in Written : b.at = m.spool_segment.at
              /\ \A b \in Batches(Lines(active)) : b.at = m.spool_segment.at => m \in Lines(active) /\ Lines(active) \subseteq stored'
    BY <1>4, <1>5 DEF StoredInv
  <2>1. CASE m \in stored
    BY <1>1, <2>1 DEF BgpInv, StoredInv
  <2>2. CASE m = l
    <3>1. Batches(Lines(active)) \subseteq Written
      BY DEF Written, Batches, Spooled
    <3> QED  BY <1>1, <1>2, <1>3, <1>6, <1>7, <2>2, <3>1
  <2> QED  BY <1>1, <2>1, <2>2
<1> QED
  BY <1>4, <1>8, <1>9 DEF BgpInv

LEMMA SegmentIngested == ASSUME NEW seg \in DOMAIN sealed PROVE BgpInv /\ Ingest(sealed[seg]) => BgpInv' /\ Written' = Written
<1> SUFFICES ASSUME BgpInv, Ingest(sealed[seg]) PROVE BgpInv' /\ Written' = Written
  OBVIOUS
<1> DEFINE file == sealed[seg]
           l == file[Min({i \in DOMAIN file : file[i] \notin stored})]
<1>1. stored' = stored \cup {l} /\ UNCHANGED <<spoolVars, tracker, roundVars, lostPolls, crashes>>
  BY DEF Ingest
<1>2. /\ \A m \in Lines(file) \cap MarkerLine : m = Marker(seg)
      /\ \E b \in Batches(Lines(file)) : b.at = seg.at
      /\ \A b \in Batches(Lines(active)) : b.at # seg.at
  BY DEF BgpInv, SealedInv
<1>3. l \in Lines(file) /\ l \notin stored /\ (l \in MarkerLine => l = Marker(seg) /\ Lines(file) \subseteq stored \cup {l})
  <2>1. file \in Seq(Line) /\ MarkersLast(file) /\ Lines(file) \ stored # {}
    BY DEF BgpInv, BgpTypeOK, SealedInv, Ingest
  <2> HIDE DEF file
  <2> QED  BY <1>2, <2>1, Ingesting
<1> HIDE DEF l
<1>4. BgpTypeOK' /\ PendingInv' /\ TimesBounded' /\ ActiveInv' /\ Written' = Written
  <2>1. l \in Spooled \ stored
    BY <1>3 DEF Spooled
  <2> QED  BY <1>1, <2>1, StoredGrows
<1>5. active' = active /\ sealed' = sealed
  BY <1>1 DEF spoolVars
<1>6. \A s : Marker(s).spool_segment = s
  BY DEF Marker
<1>7. SealedInv'
  <2> SUFFICES ASSUME NEW s \in DOMAIN sealed, Marker(s) \in stored' PROVE Lines(sealed[s]) \subseteq stored'
    BY <1>5 DEF BgpInv, SealedInv
  <2>1. CASE Marker(s) \in stored
    BY <1>1, <2>1 DEF BgpInv, SealedInv
  <2>2. CASE Marker(s) = l
    <3>1. Marker(s) \in MarkerLine
      BY DEF BgpInv, BgpTypeOK, Marker, MarkerLine
    <3>2. s = seg
      BY <1>3, <1>6, <2>2, <3>1
    <3> QED  BY <1>1, <1>3, <2>2, <3>1, <3>2
  <2> QED  BY <1>1, <2>1, <2>2
<1>8. StoredInv'
  <2> SUFFICES ASSUME NEW m \in stored' \cap MarkerLine
        PROVE /\ \E b \in Written : b.at = m.spool_segment.at
              /\ \A b \in Batches(Lines(active)) : b.at = m.spool_segment.at => m \in Lines(active) /\ Lines(active) \subseteq stored'
    BY <1>4, <1>5 DEF StoredInv
  <2>1. CASE m \in stored
    BY <1>1, <2>1 DEF BgpInv, StoredInv
  <2>2. CASE m = l
    <3>1. m.spool_segment = seg
      BY <1>3, <1>6, <2>2
    <3>2. Batches(Lines(file)) \subseteq Written
      BY DEF Written, Batches, Spooled
    <3> QED  BY <1>2, <3>1, <3>2
  <2> QED  BY <1>1, <2>1, <2>2
<1> QED
  BY <1>4, <1>7, <1>8 DEF BgpInv

----------------------------------------------------------------------------
(* The theorems about the spool *)

LEMMA BgpInvInit == BgpInit => BgpInv
<1> SUFFICES ASSUME BgpInit PROVE BgpInv
  OBVIOUS
<1>1. BgpTypeOK
  <2>1. DOMAIN sealed = {} /\ IsFiniteSet(DOMAIN sealed)
    BY FS_EmptySet DEF BgpInit
  <2>2. active \in Seq(Line) /\ stored \subseteq Line
    BY DEF BgpInit
  <2>3. tracker \in [Devices -> States \cup {"none"}]
    BY DEF BgpInit
  <2>4. phase = "wait" /\ time \in Nat /\ full \in BOOLEAN /\ toPoll = {} /\ polling = {} /\ done = {} /\ lostPolls = {}
    BY DEF BgpInit
  <2>5. crashes \in 0..MaxCrashes
    <3>1. MaxCrashes \in Nat
      BY BgpSizesAssumption
    <3> QED  BY <3>1 DEF BgpInit
  <2> QED  BY <2>1, <2>2, <2>3, <2>4, <2>5 DEF BgpTypeOK
<1>2. Lines(active) = {} /\ Spooled = {} /\ Written = {} /\ Pending = {}
  BY DEF BgpInit, Lines, Spooled, Written, Batches, Pending
<1> QED
  BY <1>1, <1>2 DEF BgpInit, BgpInv, PendingInv, TimesBounded, ActiveInv, SealedInv, StoredInv, MarkersLast, Batches

LEMMA BgpInvStep == BgpInv /\ [BgpNext]_bgpVars => BgpInv'
<1> SUFFICES ASSUME BgpInv, [BgpNext]_bgpVars PROVE BgpInv'
  OBVIOUS
<1>1. CASE BeginRound
  BY <1>1, RoundBegins
<1>2. CASE Refuse \/ EndRefused \/ EndRound \/ Restart
  BY <1>2, RoundEnds
<1>3. CASE DeleteSegments
  BY <1>3, SegmentsDeleted
<1>4. CASE \E d \in Devices : Launch(d)
  BY <1>4, PollLaunched
<1>5. CASE \E p \in polling : Finish(p)
  BY <1>5, PollFinished
<1>6. CASE \E b \in done : Write(b)
  BY <1>6, BatchAppended, BatchSealsSegment
<1>7. CASE Crash
  BY <1>7, DeathKeeps
<1>8. CASE Telegraf
  BY <1>8, ActiveIngested, SegmentIngested DEF Telegraf
<1>9. CASE UNCHANGED bgpVars
  <2>1. TimesBounded' /\ ActiveInv' /\ SealedInv' /\ StoredInv' /\ Written' = Written
    BY <1>9, SpoolKept DEF BgpInv, bgpVars
  <2>2. BgpTypeOK'
    BY <1>9 DEF BgpInv, BgpTypeOK, bgpVars, spoolVars, roundVars
  <2>3. PendingInv'
    BY <1>9, <2>1 DEF BgpInv, PendingInv, Pending, bgpVars, roundVars
  <2> QED  BY <2>1, <2>2, <2>3 DEF BgpInv
<1> QED
  BY <1>1, <1>2, <1>3, <1>4, <1>5, <1>6, <1>7, <1>8, <1>9 DEF BgpNext, Collector

\* The inductive invariant of the collector, its spool and what Telegraf has stored.
THEOREM BgpInvHolds == BgpSpec => []BgpInv
  BY BgpInvInit, BgpInvStep, PTL DEF BgpSpec

\* No line leaves the spool before it is stored: the name of a sealed segment is never taken again, its marker
\* is stored only after all its other lines, and only a segment whose marker is stored is deleted.
THEOREM UnreadLinesStay == BgpSpec => UnreadLinesKept
<1>1. BgpInv /\ [BgpNext]_bgpVars => [\A l \in Spooled : l \in Spooled' \cup stored]_bgpVars
  <2> SUFFICES ASSUME BgpInv, BgpNext PROVE \A l \in Spooled : l \in Spooled' \cup stored
    OBVIOUS
  <2>1. CASE BeginRound \/ Refuse \/ EndRefused \/ EndRound \/ Restart \/ Telegraf \/ (\E d \in Devices : Launch(d)) \/ (\E p \in polling : Finish(p))
    <3>1. active' = active /\ sealed' = sealed
      BY <2>1 DEF BeginRound, Refuse, EndRefused, EndRound, Restart, Telegraf, Ingest, Launch, Finish, spoolVars
    <3> QED  BY <3>1 DEF Spooled
  <2>2. CASE \E b \in done : Write(b)
    <3>1. PICK b \in done : Write(b)
      BY <2>2
    <3>2. CASE Rotates
      <4>1. active # <<>> /\ Seal(NextSegment)
        BY <3>1, <3>2 DEF Write, Rotates
      <4>2. /\ NextSegment \in DOMAIN sealed' /\ DOMAIN sealed \subseteq DOMAIN sealed'
            /\ \A s \in DOMAIN sealed : sealed'[s] = sealed[s]
            /\ sealed'[NextSegment] = Append(active, Marker(NextSegment))
        BY <4>1, Sealing
      <4>3. Lines(active) \subseteq Lines(sealed'[NextSegment])
        BY <4>1, <4>2, Marked
      <4> QED  BY <4>2, <4>3 DEF Spooled
    <3>3. CASE ~Rotates
      <4>1. active' = Append(active, b) /\ sealed' = sealed
        BY <3>1, <3>3 DEF Write
      <4>2. active \in Seq(Line) /\ b \in Line
        BY DEF BgpInv, BgpTypeOK, Line
      <4>3. Lines(active) \subseteq Lines(active')
        BY <4>1, <4>2, Appended
      <4> QED  BY <4>1, <4>3 DEF Spooled
    <3> QED  BY <3>2, <3>3
  <2>3. CASE DeleteSegments
    <3>1. active' = active
      BY <2>3 DEF DeleteSegments
    <3> QED  BY <2>3, <3>1, DeletedAreStored DEF Spooled
  <2>4. CASE Crash
    <3>1. sealed' = sealed /\ (active' = active \/ (active' = Append(active, Marker(NextSegment)) /\ active # <<>>))
      BY <2>4 DEF Crash, Rotates
    <3>2. Lines(active) \subseteq Lines(active')
      BY <3>1, Marked
    <3> QED  BY <3>1, <3>2 DEF Spooled
  <2> QED  BY <2>1, <2>2, <2>3, <2>4 DEF BgpNext, Collector
<1> QED
  BY <1>1, BgpInvHolds, PTL DEF BgpSpec, UnreadLinesKept

----------------------------------------------------------------------------
(* The history of a device and the events told of it *)

All(d) == {b \in Written \cup done : b.dev = d}
Samples(d) == {b \in All(d) : b.ok}

\* A poll ends after all earlier polls of its device: there is one at a time.
PollOrder ==
  /\ \A p \in polling : p.dev \notin toPoll /\ \A b \in All(p.dev) : b.at < p.at
  /\ \A p, q \in polling : p.dev = q.dev => p = q
  /\ \A d \in Devices : \A b, c \in All(d) : b.at = c.at => b = c

\* Only a sparse collector leaves out a row, and only one of a session that is up.
RowsTold ==
  /\ ~Sparse /\ phase \in {"collect", "refused"} => full
  /\ \A b \in Written \cup done :
       /\ b.ok <=> b.state # "none"
       /\ b.row \in {"none", b.state}
       /\ b.state = "down" \/ (~Sparse /\ b.state = "up") => b.row = b.state

\* c is the last sample of ss before b.
Precedes(c, b, ss) == c.at < b.at /\ \A x \in ss : x.at <= c.at \/ x.at >= b.at

\* The event of a sample is its step from the one before; the tracker knows the last one.  (A neighbour that
\* was missing from the start leaves no trace in the tracker.)
Tells(d) ==
  /\ Samples(d) = {} => tracker[d] = "none"
  /\ \A c \in Samples(d) : c.state # "gone" /\ (\A x \in Samples(d) : x.at <= c.at) => tracker[d] = c.state
  /\ \A b \in All(d) : ~b.ok => b.event = <<>>
  /\ \A b \in Samples(d) : (\A x \in Samples(d) : x.at >= b.at) => b.event = <<>>
  /\ \A b, c \in Samples(d) : Precedes(c, b, Samples(d)) /\ c.state # "gone" =>
       b.event = IF b.state = c.state THEN <<>> ELSE <<c.state, b.state>>

HistoryInv ==
  /\ PollOrder /\ RowsTold
  /\ phase = "dead" => lostPolls = Devices
  /\ \A d \in Devices \ lostPolls : Tells(d)

\* What the history depends on: which batches there are, the polls under way and the tracker.
LEMMA HistoryKept ==
  ASSUME HistoryInv, Written' \cup done' = Written \cup done, polling' = polling, tracker' = tracker,
         toPoll' \subseteq toPoll, full' = full, lostPolls' = lostPolls, phase' # "dead",
         phase' \in {"collect", "refused"} => phase \in {"collect", "refused"}
  PROVE  HistoryInv'
<1>1. \A d : All(d)' = All(d) /\ Samples(d)' = Samples(d)
  BY DEF All, Samples
<1>2. PollOrder'
  BY <1>1 DEF HistoryInv, PollOrder
<1>3. RowsTold'
  BY DEF HistoryInv, RowsTold
<1>4. \A d \in Devices \ lostPolls : Tells(d)'
  BY <1>1 DEF HistoryInv, Tells
<1> QED
  BY <1>2, <1>3, <1>4 DEF HistoryInv

LEMMA HistoryKeptAsIs ==
  ASSUME HistoryInv, Written' = Written, UNCHANGED <<phase, full, toPoll, polling, done, tracker, lostPolls>>
  PROVE  HistoryInv'
<1>1. \A d : All(d)' = All(d) /\ Samples(d)' = Samples(d)
  BY DEF All, Samples
<1>2. PollOrder' /\ RowsTold'
  BY <1>1 DEF HistoryInv, PollOrder, RowsTold
<1>3. \A d \in Devices \ lostPolls : Tells(d)'
  BY <1>1 DEF HistoryInv, Tells
<1> QED
  BY <1>2, <1>3 DEF HistoryInv

LEMMA HistoryBegins == BgpInv /\ HistoryInv /\ BeginRound => HistoryInv'
<1> SUFFICES ASSUME BgpInv, HistoryInv, BeginRound PROVE HistoryInv'
  OBVIOUS
<1>1. Written' = Written /\ done' = done /\ polling' = {} /\ tracker' = tracker /\ lostPolls' = lostPolls /\ phase' = "collect"
  BY SpoolKept DEF BgpInv, PendingInv, Pending, BeginRound
<1>2. \A d : All(d)' = All(d) /\ Samples(d)' = Samples(d)
  BY <1>1 DEF All, Samples
<1>3. PollOrder'
  BY <1>1, <1>2 DEF HistoryInv, PollOrder
<1>4. RowsTold'
  <2>1. ~Sparse => full'
    BY DEF BeginRound
  <2>2. Written' \cup done' = Written \cup done
    BY <1>1
  <2> QED  BY <2>1, <2>2 DEF HistoryInv, RowsTold
<1>5. \A d \in Devices \ lostPolls : Tells(d)'
  BY <1>1, <1>2 DEF HistoryInv, Tells
<1> QED
  BY <1>1, <1>3, <1>4, <1>5 DEF HistoryInv

LEMMA HistoryLaunch == ASSUME NEW d \in Devices PROVE BgpInv /\ HistoryInv /\ Launch(d) => HistoryInv'
<1> SUFFICES ASSUME BgpInv, HistoryInv, Launch(d) PROVE HistoryInv'
  OBVIOUS
<1> DEFINE p == [dev |-> d, at |-> time + 1]
<1>1. /\ Written' = Written /\ done' = done /\ polling' = polling \cup {p} /\ tracker' = tracker /\ lostPolls' = lostPolls
      /\ phase = "collect" /\ phase' = phase /\ full' = full /\ toPoll' = toPoll \ {d} /\ d \in toPoll
  BY SpoolKept DEF BgpInv, Launch
<1>2. \A e : All(e)' = All(e) /\ Samples(e)' = Samples(e)
  BY <1>1 DEF All, Samples
<1>3. PollOrder'
  <2>1. \A b \in All(d) : b.at < p.at
    <3>1. time \in Nat /\ \A b \in Written \cup done : b.at \in Nat
      BY WrittenAre DEF BgpInv, BgpTypeOK, Batch
    <3>2. \A b \in Written \cup done : b.at <= time
      BY <1>1 DEF BgpInv, PendingInv, Pending
    <3> QED  BY <3>1, <3>2 DEF All
  <2>2. \A q \in polling : q.dev # d /\ q.dev \notin toPoll'
    BY <1>1 DEF HistoryInv, PollOrder
  <2>3. \A q \in polling' : q.dev \notin toPoll' /\ \A b \in All(q.dev) : b.at < q.at
    BY <1>1, <2>1, <2>2 DEF HistoryInv, PollOrder
  <2>4. \A q, r \in polling' : q.dev = r.dev => q = r
    BY <1>1, <2>2 DEF HistoryInv, PollOrder
  <2> QED  BY <1>2, <2>3, <2>4 DEF HistoryInv, PollOrder
<1>4. RowsTold'
  BY <1>1 DEF HistoryInv, RowsTold
<1>5. \A e \in Devices \ lostPolls : Tells(e)'
  BY <1>1, <1>2 DEF HistoryInv, Tells
<1> QED
  BY <1>1, <1>3, <1>4, <1>5 DEF HistoryInv

\* A poll that ends adds the last sample of its device, or none.
LEMMA HistoryFinish == ASSUME NEW p \in polling PROVE BgpInv /\ HistoryInv /\ Finish(p) => HistoryInv'
<1> SUFFICES ASSUME BgpInv, HistoryInv, Finish(p) PROVE HistoryInv'
  OBVIOUS
<1> DEFINE d == p.dev
<1>1. d \in Devices /\ p.at \in Nat /\ \A b \in All(d) : b.at < p.at /\ b.at \in Nat
  <2>1. \A b \in Written \cup done : b.at \in Nat
    BY WrittenAre DEF BgpInv, BgpTypeOK, Batch
  <2> QED  BY <2>1 DEF BgpInv, BgpTypeOK, HistoryInv, PollOrder, All
<1>2. PICK s \in States \cup {"none"} :
        done' = done \cup {BatchOf(p, s)} /\ tracker' = [tracker EXCEPT ![d] = Tracked(d, s)]
  BY DEF Finish
<1> DEFINE new == BatchOf(p, s)
<1>3. /\ new.dev = d /\ new.at = p.at /\ new.ok = (s # "none") /\ new.state = s /\ new.row = Row(s) /\ new.event = Event(d, s)
  BY DEF BatchOf
<1>4. /\ Written' = Written /\ polling' = polling \ {p} /\ phase' = phase /\ full' = full /\ toPoll' = toPoll /\ lostPolls' = lostPolls
      /\ phase \in {"collect", "refused"}
  <2>1. p \in Pending
    BY DEF Pending
  <2> QED  BY <2>1, SpoolKept DEF BgpInv, PendingInv, Finish
<1> HIDE DEF new
<1>5. /\ All(d)' = All(d) \cup {new}
      /\ \A e : e # d => All(e)' = All(e) /\ Samples(e)' = Samples(e)
  BY <1>2, <1>3, <1>4 DEF All, Samples, new
<1>6. Samples(d)' = Samples(d) \cup (IF s = "none" THEN {} ELSE {new})
  BY <1>3, <1>5 DEF Samples
<1>7. PollOrder'
  <2>1. \A q \in polling \ {p} : q.dev # d
    BY DEF HistoryInv, PollOrder
  <2>2. \A q \in polling' : q.dev \notin toPoll' /\ \A b \in All(q.dev)' : b.at < q.at
    BY <1>4, <1>5, <2>1 DEF HistoryInv, PollOrder
  <2>3. \A q, r \in polling' : q.dev = r.dev => q = r
    BY <1>4 DEF HistoryInv, PollOrder
  <2>4. \A e \in Devices : \A b, c \in All(e)' : b.at = c.at => b = c
    <3>1. \A b, c \in All(d) \cup {new} : b.at = c.at => b = c
      BY <1>1, <1>3 DEF HistoryInv, PollOrder
    <3> QED  BY <1>5, <3>1 DEF HistoryInv, PollOrder
  <2> QED  BY <2>2, <2>3, <2>4 DEF PollOrder
<1>8. RowsTold'
  <2>1. ~Sparse => full
    BY <1>4 DEF HistoryInv, RowsTold
  <2>2. /\ new.ok <=> new.state # "none"
        /\ new.row \in {"none", new.state}
        /\ new.state = "down" \/ (~Sparse /\ new.state = "up") => new.row = new.state
    BY <1>3, <2>1 DEF Row
  <2>3. Written' \cup done' = (Written \cup done) \cup {new}
    BY <1>2, <1>4 DEF new
  <2>4. ~Sparse /\ phase' \in {"collect", "refused"} => full'
    BY <1>4, <2>1
  <2>5. \A b \in Written \cup done :
          /\ b.ok <=> b.state # "none"
          /\ b.row \in {"none", b.state}
          /\ b.state = "down" \/ (~Sparse /\ b.state = "up") => b.row = b.state
    BY DEF HistoryInv, RowsTold
  <2> QED  BY <2>2, <2>3, <2>4, <2>5 DEF RowsTold
<1>9. ASSUME NEW e \in Devices \ lostPolls PROVE Tells(e)'
  <2>1. tracker \in [Devices -> States \cup {"none"}]
    BY DEF BgpInv, BgpTypeOK
  <2>2. CASE e # d
    <3>1. tracker'[e] = tracker[e]
      BY <1>1, <1>2, <2>1, <2>2
    <3> QED  BY <1>5, <1>9, <2>2, <3>1 DEF HistoryInv, Tells
  <2>3. CASE e = d
    <3>1. Tells(d) /\ tracker'[d] = Tracked(d, s)
      BY <1>1, <1>2, <1>9, <2>1, <2>3 DEF HistoryInv
    <3>2. Samples(d) \subseteq All(d)
      BY DEF Samples
    <3>3. CASE s = "none"
      <4>1. Samples(d)' = Samples(d) /\ tracker'[d] = tracker[d] /\ new.event = <<>>
        BY <1>3, <1>6, <3>1, <3>3 DEF Tracked, Event
      <4> QED  BY <1>5, <2>3, <3>1, <4>1 DEF Tells
    <3>4. CASE s # "none"
      <4>1. Samples(d)' = Samples(d) \cup {new} /\ new.ok
        BY <1>3, <1>6, <3>4
      <4>2. \A c \in Samples(d) : c.at < new.at /\ c.at \in Nat /\ new.at \in Nat /\ ~(new.at <= c.at) /\ c # new
        BY <1>1, <1>3, <3>2
      <4>3. Samples(d)' # {}
        BY <4>1
      <4>4. \A c \in Samples(d)' : c.state # "gone" /\ (\A x \in Samples(d)' : x.at <= c.at) => tracker'[d] = c.state
        <5>1. \A c \in Samples(d)' : (\A x \in Samples(d)' : x.at <= c.at) => c = new
          BY <4>1, <4>2
        <5> QED  BY <1>3, <3>1, <3>4, <5>1 DEF Tracked
      <4>5. \A b \in All(d)' : ~b.ok => b.event = <<>>
        BY <1>5, <3>1, <4>1 DEF Tells
      <4>6. \A b \in Samples(d)' : (\A x \in Samples(d)' : x.at >= b.at) => b.event = <<>>
        <5>1. ASSUME NEW b \in Samples(d), \A x \in Samples(d)' : x.at >= b.at PROVE b.event = <<>>
          BY <3>1, <4>1, <5>1 DEF Tells
        <5>2. ASSUME \A x \in Samples(d)' : x.at >= new.at PROVE new.event = <<>>
          <6>1. Samples(d) = {}
            BY <4>1, <4>2, <5>2
          <6> QED  BY <1>3, <3>1, <6>1 DEF Tells, Event
        <5> QED  BY <4>1, <5>1, <5>2
      <4>7. ASSUME NEW b \in Samples(d)', NEW c \in Samples(d)', Precedes(c, b, Samples(d)'), c.state # "gone"
            PROVE  b.event = IF b.state = c.state THEN <<>> ELSE <<c.state, b.state>>
        <5>1. c \in Samples(d)
          <6>1. c.at < b.at
            BY <4>7 DEF Precedes
          <6> QED  BY <1>1, <1>3, <4>1, <4>2, <4>7, <6>1
        <5>2. CASE b = new
          <6>1. \A x \in Samples(d) : x.at <= c.at
            BY <4>1, <4>2, <4>7, <5>2 DEF Precedes
          <6>2. tracker[d] = c.state
            BY <3>1, <4>7, <5>1, <6>1 DEF Tells
          <6>3. c.state # "none"
            BY <3>2, <5>1 DEF HistoryInv, RowsTold, Samples, All
          <6> QED  BY <1>3, <3>4, <5>2, <6>2, <6>3 DEF Event
        <5>3. CASE b # new
          <6>1. b \in Samples(d) /\ Precedes(c, b, Samples(d))
            BY <4>1, <4>7, <5>3 DEF Precedes
          <6> QED  BY <3>1, <4>7, <5>1, <6>1 DEF Tells
        <5> QED  BY <5>2, <5>3
      <4> QED  BY <2>3, <4>3, <4>4, <4>5, <4>6, <4>7 DEF Tells
    <3> QED  BY <3>3, <3>4
  <2> QED  BY <2>2, <2>3
<1>10. phase' # "dead"
  BY <1>4
<1> QED
  BY <1>4, <1>7, <1>8, <1>9, <1>10 DEF HistoryInv

\* Batches that are dropped leave their devices among those of which a poll was lost.
LEMMA HistoryDropped ==
  ASSUME HistoryInv, Written' = Written, done' = {}, polling' = {}, lostPolls \subseteq lostPolls',
         \A b \in done : b.dev \in lostPolls', tracker' = tracker, phase' = "dead" => lostPolls' = Devices,
         phase' \notin {"collect", "refused"}
  PROVE  HistoryInv'
<1>1. \A d : All(d)' \subseteq All(d) /\ (d \notin lostPolls' => All(d)' = All(d) /\ Samples(d)' = Samples(d))
  BY DEF All, Samples
<1>2. PollOrder'
  BY <1>1 DEF HistoryInv, PollOrder
<1>3. RowsTold'
  BY DEF HistoryInv, RowsTold
<1>4. \A d \in Devices \ lostPolls' : Tells(d)'
  BY <1>1 DEF HistoryInv, Tells
<1> QED
  BY <1>2, <1>3, <1>4 DEF HistoryInv

LEMMA HistoryRestart == BgpInv /\ HistoryInv /\ Restart => HistoryInv'
<1> SUFFICES ASSUME BgpInv, HistoryInv, Restart PROVE HistoryInv'
  OBVIOUS
<1>1. Written' = Written /\ done' = done /\ polling' = {} /\ lostPolls' = Devices /\ phase' = "wait"
  BY SpoolKept DEF BgpInv, PendingInv, Pending, HistoryInv, Restart
<1>2. \A d : All(d)' = All(d)
  BY <1>1 DEF All
<1>3. PollOrder' /\ RowsTold'
  BY <1>1, <1>2 DEF HistoryInv, PollOrder, RowsTold
<1> QED
  BY <1>1, <1>3 DEF HistoryInv

LEMMA HistoryInvStep == BgpInv /\ HistoryInv /\ [BgpNext]_bgpVars => HistoryInv'
<1> SUFFICES ASSUME BgpInv, HistoryInv, [BgpNext]_bgpVars PROVE HistoryInv'
  OBVIOUS
<1>1. CASE BeginRound
  BY <1>1, HistoryBegins
<1>2. CASE \E d \in Devices : Launch(d)
  BY <1>2, HistoryLaunch
<1>3. CASE \E p \in polling : Finish(p)
  BY <1>3, HistoryFinish
<1>4. CASE \E b \in done : Write(b)
  <2>1. PICK b \in done : Write(b)
    BY <1>4
  <2>2. Written' = Written \cup {b}
    BY <2>1, BatchAppended, BatchSealsSegment
  <2>3. Written' \cup done' = Written \cup done
    BY <2>1, <2>2 DEF Write
  <2> QED  BY <2>1, <2>3, HistoryKept DEF Write
<1>5. CASE Refuse \/ EndRound
  <2>1. Written' = Written
    BY <1>5, SpoolKept DEF BgpInv, Refuse, EndRound
  <2> QED  BY <1>5, <2>1, HistoryKept DEF Refuse, EndRound
<1>6. CASE EndRefused
  <2>1. Written' = Written
    BY <1>6, SpoolKept DEF BgpInv, EndRefused
  <2> QED  BY <1>6, <2>1, HistoryDropped DEF EndRefused
<1>7. CASE DeleteSegments
  BY <1>7, SegmentsDeleted, HistoryKept DEF DeleteSegments
<1>8. CASE Crash
  <2>1. lostPolls \subseteq Devices /\ \A b \in done : b.dev \in Devices
    BY DEF BgpInv, BgpTypeOK, Batch
  <2> QED  BY <1>8, <2>1, DeathKeeps, HistoryDropped DEF Crash
<1>9. CASE Restart
  BY <1>9, HistoryRestart
<1>10. CASE Telegraf
  <2>1. Written' = Written /\ UNCHANGED <<spoolVars, tracker, roundVars, lostPolls, crashes>>
    BY <1>10, ActiveIngested, SegmentIngested DEF Telegraf, Ingest
  <2> QED  BY <2>1, HistoryKeptAsIs DEF roundVars
<1>11. CASE UNCHANGED bgpVars
  <2>1. Written' = Written
    BY <1>11, SpoolKept DEF BgpInv, bgpVars
  <2> QED  BY <1>11, <2>1, HistoryKeptAsIs DEF bgpVars, roundVars
<1> QED
  BY <1>1, <1>2, <1>3, <1>4, <1>5, <1>6, <1>7, <1>8, <1>9, <1>10, <1>11 DEF BgpNext, Collector

LEMMA HistoryInvInit == BgpInit => HistoryInv
<1> SUFFICES ASSUME BgpInit PROVE HistoryInv
  OBVIOUS
<1>1. Written = {} /\ done = {} /\ polling = {}
  BY DEF BgpInit, Lines, Spooled, Written, Batches
<1>2. \A d : All(d) = {} /\ Samples(d) = {}
  BY <1>1 DEF All, Samples
<1> QED
  BY <1>1, <1>2 DEF BgpInit, HistoryInv, PollOrder, RowsTold, Tells

----------------------------------------------------------------------------
(* The query: its two ways *)

LEMMA EarliestIs ==
  ASSUME NEW bs, bs # {}, \A b \in bs : b.at \in Nat
  PROVE  Earliest(bs) \in bs /\ \A b \in bs : Earliest(bs).at <= b.at
<1> DEFINE times == {b.at : b \in bs}
<1>1. times \in SUBSET Nat /\ times # {}
  OBVIOUS
<1>2. Min(times) \in times /\ \A t \in times : Min(times) <= t
  <2> HIDE DEF times
  <2> QED  BY <1>1, MinOf
<1>3. \E b \in bs : \A c \in bs : b.at <= c.at
  BY <1>2
<1> QED
  BY <1>3 DEF Earliest

LEMMA LatestIs ==
  ASSUME NEW bs, bs # {}, NEW m \in Nat, \A b \in bs : b.at \in Nat /\ b.at <= m
  PROVE  Latest(bs) \in bs /\ \A b \in bs : b.at <= Latest(bs).at
<1> DEFINE times == {b.at : b \in bs}
<1>1. times \in SUBSET Nat /\ times # {} /\ \A t \in times : t <= m
  OBVIOUS
<1>2. Max(times) \in times /\ \A t \in times : t <= Max(times)
  <2> HIDE DEF times
  <2> QED  BY <1>1, MaxOf
<1>3. \E b \in bs : \A c \in bs : b.at >= c.at
  BY <1>1, <1>2
<1>4. Latest(bs) \in bs /\ \A b \in bs : Latest(bs).at >= b.at
  BY <1>3 DEF Latest
<1> QED
  BY <1>4

\* What is stored of a device of which nothing was lost, and what its events say.
History(d, bound) ==
  /\ \A b \in Of(d) : b.at \in Nat /\ b.at <= bound
  /\ \A b, c \in Of(d) : b.at = c.at => b = c
  /\ \A b \in Of(d) : b.state \in {"up", "down", "none"} /\ (b.ok <=> b.state # "none") /\ (~b.ok => b.event = <<>>)
  /\ \A b \in Of(d) : b.row \in {"none", b.state} /\ (b.state = "down" \/ (~Sparse /\ b.ok) => b.row = b.state)
  /\ \A b \in Of(d) : b.ok /\ (\A x \in Of(d) : x.ok => x.at >= b.at) => b.event = <<>>
  /\ \A b, c \in Of(d) : b.ok /\ c.ok /\ Precedes(c, b, {x \in Of(d) : x.ok}) =>
       b.event = IF b.state = c.state THEN <<>> ELSE <<c.state, b.state>>

LEMMA KnownHistory ==
  ASSUME BgpInv, HistoryInv, phase = "wait", NEW d \in Devices, Known(d)
  PROVE  \E bound \in Nat : History(d, bound)
<1>1. PICK bound \in Nat : \A l \in Written : l.at <= bound
  BY DEF BgpInv, TimesBounded
<1>2. done = {}
  BY DEF BgpInv, PendingInv, Pending
<1>3. Of(d) \subseteq All(d) /\ \A b \in Of(d) : b \in Batch /\ b \in Written /\ b.at \in Nat
  <2>1. Batches(stored) = stored \cap Batch
    <3>1. stored \in SUBSET Line
      BY DEF BgpInv, BgpTypeOK
    <3> QED  BY <3>1, BatchesAre
  <2>2. Written = (Spooled \cup stored) \cap Batch
    BY WrittenAre DEF BgpInv
  <2> QED  BY <2>1, <2>2 DEF Of, All, Batch
<1>4. \A b \in Of(d), l \in All(d) : l \in Of(d) \/ b.at < l.at
  <2> SUFFICES ASSUME NEW b \in Of(d), NEW l \in All(d), l \notin Of(d) PROVE b.at < l.at
    OBVIOUS
  <2>1. l \in Batches(Spooled \ stored) /\ l.dev = d
    BY <1>2 DEF All, Written, Batches, Of
  <2> QED  BY <2>1 DEF Known
<1>5. \A b \in Of(d) : b.ok => b \in Samples(d)
  BY <1>3 DEF Samples
<1>6. \A l \in All(d) : l.at \in Nat
  BY <1>2, WrittenAre DEF BgpInv, All
<1>7. Tells(d)
  BY DEF HistoryInv, Known
<1>8. \A b \in Of(d) : /\ b.state \in {"up", "down", "none"} /\ (b.ok <=> b.state # "none")
                        /\ b.row \in {"none", b.state} /\ (b.state = "down" \/ (~Sparse /\ b.ok) => b.row = b.state)
  <2> SUFFICES ASSUME NEW b \in Of(d)
      PROVE /\ b.state \in {"up", "down", "none"} /\ (b.ok <=> b.state # "none")
            /\ b.row \in {"none", b.state} /\ (b.state = "down" \/ (~Sparse /\ b.ok) => b.row = b.state)
    OBVIOUS
  <2>1. b.state \in {"up", "down", "none"}
    <3>1. b.state # "gone"
      BY DEF Known
    <3>2. b.state \in States \cup {"none"}
      BY <1>3 DEF Batch
    <3> QED  BY <3>1, <3>2, StatesAssumption
  <2>2. b \in Written \cup done
    BY <1>3
  <2> QED  BY <2>1, <2>2 DEF HistoryInv, RowsTold
<1>9. \A b \in Of(d) : ~b.ok => b.event = <<>>
  BY <1>3, <1>7 DEF Tells
<1>10. ASSUME NEW b \in Of(d), b.ok, \A x \in Of(d) : x.ok => x.at >= b.at PROVE b.event = <<>>
  <2>1. \A x \in Samples(d) : x.at >= b.at
    BY <1>3, <1>4, <1>6, <1>10 DEF Samples
  <2> QED  BY <1>5, <1>7, <1>10, <2>1 DEF Tells
<1>11. ASSUME NEW b \in Of(d), NEW c \in Of(d), b.ok, c.ok, Precedes(c, b, {x \in Of(d) : x.ok})
       PROVE  b.event = IF b.state = c.state THEN <<>> ELSE <<c.state, b.state>>
  <2>1. Precedes(c, b, Samples(d))
    <3>1. c.at < b.at /\ \A x \in Of(d) : x.ok => x.at <= c.at \/ x.at >= b.at
      BY <1>11 DEF Precedes
    <3>2. \A x \in Samples(d) : x.at <= c.at \/ x.at >= b.at
      BY <1>3, <1>4, <1>6, <3>1 DEF Samples
    <3> QED  BY <3>1, <3>2 DEF Precedes
  <2>2. c.state # "gone"
    BY DEF Known
  <2> QED  BY <1>5, <1>7, <1>11, <2>1, <2>2 DEF Tells
<1>12. \A b, c \in Of(d) : b.at = c.at => b = c
  BY <1>3 DEF HistoryInv, PollOrder
<1>13. \A b \in Of(d) : b.at \in Nat /\ b.at <= bound
  BY <1>1, <1>3
<1> QED
  BY <1>8, <1>9, <1>10, <1>11, <1>12, <1>13 DEF History

\* Both ways tell a story from steps between states: the steps need only agree on whether some step leads to
\* "up" or away from it, and the states on whether there is another one than "up".
LEMMA EventTypeSame ==
  ASSUME NEW ss, NEW tt, NEW us, NEW vs,
         (\E p \in ss : p[1] = "up" /\ p[2] # "up") <=> (\E p \in tt : p[1] = "up" /\ p[2] # "up"),
         (\E p \in ss : p[1] # "up" /\ p[2] = "up") <=> (\E p \in tt : p[1] # "up" /\ p[2] = "up"),
         (\A p \in tt : ~(p[1] = "up" /\ p[2] # "up")) => (us \ {"up"} # {} <=> vs \ {"up"} # {})
  PROVE  EventType(ss, us) = EventType(tt, vs)
<1>1. CASE \E p \in tt : p[1] = "up" /\ p[2] # "up"
  BY <1>1 DEF EventType
<1>2. CASE ~\E p \in tt : p[1] = "up" /\ p[2] # "up"
  <2>1. us \ {"up"} # {} <=> vs \ {"up"} # {}
    BY <1>2
  <2> QED  BY <1>2, <2>1 DEF EventType
<1> QED
  BY <1>1, <1>2

\* Full snapshots have a row for every sample.
LEMMA SnapshotsTell ==
  ASSUME ~Sparse, NEW d, NEW bound \in Nat, History(d, bound), NEW t, NEW mode
  PROVE  SnapshotEvent(d, t, mode) = PolledEvent(d, t, mode) /\ ~StalePrior(d, t)
<1>1. RowsOf(d) = {b \in Of(d) : b.ok}
  BY DEF History, RowsOf
<1>2. [b \in Of(d) |-> b.row] = [b \in Of(d) |-> b.state]
  BY DEF History
<1>3. ~StalePrior(d, t)
  <2> DEFINE rows == Before(RowsOf(d), t)
  <2>1. rows \subseteq Of(d) /\ \A b \in rows : b.at \in Nat /\ b.at <= bound /\ b.row = b.state
    BY <1>1 DEF History, Before
  <2>2. rows # {} => Latest(rows) \in rows
    <3> HIDE DEF rows
    <3> QED  BY <2>1, LatestIs
  <2> QED  BY <1>1, <2>1, <2>2 DEF StalePrior
<1> QED
  BY <1>1, <1>2, <1>3 DEF SnapshotEvent, PolledEvent

LEMMA TransitionsTell ==
  ASSUME NEW d, NEW bound \in Nat, History(d, bound), NEW t \in Nat, NEW mode \in Modes,
         mode = "rolling" \/ ~StalePrior(d, t)
  PROVE  \/ FastEvent(d, t, mode) = PolledEvent(d, t, "absolute")
         \/ Sparse /\ FastEvent(d, t, mode) = "none" /\ PolledEvent(d, t, "absolute") = "established"
<1> DEFINE samples == {b \in Of(d) : b.ok}
           state == [b \in Of(d) |-> b.state]
           window == Since(samples, t)
           prior == Before(samples, t)
           told == window \cup IF prior = {} THEN {} ELSE {Latest(prior)}
           polled == {<<state[Latest(Before(told, b.at))], state[b]>> : b \in {c \in told : Before(told, c.at) # {}}}
           states == {state[b] : b \in window}
           moves == {b \in Since(Of(d), t) : b.event # <<>>}
           shown == Since(RowsOf(d), t)
           known == Prior(RowsOf(d), t, mode)
           first == IF shown # {} THEN Earliest(shown).row ELSE Earliest(moves).event[2]
           fast == {b.event : b \in moves} \cup {<<Latest(rs).row, first>> : rs \in {known} \ {{}}}
           seen == {b.event[2] : b \in moves} \cup IF shown = {} THEN {} ELSE {Earliest(shown).row, Latest(shown).row}
<1>1. RowsOf(d) \subseteq samples /\ (~Sparse => RowsOf(d) = samples) /\ \A b \in samples : b.state = "down" => b \in RowsOf(d)
  BY DEF History, RowsOf
<1>2. \A b \in Of(d) : b.at \in Nat /\ b.at <= bound /\ state[b] = b.state
  BY DEF History
<1>3. moves \subseteq window /\ shown \subseteq window
  BY <1>1 DEF History, Since
<1>4. PolledEvent(d, t, "absolute") = IF window = {} THEN "none" ELSE EventType(polled, states)
  <2>1. Prior(samples, t, "absolute") = prior
    BY DEF Prior
  <2> QED  BY <2>1 DEF PolledEvent, Story
<1>5. FastEvent(d, t, mode) = IF shown = {} /\ moves = {} THEN "none" ELSE EventType(fast, seen)
  BY DEF FastEvent
<1>6. CASE window = {}
  BY <1>3, <1>4, <1>5, <1>6
<1>7. CASE window # {}
  <2> DEFINE start == Earliest(window)
  <2>2. window \subseteq samples /\ prior \subseteq samples /\ samples \subseteq Of(d)
        /\ (\A b \in window : b.at >= t) /\ (\A b \in prior : b.at < t) /\ samples = window \cup prior
    BY <1>2 DEF Since, Before
  <2>3. start \in window /\ \A b \in window : start.at <= b.at
    <3> HIDE DEF window
    <3> QED  BY <1>2, <1>7, <2>2, EarliestIs
  <2>5. prior # {} => Latest(prior) \in prior /\ \A b \in prior : b.at <= Latest(prior).at
    <3> HIDE DEF prior
    <3> QED  BY <1>2, <2>2, LatestIs
  <2>6. told \subseteq samples /\ \A b \in told : b \in window \/ (prior # {} /\ b = Latest(prior))
    BY <2>2, <2>5
  <2>1. \A b \in samples : b.state \in {"up", "down"}
    BY DEF History
  \* Where the rows begin and end.
  <2>4. shown # {} => /\ Earliest(shown) \in shown /\ (\A b \in shown : Earliest(shown).at <= b.at) /\ Latest(shown) \in shown
                      /\ Earliest(shown).row = Earliest(shown).state /\ Latest(shown).row = Latest(shown).state
    <3>1. \A b \in shown : b \in Of(d) /\ b.row = b.state
      BY DEF History, Since, RowsOf
    <3> HIDE DEF shown
    <3> QED  BY <1>2, <3>1, EarliestIs, LatestIs
  <2> HIDE DEF window, prior, told
  \* The last told sample before one of the window is the one it has its event from.
  <2>7. ASSUME NEW b \in window, NEW c \in samples, c.at < b.at, \A x \in samples : x.at <= c.at \/ x.at >= b.at
        PROVE  c \in told /\ Before(told, b.at) # {} /\ Latest(Before(told, b.at)) = c
    <3>1. c \in told
      <4>1. CASE c \in window
        BY <4>1 DEF told
      <4>2. CASE c \in prior
        <5>1. Latest(prior) \in samples /\ Latest(prior).at < t /\ t <= b.at /\ b.at \in Nat /\ Latest(prior).at \in Nat /\ c.at \in Nat
          BY <1>2, <2>2, <2>5, <4>2
        <5>2. Latest(prior).at <= c.at /\ c.at <= Latest(prior).at
          BY <2>5, <2>7, <4>2, <5>1
        <5>3. c = Latest(prior)
          BY <2>2, <5>1, <5>2 DEF History
        <5> QED  BY <4>2, <5>3 DEF told
      <4> QED  BY <2>2, <4>1, <4>2
    <3>2. c \in Before(told, b.at) /\ Before(told, b.at) \subseteq samples /\ \A x \in Before(told, b.at) : x.at < b.at
      BY <2>6, <2>7, <3>1 DEF Before
    <3>3. Latest(Before(told, b.at)) \in Before(told, b.at) /\ \A x \in Before(told, b.at) : x.at <= Latest(Before(told, b.at)).at
      <4> DEFINE bs == Before(told, b.at)
      <4>1. bs # {} /\ \A x \in bs : x.at \in Nat /\ x.at <= bound
        BY <1>2, <2>2, <3>2
      <4> HIDE DEF bs
      <4>2. Latest(bs) \in bs /\ \A x \in bs : x.at <= Latest(bs).at
        BY <4>1, LatestIs
      <4> QED  BY <4>2 DEF bs
    <3> DEFINE x == Latest(Before(told, b.at))
    <3>4. x \in samples /\ x.at < b.at /\ c.at <= x.at /\ x.at \in Nat /\ c.at \in Nat /\ b.at \in Nat
      BY <1>2, <2>2, <3>2, <3>3
    <3>5. x.at = c.at
      BY <2>7, <3>4
    <3> QED  BY <2>2, <3>1, <3>2, <3>4, <3>5 DEF History
  <2>8. ASSUME NEW b \in window, Before(told, b.at) # {}
        PROVE  LET c == Latest(Before(told, b.at))
               IN c \in samples /\ c \in told /\ c.at < b.at /\ (\A x \in told : x.at < b.at => x.at <= c.at)
                  /\ \A x \in samples : x.at <= c.at \/ x.at >= b.at
    <3> DEFINE bs == Before(told, b.at)
               c == Latest(bs)
    <3>1. bs \subseteq told /\ (\A x \in bs : x.at < b.at) /\ \A x \in told : x.at < b.at => x \in bs
      BY DEF Before
    <3>2. \A x \in bs : x.at \in Nat /\ x.at <= bound
      BY <1>2, <2>2, <2>6, <3>1
    <3>3. c \in bs /\ \A x \in bs : x.at <= c.at
      <4> HIDE DEF bs
      <4> QED  BY <2>8, <3>2, LatestIs DEF bs
    <3> HIDE DEF bs, c
    <3>4. ASSUME NEW x \in samples, x.at < b.at PROVE x.at <= c.at
      <4>1. CASE x \in window
        BY <3>1, <3>3, <3>4, <4>1 DEF told
      <4>2. CASE x \in prior
        <5>1. Latest(prior) \in told /\ Latest(prior).at < t /\ t <= b.at /\ x.at <= Latest(prior).at /\ Latest(prior) \in samples
          BY <2>2, <2>5, <4>2 DEF told
        <5>2. Latest(prior).at < b.at /\ x.at \in Nat /\ Latest(prior).at \in Nat /\ c.at \in Nat /\ b.at \in Nat
          BY <1>2, <2>2, <2>6, <3>1, <3>3, <5>1
        <5>3. Latest(prior).at <= c.at
          BY <3>1, <3>3, <5>1, <5>2
        <5> QED  BY <5>1, <5>2, <5>3
      <4> QED  BY <2>2, <4>1, <4>2
    <3>5. \A x \in samples : x.at \in Nat /\ b.at \in Nat
      BY <1>2, <2>2
    <3>6. \A x \in samples : x.at <= c.at \/ x.at >= b.at
      BY <3>4, <3>5
    <3>7. c \in samples /\ c \in told /\ c.at < b.at /\ \A x \in told : x.at < b.at => x.at <= c.at
      BY <2>6, <3>1, <3>3
    <3> QED  BY <3>6, <3>7 DEF c, bs
  <2>9. ASSUME NEW b \in told, Before(told, b.at) # {} PROVE b \in window
    <3>1. PICK x \in told : x.at < b.at
      BY <2>9 DEF Before
    <3>2. ASSUME b = Latest(prior), prior # {}, b \notin window PROVE FALSE
      <4>1. b.at < t /\ x.at \in Nat /\ b.at \in Nat
        BY <1>2, <2>2, <2>5, <2>6, <3>2
      <4>2. x \in window
        BY <2>6, <3>1, <3>2, <4>1
      <4> QED  BY <2>2, <3>1, <4>1, <4>2
    <3> QED  BY <2>6, <3>2
  <2>10. polled = {<<Latest(Before(told, b.at)).state, b.state>> : b \in {c \in told : Before(told, c.at) # {}}}
    <3>1. \A b \in told : Before(told, b.at) # {} => state[b] = b.state /\ state[Latest(Before(told, b.at))] = Latest(Before(told, b.at)).state
      BY <1>2, <2>2, <2>8, <2>9
    <3> QED  BY <3>1
  \* An event is the step of its sample.
  <2>11. ASSUME NEW b \in moves
         PROVE  b \in window /\ Before(told, b.at) # {} /\ b.event = <<Latest(Before(told, b.at)).state, b.state>>
    <3>1. b \in window /\ b \in samples /\ b.event # <<>>
      BY <1>3, <2>2 DEF window
    <3> DEFINE bs == Before(samples, b.at)
               c == Latest(bs)
    <3>2. bs # {}
      <4>1. \E x \in Of(d) : x.ok /\ ~(x.at >= b.at)
        BY <2>2, <3>1 DEF History
      <4> QED  BY <1>2, <2>2, <3>1, <4>1 DEF Before
    <3>3. bs \subseteq samples /\ (\A x \in bs : x.at < b.at) /\ (\A x \in samples : x.at < b.at => x \in bs)
      BY DEF Before
    <3>4. c \in bs /\ \A x \in bs : x.at <= c.at
      <4>1. \A x \in bs : x.at \in Nat /\ x.at <= bound
        BY <1>2, <2>2, <3>3
      <4> HIDE DEF bs
      <4> QED  BY <3>2, <4>1, LatestIs
    <3> HIDE DEF bs, c
    <3>5. c \in samples /\ c.at < b.at /\ \A x \in samples : x.at <= c.at \/ x.at >= b.at
      BY <1>2, <2>2, <3>1, <3>3, <3>4
    <3>6. c \in told /\ Before(told, b.at) # {} /\ Latest(Before(told, b.at)) = c
      BY <2>7, <3>1, <3>5
    <3>7. b.event = IF b.state = c.state THEN <<>> ELSE <<c.state, b.state>>
      BY <2>2, <3>1, <3>5 DEF History, Precedes
    <3> QED  BY <3>1, <3>6, <3>7
  <2>12. ASSUME NEW b \in window, Before(told, b.at) # {}, Latest(Before(told, b.at)).state # b.state
         PROVE  b \in moves /\ b.event = <<Latest(Before(told, b.at)).state, b.state>>
    <3> DEFINE c == Latest(Before(told, b.at))
    <3>1. c \in samples /\ c.at < b.at /\ \A x \in samples : x.at <= c.at \/ x.at >= b.at
      BY <2>8, <2>12
    <3>2. b.event = <<c.state, b.state>>
      BY <2>2, <2>12, <3>1 DEF History, Precedes
    <3>3. b \in Since(Of(d), t)
      BY <2>2 DEF Since
    <3>4. b.event # <<>>
      BY <3>2
    <3>5. b \in moves
      BY <3>3, <3>4
    <3> QED  BY <3>2, <3>5
  \* A state that the window has and that it did not begin with was stepped into.
  <2>13. ASSUME NEW b0 \in window, (prior # {} /\ Latest(prior).state # b0.state) \/ start.state # b0.state
         PROVE  \E p \in polled : p[1] # b0.state /\ p[2] = b0.state
    <3> DEFINE same == {b \in window : b.state = b0.state}
               b == Earliest(same)
    <3>1. same # {} /\ \A x \in same : x.at \in Nat
      BY <1>2, <2>2
    <3>2. b \in same /\ \A x \in same : b.at <= x.at
      <4> HIDE DEF same
      <4> QED  BY <3>1, EarliestIs
    <3> HIDE DEF b
    <3>3. b \in window /\ b \in told /\ b.state = b0.state /\ b.at \in Nat /\ b.at >= t
      BY <1>2, <2>2, <3>2 DEF told
    <3>4. prior # {} => Latest(prior) \in told /\ Latest(prior).at < b.at /\ Latest(prior).at \in Nat
      BY <1>2, <2>2, <2>5, <3>3 DEF told
    <3>5. start.state # b.state => start \in told /\ start.at < b.at /\ start.at >= t /\ start.at \in Nat
      <4>1. start.state # b.state => start # b
        OBVIOUS
      <4>2. start.at <= b.at /\ start.at \in Nat /\ start.at >= t /\ start \in Of(d) /\ b \in Of(d)
        BY <1>2, <2>2, <2>3, <3>3
      <4>3. start # b => start.at # b.at
        BY <4>2 DEF History
      <4> QED  BY <2>3, <3>3, <4>1, <4>2, <4>3 DEF told
    <3>6. Before(told, b.at) # {}
      BY <2>13, <3>3, <3>4, <3>5 DEF Before
    <3> DEFINE c == Latest(Before(told, b.at))
    <3>7. c \in told /\ c \in samples /\ c.at < b.at /\ \A x \in told : x.at < b.at => x.at <= c.at
      BY <2>8, <3>3, <3>6
    <3>8. <<c.state, b.state>> \in polled
      BY <2>10, <3>3, <3>6
    <3> HIDE DEF c
    <3>9. CASE c \in window
      <4>1. c \notin same
        BY <1>2, <2>2, <3>2, <3>3, <3>7
      <4> QED  BY <3>3, <3>8, <3>9, <4>1
    <3>10. CASE c \notin window
      <4>1. prior # {} /\ c = Latest(prior) /\ c.at < t /\ c.at \in Nat
        BY <1>2, <2>2, <2>5, <2>6, <3>7, <3>10
      <4>2. start.state = b.state
        BY <3>5, <3>7, <4>1
      <4>3. c.state # b0.state
        BY <2>13, <3>3, <4>1, <4>2
      <4> QED  BY <3>3, <3>8, <4>3
    <3> QED  BY <3>9, <3>10
  \* The transitions are the steps of the polls that are steps.
  <2>14. ASSUME NEW b \in moves PROVE b.event \in polled /\ b.event[2] = b.state /\ b \in window
    <3>1. b \in told /\ b \in window /\ Before(told, b.at) # {} /\ b.event = <<Latest(Before(told, b.at)).state, b.state>>
      BY <2>11 DEF told
    <3> HIDE DEF moves, state
    <3>2. b.event \in polled
      BY <2>10, <3>1
    <3> QED  BY <3>1, <3>2
  <2>15. \A p \in polled : p[1] # p[2] => \E b \in moves : b.event = p
    <3> SUFFICES ASSUME NEW p \in polled, p[1] # p[2] PROVE \E b \in moves : b.event = p
      OBVIOUS
    <3>1. PICK b \in told : Before(told, b.at) # {} /\ p = <<Latest(Before(told, b.at)).state, b.state>>
      <4> HIDE DEF state
      <4> QED  BY <2>10
    <3>2. Latest(Before(told, b.at)).state # b.state
      BY <3>1
    <3>3. b \in moves /\ b.event = p
      BY <2>9, <2>12, <3>1, <3>2
    <3> QED  BY <3>3
  <2>16. \A p \in polled : p[1] \in {"up", "down"} /\ p[2] \in {"up", "down"}
    <3> SUFFICES ASSUME NEW p \in polled PROVE p[1] \in {"up", "down"} /\ p[2] \in {"up", "down"}
      OBVIOUS
    <3>1. PICK b \in told : Before(told, b.at) # {} /\ p = <<Latest(Before(told, b.at)).state, b.state>>
      <4> HIDE DEF state
      <4> QED  BY <2>10
    <3>2. Latest(Before(told, b.at)) \in samples /\ b \in samples
      BY <2>6, <2>8, <2>9, <3>1
    <3> QED  BY <2>1, <3>1, <3>2
  <2>17. states = {b.state : b \in window} /\ states \subseteq {"up", "down"}
    <3>1. \A b \in window : state[b] = b.state /\ b.state \in {"up", "down"}
      BY <1>2, <2>1, <2>2
    <3> HIDE DEF state, window
    <3> QED  BY <3>1
  <2>18. \A p \in polled : p[2] \in states
    <3> SUFFICES ASSUME NEW p \in polled PROVE p[2] \in states
      OBVIOUS
    <3>1. PICK b \in told : Before(told, b.at) # {} /\ p = <<Latest(Before(told, b.at)).state, b.state>>
      <4> HIDE DEF state
      <4> QED  BY <2>10
    <3>2. b \in window /\ p[2] = b.state
      BY <2>9, <3>1
    <3> QED  BY <1>2, <2>2, <3>2
  <2> HIDE DEF polled, moves, shown, known, start, states
  <2>19. CASE shown = {} /\ moves = {}
    <3>1. Sparse
      BY <1>1, <1>7, <2>2, <2>19 DEF shown, window
    <3>2. \A b \in window : b.state = "up"
      BY <1>1, <2>1, <2>2, <2>19 DEF shown, Since
    <3>3. states = {"up"}
      BY <1>7, <2>17, <3>2
    <3>4. \A p \in polled : p[1] = "up" /\ p[2] = "up"
      BY <2>15, <2>18, <2>19, <3>3
    <3>5. EventType(polled, states) = "established"
      BY <3>3, <3>4 DEF EventType
    <3> QED  BY <1>4, <1>5, <1>7, <2>19, <3>1, <3>5
  <2>20. CASE shown # {} \/ moves # {}
    \* What the first row, or the first transition, tells is the state of a sample.
    <3>1. \E b \in window : first = b.state
      <4>1. CASE shown # {}
        BY <1>3, <2>4, <4>1 DEF shown
      <4>2. CASE shown = {}
        <5>1. moves # {} /\ \A b \in moves : b.at \in Nat
          BY <1>2, <2>2, <2>14, <2>20, <4>2
        <5>2. Earliest(moves) \in moves
          BY <5>1, EarliestIs
        <5> QED  BY <2>14, <4>2, <5>2
      <4> QED  BY <4>1, <4>2
    <3>2. ASSUME known # {}
          PROVE  prior # {} /\ Latest(known).row = Latest(prior).state /\ Latest(prior).state \in {"up", "down"}
      <4>1. mode = "absolute" /\ known = Before(RowsOf(d), t)
        BY <3>2 DEF known, Prior, Modes
      <4>2. ~StalePrior(d, t)
        BY <4>1
      <4>3. prior # {}
        BY <1>1, <3>2, <4>1 DEF prior, Before
      <4> QED  BY <2>1, <2>2, <2>5, <3>2, <4>1, <4>2, <4>3 DEF StalePrior, prior
    <3>3. ASSUME NEW p \in {<<Latest(rs).row, first>> : rs \in {known} \ {{}}}, p[1] # p[2]
          PROVE  \E q \in polled : q[1] # p[2] /\ q[2] = p[2] /\ {p[1], p[2]} \subseteq {"up", "down"}
      <4>1. known # {} /\ p = <<Latest(known).row, first>>
        OBVIOUS
      <4>2. PICK b0 \in window : first = b0.state
        BY <3>1
      <4>3. b0.state \in {"up", "down"}
        BY <2>1, <2>2
      <4> QED  BY <2>13, <3>2, <3>3, <4>1, <4>2, <4>3
    <3>4. \A p \in fast : (\E b \in moves : p = b.event) \/ p \in {<<Latest(rs).row, first>> : rs \in {known} \ {{}}}
      OBVIOUS
    <3>5. \A b \in moves : b.event \in fast
      OBVIOUS
    <3> HIDE DEF fast, first
    <3>6. (\E p \in fast : p[1] = "up" /\ p[2] # "up") <=> (\E p \in polled : p[1] = "up" /\ p[2] # "up")
      <4>1. ASSUME NEW p \in fast, p[1] = "up", p[2] # "up" PROVE \E q \in polled : q[1] = "up" /\ q[2] # "up"
        <5>1. CASE \E b \in moves : p = b.event
          BY <2>14, <4>1, <5>1
        <5>2. CASE p \in {<<Latest(rs).row, first>> : rs \in {known} \ {{}}}
          <6>1. PICK q \in polled : q[1] # p[2] /\ q[2] = p[2] /\ {p[1], p[2]} \subseteq {"up", "down"}
            BY <3>3, <4>1, <5>2
          <6>2. q[1] \in {"up", "down"}
            BY <2>16
          <6> QED  BY <4>1, <6>1, <6>2
        <5> QED  BY <3>4, <5>1, <5>2
      <4>2. ASSUME NEW p \in polled, p[1] = "up", p[2] # "up" PROVE p \in fast
        <5>1. p[1] # p[2]
          BY <4>2
        <5> QED  BY <2>15, <3>5, <5>1
      <4> QED  BY <4>1, <4>2
    <3>7. (\E p \in fast : p[1] # "up" /\ p[2] = "up") <=> (\E p \in polled : p[1] # "up" /\ p[2] = "up")
      <4>1. ASSUME NEW p \in fast, p[1] # "up", p[2] = "up" PROVE \E q \in polled : q[1] # "up" /\ q[2] = "up"
        <5>1. CASE \E b \in moves : p = b.event
          BY <2>14, <4>1, <5>1
        <5>2. CASE p \in {<<Latest(rs).row, first>> : rs \in {known} \ {{}}}
          <6>1. PICK q \in polled : q[1] # p[2] /\ q[2] = p[2] /\ {p[1], p[2]} \subseteq {"up", "down"}
            BY <3>3, <4>1, <5>2
          <6> QED  BY <4>1, <6>1
        <5> QED  BY <3>4, <5>1, <5>2
      <4>2. ASSUME NEW p \in polled, p[1] # "up", p[2] = "up" PROVE p \in fast
        <5>1. p[1] # p[2]
          BY <4>2
        <5> QED  BY <2>15, <3>5, <5>1
      <4> QED  BY <4>1, <4>2
    <3>8. \A v \in seen : \E b \in window : v = b.state
      <4>1. \A b \in moves : \E x \in window : b.event[2] = x.state
        BY <2>14
      <4>2. shown # {} => \E x \in window, y \in window : Earliest(shown).row = x.state /\ Latest(shown).row = y.state
        BY <1>3, <2>4 DEF shown
      <4> QED  BY <4>1, <4>2
    <3>9. ASSUME \A p \in polled : ~(p[1] = "up" /\ p[2] # "up") PROVE seen \ {"up"} # {} <=> states \ {"up"} # {}
      <4>1. seen \subseteq states
        BY <2>17, <3>8
      <4>2. ASSUME states \ {"up"} # {} PROVE seen \ {"up"} # {}
        <5>1. PICK b0 \in window : b0.state = "down"
          BY <2>17, <4>2
        <5>2. start.state = "down"
          <6> SUFFICES ASSUME start.state # "down" PROVE FALSE
            OBVIOUS
          <6>1. PICK p \in polled : p[1] # "down" /\ p[2] = "down"
            BY <2>13, <5>1
          <6>2. p[1] \in {"up", "down"}
            BY <2>16
          <6> QED  BY <3>9, <6>1, <6>2
        <5>3. start \in shown
          BY <1>1, <1>2, <2>2, <2>3, <5>2 DEF shown, Since
        <5>4. Earliest(shown) = start
          <6>1. Earliest(shown) \in window /\ Earliest(shown).at <= start.at /\ start.at <= Earliest(shown).at
            BY <1>3, <2>3, <2>4, <5>3 DEF shown
          <6>2. Earliest(shown) \in Of(d) /\ start \in Of(d)
            BY <2>2, <2>3, <6>1
          <6>3. Earliest(shown).at = start.at
            BY <1>2, <6>1, <6>2
          <6> QED  BY <6>2, <6>3 DEF History
        <5>5. Earliest(shown).row = "down" /\ shown # {}
          BY <2>4, <5>2, <5>3, <5>4
        <5> QED  BY <5>5
      <4> QED  BY <4>1, <4>2
    <3> HIDE DEF seen
    <3>10. EventType(fast, seen) = EventType(polled, states)
      BY <3>6, <3>7, <3>9, EventTypeSame
    <3> QED  BY <1>4, <1>5, <1>7, <2>20, <3>10 DEF fast, seen, first
  <2> QED  BY <2>19, <2>20
<1> QED
  BY <1>6, <1>7

\* Whoever asks about a device whose history is whole, in either scope and of either kind of collector, gets what
\* the polls saw from the transitions; from full snapshots, too, but for the step into a rolling window.
THEOREM EventsAreTold == BgpSpec => []EventsTellTruth
<1>1. BgpSpec => [](BgpInv /\ HistoryInv)
  BY BgpInvInit, BgpInvStep, HistoryInvInit, HistoryInvStep, PTL DEF BgpSpec
<1>2. BgpInv /\ HistoryInv => EventsTellTruth
  <2> SUFFICES ASSUME BgpInv, HistoryInv, NEW d \in Devices, phase = "wait", Known(d), NEW t \in Windows, NEW mode \in Modes
        PROVE  /\ mode = "rolling" \/ ~StalePrior(d, t) =>
                    \/ FastEvent(d, t, mode) = PolledEvent(d, t, "absolute")
                    \/ Sparse /\ FastEvent(d, t, mode) = "none" /\ PolledEvent(d, t, "absolute") = "established"
               /\ ~Sparse => /\ ~StalePrior(d, t)
                             /\ SnapshotEvent(d, t, mode) = PolledEvent(d, t, mode)
                             /\ mode = "absolute" => Answer(d, t, mode) = PolledEvent(d, t, mode)
    BY DEF EventsTellTruth
  <2>1. PICK bound \in Nat : History(d, bound)
    BY KnownHistory
  <2>2. t \in Nat
    BY DEF Windows, BgpInv, BgpTypeOK
  <2>3. mode = "rolling" \/ ~StalePrior(d, t) =>
          \/ FastEvent(d, t, mode) = PolledEvent(d, t, "absolute")
          \/ Sparse /\ FastEvent(d, t, mode) = "none" /\ PolledEvent(d, t, "absolute") = "established"
    BY <2>1, <2>2, TransitionsTell
  <2>4. ~Sparse => ~StalePrior(d, t) /\ SnapshotEvent(d, t, mode) = PolledEvent(d, t, mode)
    BY <2>1, SnapshotsTell
  <2> QED  BY <2>3, <2>4 DEF Answer
<1> QED
  BY <1>1, <1>2, PTL
=============================================================================
