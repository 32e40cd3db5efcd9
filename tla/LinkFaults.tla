----------------------------- MODULE LinkFaults -----------------------------
(***************************************************************************)
(* Link faults as transactions on a live device                            *)
(* (platform/faults/handlers/link.py, services/tracking.py and             *)
(* FaultInjector.recover_all): link_down, and link_flapping with its       *)
(* background thread, on one physical link.  Every docker command may      *)
(* fail, and a command that is reported as failed, or whose readback       *)
(* fails, may have changed the device all the same.                        *)
(*                                                                         *)
(* The executor's thread, Main, injects and recovers; the thread of        *)
(* link_flapping, Flapper, runs beside it.  Each of them works through     *)
(* _set_physical_link one endpoint and one command at a time: a job.       *)
(***************************************************************************)
EXTENDS Tracker

CONSTANTS
  Main, Flapper,   \* the two threads
  Target, Peer,    \* the endpoints of the link
  Links,           \* kinds of links, each the set of its endpoints on client devices
  AccessKinds,     \* the fault types the scenarios inject on a link to a client
  NoJob,           \* the thread is not in _set_physical_link
  MaxFaults,       \* bound: faults injected on the link before they are recovered
  Iterations       \* iterations of link_flapping

Ends == {Target, Peer}
Threads == {Main, Flapper}

ASSUME ThreadsAssumption == Main # Flapper
Kinds == {"link_down", "link_flapping"}

ASSUME LinkAssumption == Target # Peer /\ Links \subseteq SUBSET {Target, Peer}
ASSUME KindsAssumption == AccessKinds \subseteq Kinds
ASSUME BoundsAssumption == MaxFaults \in Nat \ {0} /\ Iterations \in Nat \ {0}

VARIABLES
  up,         \* administrative state of each endpoint's interface
  routes,     \* for an endpoint on a client: its static routes are all there
  faults,     \* FaultTracker.active_faults
  job,        \* what each thread is doing in _set_physical_link
  main,       \* what Main is doing
  pending,    \* recover_all: faults not yet looked at
  remaining,  \* recover_all: remaining_faults
  stopped,    \* recover_link_flapping: the background task has stopped
  flapper,    \* where the flapping thread is, "none" when it does not exist
  rounds,     \* iterations it has left
  stopEvent,  \* its stop_event
  flapSnaps   \* the route_snapshots it was started with

linkVars == <<up, routes>>
recoveryVars == <<pending, remaining, stopped>>
flapVars == <<flapper, rounds, stopEvent, flapSnaps>>
vars == <<linkVars, faults, job, main, recoveryVars, flapVars>>

Fault == [kind : Kinds, snaps : SUBSET Ends, task : BOOLEAN]
Job == [lower : BOOLEAN, undo : BOOLEAN, restoring : BOOLEAN, left : Seq(Ends), tried : Seq(Ends),
        failed : BOOLEAN, residual : BOOLEAN, snaps : SUBSET Ends]

ASSUME JobAssumption == NoJob \notin Job

TypeOK ==
  /\ up \in [Ends -> BOOLEAN] /\ routes \in UNION {[clients -> BOOLEAN] : clients \in Links}
  /\ faults \in Seq(Fault)
  /\ job \in [Threads -> Job \cup {NoJob}]
  /\ main \in {"idle", "recovering", "joining"} \cup Kinds
  /\ pending \in Seq(Fault) /\ remaining \in Seq(Fault) /\ stopped \in BOOLEAN
  /\ flapper \in {"none", "down_wait", "raising", "up_wait", "lowering", "final"}
  /\ rounds \in 0..Iterations /\ stopEvent \in BOOLEAN /\ flapSnaps \subseteq Ends

Init ==
  /\ up = [e \in Ends |-> TRUE] /\ \E clients \in Links : routes = [e \in clients |-> TRUE]
  /\ faults = <<>>
  /\ job = [t \in Threads |-> NoJob]
  /\ main = "idle"
  /\ pending = <<>> /\ remaining = <<>> /\ stopped = FALSE
  /\ flapper = "none" /\ rounds = 0 /\ stopEvent = FALSE /\ flapSnaps = {}

----------------------------------------------------------------------------
(* LinkHandler._set_physical_link *)

SetLink(lower, snaps) ==
  [lower |-> lower, undo |-> FALSE, restoring |-> FALSE, left |-> <<Target, Peer>>, tried |-> <<>>,
   failed |-> FALSE, residual |-> FALSE, snaps |-> snaps]

Busy(t) == job[t] # NoJob /\ job[t].left # <<>>
JobEnded(t) == job[t] # NoJob /\ job[t].left = <<>>
NextEnd(j) == [j EXCEPT !.left = Tail(@), !.restoring = FALSE]
Failed(j) == IF j.undo THEN [j EXCEPT !.residual = TRUE] ELSE [j EXCEPT !.failed = TRUE]

\* _set_link_admin_state(enabled=False) on the next endpoint, with its readback.
\* A failure ends the loop: every endpoint attempted so far, the failed one
\* included, is brought up again in reverse order.
LowerEnd(t) ==
  /\ Busy(t) /\ job[t].lower /\ ~job[t].undo
  /\ LET j == job[t]
         e == Head(j.left)
         tried == <<e>> \o j.tried
     IN  \/ /\ up' = [up EXCEPT ![e] = FALSE]
            /\ job' = [job EXCEPT ![t] = [NextEnd(j) EXCEPT !.tried = tried]]
         \/ /\ up' \in {up, [up EXCEPT ![e] = FALSE]}
            /\ job' = [job EXCEPT ![t] = [j EXCEPT !.failed = TRUE, !.undo = TRUE, !.left = tried]]
  /\ routes' = [e \in DOMAIN routes |-> routes[e] /\ up'[e]]
  /\ UNCHANGED <<faults, main, recoveryVars, flapVars>>

\* _set_link_admin_state(enabled=True): a failure is noted, and the next
\* endpoint is tried.
RaiseEnd(t) ==
  /\ Busy(t) /\ (job[t].lower => job[t].undo) /\ ~job[t].restoring
  /\ LET j == job[t]
         e == Head(j.left)
     IN  \/ /\ up' = [up EXCEPT ![e] = TRUE]
            /\ job' = [job EXCEPT ![t] =
                         IF e \in j.snaps THEN [j EXCEPT !.restoring = TRUE] ELSE NextEnd(j)]
         \/ /\ up' \in {up, [up EXCEPT ![e] = TRUE]}
            /\ job' = [job EXCEPT ![t] = NextEnd(Failed(j))]
  /\ UNCHANGED <<routes, faults, main, recoveryVars, flapVars>>

\* _restore_client_routes replaces the missing routes and reads them back.
RestoreRoutes(t) ==
  /\ Busy(t) /\ job[t].restoring
  /\ LET j == job[t]
         e == Head(j.left)
     IN  \/ /\ up[e]
            /\ routes' = [routes EXCEPT ![e] = TRUE]
            /\ job' = [job EXCEPT ![t] = NextEnd(j)]
         \/ /\ routes' \in {routes, [routes EXCEPT ![e] = @ \/ up[e]]}
            /\ job' = [job EXCEPT ![t] = NextEnd(Failed(j))]
  /\ UNCHANGED <<up, faults, main, recoveryVars, flapVars>>

Succeeded(t) == ~job[t].failed
StartJob(t, lower, snaps) == job' = [job EXCEPT ![t] = SetLink(lower, snaps)]
EndJob(t) == job' = [job EXCEPT ![t] = NoJob]

----------------------------------------------------------------------------
(* Injection *)

\* _snapshot_client_routes of both endpoints: an empty snapshot restores nothing.
Snapshot == {e \in DOMAIN routes : routes[e]}

Inject(kind) ==
  /\ main = "idle" /\ Len(faults) < MaxFaults
  /\ DOMAIN routes # {} => kind \in AccessKinds
  /\ kind = "link_flapping" => flapper = "none"
  /\ main' = kind
  /\ StartJob(Main, TRUE, Snapshot)
  /\ UNCHANGED <<linkVars, faults, recoveryVars, flapVars>>

\* Mutant: only a successful injection is tracked.
LinkDownTrackedIfDone ==
  /\ main = "link_down" /\ JobEnded(Main)
  /\ faults' = IF Succeeded(Main)
               THEN Append(faults, [kind |-> "link_down", snaps |-> job[Main].snaps, task |-> FALSE])
               ELSE faults
  /\ EndJob(Main)
  /\ main' = "idle"
  /\ UNCHANGED <<linkVars, recoveryVars, flapVars>>

\* inject_link_down tracks the fault, or a mutation it could not undo.
LinkDownInjected ==
  /\ main = "link_down" /\ JobEnded(Main)
  /\ faults' = IF Succeeded(Main) \/ job[Main].residual
               THEN Append(faults, [kind |-> "link_down", snaps |-> job[Main].snaps, task |-> FALSE])
               ELSE faults
  /\ EndJob(Main)
  /\ main' = "idle"
  /\ UNCHANGED <<linkVars, recoveryVars, flapVars>>

\* inject_link_flapping starts the thread and tracks the fault ...
FlappingInjected ==
  /\ main = "link_flapping" /\ JobEnded(Main) /\ Succeeded(Main)
  /\ faults' = Append(faults, [kind |-> "link_flapping", snaps |-> job[Main].snaps, task |-> TRUE])
  /\ flapper' = "down_wait" /\ rounds' = Iterations /\ stopEvent' = FALSE
  /\ flapSnaps' = job[Main].snaps
  /\ EndJob(Main)
  /\ main' = "idle"
  /\ UNCHANGED <<linkVars, recoveryVars>>

\* ... and what its failed compensation leaves is tracked without the snapshots.
FlappingNotInjected ==
  /\ main = "link_flapping" /\ JobEnded(Main) /\ ~Succeeded(Main)
  /\ faults' = IF job[Main].residual
               THEN Append(faults, [kind |-> "link_flapping", snaps |-> {}, task |-> FALSE])
               ELSE faults
  /\ EndJob(Main)
  /\ main' = "idle"
  /\ UNCHANGED <<linkVars, recoveryVars, flapVars>>

----------------------------------------------------------------------------
(* The thread of link_flapping: _run_flap_loop, which ignores every result *)

Flap(label) == flapper' = label
LastPass == Flap("final") /\ StartJob(Flapper, FALSE, flapSnaps) /\ UNCHANGED rounds

FlapperDownWait ==
  /\ flapper = "down_wait"
  /\ \/ stopEvent /\ LastPass
     \/ ~stopEvent /\ Flap("raising") /\ StartJob(Flapper, FALSE, flapSnaps) /\ UNCHANGED rounds
  /\ UNCHANGED <<linkVars, faults, main, recoveryVars, stopEvent, flapSnaps>>

FlapperRaised ==
  /\ flapper = "raising" /\ JobEnded(Flapper)
  /\ Flap("up_wait")
  /\ EndJob(Flapper)
  /\ UNCHANGED <<linkVars, faults, main, recoveryVars, rounds, stopEvent, flapSnaps>>

FlapperUpWait ==
  /\ flapper = "up_wait"
  /\ \/ (stopEvent \/ rounds = 1) /\ LastPass
     \/ /\ ~stopEvent /\ rounds > 1
        /\ Flap("lowering") /\ rounds' = rounds - 1
        /\ StartJob(Flapper, TRUE, flapSnaps)
  /\ UNCHANGED <<linkVars, faults, main, recoveryVars, stopEvent, flapSnaps>>

FlapperLowered ==
  /\ flapper = "lowering" /\ JobEnded(Flapper)
  /\ Flap("down_wait")
  /\ EndJob(Flapper)
  /\ UNCHANGED <<linkVars, faults, main, recoveryVars, rounds, stopEvent, flapSnaps>>

\* The thread unregisters its control and ends.
FlapperEnds ==
  /\ flapper = "final" /\ JobEnded(Flapper)
  /\ Flap("none") /\ rounds' = 0 /\ stopEvent' = FALSE /\ flapSnaps' = {}
  /\ EndJob(Flapper)
  /\ UNCHANGED <<linkVars, faults, main, recoveryVars>>

----------------------------------------------------------------------------
(* FaultInjector.recover_all *)

RecoverAll ==
  /\ main = "idle" /\ faults # <<>>
  /\ main' = "recovering"
  /\ pending' = faults /\ remaining' = <<>>
  /\ UNCHANGED <<linkVars, faults, job, stopped, flapVars>>

\* recover_link_down, or recover_link_flapping without a task that still runs.
RecoverNext ==
  /\ main = "recovering" /\ job[Main] = NoJob /\ pending # <<>>
  /\ ~(Head(pending).task /\ flapper # "none")
  /\ stopped' = TRUE
  /\ StartJob(Main, FALSE, Head(pending).snaps)
  /\ UNCHANGED <<linkVars, faults, main, pending, remaining, flapVars>>

\* FaultTracker.stop_background asks the thread to stop ...
StopFlapper ==
  /\ main = "recovering" /\ job[Main] = NoJob /\ pending # <<>>
  /\ Head(pending).task /\ flapper # "none"
  /\ stopEvent' = TRUE
  /\ main' = "joining"
  /\ UNCHANGED <<linkVars, faults, job, recoveryVars, flapper, rounds, flapSnaps>>

\* ... and waits for it up to five seconds, which it may exceed.
JoinFlapper ==
  /\ main = "joining"
  /\ stopped' = (flapper = "none")
  /\ main' = "recovering"
  /\ StartJob(Main, FALSE, Head(pending).snaps)
  /\ UNCHANGED <<linkVars, faults, pending, remaining, flapVars>>

\* Mutant: a fault that does not recover is tried again at once.
RecoverOneStubborn ==
  /\ main = "recovering" /\ JobEnded(Main)
  /\ LET fault == Head(pending)
     IN  IF stopped /\ Succeeded(Main)
         THEN faults' = Without(faults, {fault.kind}) /\ pending' = Tail(pending)
         ELSE UNCHANGED <<faults, pending>>
  /\ EndJob(Main)
  /\ UNCHANGED <<linkVars, main, remaining, stopped, flapVars>>

\* A recovered fault leaves the tracker with all of its kind on this link.
RecoverOne ==
  /\ main = "recovering" /\ JobEnded(Main)
  /\ LET fault == Head(pending)
     IN  IF stopped /\ Succeeded(Main)
         THEN faults' = Without(faults, {fault.kind}) /\ UNCHANGED remaining
         ELSE remaining' = Append(remaining, fault) /\ UNCHANGED faults
  /\ pending' = Tail(pending)
  /\ EndJob(Main)
  /\ UNCHANGED <<linkVars, main, stopped, flapVars>>

RecoverAllEnds ==
  /\ main = "recovering" /\ job[Main] = NoJob /\ pending = <<>>
  /\ faults' = remaining
  /\ main' = "idle"
  /\ remaining' = <<>> /\ stopped' = FALSE
  /\ UNCHANGED <<linkVars, job, pending, flapVars>>

----------------------------------------------------------------------------
JobStep(t) == LowerEnd(t) \/ RaiseEnd(t) \/ RestoreRoutes(t)

MainStep ==
  \/ JobStep(Main)
  \/ LinkDownInjected \/ FlappingInjected \/ FlappingNotInjected
  \/ RecoverNext \/ StopFlapper \/ JoinFlapper \/ RecoverOne \/ RecoverAllEnds

FlapperStep ==
  \/ JobStep(Flapper)
  \/ FlapperDownWait \/ FlapperRaised \/ FlapperUpWait \/ FlapperLowered \/ FlapperEnds

Next ==
  \/ MainStep
  \/ FlapperStep
  \/ RecoverAll
  \/ \E kind \in Kinds : Inject(kind)

Spec == Init /\ [][Next]_vars

\* Every command returns (CommandRunner kills it after its timeout), so both
\* threads keep running.
Fairness == WF_vars(MainStep) /\ WF_vars(FlapperStep)
FairSpec == Spec /\ Fairness
----------------------------------------------------------------------------
(* Properties *)

Clean == (\A e \in Ends : up[e]) /\ \A e \in DOMAIN routes : routes[e]

\* Whatever failed on the way, a link that no tracked fault accounts for is as
\* it was before the scenario: its interfaces are up, its clients have their
\* routes and no thread is left that will take it down, and a flapping thread
\* that is left, also after a join that timed out, belongs to a tracked fault (FaultTracker: "Track a
\* mutation that could not be verified or fully compensated").
UntrackedMeansClean ==
  main = "idle" =>
    /\ faults = <<>> => Clean
    /\ flapper # "none" => \E i \in DOMAIN faults : faults[i].task  \* so that it can still be stopped

\* recover_all returns although commands fail and the thread may not stop, and
\* the flapping thread ends whether a recovery asks it to stop or nobody does.
BothThreadsEnd == (main = "recovering" ~> main = "idle") /\ (flapper # "none" ~> flapper = "none")
=============================================================================
