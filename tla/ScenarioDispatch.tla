-------------------------- MODULE ScenarioDispatch --------------------------
(***************************************************************************)
(* The batch path: execute_on_runtime_pool spreads scenarios over the      *)
(* workers of a runtime, and each worker runs its share one after the      *)
(* other with a ScenarioExecutor of its own: prepare, diagnose, clean up   *)
(* against a deadline, report.  The runtime is quarantined when a cleanup  *)
(* failed.  The fault injector is what the fault handlers promise: a fault *)
(* that is active is tracked until its recovery is reported.               *)
(***************************************************************************)
EXTENDS Naturals

CONSTANTS
  Workers,         \* the runtime's workers
  Share,           \* per worker, the number of scenarios assigned to it
  Timeout,         \* the scale's health timeout, in polling intervals
  MaxDispatches    \* bound: times the runtime is used

ASSUME ShareAssumption == Share \in [Workers -> Nat]
ASSUME BoundsAssumption == Timeout \in Nat \ {0} /\ MaxDispatches \in Nat

VARIABLES
  runtime,         \* RuntimePool.state
  session,         \* whether a dispatch is under way
  dispatches,      \* dispatches started
  lost,            \* some dispatch ended with an exception
  pc,              \* where the worker is
  scenario,        \* the number of its current scenario
  active,          \* a fault is active on the worker's network
  tracked,         \* injector.active_faults is not empty
  traffic,         \* traffic_controller: "none", "stopped" (no active flows) or "running"
  baseline,        \* the backend has its baseline_window
  left,            \* time to the deadline of the cleanup
  attempts,        \* its attempts
  recovery,        \* its recovery_results: "none", "ok" or "failed"
  unconverged,     \* convergence_pending
  cleanup,         \* the status of the cleanup, "raised" when finish failed with an exception
  dirty,           \* cleanup_failed of one of the dispatch's scenarios
  raised           \* _run_worker ends with an exception

faultVars == <<active, tracked>>
prepareVars == <<traffic, baseline>>
loopVars == <<left, attempts, recovery, unconverged, cleanup>>
workerVars == <<scenario, dirty, raised>>
sessionVars == <<runtime, session, dispatches, lost>>
vars == <<sessionVars, pc, workerVars, faultVars, prepareVars, loopVars>>

CleanStatuses == {"clean", "recovered_after_retry"}
FailedStatuses == {"post_recovery_baseline_failed", "terminal_recovery_failure",
                   "post_recovery_convergence_timeout", "recovery_timeout", "raised"}

Pcs == {"done", "starting", "traffic", "baseline", "injecting", "observing", "diagnosing",
        "cleaning", "settling", "verifying", "validating", "reporting", "closing"}

TypeOK ==
  /\ runtime \in {"warm", "quarantined"} /\ session \in BOOLEAN
  /\ dispatches \in 0..MaxDispatches /\ lost \in BOOLEAN
  /\ pc \in [Workers -> Pcs] /\ scenario \in [Workers -> Nat]
  /\ dirty \in [Workers -> BOOLEAN] /\ raised \in [Workers -> BOOLEAN]
  /\ active \in [Workers -> BOOLEAN] /\ tracked \in [Workers -> BOOLEAN]
  /\ traffic \in [Workers -> {"none", "stopped", "running"}] /\ baseline \in [Workers -> BOOLEAN]
  /\ left \in [Workers -> 0..Timeout] /\ attempts \in [Workers -> 0..Timeout]
  /\ recovery \in [Workers -> {"none", "ok", "failed"}] /\ unconverged \in [Workers -> BOOLEAN]
  /\ cleanup \in [Workers -> CleanStatuses \cup FailedStatuses \cup {"none"}]

AllWorkers(value) == [w \in Workers |-> value]

Init ==
  /\ runtime = "warm" /\ session = FALSE /\ dispatches = 0 /\ lost = FALSE
  /\ pc = AllWorkers("done") /\ scenario = AllWorkers(1)
  /\ dirty = AllWorkers(FALSE) /\ raised = AllWorkers(FALSE)
  /\ active = AllWorkers(FALSE) /\ tracked = AllWorkers(FALSE)
  /\ traffic = AllWorkers("none") /\ baseline = AllWorkers(FALSE)
  /\ left = AllWorkers(0) /\ attempts = AllWorkers(0) /\ recovery = AllWorkers("none")
  /\ unconverged = AllWorkers(FALSE) /\ cleanup = AllWorkers("none")

Set(f, w, value) == [f EXCEPT ![w] = value]
Goto(w, place) == pc' = Set(pc, w, place)
----------------------------------------------------------------------------
(* ExecutorIncidentBackend.prepare *)

\* _cleanup_after_scenario starts: the incident is closed, or prepare raised and
\* the incident is broken and finished at once.
CleanUp(w) ==
  /\ Goto(w, "cleaning")
  /\ left' = Set(left, w, Timeout) /\ attempts' = Set(attempts, w, 0)
  /\ recovery' = Set(recovery, w, "none") /\ unconverged' = Set(unconverged, w, FALSE)
  /\ UNCHANGED cleanup

\* Traffic that is running and verified is kept.  Otherwise the old controller is
\* stopped and a new one started.
TrafficKept(w) ==
  /\ pc[w] = "traffic" /\ traffic[w] = "running"
  /\ Goto(w, "baseline")
  /\ UNCHANGED <<sessionVars, workerVars, faultVars, prepareVars, loopVars>>

TrafficStarted(w) ==
  /\ pc[w] = "traffic"
  /\ traffic' = Set(traffic, w, "running")
  /\ Goto(w, "baseline")
  /\ UNCHANGED <<sessionVars, workerVars, faultVars, baseline, loopVars>>

\* Stopping fails and changes nothing, or the controller is gone, or it has no
\* flow because start_matrix failed.
TrafficFails(w) ==
  /\ pc[w] = "traffic"
  /\ traffic' \in {Set(traffic, w, t) : t \in {"none", "stopped", traffic[w]}}
  /\ CleanUp(w)
  /\ UNCHANGED <<sessionVars, workerVars, faultVars, baseline>>

\* The reference window is captured and a second one validated against it.
CaptureBaseline(w) ==
  /\ pc[w] = "baseline"
  /\ \/ baseline' = Set(baseline, w, TRUE) /\ Goto(w, "injecting") /\ UNCHANGED loopVars
     \/ CleanUp(w) /\ UNCHANGED baseline
  /\ UNCHANGED <<sessionVars, workerVars, faultVars, traffic>>

\* observe_episode: a healthy episode injects nothing.
HealthyEpisode(w) ==
  /\ pc[w] = "injecting"
  /\ Goto(w, "observing")
  /\ UNCHANGED <<sessionVars, workerVars, faultVars, prepareVars, loopVars>>

Inject(w) ==
  /\ pc[w] = "injecting"
  /\ active' = Set(active, w, TRUE) /\ tracked' = Set(tracked, w, TRUE)
  /\ Goto(w, "observing")
  /\ UNCHANGED <<sessionVars, workerVars, prepareVars, loopVars>>

\* The injection is refused, or it is undone, or what it left is tracked.
InjectFails(w) ==
  /\ pc[w] = "injecting"
  /\ \/ UNCHANGED faultVars
     \/ \E effect \in BOOLEAN :
          /\ active' = Set(active, w, active[w] \/ effect) /\ tracked' = Set(tracked, w, TRUE)
  /\ CleanUp(w)
  /\ UNCHANGED <<sessionVars, workerVars, prepareVars>>

\* The windows are captured and analysed; an incomplete observation is an error.
Observe(w) ==
  /\ pc[w] = "observing"
  /\ \/ Goto(w, "diagnosing") /\ UNCHANGED loopVars
     \/ CleanUp(w)
  /\ UNCHANGED <<sessionVars, workerVars, faultVars, prepareVars>>

\* The agent's diagnosis is submitted, or its failure recorded; the evaluation
\* in submit may raise.  Either way the incident is closed.
Diagnose(w) ==
  /\ pc[w] = "diagnosing"
  /\ CleanUp(w)
  /\ UNCHANGED <<sessionVars, workerVars, faultVars, prepareVars>>
----------------------------------------------------------------------------
(* ScenarioExecutor._cleanup_after_scenario *)

EndCleanup(w, status) ==
  /\ cleanup' = Set(cleanup, w, status)
  /\ Goto(w, "reporting")

\* Mutant: the status is guessed from the recovery that was attempted.
TimeoutStatusGuessed(pending) == "recovery_timeout"

TimeoutStatus(pending) ==
  IF pending THEN "post_recovery_convergence_timeout" ELSE "recovery_timeout"

\* Mutant: a network that did not converge is given more time, again and again.
NextAttemptUnbounded(w, t, pending) ==
  /\ unconverged' = Set(unconverged, w, pending)
  /\ \/ pending /\ Goto(w, "settling") /\ UNCHANGED <<left, cleanup>>
     \/ ~pending /\ t > 0 /\ Goto(w, "cleaning") /\ left' = Set(left, w, t - 1) /\ UNCHANGED cleanup
     \/ ~pending /\ t = 0 /\ EndCleanup(w, TimeoutStatus(pending)) /\ left' = Set(left, w, 0)

\* An attempt leaves the time t and did not succeed: sleep until the next one, or
\* give up at the deadline.
NextAttempt(w, t, pending) ==
  /\ unconverged' = Set(unconverged, w, pending)
  /\ \/ t > 0 /\ Goto(w, "cleaning") /\ left' = Set(left, w, t - 1) /\ UNCHANGED cleanup
     \/ t = 0 /\ EndCleanup(w, TimeoutStatus(pending)) /\ left' = Set(left, w, 0)

MayAttempt(w) == pc[w] = "cleaning" /\ (attempts[w] = 0 \/ left[w] > 0)

\* No fault is tracked, and every result of the recovery, if any, is good.
RecoveryComplete(w) == ~tracked[w] /\ recovery[w] # "failed"

\* while attempts == 0 or monotonic() < deadline
DeadlinePassed(w) ==
  /\ pc[w] = "cleaning" /\ ~MayAttempt(w)
  /\ EndCleanup(w, TimeoutStatus(unconverged[w]))
  /\ UNCHANGED <<sessionVars, workerVars, faultVars, prepareVars, left, attempts, recovery, unconverged>>

\* recover_all reports every fault recovered.
Recovered(w) ==
  /\ MayAttempt(w) /\ ~RecoveryComplete(w)
  /\ attempts' = Set(attempts, w, attempts[w] + 1)
  /\ active' = Set(active, w, FALSE) /\ tracked' = Set(tracked, w, FALSE)
  /\ recovery' = Set(recovery, w, "ok")
  /\ left' \in {Set(left, w, t) : t \in 0..left[w]}
  /\ Goto(w, "settling")
  /\ UNCHANGED <<sessionVars, workerVars, prepareVars, unconverged, cleanup>>

\* Some fault stays tracked, whatever the recovery did to the network.  A failure
\* that is not retryable ends the loop.
NotRecovered(w) ==
  /\ MayAttempt(w) /\ ~RecoveryComplete(w)
  /\ attempts' = Set(attempts, w, attempts[w] + 1)
  /\ active' \in {active, Set(active, w, FALSE)}
  /\ recovery' = Set(recovery, w, "failed")
  /\ \/ EndCleanup(w, "terminal_recovery_failure") /\ UNCHANGED <<left, unconverged>>
     \/ \E t \in 0..left[w] : NextAttempt(w, t, unconverged[w])
  /\ UNCHANGED <<sessionVars, workerVars, tracked, prepareVars>>

\* Nothing is left to recover: traffic and routing are looked at again.
RecoveredBefore(w) ==
  /\ MayAttempt(w) /\ RecoveryComplete(w)
  /\ attempts' = Set(attempts, w, attempts[w] + 1)
  /\ Goto(w, "verifying")
  /\ UNCHANGED <<sessionVars, workerVars, faultVars, prepareVars, left, recovery, unconverged, cleanup>>

\* post_recovery_wait_seconds, once, after the recovery.
Settle(w) ==
  /\ pc[w] = "settling"
  /\ left' \in {Set(left, w, t) : t \in 0..left[w]}
  /\ Goto(w, "verifying")
  /\ UNCHANGED <<sessionVars, workerVars, faultVars, prepareVars, attempts, recovery, unconverged, cleanup>>

SuccessStatus(w) == IF attempts[w] = 1 THEN "clean" ELSE "recovered_after_retry"

\* Traffic, if there is a controller, and every check of check_worker_health.
Converged(w) ==
  /\ pc[w] = "verifying" /\ traffic[w] # "stopped"
  /\ IF recovery[w] # "none" /\ baseline[w]
     THEN Goto(w, "validating") /\ UNCHANGED cleanup
     ELSE EndCleanup(w, SuccessStatus(w))
  /\ UNCHANGED <<sessionVars, workerVars, faultVars, prepareVars, left, attempts, recovery, unconverged>>

NotConverged(w) ==
  /\ pc[w] = "verifying"
  /\ \E t \in 0..left[w] : NextAttempt(w, t, TRUE)
  /\ UNCHANGED <<sessionVars, workerVars, faultVars, prepareVars, attempts, recovery>>

\* A window after the recovery is held against the baseline of the case.
ValidateBaseline(w) ==
  /\ pc[w] = "validating"
  /\ \E status \in {SuccessStatus(w), "post_recovery_baseline_failed"} : EndCleanup(w, status)
  /\ UNCHANGED <<sessionVars, workerVars, faultVars, prepareVars, left, attempts, recovery, unconverged>>

\* A health check, or the query behind the window, raises: the incident's
\* cleanup fails without a cleanup_result.
CheckRaises(w) ==
  /\ pc[w] \in {"verifying", "validating"}
  /\ EndCleanup(w, "raised")
  /\ UNCHANGED <<sessionVars, workerVars, faultVars, prepareVars, left, attempts, recovery, unconverged>>
----------------------------------------------------------------------------
(* _run_worker *)

\* The scenarios' topologies are checked and the executor is made.
SetUpWorker(w) ==
  /\ pc[w] = "starting"
  /\ \/ Goto(w, IF Share[w] = 0 THEN "closing" ELSE "traffic") /\ UNCHANGED raised
     \/ Goto(w, "done") /\ raised' = Set(raised, w, TRUE)
  /\ UNCHANGED <<sessionVars, scenario, dirty, faultVars, prepareVars, loopVars>>

CleanupSucceeded(w) == cleanup[w] \in CleanStatuses

\* The backend of the next scenario is a new one.
NextScenario(w) ==
  /\ baseline' = Set(baseline, w, FALSE) /\ cleanup' = Set(cleanup, w, "none")
  /\ left' = Set(left, w, 0) /\ attempts' = Set(attempts, w, 0)
  /\ recovery' = Set(recovery, w, "none") /\ unconverged' = Set(unconverged, w, FALSE)

\* Mutant: the scenarios after a failed cleanup are run.
ReportGoesOn(w) ==
  /\ pc[w] = "reporting"
  /\ dirty' = Set(dirty, w, dirty[w] \/ ~CleanupSucceeded(w))
  /\ IF scenario[w] < Share[w]
     THEN Goto(w, "traffic") /\ scenario' = Set(scenario, w, scenario[w] + 1)
     ELSE Goto(w, "closing") /\ UNCHANGED scenario
  /\ NextScenario(w)
  /\ UNCHANGED <<sessionVars, raised, faultVars, traffic>>

\* The result is written, scored and summarised.  After a failed cleanup the
\* remaining scenarios are skipped.
Report(w) ==
  /\ pc[w] = "reporting"
  /\ dirty' = Set(dirty, w, dirty[w] \/ ~CleanupSucceeded(w))
  /\ IF CleanupSucceeded(w) /\ scenario[w] < Share[w]
     THEN Goto(w, "traffic") /\ scenario' = Set(scenario, w, scenario[w] + 1)
     ELSE Goto(w, "closing") /\ UNCHANGED scenario
  /\ NextScenario(w)
  /\ UNCHANGED <<sessionVars, raised, faultVars, traffic>>

\* Writing the result or scoring it raises.
ReportRaises(w) ==
  /\ pc[w] = "reporting"
  /\ raised' = Set(raised, w, TRUE)
  /\ Goto(w, "closing")
  /\ NextScenario(w)
  /\ UNCHANGED <<sessionVars, scenario, dirty, faultVars, traffic>>

\* finally: runner.close(), which raises when the traffic cannot be stopped.
CloseRunner(w) ==
  /\ pc[w] = "closing"
  /\ \/ UNCHANGED raised
     \/ traffic[w] = "running" /\ raised' = Set(raised, w, TRUE)
  /\ Goto(w, "done")
  /\ UNCHANGED <<sessionVars, scenario, dirty, faultVars, prepareVars, loopVars>>
----------------------------------------------------------------------------
(* execute_on_runtime_pool *)

\* Every dispatch makes executors of its own: their injectors track nothing and
\* they have no traffic.
Dispatch ==
  /\ ~session /\ runtime = "warm" /\ dispatches < MaxDispatches
  /\ session' = TRUE /\ dispatches' = dispatches + 1
  /\ pc' = AllWorkers("starting") /\ scenario' = AllWorkers(1)
  /\ dirty' = AllWorkers(FALSE) /\ raised' = AllWorkers(FALSE)
  /\ tracked' = AllWorkers(FALSE)
  /\ traffic' = AllWorkers("none")
  /\ UNCHANGED <<runtime, lost, active, baseline, loopVars>>

AllDone == session /\ \A w \in Workers : pc[w] = "done"
SomeRaised == \E w \in Workers : raised[w]
CleanupFailures == {w \in Workers : dirty[w]}

\* Mutant: one worker that is clean is enough.
CollectAnyClean ==
  /\ AllDone /\ ~SomeRaised
  /\ session' = FALSE
  /\ runtime' = IF CleanupFailures = Workers THEN "quarantined" ELSE runtime
  /\ UNCHANGED <<dispatches, lost, pc, workerVars, faultVars, prepareVars, loopVars>>

\* Every worker has returned its results: a failed cleanup quarantines the runtime.
Collect ==
  /\ AllDone /\ ~SomeRaised
  /\ session' = FALSE
  /\ runtime' = IF CleanupFailures # {} THEN "quarantined" ELSE runtime
  /\ UNCHANGED <<dispatches, lost, pc, workerVars, faultVars, prepareVars, loopVars>>

\* The exception of a worker is raised again once the others have ended.
CollectRaises ==
  /\ AllDone /\ SomeRaised
  /\ session' = FALSE /\ lost' = TRUE
  /\ UNCHANGED <<runtime, dispatches, pc, workerVars, faultVars, prepareVars, loopVars>>
----------------------------------------------------------------------------
Prepare(w) ==
  \/ TrafficKept(w) \/ TrafficStarted(w) \/ TrafficFails(w) \/ CaptureBaseline(w)
  \/ HealthyEpisode(w) \/ Inject(w) \/ InjectFails(w) \/ Observe(w)

CleanupStep(w) ==
  \/ DeadlinePassed(w) \/ Recovered(w) \/ NotRecovered(w) \/ RecoveredBefore(w) \/ Settle(w)
  \/ Converged(w) \/ NotConverged(w) \/ ValidateBaseline(w) \/ CheckRaises(w)

WorkerStep(w) ==
  \/ SetUpWorker(w) \/ Prepare(w) \/ Diagnose(w) \/ CleanupStep(w)
  \/ Report(w) \/ ReportRaises(w) \/ CloseRunner(w)

Next ==
  \/ \E w \in Workers : WorkerStep(w)
  \/ Dispatch \/ Collect \/ CollectRaises

Spec == Init /\ [][Next]_vars

\* The workers' threads keep running, and the caller collects what they return.
Fairness == (\A w \in Workers : WF_vars(WorkerStep(w))) /\ WF_vars(Collect \/ CollectRaises)
FairSpec == Spec /\ Fairness
----------------------------------------------------------------------------
(* Properties *)

\* A scenario starts on a network that no earlier scenario of the dispatch left a
\* fault on: _cleanup_after_scenario only reports success after every fault was
\* recovered, and _run_worker skips what follows a failure.  (After an exception
\* the runtime may be used again as it is.)
StartsClean == \A w \in Workers : pc[w] = "traffic" /\ ~lost => ~active[w] /\ ~tracked[w]

\* A cleanup that reports success, after however many attempts, has left no fault
\* on the network, none in the tracker, and no traffic that failed to start.
SuccessMeansClean ==
  \A w \in Workers :
    pc[w] = "reporting" /\ CleanupSucceeded(w) =>
      ~tracked[w] /\ traffic[w] # "stopped" /\ (active[w] => lost)

\* The reported status says what the cleanup left: nothing, faults that were not
\* recovered, or a network that did not come back.
StatusTruthful ==
  /\ SuccessMeansClean
  /\ \A w \in Workers :
       /\ cleanup[w] = "recovery_timeout" => tracked[w]
       /\ cleanup[w] = "post_recovery_convergence_timeout" => ~tracked[w]

\* A runtime that stays warm has no fault on any of its workers, provided that
\* every dispatch returned its results.
WarmMeansClean ==
  ~session /\ runtime = "warm" /\ ~lost => \A w \in Workers : ~active[w]

\* The same whatever became of the dispatch.
WarmAlwaysClean == ~session /\ runtime = "warm" => \A w \in Workers : ~active[w]

\* Every dispatch ends: the cleanup is bounded by its deadline, however long
\* recovery or convergence fail.
DispatchReturns == session ~> ~session
=============================================================================
