----------------------- MODULE ScenarioDispatchProofs -----------------------
(***************************************************************************)
(* Proofs about ScenarioDispatch, for any runtime, any share of scenarios  *)
(* and any timeout.                                                        *)
(***************************************************************************)
EXTENDS ScenarioDispatch, TLAPS

\* A fault is forgotten by its injector only with a dispatch that raised.
FaultTracked(w) == active[w] => tracked[w] \/ lost

\* What the injector tracks at each place of a worker.
TrackedWhere(w) ==
  /\ pc[w] \in {"starting", "traffic", "baseline", "injecting"} => ~tracked[w]
  /\ pc[w] \in {"settling", "verifying", "validating"} => ~tracked[w]
  /\ pc[w] \in {"closing", "done"} /\ tracked[w] => dirty[w] \/ raised[w]

\* A cleanup is reported where it ends, and success after every check.
Reported(w) ==
  /\ cleanup[w] # "none" => pc[w] = "reporting"
  /\ CleanupSucceeded(w) => ~tracked[w] /\ traffic[w] # "stopped"
  /\ pc[w] = "validating" => traffic[w] # "stopped"
  /\ cleanup[w] = "recovery_timeout" => tracked[w]
  /\ cleanup[w] = "post_recovery_convergence_timeout" => ~tracked[w]

\* Between two attempts, the network waits for convergence exactly when the faults
\* were recovered.
AttemptsAgree(w) ==
  /\ pc[w] \in {"settling", "verifying"} => recovery[w] # "failed" /\ attempts[w] > 0
  /\ pc[w] = "cleaning" =>
       /\ recovery[w] = "failed" => tracked[w]
       /\ attempts[w] = 0 => ~unconverged[w]
       /\ attempts[w] > 0 => (unconverged[w] <=> ~tracked[w])

\* Each attempt but the first costs time.
AttemptsBounded(w) ==
  /\ pc[w] = "cleaning" => attempts[w] + left[w] <= Timeout
  /\ pc[w] \in {"settling", "verifying"} => attempts[w] + left[w] <= Timeout + 1

WorkerInv(w) ==
  /\ FaultTracked(w) /\ TrackedWhere(w) /\ Reported(w)
  /\ AttemptsAgree(w) /\ AttemptsBounded(w)

\* What remains of a dispatch when its workers are done.
BetweenDispatches ==
  ~session =>
    /\ \A w \in Workers : pc[w] = "done"
    /\ runtime = "warm" /\ ~lost => \A w \in Workers : ~tracked[w]

IInv == TypeOK /\ (\A w \in Workers : WorkerInv(w)) /\ BetweenDispatches
----------------------------------------------------------------------------
(* Type correctness *)

LEMMA AttemptAllowed ==
  ASSUME TypeOK, NEW w \in Workers, MayAttempt(w), AttemptsBounded(w)
  PROVE  attempts[w] + 1 \in 0..Timeout
BY BoundsAssumption DEF TypeOK, MayAttempt, AttemptsBounded

LEMMA CleanUpType ==
  ASSUME TypeOK, NEW w \in Workers, CleanUp(w)
  PROVE  /\ pc' \in [Workers -> Pcs] /\ left' \in [Workers -> 0..Timeout]
         /\ attempts' \in [Workers -> 0..Timeout]
         /\ recovery' \in [Workers -> {"none", "ok", "failed"}]
         /\ unconverged' \in [Workers -> BOOLEAN]
         /\ cleanup' \in [Workers -> CleanStatuses \cup FailedStatuses \cup {"none"}]
BY BoundsAssumption DEF TypeOK, CleanUp, Goto, Set, Pcs

LEMMA PrepareType ==
  ASSUME TypeOK, NEW w \in Workers, Prepare(w) \/ Diagnose(w)
  PROVE  TypeOK'
<1> USE DEF TypeOK, Goto, Set, Pcs, sessionVars, workerVars, faultVars, prepareVars, loopVars
<1>1. CASE TrafficKept(w)
  BY <1>1 DEF TrafficKept
<1>2. CASE TrafficStarted(w)
  BY <1>2 DEF TrafficStarted
<1>3. CASE TrafficFails(w)
  BY <1>3, CleanUpType DEF TrafficFails
<1>4. CASE CaptureBaseline(w)
  BY <1>4, CleanUpType DEF CaptureBaseline
<1>5. CASE HealthyEpisode(w)
  BY <1>5 DEF HealthyEpisode
<1>6. CASE Inject(w)
  BY <1>6 DEF Inject
<1>7. CASE InjectFails(w)
  BY <1>7, CleanUpType DEF InjectFails
<1>8. CASE Observe(w)
  BY <1>8, CleanUpType DEF Observe
<1>9. CASE Diagnose(w)
  BY <1>9, CleanUpType DEF Diagnose
<1> QED
  BY <1>1, <1>2, <1>3, <1>4, <1>5, <1>6, <1>7, <1>8, <1>9 DEF Prepare

LEMMA EndCleanupType ==
  ASSUME TypeOK, NEW w \in Workers, NEW status \in CleanStatuses \cup FailedStatuses,
         EndCleanup(w, status)
  PROVE  /\ pc' \in [Workers -> Pcs]
         /\ cleanup' \in [Workers -> CleanStatuses \cup FailedStatuses \cup {"none"}]
BY DEF TypeOK, EndCleanup, Goto, Set, Pcs

LEMMA NextAttemptType ==
  ASSUME TypeOK, NEW w \in Workers, NEW pending \in BOOLEAN, NEW t \in 0..left[w],
         NextAttempt(w, t, pending)
  PROVE  /\ pc' \in [Workers -> Pcs] /\ left' \in [Workers -> 0..Timeout]
         /\ unconverged' \in [Workers -> BOOLEAN]
         /\ cleanup' \in [Workers -> CleanStatuses \cup FailedStatuses \cup {"none"}]
<1>1. TimeoutStatus(pending) \in CleanStatuses \cup FailedStatuses
  BY DEF TimeoutStatus, FailedStatuses
<1>2. unconverged' \in [Workers -> BOOLEAN]
  BY DEF TypeOK, NextAttempt, Set
<1>3. CASE t > 0 /\ Goto(w, "cleaning") /\ left' = Set(left, w, t - 1) /\ UNCHANGED cleanup
  <2>1. t - 1 \in 0..Timeout
    BY <1>3, BoundsAssumption DEF TypeOK
  <2> QED
    BY <1>2, <1>3, <2>1 DEF TypeOK, Goto, Set, Pcs
<1>4. CASE EndCleanup(w, TimeoutStatus(pending)) /\ left' = Set(left, w, 0)
  BY <1>1, <1>2, <1>4, EndCleanupType, BoundsAssumption DEF TypeOK, Set
<1> QED
  BY <1>3, <1>4 DEF NextAttempt

LEMMA TimePassesType ==
  ASSUME TypeOK, NEW w \in Workers, left' \in {Set(left, w, t) : t \in 0..left[w]}
  PROVE  left' \in [Workers -> 0..Timeout]
<1>1. PICK t \in 0..left[w] : left' = Set(left, w, t)
  OBVIOUS
<1>2. t \in 0..Timeout
  BY BoundsAssumption DEF TypeOK
<1> QED
  BY <1>1, <1>2 DEF TypeOK, Set

LEMMA CleanupType ==
  ASSUME TypeOK, NEW w \in Workers, AttemptsBounded(w), CleanupStep(w)
  PROVE  TypeOK'
<1> USE DEF sessionVars, workerVars, faultVars, prepareVars, loopVars
<1>1. CASE DeadlinePassed(w)
  <2>1. TimeoutStatus(unconverged[w]) \in CleanStatuses \cup FailedStatuses
    BY DEF TimeoutStatus, FailedStatuses
  <2> QED
    BY <1>1, <2>1, EndCleanupType DEF TypeOK, DeadlinePassed
<1>2. CASE Recovered(w)
  <2>1. left' \in [Workers -> 0..Timeout]
    BY <1>2, TimePassesType DEF Recovered
  <2>2. pc' \in [Workers -> Pcs] /\ attempts' \in [Workers -> 0..Timeout]
    BY <1>2, AttemptAllowed DEF TypeOK, Recovered, Goto, Set, Pcs
  <2> QED
    BY <1>2, <2>1, <2>2 DEF TypeOK, Recovered, Set
<1>3. CASE NotRecovered(w)
  <2>1. /\ attempts' \in [Workers -> 0..Timeout] /\ active' \in [Workers -> BOOLEAN]
        /\ recovery' \in [Workers -> {"none", "ok", "failed"}]
        /\ UNCHANGED <<sessionVars, workerVars, tracked, prepareVars>>
    BY <1>3, AttemptAllowed DEF TypeOK, NotRecovered, Set
  <2>2. CASE EndCleanup(w, "terminal_recovery_failure") /\ UNCHANGED <<left, unconverged>>
    BY <2>1, <2>2, EndCleanupType DEF TypeOK, FailedStatuses
  <2>3. CASE \E t \in 0..left[w] : NextAttempt(w, t, unconverged[w])
    BY <2>1, <2>3, NextAttemptType DEF TypeOK
  <2> QED
    BY <1>3, <2>2, <2>3 DEF NotRecovered
<1>4. CASE RecoveredBefore(w)
  BY <1>4, AttemptAllowed DEF TypeOK, RecoveredBefore, Goto, Set, Pcs
<1>5. CASE Settle(w)
  <2>1. left' \in [Workers -> 0..Timeout]
    BY <1>5, TimePassesType DEF Settle
  <2> QED
    BY <1>5, <2>1 DEF TypeOK, Settle, Goto, Set, Pcs
<1>6. CASE Converged(w)
  <2>1. SuccessStatus(w) \in CleanStatuses \cup FailedStatuses
    BY DEF SuccessStatus, CleanStatuses
  <2> QED
    BY <1>6, <2>1, EndCleanupType DEF TypeOK, Converged, Goto, Set, Pcs
<1>7. CASE NotConverged(w)
  BY <1>7, NextAttemptType DEF TypeOK, NotConverged
<1>8. CASE ValidateBaseline(w)
  BY <1>8, EndCleanupType DEF TypeOK, ValidateBaseline, SuccessStatus, CleanStatuses, FailedStatuses
<1>9. CASE CheckRaises(w)
  BY <1>9, EndCleanupType DEF TypeOK, CheckRaises, FailedStatuses
<1> QED
  BY <1>1, <1>2, <1>3, <1>4, <1>5, <1>6, <1>7, <1>8, <1>9 DEF CleanupStep

LEMMA RunType ==
  ASSUME TypeOK, NEW w \in Workers,
         SetUpWorker(w) \/ Report(w) \/ ReportRaises(w) \/ CloseRunner(w)
  PROVE  TypeOK'
<1> USE BoundsAssumption
    DEF TypeOK, Goto, Set, Pcs, sessionVars, workerVars, faultVars, prepareVars, loopVars
<1>1. CASE SetUpWorker(w)
  BY <1>1 DEF SetUpWorker
<1>2. CASE Report(w)
  BY <1>2 DEF Report, NextScenario, CleanupSucceeded
<1>3. CASE ReportRaises(w)
  BY <1>3 DEF ReportRaises, NextScenario
<1>4. CASE CloseRunner(w)
  BY <1>4 DEF CloseRunner
<1> QED
  BY <1>1, <1>2, <1>3, <1>4

LEMMA SessionType ==
  ASSUME TypeOK, Dispatch \/ Collect \/ CollectRaises
  PROVE  TypeOK'
<1> USE DEF TypeOK, Pcs, AllWorkers, sessionVars, workerVars, faultVars, prepareVars, loopVars
<1>1. CASE Dispatch
  BY <1>1, BoundsAssumption DEF Dispatch
<1>2. CASE Collect
  BY <1>2 DEF Collect
<1>3. CASE CollectRaises
  BY <1>3 DEF CollectRaises
<1> QED
  BY <1>1, <1>2, <1>3
----------------------------------------------------------------------------
(* The invariant of a worker *)

\* Everything the invariant of worker v reads.
Unmoved(v) ==
  /\ pc'[v] = pc[v] /\ active'[v] = active[v] /\ tracked'[v] = tracked[v] /\ lost' = lost
  /\ dirty'[v] = dirty[v] /\ raised'[v] = raised[v] /\ traffic'[v] = traffic[v]
  /\ left'[v] = left[v] /\ attempts'[v] = attempts[v] /\ recovery'[v] = recovery[v]
  /\ unconverged'[v] = unconverged[v] /\ cleanup'[v] = cleanup[v]

LEMMA UnmovedKeeps ==
  ASSUME NEW v \in Workers, WorkerInv(v), Unmoved(v)
  PROVE  WorkerInv(v)'
BY DEF Unmoved, WorkerInv, FaultTracked, TrackedWhere, Reported, AttemptsAgree,
       AttemptsBounded, CleanupSucceeded

\* A worker touches no other worker.
LEMMA StepIsLocal ==
  ASSUME TypeOK, NEW w \in Workers, NEW v \in Workers \ {w}, WorkerStep(w)
  PROVE  Unmoved(v)
<1> USE DEF TypeOK, Unmoved, Goto, Set, CleanUp, EndCleanup, NextAttempt, NextScenario,
            sessionVars, workerVars, faultVars, prepareVars, loopVars
<1>1. CASE SetUpWorker(w) \/ Report(w) \/ ReportRaises(w) \/ CloseRunner(w)
  BY <1>1 DEF SetUpWorker, Report, ReportRaises, CloseRunner
<1>2. CASE TrafficKept(w) \/ TrafficStarted(w) \/ TrafficFails(w)
  BY <1>2 DEF TrafficKept, TrafficStarted, TrafficFails
<1>3. CASE CaptureBaseline(w) \/ HealthyEpisode(w) \/ Inject(w)
  BY <1>3 DEF CaptureBaseline, HealthyEpisode, Inject
<1>4. CASE InjectFails(w) \/ Observe(w) \/ Diagnose(w)
  BY <1>4 DEF InjectFails, Observe, Diagnose
<1>5. CASE DeadlinePassed(w) \/ Recovered(w) \/ NotRecovered(w)
  BY <1>5 DEF DeadlinePassed, Recovered, NotRecovered
<1>6. CASE RecoveredBefore(w) \/ Settle(w) \/ Converged(w)
  BY <1>6 DEF RecoveredBefore, Settle, Converged
<1>7. CASE NotConverged(w) \/ ValidateBaseline(w) \/ CheckRaises(w)
  BY <1>7 DEF NotConverged, ValidateBaseline, CheckRaises
<1> QED
  BY <1>1, <1>2, <1>3, <1>4, <1>5, <1>6, <1>7 DEF WorkerStep, Prepare, CleanupStep

\* A cleanup starts with nothing attempted.
LEMMA CleanUpStarts ==
  ASSUME TypeOK, NEW w \in Workers, CleanUp(w), UNCHANGED lost,
         cleanup[w] = "none", FaultTracked(w)'
  PROVE  WorkerInv(w)'
<1>1. pc'[w] = "cleaning" /\ attempts'[w] = 0 /\ left'[w] = Timeout
  BY BoundsAssumption DEF TypeOK, CleanUp, Goto, Set
<1>2. ~unconverged'[w] /\ recovery'[w] = "none" /\ cleanup'[w] = "none"
  BY DEF TypeOK, CleanUp, Set
<1>3. TrackedWhere(w)' /\ Reported(w)'
  BY <1>1, <1>2 DEF TrackedWhere, Reported, CleanupSucceeded, CleanStatuses
<1>4. AttemptsAgree(w)' /\ AttemptsBounded(w)'
  BY <1>1, <1>2, BoundsAssumption DEF AttemptsAgree, AttemptsBounded
<1> QED
  BY <1>3, <1>4 DEF WorkerInv

LEMMA PrepareKeeps ==
  ASSUME TypeOK, NEW w \in Workers, WorkerInv(w), Prepare(w) \/ Diagnose(w)
  PROVE  WorkerInv(w)'
<1> USE DEF sessionVars, workerVars, faultVars, prepareVars, loopVars
<1>1. cleanup[w] = "none" /\ UNCHANGED lost
  BY DEF WorkerInv, Reported, Prepare, Diagnose, TrafficKept, TrafficStarted, TrafficFails,
         CaptureBaseline, HealthyEpisode, Inject, InjectFails, Observe
<1>2. ASSUME CleanUp(w), UNCHANGED faultVars  PROVE WorkerInv(w)'
  <2>1. FaultTracked(w)'
    BY <1>1, <1>2 DEF WorkerInv, FaultTracked
  <2> QED
    BY <1>1, <1>2, <2>1, CleanUpStarts
<1>3. ASSUME UNCHANGED loopVars,
             pc'[w] \in {"baseline", "injecting", "observing", "diagnosing"},
             pc'[w] \in {"baseline", "injecting"} => ~tracked'[w],
             FaultTracked(w)'
      PROVE  WorkerInv(w)'
  BY <1>1, <1>3 DEF WorkerInv, TrackedWhere, Reported, AttemptsAgree, AttemptsBounded,
                    CleanupSucceeded, CleanStatuses
<1>4. CASE TrafficKept(w) \/ TrafficStarted(w) \/ HealthyEpisode(w)
  <2>1. pc'[w] \in {"baseline", "observing"} /\ UNCHANGED <<faultVars, loopVars, lost>>
    BY <1>4 DEF TypeOK, TrafficKept, TrafficStarted, HealthyEpisode, Goto, Set
  <2>2. pc'[w] = "baseline" => pc[w] = "traffic"
    BY <1>4 DEF TypeOK, TrafficKept, TrafficStarted, HealthyEpisode, Goto, Set
  <2> QED
    BY <1>3, <2>1, <2>2 DEF WorkerInv, TrackedWhere, FaultTracked
<1>5. CASE TrafficFails(w) \/ CaptureBaseline(w)
  <2>1. CASE CleanUp(w) /\ UNCHANGED faultVars
    BY <1>2, <2>1
  <2>2. CASE CaptureBaseline(w) /\ Goto(w, "injecting") /\ UNCHANGED loopVars
    <3>1. pc'[w] = "injecting" /\ pc[w] = "baseline" /\ UNCHANGED <<faultVars, lost>>
      BY <2>2 DEF TypeOK, CaptureBaseline, Goto, Set
    <3> QED
      BY <1>3, <2>2, <3>1 DEF WorkerInv, TrackedWhere, FaultTracked
  <2> QED
    BY <1>5, <2>1, <2>2 DEF TrafficFails, CaptureBaseline
<1>6. CASE Inject(w)
  <2>1. pc'[w] = "observing" /\ tracked'[w] /\ UNCHANGED loopVars
    BY <1>6 DEF TypeOK, Inject, Goto, Set
  <2> QED
    BY <1>3, <2>1 DEF FaultTracked
<1>7. CASE InjectFails(w)
  <2>1. CASE UNCHANGED faultVars
    BY <1>2, <1>7, <2>1 DEF InjectFails
  <2>2. CASE tracked' = Set(tracked, w, TRUE)
    <3>1. tracked'[w]
      BY <2>2 DEF TypeOK, Set
    <3> QED
      BY <1>1, <1>7, <3>1, CleanUpStarts DEF InjectFails, FaultTracked
  <2> QED
    BY <1>7, <2>1, <2>2 DEF InjectFails
<1>8. CASE Observe(w) \/ Diagnose(w)
  <2>1. CASE CleanUp(w)
    BY <1>2, <1>8, <2>1 DEF Observe, Diagnose
  <2>2. CASE Goto(w, "diagnosing") /\ UNCHANGED <<loopVars, faultVars>>
    <3>1. pc'[w] = "diagnosing"
      BY <2>2 DEF TypeOK, Goto, Set
    <3> QED
      BY <1>1, <1>3, <2>2, <3>1 DEF WorkerInv, FaultTracked
  <2> QED
    BY <1>8, <2>1, <2>2 DEF Observe, Diagnose
<1> QED
  BY <1>4, <1>5, <1>6, <1>7, <1>8 DEF Prepare

\* The status with which a cleanup ends is the truth about its worker.
LEMMA EndCleanupKeeps ==
  ASSUME TypeOK, NEW w \in Workers, WorkerInv(w),
         NEW status \in CleanStatuses \cup FailedStatuses, EndCleanup(w, status),
         active'[w] => active[w], UNCHANGED <<lost, tracked, traffic>>,
         status \in CleanStatuses => ~tracked[w] /\ traffic[w] # "stopped",
         status = "recovery_timeout" => tracked[w],
         status = "post_recovery_convergence_timeout" => ~tracked[w]
  PROVE  WorkerInv(w)'
<1>1. pc'[w] = "reporting" /\ cleanup'[w] = status
  BY DEF TypeOK, EndCleanup, Goto, Set
<1>2. FaultTracked(w)'
  BY DEF WorkerInv, FaultTracked
<1>3. Reported(w)'
  BY <1>1 DEF Reported, CleanupSucceeded
<1>4. TrackedWhere(w)' /\ AttemptsAgree(w)' /\ AttemptsBounded(w)'
  BY <1>1 DEF TrackedWhere, AttemptsAgree, AttemptsBounded
<1> QED
  BY <1>2, <1>3, <1>4 DEF WorkerInv

\* An attempt that did not succeed leaves the cleanup as the next one expects it.
LEMMA NextAttemptKeeps ==
  ASSUME TypeOK, NEW w \in Workers, WorkerInv(w),
         NEW pending \in BOOLEAN, NEW t \in 0..left[w], NextAttempt(w, t, pending),
         active'[w] => active[w], UNCHANGED <<lost, tracked, traffic>>,
         cleanup[w] = "none", pending <=> ~tracked[w],
         recovery'[w] = "failed" => tracked[w],
         attempts'[w] \in Nat \ {0}, attempts'[w] + left[w] <= Timeout + 1
  PROVE  WorkerInv(w)'
<1>1. CASE t > 0 /\ Goto(w, "cleaning") /\ left' = Set(left, w, t - 1) /\ UNCHANGED cleanup
  <2>1. pc'[w] = "cleaning" /\ left'[w] = t - 1 /\ cleanup'[w] = "none"
    BY <1>1 DEF TypeOK, Goto, Set
  <2>2. unconverged'[w] = pending
    BY DEF TypeOK, NextAttempt, Set
  <2>3. attempts'[w] + left'[w] <= Timeout
    BY <1>1, <2>1, BoundsAssumption DEF TypeOK
  <2>4. FaultTracked(w)' /\ TrackedWhere(w)' /\ Reported(w)'
    BY <2>1 DEF WorkerInv, FaultTracked, TrackedWhere, Reported, CleanupSucceeded, CleanStatuses
  <2>5. AttemptsAgree(w)' /\ AttemptsBounded(w)'
    BY <2>1, <2>2, <2>3 DEF AttemptsAgree, AttemptsBounded
  <2> QED
    BY <2>4, <2>5 DEF WorkerInv
<1>2. CASE EndCleanup(w, TimeoutStatus(pending))
  <2>1. /\ TimeoutStatus(pending) \in FailedStatuses \ CleanStatuses
        /\ TimeoutStatus(pending) = "recovery_timeout" => ~pending
        /\ TimeoutStatus(pending) = "post_recovery_convergence_timeout" => pending
    BY DEF TimeoutStatus, FailedStatuses, CleanStatuses
  <2> QED
    BY <1>2, <2>1, EndCleanupKeeps
<1> QED
  BY <1>1, <1>2 DEF NextAttempt

LEMMA RecoveryKeeps ==
  ASSUME TypeOK, NEW w \in Workers, WorkerInv(w),
         DeadlinePassed(w) \/ Recovered(w) \/ NotRecovered(w) \/ RecoveredBefore(w) \/ Settle(w)
  PROVE  WorkerInv(w)'
<1> USE DEF sessionVars, workerVars, faultVars, prepareVars
<1>1. CASE DeadlinePassed(w)
  <2>1. unconverged[w] \in BOOLEAN /\ (unconverged[w] <=> ~tracked[w])
    BY <1>1 DEF TypeOK, WorkerInv, AttemptsAgree, DeadlinePassed, MayAttempt
  <2>2. /\ TimeoutStatus(unconverged[w]) \in FailedStatuses \ CleanStatuses
        /\ TimeoutStatus(unconverged[w]) = "recovery_timeout" => tracked[w]
        /\ TimeoutStatus(unconverged[w]) = "post_recovery_convergence_timeout" => ~tracked[w]
    BY <2>1 DEF TimeoutStatus, FailedStatuses, CleanStatuses
  <2> QED
    BY <1>1, <2>2, EndCleanupKeeps DEF DeadlinePassed
<1>2. CASE Recovered(w)
  <2>1. pc'[w] = "settling" /\ ~active'[w] /\ ~tracked'[w] /\ recovery'[w] = "ok"
    BY <1>2 DEF TypeOK, Recovered, Goto, Set
  <2>2. attempts'[w] = attempts[w] + 1 /\ cleanup'[w] = "none"
    BY <1>2 DEF TypeOK, WorkerInv, Reported, Recovered, MayAttempt, Set
  <2>3. left'[w] \in 0..left[w]
    BY <1>2 DEF TypeOK, Recovered, Set
  <2>4. attempts'[w] + left'[w] <= Timeout + 1 /\ attempts'[w] > 0
    BY <1>2, <2>2, <2>3, BoundsAssumption DEF TypeOK, WorkerInv, AttemptsBounded, Recovered, MayAttempt
  <2> QED
    BY <2>1, <2>2, <2>4 DEF WorkerInv, FaultTracked, TrackedWhere, Reported, AttemptsAgree,
                            AttemptsBounded, CleanupSucceeded, CleanStatuses
<1>3. CASE NotRecovered(w)
  <2>1. tracked[w] /\ ~unconverged[w] /\ cleanup[w] = "none"
    BY <1>3 DEF TypeOK, WorkerInv, AttemptsAgree, Reported, NotRecovered, RecoveryComplete, MayAttempt
  <2>2. active'[w] => active[w]
    BY <1>3 DEF TypeOK, NotRecovered, Set
  <2>3. CASE EndCleanup(w, "terminal_recovery_failure")
    BY <1>3, <2>2, <2>3, EndCleanupKeeps DEF NotRecovered, CleanStatuses, FailedStatuses
  <2>4. CASE \E t \in 0..left[w] : NextAttempt(w, t, unconverged[w])
    <3>1. attempts'[w] = attempts[w] + 1
      BY <1>3 DEF TypeOK, NotRecovered, Set
    <3>2. attempts'[w] \in Nat \ {0} /\ attempts'[w] + left[w] <= Timeout + 1
      BY <1>3, <3>1, BoundsAssumption
      DEF TypeOK, WorkerInv, AttemptsBounded, NotRecovered, MayAttempt
    <3>3. unconverged[w] \in BOOLEAN /\ (unconverged[w] <=> ~tracked[w])
      BY <2>1 DEF TypeOK
    <3> QED
      BY <1>3, <2>1, <2>2, <2>4, <3>2, <3>3, NextAttemptKeeps DEF NotRecovered
  <2> QED
    BY <1>3, <2>3, <2>4 DEF NotRecovered
<1>4. CASE RecoveredBefore(w)
  <2>1. pc'[w] = "verifying" /\ ~tracked'[w] /\ recovery'[w] # "failed" /\ cleanup'[w] = "none"
    BY <1>4 DEF TypeOK, WorkerInv, Reported, RecoveredBefore, RecoveryComplete, MayAttempt, Goto, Set
  <2>2. attempts'[w] = attempts[w] + 1 /\ left'[w] = left[w]
    BY <1>4 DEF TypeOK, RecoveredBefore, Set
  <2>3. attempts'[w] + left'[w] <= Timeout + 1 /\ attempts'[w] > 0
    BY <1>4, <2>2, BoundsAssumption
    DEF TypeOK, WorkerInv, AttemptsBounded, RecoveredBefore, MayAttempt
  <2>4. FaultTracked(w)'
    BY <1>4 DEF WorkerInv, FaultTracked, RecoveredBefore
  <2> QED
    BY <2>1, <2>3, <2>4 DEF WorkerInv, TrackedWhere, Reported, AttemptsAgree,
                            AttemptsBounded, CleanupSucceeded, CleanStatuses
<1>5. CASE Settle(w)
  <2>1. pc'[w] = "verifying" /\ left'[w] \in 0..left[w] /\ cleanup[w] = "none"
    BY <1>5 DEF TypeOK, WorkerInv, Reported, Settle, Goto, Set
  <2>2. attempts[w] + left'[w] <= Timeout + 1
    BY <1>5, <2>1, BoundsAssumption DEF TypeOK, WorkerInv, AttemptsBounded, Settle
  <2> QED
    BY <1>5, <2>1, <2>2 DEF Settle, WorkerInv, FaultTracked, TrackedWhere, Reported, AttemptsAgree,
                            AttemptsBounded, CleanupSucceeded, CleanStatuses
<1> QED
  BY <1>1, <1>2, <1>3, <1>4, <1>5

LEMMA VerificationKeeps ==
  ASSUME TypeOK, NEW w \in Workers, WorkerInv(w),
         Converged(w) \/ NotConverged(w) \/ ValidateBaseline(w) \/ CheckRaises(w)
  PROVE  WorkerInv(w)'
<1> USE DEF sessionVars, workerVars, faultVars, prepareVars
<1>1. ~tracked[w] /\ cleanup[w] = "none"
  BY DEF WorkerInv, TrackedWhere, Reported, Converged, NotConverged, ValidateBaseline, CheckRaises
<1>2. SuccessStatus(w) \in CleanStatuses
  BY DEF SuccessStatus, CleanStatuses
<1>3. /\ "raised" \in FailedStatuses \ CleanStatuses
      /\ "post_recovery_baseline_failed" \in FailedStatuses \ CleanStatuses
      /\ "recovery_timeout" \notin CleanStatuses
  BY DEF CleanStatuses, FailedStatuses
<1>4. CASE Converged(w)
  <2>1. CASE EndCleanup(w, SuccessStatus(w))
    BY <1>1, <1>2, <1>3, <1>4, <2>1, EndCleanupKeeps DEF Converged
  <2>2. CASE Goto(w, "validating") /\ UNCHANGED cleanup
    <3>1. pc'[w] = "validating"
      BY <2>2 DEF TypeOK, Goto, Set
    <3> QED
      BY <1>1, <1>4, <2>2, <3>1
      DEF Converged, WorkerInv, FaultTracked, TrackedWhere, Reported, AttemptsAgree,
          AttemptsBounded, CleanupSucceeded, CleanStatuses
  <2> QED
    BY <1>4, <2>1, <2>2 DEF Converged
<1>5. CASE NotConverged(w)
  <2>1. PICK t \in 0..left[w] : NextAttempt(w, t, TRUE)
    BY <1>5 DEF NotConverged
  <2>2. recovery[w] # "failed" /\ attempts[w] > 0 /\ attempts[w] + left[w] <= Timeout + 1
    BY <1>5 DEF NotConverged, WorkerInv, AttemptsAgree, AttemptsBounded
  <2>3. attempts[w] \in Nat \ {0}
    BY <2>2 DEF TypeOK
  <2> QED
    BY <1>1, <1>5, <2>1, <2>2, <2>3, NextAttemptKeeps DEF NotConverged
<1>6. CASE ValidateBaseline(w)
  <2>1. traffic[w] # "stopped"
    BY <1>6 DEF ValidateBaseline, WorkerInv, Reported
  <2> QED
    BY <1>1, <1>2, <1>3, <1>6, <2>1, EndCleanupKeeps DEF ValidateBaseline
<1>7. CASE CheckRaises(w)
  BY <1>1, <1>3, <1>7, EndCleanupKeeps DEF CheckRaises
<1> QED
  BY <1>4, <1>5, <1>6, <1>7

LEMMA RunKeeps ==
  ASSUME TypeOK, NEW w \in Workers, WorkerInv(w),
         SetUpWorker(w) \/ Report(w) \/ ReportRaises(w) \/ CloseRunner(w)
  PROVE  WorkerInv(w)'
<1> USE DEF sessionVars, workerVars, faultVars, prepareVars, loopVars
<1>1. ASSUME UNCHANGED <<lost, faultVars>>, cleanup'[w] = "none",
             pc'[w] \in {"traffic", "closing", "done"}, pc'[w] = "traffic" => ~tracked[w],
             tracked[w] => dirty'[w] \/ raised'[w] \/ pc'[w] = "traffic"
      PROVE  WorkerInv(w)'
  BY <1>1 DEF WorkerInv, FaultTracked, TrackedWhere, Reported, AttemptsAgree, AttemptsBounded,
              CleanupSucceeded, CleanStatuses
<1>2. CASE SetUpWorker(w)
  <2>1. ~tracked[w] /\ cleanup[w] = "none" /\ pc'[w] \in {"traffic", "closing", "done"}
    BY <1>2 DEF TypeOK, SetUpWorker, WorkerInv, TrackedWhere, Reported, Goto, Set
  <2> QED
    BY <1>1, <1>2, <2>1 DEF SetUpWorker
<1>3. CASE Report(w)
  <2>1. cleanup'[w] = "none" /\ (dirty'[w] <=> dirty[w] \/ ~CleanupSucceeded(w))
    BY <1>3 DEF TypeOK, Report, NextScenario, Set
  <2>2. pc'[w] \in {"traffic", "closing"} /\ (pc'[w] = "traffic" => CleanupSucceeded(w))
    BY <1>3 DEF TypeOK, Report, Goto, Set
  <2>3. CleanupSucceeded(w) => ~tracked[w]
    BY DEF WorkerInv, Reported
  <2> QED
    BY <1>1, <1>3, <2>1, <2>2, <2>3 DEF Report
<1>4. CASE ReportRaises(w)
  <2>1. cleanup'[w] = "none" /\ raised'[w] /\ pc'[w] = "closing"
    BY <1>4 DEF TypeOK, ReportRaises, NextScenario, Goto, Set
  <2> QED
    BY <1>1, <1>4, <2>1 DEF ReportRaises
<1>5. CASE CloseRunner(w)
  <2>1. cleanup'[w] = "none" /\ pc'[w] = "done" /\ (raised[w] => raised'[w])
    BY <1>5 DEF TypeOK, CloseRunner, WorkerInv, Reported, Goto, Set
  <2>2. tracked[w] => dirty[w] \/ raised[w]
    BY <1>5 DEF CloseRunner, WorkerInv, TrackedWhere
  <2> QED
    BY <1>1, <1>5, <2>1, <2>2 DEF CloseRunner
<1> QED
  BY <1>2, <1>3, <1>4, <1>5

\* A step of any worker keeps the invariant of all of them.
LEMMA WorkerStepKeeps ==
  ASSUME TypeOK, \A v \in Workers : WorkerInv(v), NEW w \in Workers, WorkerStep(w)
  PROVE  \A v \in Workers : WorkerInv(v)'
<1>1. WorkerInv(w)'
  BY PrepareKeeps, RecoveryKeeps, VerificationKeeps, RunKeeps DEF WorkerStep, CleanupStep
<1>2. ASSUME NEW v \in Workers \ {w}  PROVE WorkerInv(v)'
  BY StepIsLocal, UnmovedKeeps
<1> QED
  BY <1>1, <1>2
----------------------------------------------------------------------------
(* The dispatch as a whole *)

LEMMA DispatchKeeps ==
  ASSUME IInv, Dispatch \/ Collect \/ CollectRaises
  PROVE  \A v \in Workers : WorkerInv(v)'
<1> SUFFICES ASSUME NEW v \in Workers  PROVE WorkerInv(v)'
  OBVIOUS
<1> USE DEF sessionVars, workerVars, faultVars, prepareVars, loopVars
<1>1. CASE Dispatch
  <2>1. ~tracked'[v] /\ pc'[v] = "starting" /\ traffic'[v] = "none"
    BY <1>1 DEF Dispatch, AllWorkers
  <2>2. ~tracked[v] \/ lost
    BY <1>1 DEF IInv, BetweenDispatches, Dispatch
  <2>3. cleanup[v] = "none" /\ pc[v] = "done"
    BY <1>1 DEF IInv, BetweenDispatches, Dispatch, WorkerInv, Reported
  <2> QED
    BY <1>1, <2>1, <2>2, <2>3
    DEF IInv, Dispatch, WorkerInv, FaultTracked, TrackedWhere, Reported, AttemptsAgree,
        AttemptsBounded, CleanupSucceeded, CleanStatuses
<1>2. CASE Collect
  BY <1>2, UnmovedKeeps DEF IInv, Collect, Unmoved
<1>3. CASE CollectRaises
  BY <1>3 DEF IInv, CollectRaises, WorkerInv, FaultTracked, TrackedWhere, Reported, AttemptsAgree,
        AttemptsBounded, CleanupSucceeded
<1> QED
  BY <1>1, <1>2, <1>3

LEMMA BetweenDispatchesKept ==
  ASSUME IInv, Next
  PROVE  BetweenDispatches'
<1> USE DEF sessionVars, workerVars, faultVars, prepareVars, loopVars
<1>1. CASE \E w \in Workers : WorkerStep(w)
  <2>1. PICK w \in Workers : WorkerStep(w)
    BY <1>1
  <2>2. pc[w] # "done" /\ UNCHANGED session
    BY <2>1 DEF WorkerStep, Prepare, Diagnose, CleanupStep, SetUpWorker, Report, ReportRaises,
                CloseRunner, TrafficKept, TrafficStarted, TrafficFails, CaptureBaseline,
                HealthyEpisode, Inject, InjectFails, Observe, DeadlinePassed, Recovered,
                NotRecovered, RecoveredBefore, Settle, Converged, NotConverged,
                ValidateBaseline, CheckRaises, MayAttempt
  <2>3. session
    BY <2>2 DEF IInv, BetweenDispatches
  <2> QED
    BY <2>2, <2>3 DEF BetweenDispatches
<1>2. CASE Dispatch
  BY <1>2 DEF Dispatch, BetweenDispatches
<1>3. CASE Collect
  <2>1. \A w \in Workers : pc[w] = "done" /\ ~raised[w]
    BY <1>3 DEF Collect, AllDone, SomeRaised
  <2>2. runtime' = "warm" => \A w \in Workers : ~dirty[w]
    BY <1>3 DEF Collect, CleanupFailures
  <2>3. \A w \in Workers : tracked[w] => dirty[w]
    BY <2>1 DEF IInv, WorkerInv, TrackedWhere
  <2> QED
    BY <1>3, <2>1, <2>2, <2>3 DEF Collect, BetweenDispatches
<1>4. CASE CollectRaises
  BY <1>4 DEF CollectRaises, AllDone, BetweenDispatches
<1> QED
  BY <1>1, <1>2, <1>3, <1>4 DEF Next

LEMMA InitEstablishes == Init => IInv
<1> SUFFICES ASSUME Init  PROVE IInv
  OBVIOUS
<1> USE DEF Init, AllWorkers
<1>1. TypeOK
  <2>1. pc \in [Workers -> Pcs] /\ cleanup \in [Workers -> CleanStatuses \cup FailedStatuses \cup {"none"}]
    BY DEF Pcs
  <2>2. left \in [Workers -> 0..Timeout] /\ attempts \in [Workers -> 0..Timeout] /\ dispatches \in 0..MaxDispatches
    BY BoundsAssumption
  <2> QED
    BY <2>1, <2>2 DEF TypeOK
<1>2. ASSUME NEW w \in Workers  PROVE WorkerInv(w)
  BY DEF WorkerInv, FaultTracked, TrackedWhere, Reported, AttemptsAgree, AttemptsBounded,
         CleanupSucceeded, CleanStatuses
<1>3. BetweenDispatches
  BY DEF BetweenDispatches
<1> QED
  BY <1>1, <1>2, <1>3 DEF IInv

LEMMA NextKeeps == IInv /\ [Next]_vars => IInv'
<1> SUFFICES ASSUME IInv, [Next]_vars  PROVE IInv'
  OBVIOUS
<1>1. CASE Next
  <2>1. TypeOK'
    <3>1. ASSUME NEW w \in Workers, WorkerStep(w)  PROVE TypeOK'
      BY <3>1, PrepareType, CleanupType, RunType DEF IInv, WorkerInv, WorkerStep
    <3> QED
      BY <1>1, <3>1, SessionType DEF IInv, Next
  <2>2. \A w \in Workers : WorkerInv(w)'
    BY <1>1, WorkerStepKeeps, DispatchKeeps DEF IInv, Next
  <2> QED
    BY <1>1, <2>1, <2>2, BetweenDispatchesKept DEF IInv
<1>2. CASE UNCHANGED vars
  <2>1. \A w \in Workers : WorkerInv(w)'
    BY <1>2, UnmovedKeeps DEF IInv, Unmoved, vars, sessionVars, workerVars, faultVars, prepareVars, loopVars
  <2> QED
    BY <1>2, <2>1 DEF IInv, TypeOK, BetweenDispatches, vars, sessionVars, workerVars, faultVars,
                      prepareVars, loopVars
<1> QED
  BY <1>1, <1>2
----------------------------------------------------------------------------
(* Theorems *)

\* The inductive invariant of a dispatch: what each injector tracks at every place
\* of its worker, and what the statuses of the cleanups say.
THEOREM DispatchInvariant == Spec => []IInv
BY InitEstablishes, NextKeeps, PTL DEF Spec

\* The state of the dispatch and of its workers stays well typed: the attempts of a
\* cleanup never outnumber the polling intervals of its timeout.
THEOREM DispatchTypeCorrect == Spec => []TypeOK
<1>1. IInv => TypeOK
  BY DEF IInv
<1> QED
  BY <1>1, DispatchInvariant, PTL

\* However many scenarios a worker runs, each starts on a network without the fault
\* of an earlier one, unless an earlier dispatch raised.
THEOREM ScenariosStartClean == Spec => []StartsClean
<1>1. IInv => StartsClean
  BY DEF IInv, WorkerInv, FaultTracked, TrackedWhere, StartsClean
<1> QED
  BY <1>1, DispatchInvariant, PTL

\* A cleanup that reports success has recovered every fault, and did not leave a
\* traffic matrix that failed to start.
THEOREM SuccessIsClean == Spec => []SuccessMeansClean
<1>1. IInv => SuccessMeansClean
  BY DEF IInv, WorkerInv, FaultTracked, Reported, SuccessMeansClean
<1> QED
  BY <1>1, DispatchInvariant, PTL

\* Success, and the two timeouts of a cleanup, are told apart rightly.
THEOREM StatusIsTruthful == Spec => []StatusTruthful
<1>1. IInv => StatusTruthful
  BY DEF IInv, WorkerInv, FaultTracked, Reported, SuccessMeansClean, StatusTruthful
<1> QED
  BY <1>1, DispatchInvariant, PTL

\* A runtime that stays warm carries no fault, unless a dispatch raised.
THEOREM WarmIsClean == Spec => []WarmMeansClean
<1>1. IInv => WarmMeansClean
  BY DEF IInv, WorkerInv, FaultTracked, BetweenDispatches, WarmMeansClean
<1> QED
  BY <1>1, DispatchInvariant, PTL
=============================================================================
