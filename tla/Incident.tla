------------------------------ MODULE Incident ------------------------------
(***************************************************************************)
(* One physical incident (platform/incident/engine.py): PreparedIncident,  *)
(* the RuntimeEpisodeBackend below it (platform/simulator/runtime.py) and  *)
(* the DiagnosticSessions of the agents that diagnose it.                  *)
(*                                                                         *)
(* Any thread may call tools through any session, for an agent runs its    *)
(* tools in parallel; a session is submitted by its own harness thread.    *)
(* Any thread may close the incident, also while tools run: call_tool and  *)
(* close take different locks.  The lease pool is seen from the incident:  *)
(* leased says whether it still holds the runtime it acquired.             *)
(***************************************************************************)
EXTENDS Naturals

CONSTANTS
  Threads,       \* threads of the agents, the harness and the manager
  Sessions,      \* DiagnosticSession objects
  Harness,       \* the thread that submits each session
  NoThread,      \* a free lock
  NoSession,     \* the thread is in no session's method
  MaxToolCalls   \* config.max_tool_calls

ASSUME HarnessAssumption == Harness \in [Sessions -> Threads]
ASSUME ThreadsAssumption == NoThread \notin Threads /\ NoSession \notin Sessions
ASSUME LimitAssumption == MaxToolCalls \in Nat \ {0}

VARIABLES
  state,        \* PreparedIncident.state
  cleanup,      \* PreparedIncident.cleanup_status
  notified,     \* calls of on_close
  record,       \* RuntimeEpisodeBackend.record is set
  delegate,     \* RuntimeEpisodeBackend.delegate is set
  leased,       \* the pool's lease on the runtime is this incident's
  recoveries,   \* calls of the delegate's finish, which recovers the faults
  handedBack,   \* calls of leases.release and leases.quarantine
  closeLock,    \* holder of _close_lock
  toolLock,     \* holder of _tool_lock
  pc,           \* where each thread is
  on,           \* the session whose method it runs
  session,      \* DiagnosticSession.state, "none" before it is opened
  toolCalls,    \* DiagnosticSession.tool_calls
  overtime      \* more than max_agent_seconds have elapsed

incidentVars == <<state, cleanup, notified>>
backendVars  == <<record, delegate, leased, recoveries, handedBack>>
sessionVars  == <<session, toolCalls, overtime>>
vars == <<incidentVars, backendVars, closeLock, toolLock, pc, on, sessionVars>>

ToolPcs  == {"accepted", "refreshing", "queued", "dispatching", "executing"}
CallPcs  == ToolPcs \cup {"opening", "evaluating", "scoring"}
FinishPcs == {"recovering", "releasing", "quarantining"}
Pcs == {"idle", "preparing", "closing"} \cup CallPcs \cup FinishPcs

TypeOK ==
  /\ state \in {"created", "preparing", "active", "closing", "closed", "broken"}
  /\ cleanup \in {"not_started", "succeeded", "failed"}
  /\ notified \in Nat /\ recoveries \in Nat /\ handedBack \in Nat
  /\ record \in BOOLEAN /\ delegate \in BOOLEAN /\ leased \in BOOLEAN
  /\ closeLock \in Threads \cup {NoThread}
  /\ toolLock \in Threads \cup {NoThread}
  /\ pc \in [Threads -> Pcs]
  /\ on \in [Threads -> Sessions \cup {NoSession}]
  /\ session \in [Sessions -> {"none", "active", "terminal"}]
  /\ toolCalls \in [Sessions -> Nat]
  /\ overtime \in [Sessions -> BOOLEAN]

Init ==
  /\ state = "created" /\ cleanup = "not_started"
  /\ notified = 0 /\ recoveries = 0 /\ handedBack = 0
  /\ record = FALSE /\ delegate = FALSE /\ leased = FALSE
  /\ closeLock = NoThread /\ toolLock = NoThread
  /\ pc = [t \in Threads |-> "idle"]
  /\ on = [t \in Threads |-> NoSession]
  /\ session = [s \in Sessions |-> "none"]
  /\ toolCalls = [s \in Sessions |-> 0]
  /\ overtime = [s \in Sessions |-> FALSE]

----------------------------------------------------------------------------
(* Helpers *)

Goto(t, label) == pc' = [pc EXCEPT ![t] = label]
Enter(t, s, label) == Goto(t, label) /\ on' = [on EXCEPT ![t] = s]
Leave(t) == Goto(t, "idle") /\ on' = [on EXCEPT ![t] = NoSession]

\* IncidentEngine.prepare has returned the incident to its caller.
Visible ==
  \/ state \in {"active", "closing", "closed"}
  \/ state = "broken" /\ cleanup # "not_started"

\* DiagnosticSession._require_active
RequireActive(s) == session[s] = "active" /\ state = "active"

\* The condition of DiagnosticSession._limit_transition
LimitReached(s) == overtime[s] \/ toolCalls[s] >= MaxToolCalls

\* _finish_backend is done: the outcome of the cleanup and on_close, once.
\* Only close holds _close_lock here; a failed prepare does not.
Finished(t, status, final) ==
  /\ cleanup' = status
  /\ state' = final
  /\ notified' = IF notified = 0 THEN 1 ELSE notified
  /\ closeLock' = IF closeLock = t THEN NoThread ELSE closeLock
  /\ Leave(t)

\* _finish_backend calls RuntimeEpisodeBackend.finish: it has the delegate, if
\* there is one, clean up.  The backend of an incident that is not cleaned up
\* yet always has a record.
StartFinish(t) ==
  /\ record
  /\ recoveries' = recoveries + (IF delegate THEN 1 ELSE 0)
  /\ Goto(t, "recovering")

----------------------------------------------------------------------------
(* PreparedIncident.prepare *)

Prepare(t) ==
  /\ state = "created" /\ pc[t] = "idle"
  /\ state' = "preparing"
  /\ Goto(t, "preparing")
  /\ UNCHANGED <<cleanup, notified, backendVars, closeLock, toolLock, on, sessionVars>>

PrepareSucceeds(t) ==
  /\ pc[t] = "preparing"
  /\ state' = "active"
  /\ record' = TRUE /\ delegate' = TRUE /\ leased' = TRUE
  /\ Leave(t)
  /\ UNCHANGED <<cleanup, notified, recoveries, handedBack, closeLock, toolLock, sessionVars>>

\* No lease was got, or backend.prepare has given it back before it raised (the
\* topology did not match, or the baseline was not ready): nothing to finish.
PrepareFailsUnleased(t) ==
  /\ pc[t] = "preparing"
  /\ handedBack' \in {handedBack, handedBack + 1}
  /\ Finished(t, "succeeded", "broken")
  /\ UNCHANGED <<record, delegate, leased, recoveries, toolLock, sessionVars>>

\* backend.prepare raised with the runtime still leased, before the delegate
\* was set (health check, traffic) or after (fault injection, observation).
PrepareFailsLeased(t) ==
  /\ pc[t] = "preparing"
  /\ state' = "broken"
  /\ record' = TRUE /\ leased' = TRUE
  /\ delegate' \in BOOLEAN
  /\ recoveries' = recoveries + (IF delegate' THEN 1 ELSE 0)
  /\ Goto(t, "recovering")
  /\ UNCHANGED <<cleanup, notified, handedBack, closeLock, toolLock, on, sessionVars>>

----------------------------------------------------------------------------
(* Sessions *)

\* open_session checks the state, then refreshes the lease (and may wait for
\* the pool's lock), then creates the session.
OpenSession(t, s) ==
  /\ pc[t] = "idle" /\ session[s] = "none" /\ state = "active"
  /\ \A u \in Threads : on[u] # s
  /\ Enter(t, s, "opening")
  /\ UNCHANGED <<incidentVars, backendVars, closeLock, toolLock, sessionVars>>

SessionOpened(t) ==
  /\ pc[t] = "opening"
  /\ session' = [session EXCEPT ![on[t]] = "active"]
  /\ Leave(t)
  /\ UNCHANGED <<incidentVars, backendVars, closeLock, toolLock, toolCalls, overtime>>

\* max_agent_seconds elapse.
TimeRunsOut(s) ==
  /\ session[s] = "active" /\ ~overtime[s]
  /\ overtime' = [overtime EXCEPT ![s] = TRUE]
  /\ UNCHANGED <<incidentVars, backendVars, closeLock, toolLock, pc, on, session, toolCalls>>

\* A tool call or a submission at the limit makes the session terminal.
ReachLimit(t, s) ==
  /\ pc[t] = "idle" /\ RequireActive(s) /\ LimitReached(s)
  /\ session' = [session EXCEPT ![s] = "terminal"]
  /\ UNCHANGED <<incidentVars, backendVars, closeLock, toolLock, pc, on, toolCalls, overtime>>

\* DiagnosticSession.call_tool.  The check and the count are one step: the
\* interpreter does not switch threads between them.  An invalid call is
\* counted and answered at once.
CallTool(t, s) ==
  /\ pc[t] = "idle" /\ RequireActive(s) /\ ~LimitReached(s)
  /\ toolCalls' = [toolCalls EXCEPT ![s] = @ + 1]
  /\ \/ Enter(t, s, "accepted")
     \/ UNCHANGED <<pc, on>>
  /\ UNCHANGED <<incidentVars, backendVars, closeLock, toolLock, session, overtime>>

\* PreparedIncident.call_tool: the state is checked once, then the lease is
\* refreshed (which may wait for the pool's lock) ...
CheckIncident(t) ==
  /\ pc[t] = "accepted"
  /\ IF state = "active" THEN Goto(t, "refreshing") /\ UNCHANGED on ELSE Leave(t)
  /\ UNCHANGED <<incidentVars, backendVars, closeLock, toolLock, sessionVars>>

RefreshBeforeTool(t) ==
  /\ pc[t] = "refreshing"
  /\ Goto(t, "queued")
  /\ UNCHANGED <<incidentVars, backendVars, closeLock, toolLock, on, sessionVars>>

\* Mutant: tools do not exclude each other.
SkipToolLock(t) ==
  /\ pc[t] = "queued"
  /\ toolLock' = t
  /\ Goto(t, "dispatching")
  /\ UNCHANGED <<incidentVars, backendVars, closeLock, on, sessionVars>>

\* ... and _tool_lock is taken.
TakeToolLock(t) ==
  /\ pc[t] = "queued" /\ toolLock = NoThread
  /\ toolLock' = t
  /\ Goto(t, "dispatching")
  /\ UNCHANGED <<incidentVars, backendVars, closeLock, on, sessionVars>>

\* RuntimeEpisodeBackend.call_tool: without a delegate it raises, and the
\* session answers that the tool failed.
DispatchTool(t) ==
  /\ pc[t] = "dispatching"
  /\ \/ delegate /\ Goto(t, "executing") /\ UNCHANGED <<on, toolLock>>
     \/ ~delegate /\ toolLock' = NoThread /\ Leave(t)
  /\ UNCHANGED <<incidentVars, backendVars, closeLock, sessionVars>>

\* Mutant: _tool_lock stays taken when the tool raises.
ToolRaises(t) ==
  /\ pc[t] = "executing"
  /\ toolLock' \in {toolLock, NoThread}
  /\ Leave(t)
  /\ UNCHANGED <<incidentVars, backendVars, closeLock, sessionVars>>

\* The tool has run, or raised.
ToolReturns(t) ==
  /\ pc[t] = "executing"
  /\ toolLock' = NoThread
  /\ Leave(t)
  /\ UNCHANGED <<incidentVars, backendVars, closeLock, sessionVars>>

\* DiagnosticSession.submit, by the harness of the session.
Submit(t, s) ==
  /\ pc[t] = "idle" /\ t = Harness[s] /\ RequireActive(s) /\ ~LimitReached(s)
  /\ Enter(t, s, "evaluating")
  /\ UNCHANGED <<incidentVars, backendVars, closeLock, toolLock, sessionVars>>

\* PreparedIncident.evaluate checks the state again, and refreshes the lease.
StartEvaluation(t) ==
  /\ pc[t] = "evaluating"
  /\ IF state = "active" THEN Goto(t, "scoring") /\ UNCHANGED on ELSE Leave(t)
  /\ UNCHANGED <<incidentVars, backendVars, closeLock, toolLock, sessionVars>>

\* The evaluator returns a score; when it raises the session stays open.
Score(t) ==
  /\ pc[t] = "scoring"
  /\ \/ session' = [session EXCEPT ![on[t]] = "terminal"]
     \/ UNCHANGED session
  /\ Leave(t)
  /\ UNCHANGED <<incidentVars, backendVars, closeLock, toolLock, toolCalls, overtime>>

\* DiagnosticSession.terminate_failure, by the harness of the session.
TerminateFailure(t, s) ==
  /\ pc[t] = "idle" /\ t = Harness[s] /\ RequireActive(s)
  /\ session' = [session EXCEPT ![s] = "terminal"]
  /\ UNCHANGED <<incidentVars, backendVars, closeLock, toolLock, pc, on, toolCalls, overtime>>

----------------------------------------------------------------------------
(* PreparedIncident.close and RuntimeEpisodeBackend.finish *)

Close(t) ==
  /\ pc[t] = "idle" /\ Visible
  /\ Goto(t, "closing")
  /\ UNCHANGED <<incidentVars, backendVars, closeLock, toolLock, on, sessionVars>>

\* Under _close_lock: nothing to do after the first close.
AlreadyClosed(t) ==
  /\ pc[t] = "closing" /\ closeLock = NoThread
  /\ state = "closed" \/ cleanup # "not_started"
  /\ Leave(t)
  /\ UNCHANGED <<incidentVars, backendVars, closeLock, toolLock, sessionVars>>

BeginClose(t) ==
  /\ pc[t] = "closing" /\ closeLock = NoThread
  /\ state # "closed" /\ cleanup = "not_started"
  /\ closeLock' = t
  /\ state' = IF state = "broken" THEN "broken" ELSE "closing"
  /\ StartFinish(t)
  /\ UNCHANGED <<cleanup, notified, record, delegate, leased, handedBack, toolLock, on, sessionVars>>

\* Mutant: the delegate is kept until after the release.
RecoveredStillBound(t) ==
  /\ pc[t] = "recovering"
  /\ record' = FALSE
  /\ \/ Goto(t, IF state = "broken" THEN "quarantining" ELSE "releasing")
     \/ delegate /\ Goto(t, "quarantining")
  /\ UNCHANGED <<incidentVars, delegate, leased, recoveries, handedBack, closeLock, toolLock, on, sessionVars>>

\* Mutant: finish raises before it gives the runtime back.
RecoveredRaises(t) ==
  /\ pc[t] = "recovering"
  /\ record' = FALSE /\ delegate' = FALSE
  /\ \/ Goto(t, "releasing") /\ UNCHANGED <<incidentVars, closeLock, on>>
     \/ Finished(t, "failed", "broken")
  /\ UNCHANGED <<leased, recoveries, handedBack, toolLock, sessionVars>>

\* The delegate's cleanup ends; the backend forgets the runtime before it
\* gives it back.
Recovered(t) ==
  /\ pc[t] = "recovering"
  /\ record' = FALSE /\ delegate' = FALSE
  /\ \/ Goto(t, IF state = "broken" THEN "quarantining" ELSE "releasing")
     \/ delegate /\ Goto(t, "quarantining")
  /\ UNCHANGED <<incidentVars, leased, recoveries, handedBack, closeLock, toolLock, on, sessionVars>>

ReleaseRuntime(t) ==
  /\ pc[t] = "releasing"
  /\ leased' = FALSE
  /\ handedBack' = handedBack + 1
  /\ Finished(t, "succeeded", "closed")
  /\ UNCHANGED <<record, delegate, recoveries, toolLock, sessionVars>>

\* Mutant: a failed teardown leaves the lease as it is.
QuarantineKeepsLease(t) ==
  /\ pc[t] = "quarantining"
  /\ handedBack' = handedBack + 1
  /\ \/ state = "broken" /\ leased' = FALSE /\ Finished(t, "succeeded", "broken")
     \/ UNCHANGED leased /\ Finished(t, "failed", "broken")
  /\ UNCHANGED <<record, delegate, recoveries, toolLock, sessionVars>>

\* quarantine revokes the lease and tears the runtime down, which may fail;
\* finish raises anyway when it was not asked to treat the runtime as broken.
QuarantineRuntime(t) ==
  /\ pc[t] = "quarantining"
  /\ leased' = FALSE
  /\ handedBack' = handedBack + 1
  /\ \/ state = "broken" /\ Finished(t, "succeeded", "broken")
     \/ Finished(t, "failed", "broken")
  /\ UNCHANGED <<record, delegate, recoveries, toolLock, sessionVars>>

----------------------------------------------------------------------------
\* What a thread does by itself once a method is called.
Run(t) ==
  \/ PrepareSucceeds(t) \/ PrepareFailsUnleased(t) \/ PrepareFailsLeased(t)
  \/ SessionOpened(t) \/ CheckIncident(t) \/ RefreshBeforeTool(t) \/ TakeToolLock(t)
  \/ DispatchTool(t) \/ ToolReturns(t) \/ StartEvaluation(t) \/ Score(t)
  \/ AlreadyClosed(t) \/ BeginClose(t) \/ Recovered(t)
  \/ ReleaseRuntime(t) \/ QuarantineRuntime(t)

\* What its caller may or may not ask for.
Call(t) ==
  \/ Prepare(t) \/ Close(t)
  \/ \E s \in Sessions :
       \/ OpenSession(t, s) \/ ReachLimit(t, s) \/ CallTool(t, s)
       \/ Submit(t, s) \/ TerminateFailure(t, s)

Next ==
  \/ \E t \in Threads : Run(t) \/ Call(t)
  \/ \E s \in Sessions : TimeRunsOut(s)

Spec == Init /\ [][Next]_vars

\* Every thread that can take a step of its method does so in the end.  The
\* locks need no stronger promise: tool calls are bounded by MaxToolCalls, and
\* only the first close keeps _close_lock for more than a moment.
Fairness == \A t \in Threads : WF_vars(Run(t))

FairSpec == Spec /\ Fairness
----------------------------------------------------------------------------
(* Properties *)

\* "fault recovery occurs once" (docs/run-benchmarks/interactive-simulator):
\* however many threads close the incident, at whatever time, the faults are
\* recovered once, the runtime is given back once (a second release could free
\* the lease of another incident) and on_close is called once.
ClosedOnce == recoveries <= 1 /\ handedBack <= 1 /\ notified <= 1

\* An incident that reports the end of its cleanup, whether it succeeded or
\* not, holds no lease any more, and one that is active or still closing holds
\* its lease until close gives it back.
CleanupEndsLease ==
  /\ cleanup # "not_started" => ~leased
  /\ state \in {"active", "closing"} /\ cleanup = "not_started" => leased

\* The lease ends exactly once, with the cleanup that is reported.
LeaseEndsOnce == ClosedOnce /\ CleanupEndsLease

\* A tool is never started on a runtime that has been given back, although the
\* thread checked the state of the incident long before.
ToolStartsOnLease ==
  [][\A t \in Threads : pc[t] # "executing" /\ pc'[t] = "executing" => leased]_vars

\* Tools of one incident, in whatever session, run one at a time.
ToolsRunOneAtATime ==
  \A t, u \in Threads : pc[t] = "executing" /\ pc[u] = "executing" => t = u

\* A tool only ever runs on a runtime that is leased to its incident: "Bridge
\* one interactive environment to a leased real runtime".
ToolRunsOnLease == \A t \in Threads : pc[t] = "executing" => leased

\* Every call on the incident returns: the two locks never block each other
\* and a failed prepare, tool or cleanup leaves neither of them taken.
CallsReturn == \A t \in Threads : pc[t] # "idle" ~> pc[t] = "idle"

\* A closed incident gives its runtime back, whatever its agents are doing.
CloseFreesRuntime == \A t \in Threads : pc[t] = "closing" ~> ~leased
=============================================================================
