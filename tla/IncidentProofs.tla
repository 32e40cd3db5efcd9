--------------------------- MODULE IncidentProofs ---------------------------
(***************************************************************************)
(* Proofs about Incident for every number of threads and sessions and      *)
(* every limit on tool calls.                                              *)
(***************************************************************************)
EXTENDS Incident, TLAPS

Finishing(t) == pc[t] \in FinishPcs
InToolLock(t) == pc[t] \in {"dispatching", "executing"}

\* _tool_lock is held exactly while a tool is dispatched or runs.
ToolLockInv == \A t \in Threads : InToolLock(t) <=> toolLock = t

\* One thread at a time prepares the incident or finishes its backend.
OneAtWork ==
  \A t, u \in Threads :
    pc[t] \in FinishPcs \cup {"preparing"} /\ pc[u] \in FinishPcs \cup {"preparing"} => t = u

\* What the state of the incident says of its backend.
StateInv ==
  /\ state \in {"created", "preparing", "active"} =>
       recoveries = 0 /\ handedBack = 0 /\ notified = 0 /\ cleanup = "not_started"
  /\ state \in {"created", "preparing"} => ~leased
  /\ state = "active" => leased
  /\ state = "closing" => \E t \in Threads : Finishing(t)
  /\ state = "closed" => cleanup # "not_started"
  /\ cleanup # "not_started" => ~leased /\ state \in {"closed", "broken"}
  /\ delegate => leased

\* Where the threads at work on the backend are.
WorkInv ==
  \A t \in Threads :
    /\ pc[t] = "preparing" => state = "preparing"
    /\ Finishing(t) =>
         /\ leased /\ handedBack = 0 /\ notified = 0
         /\ cleanup = "not_started"
         /\ state = "broken" \/ (state = "closing" /\ closeLock = t)
    /\ pc[t] \in {"releasing", "quarantining"} => ~delegate
    /\ pc[t] = "releasing" => state = "closing"
    /\ pc[t] = "closing" => Visible

\* What makes a single cleanup inductive.
CleanupInv == OneAtWork /\ StateInv /\ WorkInv /\ ClosedOnce
----------------------------------------------------------------------------
(* Type correctness *)

\* _finish_backend keeps the incident and the threads well typed.
LEMMA FinishedType ==
  ASSUME TypeOK, NEW t \in Threads, NEW status \in {"succeeded", "failed"},
         NEW final \in {"closed", "broken"}, Finished(t, status, final)
  PROVE  /\ state' \in {"created", "preparing", "active", "closing", "closed", "broken"}
         /\ cleanup' \in {"not_started", "succeeded", "failed"}
         /\ notified' \in Nat
         /\ closeLock' \in Threads \cup {NoThread}
         /\ pc' \in [Threads -> Pcs]
         /\ on' \in [Threads -> Sessions \cup {NoSession}]
<1>1. pc' \in [Threads -> Pcs] /\ on' \in [Threads -> Sessions \cup {NoSession}]
  BY DEF TypeOK, Pcs, Finished, Leave, Goto
<1> QED
  BY <1>1 DEF TypeOK, Finished

\* Every step that ends the work on the backend keeps the types.
LEMMA FinishStepType ==
  ASSUME TypeOK, NEW t \in Threads,
         PrepareFailsUnleased(t) \/ ReleaseRuntime(t) \/ QuarantineRuntime(t)
  PROVE  TypeOK'
<1> USE DEF PrepareFailsUnleased, ReleaseRuntime, QuarantineRuntime
<1>1. PICK status \in {"succeeded", "failed"}, final \in {"closed", "broken"} :
         Finished(t, status, final)
  OBVIOUS
<1>2. handedBack' \in Nat
  BY DEF TypeOK
<1>3. leased' \in BOOLEAN
  BY DEF TypeOK
<1>4. UNCHANGED <<record, delegate, recoveries, toolLock, sessionVars>>
  OBVIOUS
<1> HIDE DEF PrepareFailsUnleased, ReleaseRuntime, QuarantineRuntime
<1> QED
  BY <1>1, <1>2, <1>3, <1>4, FinishedType DEF TypeOK, sessionVars

\* The state space of an incident and of its sessions is closed under every step.
THEOREM IncidentTypeCorrect == Spec => []TypeOK
<1>1. Init => TypeOK
  <2> SUFFICES ASSUME Init PROVE TypeOK
    OBVIOUS
  <2>1. state = "created" /\ cleanup = "not_started" /\ notified \in Nat /\ recoveries \in Nat /\ handedBack \in Nat
    BY DEF Init
  <2>2. pc \in [Threads -> Pcs] /\ on \in [Threads -> Sessions \cup {NoSession}]
    BY DEF Init, Pcs
  <2>3. /\ session \in [Sessions -> {"none", "active", "terminal"}]
        /\ toolCalls \in [Sessions -> Nat] /\ overtime \in [Sessions -> BOOLEAN]
    BY DEF Init
  <2>4. record \in BOOLEAN /\ delegate \in BOOLEAN /\ leased \in BOOLEAN
    BY DEF Init
  <2>5. closeLock = NoThread /\ toolLock = NoThread
    BY DEF Init
  <2> QED
    BY <2>1, <2>2, <2>3, <2>4, <2>5 DEF TypeOK
<1>2. TypeOK /\ [Next]_vars => TypeOK'
  <2> SUFFICES ASSUME TypeOK, [Next]_vars PROVE TypeOK'
    OBVIOUS
  <2> USE DEF TypeOK, Pcs, CallPcs, ToolPcs, FinishPcs, Goto, Enter, Leave, Finished, StartFinish,
              incidentVars, backendVars, sessionVars
  <2>1. ASSUME NEW t \in Threads, PrepareSucceeds(t) PROVE TypeOK'
    BY <2>1 DEF PrepareSucceeds
  <2>2. ASSUME NEW t \in Threads, PrepareFailsUnleased(t) PROVE TypeOK'
    BY <2>2, FinishStepType
  <2>3. ASSUME NEW t \in Threads, PrepareFailsLeased(t) PROVE TypeOK'
    BY <2>3 DEF PrepareFailsLeased
  <2>4. ASSUME NEW t \in Threads, SessionOpened(t) PROVE TypeOK'
    BY <2>4 DEF SessionOpened
  <2>5. ASSUME NEW t \in Threads, CheckIncident(t) PROVE TypeOK'
    BY <2>5 DEF CheckIncident
  <2>6. ASSUME NEW t \in Threads, RefreshBeforeTool(t) PROVE TypeOK'
    BY <2>6 DEF RefreshBeforeTool
  <2>7. ASSUME NEW t \in Threads, TakeToolLock(t) PROVE TypeOK'
    BY <2>7 DEF TakeToolLock
  <2>8. ASSUME NEW t \in Threads, DispatchTool(t) PROVE TypeOK'
    BY <2>8 DEF DispatchTool
  <2>9. ASSUME NEW t \in Threads, ToolReturns(t) PROVE TypeOK'
    BY <2>9 DEF ToolReturns
  <2>10. ASSUME NEW t \in Threads, StartEvaluation(t) PROVE TypeOK'
    BY <2>10 DEF StartEvaluation
  <2>11. ASSUME NEW t \in Threads, Score(t) PROVE TypeOK'
    BY <2>11 DEF Score
  <2>12. ASSUME NEW t \in Threads, AlreadyClosed(t) PROVE TypeOK'
    BY <2>12 DEF AlreadyClosed
  <2>13. ASSUME NEW t \in Threads, BeginClose(t) PROVE TypeOK'
    BY <2>13 DEF BeginClose
  <2>14. ASSUME NEW t \in Threads, Recovered(t) PROVE TypeOK'
    BY <2>14 DEF Recovered
  <2>15. ASSUME NEW t \in Threads, ReleaseRuntime(t) PROVE TypeOK'
    BY <2>15, FinishStepType
  <2>16. ASSUME NEW t \in Threads, QuarantineRuntime(t) PROVE TypeOK'
    BY <2>16, FinishStepType
  <2>17. ASSUME NEW t \in Threads, Prepare(t) PROVE TypeOK'
    BY <2>17 DEF Prepare
  <2>18. ASSUME NEW t \in Threads, Close(t) PROVE TypeOK'
    BY <2>18 DEF Close
  <2>19. ASSUME NEW t \in Threads, NEW s \in Sessions, OpenSession(t, s) PROVE TypeOK'
    BY <2>19 DEF OpenSession
  <2>20. ASSUME NEW t \in Threads, NEW s \in Sessions, ReachLimit(t, s) PROVE TypeOK'
    BY <2>20 DEF ReachLimit
  <2>21. ASSUME NEW t \in Threads, NEW s \in Sessions, CallTool(t, s) PROVE TypeOK'
    BY <2>21 DEF CallTool
  <2>22. ASSUME NEW t \in Threads, NEW s \in Sessions, Submit(t, s) PROVE TypeOK'
    BY <2>22 DEF Submit
  <2>23. ASSUME NEW t \in Threads, NEW s \in Sessions, TerminateFailure(t, s) PROVE TypeOK'
    BY <2>23 DEF TerminateFailure
  <2>24. ASSUME NEW s \in Sessions, TimeRunsOut(s) PROVE TypeOK'
    BY <2>24 DEF TimeRunsOut
  <2>25. ASSUME UNCHANGED vars PROVE TypeOK'
    BY <2>25 DEF vars
  <2> QED
    BY <2>1, <2>2, <2>3, <2>4, <2>5, <2>6, <2>7, <2>8, <2>9, <2>10, <2>11, <2>12, <2>13, <2>14, <2>15, <2>16, <2>17, <2>18, <2>19, <2>20, <2>21, <2>22, <2>23, <2>24, <2>25 DEF Next, Run, Call
<1> QED
  BY <1>1, <1>2, PTL DEF Spec
----------------------------------------------------------------------------
(* Tools exclude each other *)

\* _tool_lock is taken and given back around every tool, whatever it does.
THEOREM ToolLockHeld == Spec => []ToolLockInv
<1> USE ThreadsAssumption
<1>1. Init => ToolLockInv
  BY DEF Init, ToolLockInv, InToolLock
<1>2. TypeOK /\ ToolLockInv /\ [Next]_vars => ToolLockInv'
  <2> SUFFICES ASSUME TypeOK, ToolLockInv, [Next]_vars PROVE ToolLockInv'
    OBVIOUS
  <2> USE DEF TypeOK, ToolLockInv, InToolLock, Goto, Enter, Leave, Finished, StartFinish, FinishPcs,
              incidentVars, backendVars, sessionVars
  <2>1. ASSUME NEW t \in Threads, PrepareSucceeds(t) PROVE ToolLockInv'
    BY <2>1 DEF PrepareSucceeds
  <2>2. ASSUME NEW t \in Threads, PrepareFailsUnleased(t) PROVE ToolLockInv'
    BY <2>2 DEF PrepareFailsUnleased
  <2>3. ASSUME NEW t \in Threads, PrepareFailsLeased(t) PROVE ToolLockInv'
    BY <2>3 DEF PrepareFailsLeased
  <2>4. ASSUME NEW t \in Threads, SessionOpened(t) PROVE ToolLockInv'
    BY <2>4 DEF SessionOpened
  <2>5. ASSUME NEW t \in Threads, CheckIncident(t) PROVE ToolLockInv'
    BY <2>5 DEF CheckIncident
  <2>6. ASSUME NEW t \in Threads, RefreshBeforeTool(t) PROVE ToolLockInv'
    BY <2>6 DEF RefreshBeforeTool
  <2>7. ASSUME NEW t \in Threads, TakeToolLock(t) PROVE ToolLockInv'
    BY <2>7 DEF TakeToolLock
  <2>8. ASSUME NEW t \in Threads, DispatchTool(t) PROVE ToolLockInv'
    BY <2>8 DEF DispatchTool
  <2>9. ASSUME NEW t \in Threads, ToolReturns(t) PROVE ToolLockInv'
    BY <2>9 DEF ToolReturns
  <2>10. ASSUME NEW t \in Threads, StartEvaluation(t) PROVE ToolLockInv'
    BY <2>10 DEF StartEvaluation
  <2>11. ASSUME NEW t \in Threads, Score(t) PROVE ToolLockInv'
    BY <2>11 DEF Score
  <2>12. ASSUME NEW t \in Threads, AlreadyClosed(t) PROVE ToolLockInv'
    BY <2>12 DEF AlreadyClosed
  <2>13. ASSUME NEW t \in Threads, BeginClose(t) PROVE ToolLockInv'
    BY <2>13 DEF BeginClose
  <2>14. ASSUME NEW t \in Threads, Recovered(t) PROVE ToolLockInv'
    BY <2>14 DEF Recovered
  <2>15. ASSUME NEW t \in Threads, ReleaseRuntime(t) PROVE ToolLockInv'
    BY <2>15 DEF ReleaseRuntime
  <2>16. ASSUME NEW t \in Threads, QuarantineRuntime(t) PROVE ToolLockInv'
    BY <2>16 DEF QuarantineRuntime
  <2>17. ASSUME NEW t \in Threads, Prepare(t) PROVE ToolLockInv'
    BY <2>17 DEF Prepare
  <2>18. ASSUME NEW t \in Threads, Close(t) PROVE ToolLockInv'
    BY <2>18 DEF Close
  <2>19. ASSUME NEW t \in Threads, NEW s \in Sessions, OpenSession(t, s) PROVE ToolLockInv'
    BY <2>19 DEF OpenSession
  <2>20. ASSUME NEW t \in Threads, NEW s \in Sessions, ReachLimit(t, s) PROVE ToolLockInv'
    BY <2>20 DEF ReachLimit
  <2>21. ASSUME NEW t \in Threads, NEW s \in Sessions, CallTool(t, s) PROVE ToolLockInv'
    BY <2>21 DEF CallTool
  <2>22. ASSUME NEW t \in Threads, NEW s \in Sessions, Submit(t, s) PROVE ToolLockInv'
    BY <2>22 DEF Submit
  <2>23. ASSUME NEW t \in Threads, NEW s \in Sessions, TerminateFailure(t, s) PROVE ToolLockInv'
    BY <2>23 DEF TerminateFailure
  <2>24. ASSUME NEW s \in Sessions, TimeRunsOut(s) PROVE ToolLockInv'
    BY <2>24 DEF TimeRunsOut
  <2>25. ASSUME UNCHANGED vars PROVE ToolLockInv'
    BY <2>25 DEF vars
  <2> QED
    BY <2>1, <2>2, <2>3, <2>4, <2>5, <2>6, <2>7, <2>8, <2>9, <2>10, <2>11, <2>12, <2>13, <2>14, <2>15, <2>16, <2>17, <2>18, <2>19, <2>20, <2>21, <2>22, <2>23, <2>24, <2>25 DEF Next, Run, Call
<1> QED
  BY <1>1, <1>2, IncidentTypeCorrect, PTL DEF Spec

\* Two tools of one incident never run at the same time, in whatever sessions
\* and from whatever threads they were called.
THEOREM ToolsExclusive == Spec => []ToolsRunOneAtATime
<1>1. ToolLockInv => ToolsRunOneAtATime
  BY DEF ToolLockInv, InToolLock, ToolsRunOneAtATime
<1> QED
  BY <1>1, ToolLockHeld, PTL
----------------------------------------------------------------------------
(* The runtime is cleaned up and given back once *)

\* However prepare, tools and any number of closes interleave, one thread
\* finishes the backend, and only once.
THEOREM CleanupInvariant == Spec => []CleanupInv
<1> USE ThreadsAssumption
<1>1. Init => CleanupInv
  BY DEF Init, CleanupInv, OneAtWork, StateInv, WorkInv, ClosedOnce, Finishing, FinishPcs
<1>2. TypeOK /\ CleanupInv /\ [Next]_vars => CleanupInv'
  <2> SUFFICES ASSUME TypeOK, CleanupInv, [Next]_vars PROVE CleanupInv'
    OBVIOUS
  <2> USE DEF TypeOK, CleanupInv, OneAtWork, StateInv, WorkInv, ClosedOnce, Finishing, FinishPcs, Visible,
              Goto, Enter, Leave, Finished, StartFinish, incidentVars, backendVars, sessionVars
  <2>1. ASSUME NEW t \in Threads, PrepareSucceeds(t) PROVE CleanupInv'
    BY <2>1 DEF PrepareSucceeds
  <2>2. ASSUME NEW t \in Threads, PrepareFailsUnleased(t) PROVE CleanupInv'
    BY <2>2 DEF PrepareFailsUnleased
  <2>3. ASSUME NEW t \in Threads, PrepareFailsLeased(t) PROVE CleanupInv'
    BY <2>3 DEF PrepareFailsLeased
  <2>4. ASSUME NEW t \in Threads, SessionOpened(t) PROVE CleanupInv'
    BY <2>4 DEF SessionOpened
  <2>5. ASSUME NEW t \in Threads, CheckIncident(t) PROVE CleanupInv'
    BY <2>5 DEF CheckIncident
  <2>6. ASSUME NEW t \in Threads, RefreshBeforeTool(t) PROVE CleanupInv'
    BY <2>6 DEF RefreshBeforeTool
  <2>7. ASSUME NEW t \in Threads, TakeToolLock(t) PROVE CleanupInv'
    BY <2>7 DEF TakeToolLock
  <2>8. ASSUME NEW t \in Threads, DispatchTool(t) PROVE CleanupInv'
    BY <2>8 DEF DispatchTool
  <2>9. ASSUME NEW t \in Threads, ToolReturns(t) PROVE CleanupInv'
    BY <2>9 DEF ToolReturns
  <2>10. ASSUME NEW t \in Threads, StartEvaluation(t) PROVE CleanupInv'
    BY <2>10 DEF StartEvaluation
  <2>11. ASSUME NEW t \in Threads, Score(t) PROVE CleanupInv'
    BY <2>11 DEF Score
  <2>12. ASSUME NEW t \in Threads, AlreadyClosed(t) PROVE CleanupInv'
    BY <2>12 DEF AlreadyClosed
  <2>13. ASSUME NEW t \in Threads, BeginClose(t) PROVE CleanupInv'
    BY <2>13 DEF BeginClose
  <2>14. ASSUME NEW t \in Threads, Recovered(t) PROVE CleanupInv'
    BY <2>14 DEF Recovered
  <2>15. ASSUME NEW t \in Threads, ReleaseRuntime(t) PROVE CleanupInv'
    BY <2>15 DEF ReleaseRuntime
  <2>16. ASSUME NEW t \in Threads, QuarantineRuntime(t) PROVE CleanupInv'
    BY <2>16 DEF QuarantineRuntime
  <2>17. ASSUME NEW t \in Threads, Prepare(t) PROVE CleanupInv'
    BY <2>17 DEF Prepare
  <2>18. ASSUME NEW t \in Threads, Close(t) PROVE CleanupInv'
    BY <2>18 DEF Close
  <2>19. ASSUME NEW t \in Threads, NEW s \in Sessions, OpenSession(t, s) PROVE CleanupInv'
    BY <2>19 DEF OpenSession
  <2>20. ASSUME NEW t \in Threads, NEW s \in Sessions, ReachLimit(t, s) PROVE CleanupInv'
    BY <2>20 DEF ReachLimit
  <2>21. ASSUME NEW t \in Threads, NEW s \in Sessions, CallTool(t, s) PROVE CleanupInv'
    BY <2>21 DEF CallTool
  <2>22. ASSUME NEW t \in Threads, NEW s \in Sessions, Submit(t, s) PROVE CleanupInv'
    BY <2>22 DEF Submit
  <2>23. ASSUME NEW t \in Threads, NEW s \in Sessions, TerminateFailure(t, s) PROVE CleanupInv'
    BY <2>23 DEF TerminateFailure
  <2>24. ASSUME NEW s \in Sessions, TimeRunsOut(s) PROVE CleanupInv'
    BY <2>24 DEF TimeRunsOut
  <2>25. ASSUME UNCHANGED vars PROVE CleanupInv'
    BY <2>25 DEF vars
  <2> QED
    BY <2>1, <2>2, <2>3, <2>4, <2>5, <2>6, <2>7, <2>8, <2>9, <2>10, <2>11, <2>12, <2>13, <2>14, <2>15, <2>16, <2>17, <2>18, <2>19, <2>20, <2>21, <2>22, <2>23, <2>24, <2>25 DEF Next, Run, Call
<1> QED
  BY <1>1, <1>2, IncidentTypeCorrect, PTL DEF Spec

\* The faults are recovered once, the runtime is given back once and on_close
\* is called once, for any number of threads that close the incident.
THEOREM CleanedUpOnce == Spec => []ClosedOnce
<1>1. CleanupInv => ClosedOnce
  BY DEF CleanupInv
<1> QED
  BY <1>1, CleanupInvariant, PTL

\* A reported cleanup means that the lease has ended, and until close starts
\* to give the runtime back the incident keeps it.
THEOREM LeaseEndsWithCleanup == Spec => []CleanupEndsLease
<1>1. CleanupInv => CleanupEndsLease
  BY DEF CleanupInv, StateInv, WorkInv, CleanupEndsLease
<1> QED
  BY <1>1, CleanupInvariant, PTL

\* The lease ends exactly once, with the cleanup that is reported.
THEOREM LeaseEndsExactlyOnce == Spec => []LeaseEndsOnce
<1>1. ClosedOnce /\ CleanupEndsLease => LeaseEndsOnce
  BY DEF LeaseEndsOnce
<1> QED
  BY <1>1, CleanedUpOnce, LeaseEndsWithCleanup, PTL

\* No tool starts on a runtime that was given back: the backend forgets its
\* delegate before it lets the lease go.
THEOREM ToolsStartLeased == Spec => ToolStartsOnLease
<1> DEFINE StartsOnLease ==
      \A t \in Threads : pc[t] # "executing" /\ pc'[t] = "executing" => leased
<1>1. TypeOK /\ CleanupInv /\ [Next]_vars => [StartsOnLease]_vars
  <2> SUFFICES ASSUME TypeOK, CleanupInv, Next, NEW x \in Threads,
                      pc[x] # "executing", pc'[x] = "executing"
               PROVE  leased
    BY DEF StartsOnLease
  <2> USE DEF TypeOK, CleanupInv, StateInv, Goto, Enter, Leave, Finished, StartFinish, incidentVars,
              backendVars, sessionVars
  <2>1. ASSUME NEW t \in Threads, PrepareSucceeds(t) PROVE leased
    BY <2>1 DEF PrepareSucceeds
  <2>2. ASSUME NEW t \in Threads, PrepareFailsUnleased(t) PROVE leased
    BY <2>2 DEF PrepareFailsUnleased
  <2>3. ASSUME NEW t \in Threads, PrepareFailsLeased(t) PROVE leased
    BY <2>3 DEF PrepareFailsLeased
  <2>4. ASSUME NEW t \in Threads, SessionOpened(t) PROVE leased
    BY <2>4 DEF SessionOpened
  <2>5. ASSUME NEW t \in Threads, CheckIncident(t) PROVE leased
    BY <2>5 DEF CheckIncident
  <2>6. ASSUME NEW t \in Threads, RefreshBeforeTool(t) PROVE leased
    BY <2>6 DEF RefreshBeforeTool
  <2>7. ASSUME NEW t \in Threads, TakeToolLock(t) PROVE leased
    BY <2>7 DEF TakeToolLock
  <2>8. ASSUME NEW t \in Threads, DispatchTool(t) PROVE leased
    BY <2>8 DEF DispatchTool
  <2>9. ASSUME NEW t \in Threads, ToolReturns(t) PROVE leased
    BY <2>9 DEF ToolReturns
  <2>10. ASSUME NEW t \in Threads, StartEvaluation(t) PROVE leased
    BY <2>10 DEF StartEvaluation
  <2>11. ASSUME NEW t \in Threads, Score(t) PROVE leased
    BY <2>11 DEF Score
  <2>12. ASSUME NEW t \in Threads, AlreadyClosed(t) PROVE leased
    BY <2>12 DEF AlreadyClosed
  <2>13. ASSUME NEW t \in Threads, BeginClose(t) PROVE leased
    BY <2>13 DEF BeginClose
  <2>14. ASSUME NEW t \in Threads, Recovered(t) PROVE leased
    BY <2>14 DEF Recovered
  <2>15. ASSUME NEW t \in Threads, ReleaseRuntime(t) PROVE leased
    BY <2>15 DEF ReleaseRuntime
  <2>16. ASSUME NEW t \in Threads, QuarantineRuntime(t) PROVE leased
    BY <2>16 DEF QuarantineRuntime
  <2>17. ASSUME NEW t \in Threads, Prepare(t) PROVE leased
    BY <2>17 DEF Prepare
  <2>18. ASSUME NEW t \in Threads, Close(t) PROVE leased
    BY <2>18 DEF Close
  <2>19. ASSUME NEW t \in Threads, NEW s \in Sessions, OpenSession(t, s) PROVE leased
    BY <2>19 DEF OpenSession
  <2>20. ASSUME NEW t \in Threads, NEW s \in Sessions, ReachLimit(t, s) PROVE leased
    BY <2>20 DEF ReachLimit
  <2>21. ASSUME NEW t \in Threads, NEW s \in Sessions, CallTool(t, s) PROVE leased
    BY <2>21 DEF CallTool
  <2>22. ASSUME NEW t \in Threads, NEW s \in Sessions, Submit(t, s) PROVE leased
    BY <2>22 DEF Submit
  <2>23. ASSUME NEW t \in Threads, NEW s \in Sessions, TerminateFailure(t, s) PROVE leased
    BY <2>23 DEF TerminateFailure
  <2>24. ASSUME NEW s \in Sessions, TimeRunsOut(s) PROVE leased
    BY <2>24 DEF TimeRunsOut
  <2> QED
    BY <2>1, <2>2, <2>3, <2>4, <2>5, <2>6, <2>7, <2>8, <2>9, <2>10, <2>11, <2>12, <2>13, <2>14, <2>15, <2>16, <2>17, <2>18, <2>19, <2>20, <2>21, <2>22, <2>23, <2>24 DEF Next, Run, Call
<1> QED
  BY <1>1, IncidentTypeCorrect, CleanupInvariant, PTL DEF Spec, ToolStartsOnLease
=============================================================================
