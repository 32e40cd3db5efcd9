--------------------------- MODULE LeasePoolProofs ---------------------------
(***************************************************************************)
(* Proofs about LeasePool for every number of runtimes, backends and       *)
(* scales and every choice of the time bounds.                             *)
(***************************************************************************)
EXTENDS LeasePool, FiniteSetTheorems, TLAPS

\* The lock: exactly its owner is inside acquire's loop.
LockDiscipline == \A b \in Backends : pc[b] \in LockedPcs <=> owner = b

\* A backend refers to a record exactly while it holds one.
RecordHeld == \A b \in Backends : IF Holds(b) THEN rec[b] \in Records ELSE rec[b] = NoRecord

\* A backend inside acquire knows its scale.
ScaleKnown == \A b \in Backends : pc[b] \in AcquirePcs => want[b] \in Scales

\* Whatever has left the pool is out of service.
GoneIsQuarantined == \A r \in Records : shelf[r] = NoScale => quarantined[r]

\* What makes exclusivity inductive.
LeaseInv ==
  /\ TypeOK
  /\ LockDiscipline
  /\ RecordHeld
  /\ ScaleKnown
  /\ GoneIsQuarantined
  /\ ExclusiveEpisodeLease
  /\ LeasesAccounted

\* What the thread inside acquire has listed is still as it found it.
TodoInv ==
  /\ todo \subseteq pool
  /\ \A b \in Backends, r \in todo :
       /\ pc[b] = "reaping" => inUse[r] /\ ttl[r] = 0
       /\ pc[b] = "evicting" => ~inUse[r] /\ ~quarantined[r]
  /\ owner = Nobody \/ (\E b \in Backends : pc[b] = "refused") => todo = {}

\* Room for one more runtime is found before it is provisioned.
CapacityInv ==
  /\ CapacityBound
  /\ \A b \in Backends : pc[b] = "provisioning" => Cardinality(pool) < MaxActive

\* A leased runtime is clean until the episode's fault is injected, and again
\* before it is released.
CleanInv ==
  /\ IdleRuntimeClean
  /\ \A b \in Backends :
       pc[b] \in {"preparing", "releasing"} /\ ~quarantined[rec[b]] => ~faulted[rec[b]]

\* A thread that found nothing to lease keeps the lock until it sleeps, and what
\* it found stays true while it sleeps: whoever frees a runtime wakes it.
NothingIdle(b) ==
  /\ AtCapacity
  /\ \A r \in pool : quarantined[r] \/ inUse[r] \/ (pc[b] = "evicting" /\ r \in todo)
FullInv == \A b \in Backends : pc[b] \in {"evicting", "refused", "waiting"} => NothingIdle(b)

\* The alarm of a sleeping thread goes off before a lease expires, if a lease lasts as long as it may sleep.
AlarmInv ==
  \A b \in Backends, r \in pool :
    pc[b] = "waiting" /\ inUse[r] /\ ttl[r] > 0 => alarm[b] + Sooner(Ttl, WaitLimit) <= ttl[r] + WaitLimit

\* A session's limit is one of the configured ones.
SessionInv ==
  /\ SessionLeaseCovered
  /\ \A b \in Backends : InSession(b) => limit[b] \in AgentLimits
----------------------------------------------------------------------------
(* Type correctness *)

\* notify_all only moves threads to the top of acquire's loop.
LEMMA NotifyAllType ==
  ASSUME NEW p \in [Backends -> Pcs]
  PROVE  NotifyAll(p) \in [Backends -> Pcs]
BY DEF NotifyAll, Pcs, AcquirePcs

\* Quarantining a record keeps the records well typed, whatever its teardown does.
LEMMA QuarantineType ==
  ASSUME TypeOK, NEW r, NEW tornDown \in BOOLEAN, Quarantine(r, tornDown)
  PROVE  /\ shelf' \in [Records -> Scales \cup {NoScale}]
         /\ inUse' \in [Records -> BOOLEAN]
         /\ quarantined' \in [Records -> BOOLEAN]
         /\ ttl' \in [Records -> Nat]
         /\ faulted' \in [Records -> BOOLEAN]
<1>1. CASE tornDown
  BY <1>1 DEF TypeOK, Quarantine
<1>2. CASE ~tornDown
  BY <1>2 DEF TypeOK, Quarantine
<1> QED
  BY <1>1, <1>2

\* The state space of the pool and of its backends is closed under every step.
THEOREM TypeCorrect == Spec => []TypeOK
<1> USE TimeAssumption
<1>1. Init => TypeOK
  BY DEF Init, TypeOK, Pcs
<1>2. TypeOK /\ [Next]_vars => TypeOK'
  <2> SUFFICES ASSUME TypeOK, [Next]_vars PROVE TypeOK'
    OBVIOUS
  <2> USE DEF TypeOK, Pcs, AcquirePcs, HolderPcs, SessionPcs, Goto, NotifyAll, LeaveAcquire,
              EndSession, Grant, Quarantine, recordVars, lockVars, waitVars, clockVars
  <2>1. ASSUME NEW b \in Backends, EnterLoop(b) PROVE TypeOK'
    BY <2>1 DEF EnterLoop, StaleLeases, pool
  <2>2. ASSUME NEW b \in Backends, ReapOrphan(b) PROVE TypeOK'
    BY <2>2 DEF ReapOrphan
  <2>3. ASSUME NEW b \in Backends, LeaseWarm(b) PROVE TypeOK'
    BY <2>3 DEF LeaseWarm, Available, pool
  <2>4. ASSUME NEW b \in Backends, LookForCapacity(b) PROVE TypeOK'
    BY <2>4 DEF LookForCapacity, IdleOfOtherScale, pool
  <2>5. ASSUME NEW b \in Backends, EvictIdle(b) PROVE TypeOK'
    BY <2>5 DEF EvictIdle
  <2>6. ASSUME NEW b \in Backends, NothingToEvict(b) PROVE TypeOK'
    BY <2>6 DEF NothingToEvict
  <2>7. ASSUME NEW b \in Backends, Provision(b) PROVE TypeOK'
    BY <2>7 DEF Provision
  <2>8. ASSUME NEW b \in Backends, ProvisionFails(b) PROVE TypeOK'
    BY <2>8 DEF ProvisionFails
  <2>9. ASSUME NEW b \in Backends, WaitForLease(b) PROVE TypeOK'
    BY <2>9 DEF WaitForLease
  <2>10. ASSUME NEW b \in Backends, GiveUp(b) PROVE TypeOK'
    BY <2>10 DEF GiveUp
  <2>11. ASSUME NEW b \in Backends, WakeUp(b) PROVE TypeOK'
    BY <2>11 DEF WakeUp
  <2>12. ASSUME NEW b \in Backends, TopologyMismatch(b) PROVE TypeOK'
    BY <2>12 DEF TopologyMismatch
  <2>13. ASSUME NEW b \in Backends, PrepareRuntime(b) PROVE TypeOK'
    BY <2>13 DEF PrepareRuntime
  <2>14. ASSUME NEW b \in Backends, BaselineNotReady(b) PROVE TypeOK'
    BY <2>14 DEF BaselineNotReady
  <2>15. ASSUME NEW b \in Backends, PrepareFails(b) PROVE TypeOK'
    BY <2>15 DEF PrepareFails
  <2>16. ASSUME NEW b \in Backends, ObserveEpisode(b) PROVE TypeOK'
    BY <2>16 DEF ObserveEpisode
  <2>17. ASSUME NEW b \in Backends, RefreshLease(b) PROVE TypeOK'
    BY <2>17 DEF RefreshLease, Refresh, Later
  <2>18. ASSUME NEW b \in Backends, CleanupSucceeds(b) PROVE TypeOK'
    BY <2>18 DEF CleanupSucceeds
  <2>19. ASSUME NEW b \in Backends, CleanupFails(b) PROVE TypeOK'
    BY <2>19 DEF CleanupFails
  <2>20. ASSUME NEW b \in Backends, Release(b) PROVE TypeOK'
    <3>1. Goto(b, "idle") \in [Backends -> Pcs]
      OBVIOUS
    <3>2. pc' \in [Backends -> Pcs]
      BY <2>20, <3>1, NotifyAllType DEF Release
    <3> QED
      BY <2>20, <3>2 DEF Release
  <2>21. ASSUME NEW b \in Backends, QuarantineLeased(b) PROVE TypeOK'
    <3>1. Goto(b, "idle") \in [Backends -> Pcs]
      OBVIOUS
    <3>2. pc' \in [Backends -> Pcs]
      BY <2>21, <3>1, NotifyAllType DEF QuarantineLeased
    <3>3. PICK tornDown \in BOOLEAN : Quarantine(rec[b], tornDown)
      BY <2>21 DEF QuarantineLeased
    <3> QED
      BY <2>21, <3>2, <3>3, QuarantineType DEF QuarantineLeased
  <2>22. ASSUME NEW b \in Backends, StartTool(b) PROVE TypeOK'
    BY <2>22 DEF StartTool
  <2>23. ASSUME NEW b \in Backends, StartFinish(b) PROVE TypeOK'
    BY <2>23 DEF StartFinish
  <2>24. ASSUME NEW b \in Backends, NEW s \in Scales, Request(b, s) PROVE TypeOK'
    BY <2>24 DEF Request
  <2>25. ASSUME NEW b \in Backends, NEW l \in AgentLimits, OpenSession(b, l) PROVE TypeOK'
    <3>1. l \in Nat /\ Later(Ttl, l + Grace) \in Nat
      BY DEF Later
    <3>2. ttl' \in [Records -> Nat]
      BY <2>25, <3>1 DEF OpenSession, Refresh
    <3> QED
      BY <2>25, <3>1, <3>2 DEF OpenSession
  <2>26. CASE Drain
    <3>1. CASE DrainBegin \/ DrainEnd
      BY <3>1 DEF DrainBegin, DrainEnd, pool
    <3>2. CASE DrainOne
      <4>1. pc' \in [Backends -> Pcs]
        BY <3>2, NotifyAllType DEF DrainOne
      <4>2. PICK r \in todo, tornDown \in BOOLEAN : Quarantine(r, tornDown) /\ todo' = todo \ {r}
        BY <3>2 DEF DrainOne
      <4> QED
        BY <3>2, <4>1, <4>2, QuarantineType DEF DrainOne
    <3> QED
      BY <2>26, <3>1, <3>2 DEF Drain
  <2>27. CASE Tick
    BY <2>27 DEF Tick, Pred, Sooner
  <2>28. CASE UNCHANGED vars
    BY <2>28 DEF vars
  <2> QED
    BY <2>1, <2>2, <2>3, <2>4, <2>5, <2>6, <2>7, <2>8, <2>9, <2>10, <2>11, <2>12, <2>13, <2>14, <2>15, <2>16, <2>17, <2>18, <2>19, <2>20, <2>21, <2>22, <2>23, <2>24, <2>25, <2>26, <2>27, <2>28 DEF Next, Acquire, Prepare, Finish, Client
<1> QED
  BY <1>1, <1>2, PTL DEF Spec
----------------------------------------------------------------------------
(* Exclusive leases *)

\* Every step of the pool's threads keeps LeaseInv: a lease is granted only on a
\* record nobody holds, and revoking it leaves the holder with a retired record.
LEMMA LeaseInvStep == LeaseInv /\ TypeOK' /\ [Next]_vars => LeaseInv'
<1> SUFFICES ASSUME LeaseInv, TypeOK', [Next]_vars PROVE LeaseInv'
  OBVIOUS
<1> USE NamesAssumption DEF LeaseInv, LockDiscipline, RecordHeld, ScaleKnown,
          GoneIsQuarantined, ExclusiveEpisodeLease, LeasesAccounted, TypeOK, pool,
          Pcs, AcquirePcs, LockedPcs, HolderPcs, SessionPcs, Holds, LeasedTo,
          Goto, NotifyAll, LeaveAcquire, EndSession, Grant, Quarantine,
          recordVars, lockVars, waitVars, clockVars
<1>1. ASSUME NEW b \in Backends, EnterLoop(b) PROVE LeaseInv'
  BY <1>1 DEF EnterLoop
<1>2. ASSUME NEW b \in Backends, ReapOrphan(b) PROVE LeaseInv'
  BY <1>2 DEF ReapOrphan
<1>3. ASSUME NEW b \in Backends, LeaseWarm(b) PROVE LeaseInv'
  BY <1>3 DEF LeaseWarm, Available
<1>4. ASSUME NEW b \in Backends, LookForCapacity(b) PROVE LeaseInv'
  BY <1>4 DEF LookForCapacity
<1>5. ASSUME NEW b \in Backends, EvictIdle(b) PROVE LeaseInv'
  BY <1>5 DEF EvictIdle
<1>6. ASSUME NEW b \in Backends, NothingToEvict(b) PROVE LeaseInv'
  BY <1>6 DEF NothingToEvict
<1>7. ASSUME NEW b \in Backends, Provision(b) PROVE LeaseInv'
  BY <1>7 DEF Provision, Fresh
<1>8. ASSUME NEW b \in Backends, ProvisionFails(b) PROVE LeaseInv'
  BY <1>8 DEF ProvisionFails
<1>9. ASSUME NEW b \in Backends, WaitForLease(b) PROVE LeaseInv'
  BY <1>9 DEF WaitForLease
<1>10. ASSUME NEW b \in Backends, GiveUp(b) PROVE LeaseInv'
  BY <1>10 DEF GiveUp
<1>11. ASSUME NEW b \in Backends, WakeUp(b) PROVE LeaseInv'
  BY <1>11 DEF WakeUp
<1>12. ASSUME NEW b \in Backends, TopologyMismatch(b) PROVE LeaseInv'
  BY <1>12 DEF TopologyMismatch
<1>13. ASSUME NEW b \in Backends, PrepareRuntime(b) PROVE LeaseInv'
  BY <1>13 DEF PrepareRuntime
<1>14. ASSUME NEW b \in Backends, BaselineNotReady(b) PROVE LeaseInv'
  BY <1>14 DEF BaselineNotReady
<1>15. ASSUME NEW b \in Backends, PrepareFails(b) PROVE LeaseInv'
  BY <1>15 DEF PrepareFails
<1>16. ASSUME NEW b \in Backends, ObserveEpisode(b) PROVE LeaseInv'
  BY <1>16 DEF ObserveEpisode
<1>17. ASSUME NEW b \in Backends, RefreshLease(b) PROVE LeaseInv'
  BY <1>17 DEF RefreshLease
<1>18. ASSUME NEW b \in Backends, CleanupSucceeds(b) PROVE LeaseInv'
  BY <1>18 DEF CleanupSucceeds
<1>19. ASSUME NEW b \in Backends, CleanupFails(b) PROVE LeaseInv'
  BY <1>19 DEF CleanupFails
<1>20. ASSUME NEW b \in Backends, Release(b) PROVE LeaseInv'
  BY <1>20 DEF Release
<1>21. ASSUME NEW b \in Backends, QuarantineLeased(b) PROVE LeaseInv'
  BY <1>21 DEF QuarantineLeased
<1>22. ASSUME NEW b \in Backends, StartTool(b) PROVE LeaseInv'
  BY <1>22 DEF StartTool
<1>23. ASSUME NEW b \in Backends, StartFinish(b) PROVE LeaseInv'
  BY <1>23 DEF StartFinish
<1>24. ASSUME NEW b \in Backends, NEW s \in Scales, Request(b, s) PROVE LeaseInv'
  BY <1>24 DEF Request
<1>25. ASSUME NEW b \in Backends, NEW l \in AgentLimits, OpenSession(b, l) PROVE LeaseInv'
  BY <1>25 DEF OpenSession
<1>26. CASE Drain
  <2>1. CASE DrainBegin
    BY <2>1 DEF DrainBegin
  <2>2. CASE DrainOne
    BY <2>2 DEF DrainOne
  <2>3. CASE DrainEnd
    BY <2>3 DEF DrainEnd
  <2> QED
    BY <1>26, <2>1, <2>2, <2>3 DEF Drain
<1>27. CASE Tick
  BY <1>27 DEF Tick
<1>28. CASE UNCHANGED vars
  BY <1>28 DEF vars
<1> QED
  BY <1>1, <1>2, <1>3, <1>4, <1>5, <1>6, <1>7, <1>8, <1>9, <1>10, <1>11, <1>12, <1>13, <1>14, <1>15, <1>16, <1>17, <1>18, <1>19, <1>20, <1>21, <1>22, <1>23, <1>24, <1>25, <1>26, <1>27, <1>28 DEF Next, Acquire, Prepare, Finish, Client

\* Exclusivity of the episode leases, with its accounting: "grant one exclusive
\* episode lease at a time" holds across revocation, late releases and races for
\* the lock.  The lease of a holder is in use or out of service for good, so no
\* free runtime can have a holder.
THEOREM LeaseInvariant == Spec => []LeaseInv
<1>1. Init => LeaseInv
  <2> SUFFICES ASSUME Init PROVE LeaseInv
    OBVIOUS
  <2>1. TypeOK
    BY TimeAssumption DEF Init, TypeOK, Pcs
  <2> QED
    BY <2>1, NamesAssumption DEF Init, LeaseInv, LockDiscipline, RecordHeld, ScaleKnown,
       GoneIsQuarantined, ExclusiveEpisodeLease, LeasesAccounted, pool, AcquirePcs, LockedPcs,
       HolderPcs, SessionPcs, Holds
<1> QED
  BY <1>1, LeaseInvStep, TypeCorrect, PTL DEF Spec

\* No two incidents ever drive the same runtime.
THEOREM LeaseExclusive == Spec => []ExclusiveEpisodeLease
<1>1. LeaseInv => ExclusiveEpisodeLease
  BY DEF LeaseInv
<1> QED
  BY <1>1, LeaseInvariant, PTL

\* No lease is leaked and none is counted twice.
THEOREM LeasesNotLeaked == Spec => []LeasesAccounted
<1>1. LeaseInv => LeasesAccounted
  BY DEF LeaseInv
<1> QED
  BY <1>1, LeaseInvariant, PTL

----------------------------------------------------------------------------
(* Clean runtimes *)

\* Every step keeps CleanInv: a thread releases its runtime only after recovery
\* of the faults, so what can be leased again is clean.
LEMMA CleanInvStep == LeaseInv /\ LeaseInv' /\ CleanInv /\ [Next]_vars => CleanInv'
<1> SUFFICES ASSUME LeaseInv, LeaseInv', CleanInv, [Next]_vars PROVE CleanInv'
  OBVIOUS
<1> USE NamesAssumption DEF CleanInv, IdleRuntimeClean, LeaseInv, RecordHeld,
          GoneIsQuarantined, ExclusiveEpisodeLease, LeasesAccounted, TypeOK, pool,
          Pcs, AcquirePcs, HolderPcs, SessionPcs, Holds, LeasedTo,
          Goto, NotifyAll, LeaveAcquire, EndSession, Grant, Quarantine,
          recordVars, lockVars, waitVars, clockVars
<1>1. ASSUME NEW b \in Backends, EnterLoop(b) PROVE CleanInv'
  BY <1>1 DEF EnterLoop
<1>2. ASSUME NEW b \in Backends, ReapOrphan(b) PROVE CleanInv'
  BY <1>2 DEF ReapOrphan
<1>3. ASSUME NEW b \in Backends, LeaseWarm(b) PROVE CleanInv'
  BY <1>3 DEF LeaseWarm, Available
<1>4. ASSUME NEW b \in Backends, LookForCapacity(b) PROVE CleanInv'
  BY <1>4 DEF LookForCapacity
<1>5. ASSUME NEW b \in Backends, EvictIdle(b) PROVE CleanInv'
  BY <1>5 DEF EvictIdle
<1>6. ASSUME NEW b \in Backends, NothingToEvict(b) PROVE CleanInv'
  BY <1>6 DEF NothingToEvict
<1>7. ASSUME NEW b \in Backends, Provision(b) PROVE CleanInv'
  BY <1>7 DEF Provision, Fresh
<1>8. ASSUME NEW b \in Backends, ProvisionFails(b) PROVE CleanInv'
  BY <1>8 DEF ProvisionFails
<1>9. ASSUME NEW b \in Backends, WaitForLease(b) PROVE CleanInv'
  BY <1>9 DEF WaitForLease
<1>10. ASSUME NEW b \in Backends, GiveUp(b) PROVE CleanInv'
  BY <1>10 DEF GiveUp
<1>11. ASSUME NEW b \in Backends, WakeUp(b) PROVE CleanInv'
  BY <1>11 DEF WakeUp
<1>12. ASSUME NEW b \in Backends, TopologyMismatch(b) PROVE CleanInv'
  BY <1>12 DEF TopologyMismatch
<1>13. ASSUME NEW b \in Backends, PrepareRuntime(b) PROVE CleanInv'
  BY <1>13 DEF PrepareRuntime
<1>14. ASSUME NEW b \in Backends, BaselineNotReady(b) PROVE CleanInv'
  BY <1>14 DEF BaselineNotReady
<1>15. ASSUME NEW b \in Backends, PrepareFails(b) PROVE CleanInv'
  BY <1>15 DEF PrepareFails
<1>16. ASSUME NEW b \in Backends, ObserveEpisode(b) PROVE CleanInv'
  BY <1>16 DEF ObserveEpisode
<1>17. ASSUME NEW b \in Backends, RefreshLease(b) PROVE CleanInv'
  BY <1>17 DEF RefreshLease
<1>18. ASSUME NEW b \in Backends, CleanupSucceeds(b) PROVE CleanInv'
  BY <1>18 DEF CleanupSucceeds
<1>19. ASSUME NEW b \in Backends, CleanupFails(b) PROVE CleanInv'
  BY <1>19 DEF CleanupFails
<1>20. ASSUME NEW b \in Backends, Release(b) PROVE CleanInv'
  BY <1>20 DEF Release
<1>21. ASSUME NEW b \in Backends, QuarantineLeased(b) PROVE CleanInv'
  BY <1>21 DEF QuarantineLeased
<1>22. ASSUME NEW b \in Backends, StartTool(b) PROVE CleanInv'
  BY <1>22 DEF StartTool
<1>23. ASSUME NEW b \in Backends, StartFinish(b) PROVE CleanInv'
  BY <1>23 DEF StartFinish
<1>24. ASSUME NEW b \in Backends, NEW s \in Scales, Request(b, s) PROVE CleanInv'
  BY <1>24 DEF Request
<1>25. ASSUME NEW b \in Backends, NEW l \in AgentLimits, OpenSession(b, l) PROVE CleanInv'
  BY <1>25 DEF OpenSession
<1>26. CASE Drain
  <2>1. CASE DrainBegin
    BY <2>1 DEF DrainBegin
  <2>2. CASE DrainOne
    BY <2>2 DEF DrainOne
  <2>3. CASE DrainEnd
    BY <2>3 DEF DrainEnd
  <2> QED
    BY <1>26, <2>1, <2>2, <2>3 DEF Drain
<1>27. CASE Tick
  BY <1>27 DEF Tick
<1>28. CASE UNCHANGED vars
  BY <1>28 DEF vars
<1> QED
  BY <1>1, <1>2, <1>3, <1>4, <1>5, <1>6, <1>7, <1>8, <1>9, <1>10, <1>11, <1>12, <1>13, <1>14, <1>15, <1>16, <1>17, <1>18, <1>19, <1>20, <1>21, <1>22, <1>23, <1>24, <1>25, <1>26, <1>27, <1>28 DEF Next, Acquire, Prepare, Finish, Client

\* A runtime that can be leased again carries no fault of an earlier episode.
THEOREM IdleClean == Spec => []IdleRuntimeClean
<1>1. Init => CleanInv
  BY DEF Init, CleanInv, IdleRuntimeClean, pool
<1>2. CleanInv => IdleRuntimeClean
  BY DEF CleanInv
<1> QED
  BY <1>1, <1>2, CleanInvStep, LeaseInvariant, PTL DEF Spec

----------------------------------------------------------------------------
(* Sessions keep their lease *)

\* Every step keeps SessionInv: open_session and both refreshes of a tool call
\* leave a lease that covers the rest of the session.
LEMMA SessionInvStep == 
  ASSUME \A l \in AgentLimits : l + Grace <= Ttl
  PROVE  LeaseInv /\ LeaseInv' /\ SessionInv /\ [Next]_vars => SessionInv'
<1> SUFFICES ASSUME LeaseInv, LeaseInv', SessionInv, [Next]_vars PROVE SessionInv'
  OBVIOUS
<1> USE TimeAssumption, NamesAssumption DEF SessionInv, SessionLeaseCovered, WithinLimit, InSession, LeaseInv, RecordHeld,
          GoneIsQuarantined, ExclusiveEpisodeLease, LeasesAccounted, TypeOK, pool,
          Pcs, AcquirePcs, HolderPcs, SessionPcs, Holds, LeasedTo,
          Goto, NotifyAll, LeaveAcquire, EndSession, Grant, Quarantine,
          recordVars, lockVars, waitVars, clockVars
<1>1. ASSUME NEW b \in Backends, EnterLoop(b) PROVE SessionInv'
  BY <1>1 DEF EnterLoop
<1>2. ASSUME NEW b \in Backends, ReapOrphan(b) PROVE SessionInv'
  BY <1>2 DEF ReapOrphan
<1>3. ASSUME NEW b \in Backends, LeaseWarm(b) PROVE SessionInv'
  BY <1>3 DEF LeaseWarm, Available
<1>4. ASSUME NEW b \in Backends, LookForCapacity(b) PROVE SessionInv'
  BY <1>4 DEF LookForCapacity
<1>5. ASSUME NEW b \in Backends, EvictIdle(b) PROVE SessionInv'
  BY <1>5 DEF EvictIdle
<1>6. ASSUME NEW b \in Backends, NothingToEvict(b) PROVE SessionInv'
  BY <1>6 DEF NothingToEvict
<1>7. ASSUME NEW b \in Backends, Provision(b) PROVE SessionInv'
  BY <1>7 DEF Provision, Fresh
<1>8. ASSUME NEW b \in Backends, ProvisionFails(b) PROVE SessionInv'
  BY <1>8 DEF ProvisionFails
<1>9. ASSUME NEW b \in Backends, WaitForLease(b) PROVE SessionInv'
  BY <1>9 DEF WaitForLease
<1>10. ASSUME NEW b \in Backends, GiveUp(b) PROVE SessionInv'
  BY <1>10 DEF GiveUp
<1>11. ASSUME NEW b \in Backends, WakeUp(b) PROVE SessionInv'
  BY <1>11 DEF WakeUp
<1>12. ASSUME NEW b \in Backends, TopologyMismatch(b) PROVE SessionInv'
  BY <1>12 DEF TopologyMismatch
<1>13. ASSUME NEW b \in Backends, PrepareRuntime(b) PROVE SessionInv'
  BY <1>13 DEF PrepareRuntime
<1>14. ASSUME NEW b \in Backends, BaselineNotReady(b) PROVE SessionInv'
  BY <1>14 DEF BaselineNotReady
<1>15. ASSUME NEW b \in Backends, PrepareFails(b) PROVE SessionInv'
  BY <1>15 DEF PrepareFails
<1>16. ASSUME NEW b \in Backends, ObserveEpisode(b) PROVE SessionInv'
  BY <1>16 DEF ObserveEpisode
<1>17. ASSUME NEW b \in Backends, RefreshLease(b) PROVE SessionInv'
  BY <1>17 DEF RefreshLease, Refresh, Later
<1>18. ASSUME NEW b \in Backends, CleanupSucceeds(b) PROVE SessionInv'
  BY <1>18 DEF CleanupSucceeds
<1>19. ASSUME NEW b \in Backends, CleanupFails(b) PROVE SessionInv'
  BY <1>19 DEF CleanupFails
<1>20. ASSUME NEW b \in Backends, Release(b) PROVE SessionInv'
  BY <1>20 DEF Release
<1>21. ASSUME NEW b \in Backends, QuarantineLeased(b) PROVE SessionInv'
  BY <1>21 DEF QuarantineLeased
<1>22. ASSUME NEW b \in Backends, StartTool(b) PROVE SessionInv'
  BY <1>22 DEF StartTool
<1>23. ASSUME NEW b \in Backends, StartFinish(b) PROVE SessionInv'
  BY <1>23 DEF StartFinish
<1>24. ASSUME NEW b \in Backends, NEW s \in Scales, Request(b, s) PROVE SessionInv'
  BY <1>24 DEF Request
<1>25. ASSUME NEW b \in Backends, NEW l \in AgentLimits, OpenSession(b, l) PROVE SessionInv'
  BY <1>25 DEF OpenSession, Refresh, Later
<1>26. CASE Drain
  <2>1. CASE DrainBegin
    BY <2>1 DEF DrainBegin
  <2>2. CASE DrainOne
    BY <2>2 DEF DrainOne
  <2>3. CASE DrainEnd
    BY <2>3 DEF DrainEnd
  <2> QED
    BY <1>26, <2>1, <2>2, <2>3 DEF Drain
<1>27. CASE Tick
  BY <1>27 DEF Tick, Pred
<1>28. CASE UNCHANGED vars
  BY <1>28 DEF vars
<1> QED
  BY <1>1, <1>2, <1>3, <1>4, <1>5, <1>6, <1>7, <1>8, <1>9, <1>10, <1>11, <1>12, <1>13, <1>14, <1>15, <1>16, <1>17, <1>18, <1>19, <1>20, <1>21, <1>22, <1>23, <1>24, <1>25, <1>26, <1>27, <1>28 DEF Next, Acquire, Prepare, Finish, Client

\* When the lease outlives max_agent_seconds plus the grace, as
\* validate_lease_deadline demands, a session within its limit is covered by
\* its lease whatever the interleaving of tool calls and of time.
THEOREM SessionCovered ==
  ASSUME \A l \in AgentLimits : l + Grace <= Ttl
  PROVE  Spec => []SessionLeaseCovered
<1>1. Init => SessionInv
  BY DEF Init, SessionInv, SessionLeaseCovered, WithinLimit, InSession, SessionPcs
<1>2. SessionInv => SessionLeaseCovered
  BY DEF SessionInv
<1> QED
  BY <1>1, <1>2, SessionInvStep, LeaseInvariant, PTL DEF Spec

----------------------------------------------------------------------------
(* What the lock holder has listed *)

\* Every step keeps TodoInv: what the lock holder has listed stays in the pool,
\* and stays stale or idle, because the others cannot change it without the lock.
LEMMA TodoInvStep == LeaseInv /\ LeaseInv' /\ TodoInv /\ [Next]_vars => TodoInv'
<1> SUFFICES ASSUME LeaseInv, LeaseInv', TodoInv, [Next]_vars PROVE TodoInv'
  OBVIOUS
<1> USE TimeAssumption, NamesAssumption DEF TodoInv, LeaseInv, LockDiscipline, RecordHeld,
          GoneIsQuarantined, LeasesAccounted, TypeOK, pool,
          Pcs, AcquirePcs, LockedPcs, HolderPcs, SessionPcs, Holds, LeasedTo,
          Goto, NotifyAll, LeaveAcquire, EndSession, Grant, Quarantine,
          recordVars, lockVars, waitVars, clockVars
<1>1. ASSUME NEW b \in Backends, EnterLoop(b) PROVE TodoInv'
  BY <1>1 DEF EnterLoop, StaleLeases
<1>2. ASSUME NEW b \in Backends, ReapOrphan(b) PROVE TodoInv'
  BY <1>2 DEF ReapOrphan
<1>3. ASSUME NEW b \in Backends, LeaseWarm(b) PROVE TodoInv'
  BY <1>3 DEF LeaseWarm, Available
<1>4. ASSUME NEW b \in Backends, LookForCapacity(b) PROVE TodoInv'
  BY <1>4 DEF LookForCapacity, IdleOfOtherScale
<1>5. ASSUME NEW b \in Backends, EvictIdle(b) PROVE TodoInv'
  BY <1>5 DEF EvictIdle
<1>6. ASSUME NEW b \in Backends, NothingToEvict(b) PROVE TodoInv'
  BY <1>6 DEF NothingToEvict
<1>7. ASSUME NEW b \in Backends, Provision(b) PROVE TodoInv'
  BY <1>7 DEF Provision, Fresh
<1>8. ASSUME NEW b \in Backends, ProvisionFails(b) PROVE TodoInv'
  BY <1>8 DEF ProvisionFails
<1>9. ASSUME NEW b \in Backends, WaitForLease(b) PROVE TodoInv'
  BY <1>9 DEF WaitForLease
<1>10. ASSUME NEW b \in Backends, GiveUp(b) PROVE TodoInv'
  BY <1>10 DEF GiveUp
<1>11. ASSUME NEW b \in Backends, WakeUp(b) PROVE TodoInv'
  BY <1>11 DEF WakeUp
<1>12. ASSUME NEW b \in Backends, TopologyMismatch(b) PROVE TodoInv'
  BY <1>12 DEF TopologyMismatch
<1>13. ASSUME NEW b \in Backends, PrepareRuntime(b) PROVE TodoInv'
  BY <1>13 DEF PrepareRuntime
<1>14. ASSUME NEW b \in Backends, BaselineNotReady(b) PROVE TodoInv'
  BY <1>14 DEF BaselineNotReady
<1>15. ASSUME NEW b \in Backends, PrepareFails(b) PROVE TodoInv'
  BY <1>15 DEF PrepareFails
<1>16. ASSUME NEW b \in Backends, ObserveEpisode(b) PROVE TodoInv'
  BY <1>16 DEF ObserveEpisode
<1>17. ASSUME NEW b \in Backends, RefreshLease(b) PROVE TodoInv'
  BY <1>17 DEF RefreshLease, Refresh, Later
<1>18. ASSUME NEW b \in Backends, CleanupSucceeds(b) PROVE TodoInv'
  BY <1>18 DEF CleanupSucceeds
<1>19. ASSUME NEW b \in Backends, CleanupFails(b) PROVE TodoInv'
  BY <1>19 DEF CleanupFails
<1>20. ASSUME NEW b \in Backends, Release(b) PROVE TodoInv'
  BY <1>20 DEF Release
<1>21. ASSUME NEW b \in Backends, QuarantineLeased(b) PROVE TodoInv'
  BY <1>21 DEF QuarantineLeased
<1>22. ASSUME NEW b \in Backends, StartTool(b) PROVE TodoInv'
  BY <1>22 DEF StartTool
<1>23. ASSUME NEW b \in Backends, StartFinish(b) PROVE TodoInv'
  BY <1>23 DEF StartFinish
<1>24. ASSUME NEW b \in Backends, NEW s \in Scales, Request(b, s) PROVE TodoInv'
  BY <1>24 DEF Request
<1>25. ASSUME NEW b \in Backends, NEW l \in AgentLimits, OpenSession(b, l) PROVE TodoInv'
  BY <1>25 DEF OpenSession, Refresh, Later
<1>26. CASE Drain
  <2>1. CASE DrainBegin
    BY <2>1 DEF DrainBegin
  <2>2. CASE DrainOne
    BY <2>2 DEF DrainOne
  <2>3. CASE DrainEnd
    BY <2>3 DEF DrainEnd
  <2> QED
    BY <1>26, <2>1, <2>2, <2>3 DEF Drain
<1>27. CASE Tick
  BY <1>27 DEF Tick, Pred
<1>28. CASE UNCHANGED vars
  BY <1>28 DEF vars
<1> QED
  BY <1>1, <1>2, <1>3, <1>4, <1>5, <1>6, <1>7, <1>8, <1>9, <1>10, <1>11, <1>12, <1>13, <1>14, <1>15, <1>16, <1>17, <1>18, <1>19, <1>20, <1>21, <1>22, <1>23, <1>24, <1>25, <1>26, <1>27, <1>28 DEF Next, Acquire, Prepare, Finish, Client

\* The lists made by reap_orphans, _make_capacity_for and drain stay accurate
\* until they are worked off.
LEMMA TodoInvariant == Spec => []TodoInv
<1>1. Init => TodoInv
  BY DEF Init, TodoInv
<1> QED
  BY <1>1, TodoInvStep, LeaseInvariant, PTL DEF Spec

\* Other threads never take the runtime of a session that is within its limit:
\* a lease listed by reap_orphans was past its deadline, and stays so while the
\* lock is held.
THEOREM SessionNotRevoked ==
  ASSUME \A l \in AgentLimits : l + Grace <= Ttl, Grace > 0
  PROVE  Spec => OnlyDrainRevokesSession
<1> DEFINE Revokes ==
      \A b \in Backends :
         WithinLimit(b) /\ ~quarantined[rec[b]] /\ quarantined'[rec[b]] => owner = Drainer
<1>1. LeaseInv /\ TodoInv /\ SessionInv /\ [Next]_vars => [Revokes]_vars
  <2> SUFFICES ASSUME LeaseInv, TodoInv, SessionInv, Next, NEW b \in Backends,
                      WithinLimit(b), ~quarantined[rec[b]], quarantined'[rec[b]]
               PROVE  owner = Drainer
    OBVIOUS
  <2> USE TimeAssumption, NamesAssumption DEF LeaseInv, TypeOK
  <2>1. pc[b] \in SessionPcs /\ rec[b] \in Records /\ inUse[rec[b]] /\ ttl[rec[b]] > 0
    BY DEF SessionInv, SessionLeaseCovered, WithinLimit, InSession, RecordHeld,
           LeasesAccounted, Holds, HolderPcs
  <2>2. ASSUME NEW c \in Backends, ReapOrphan(c) \/ EvictIdle(c) PROVE FALSE
    BY <2>1, <2>2 DEF ReapOrphan, EvictIdle, Quarantine, TodoInv
  <2>3. ASSUME NEW c \in Backends, QuarantineLeased(c) PROVE FALSE
    <3>1. c # b /\ Holds(b) /\ Holds(c)
      BY <2>1, <2>3 DEF QuarantineLeased, Holds, HolderPcs, SessionPcs
    <3>2. rec[c] # rec[b]
      BY <3>1 DEF ExclusiveEpisodeLease
    <3> QED
      BY <2>1, <2>3, <3>2 DEF QuarantineLeased, Quarantine
  <2>4. ASSUME NEW c \in Backends, Provision(c) PROVE FALSE
    BY <2>1, <2>4 DEF Provision, Fresh
  <2>5. CASE Drain
    BY <2>1, <2>5 DEF Drain, DrainBegin, DrainOne, DrainEnd, recordVars
  <2>6. quarantined' # quarantined
    OBVIOUS
  <2> HIDE DEF LeaseInv, TypeOK
  <2> QED
    BY <2>2, <2>3, <2>4, <2>5, <2>6
    DEF Next, Acquire, Prepare, Finish, Client, recordVars,
        EnterLoop, LeaseWarm, LookForCapacity, NothingToEvict, ProvisionFails, WaitForLease, GiveUp, WakeUp, TopologyMismatch, PrepareRuntime, BaselineNotReady, PrepareFails, ObserveEpisode, RefreshLease, CleanupSucceeds, CleanupFails, Release, StartTool, StartFinish, Request, OpenSession, Tick
<1>2. Init => SessionInv
  BY DEF Init, SessionInv, SessionLeaseCovered, WithinLimit, InSession, SessionPcs
<1> QED
  BY <1>1, <1>2, SessionInvStep, LeaseInvariant, TodoInvariant, PTL
  DEF Spec, OnlyDrainRevokesSession

----------------------------------------------------------------------------
(* Capacity *)

\* The pool is finite, so that counting it makes sense.
LEMMA PoolFinite ==
  /\ IsFiniteSet(pool) /\ Cardinality(pool) \in Nat
  /\ IsFiniteSet(pool') /\ Cardinality(pool') \in Nat
BY RecordsAssumption, FS_Subset, FS_CardinalityType DEF pool

\* Quarantining never grows the pool, and frees one place when it tears down a
\* record of the pool.
LEMMA QuarantinePool ==
  ASSUME LeaseInv, NEW r \in Records, NEW tornDown \in BOOLEAN, Quarantine(r, tornDown)
  PROVE  /\ Cardinality(pool') <= Cardinality(pool)
         /\ tornDown /\ r \in pool => Cardinality(pool') < Cardinality(pool)
<1>1. CASE tornDown /\ r \in pool
  <2>1. pool' = pool \ {r}
    BY <1>1, NamesAssumption DEF Quarantine, pool, LeaseInv, TypeOK
  <2> QED
    BY <1>1, <2>1, PoolFinite, FS_RemoveElement
<1>2. CASE ~(tornDown /\ r \in pool)
  <2>1. pool' = pool
    BY <1>2, NamesAssumption DEF Quarantine, pool, LeaseInv, TypeOK
  <2> QED
    BY <1>2, <2>1, PoolFinite
<1> QED
  BY <1>1, <1>2

\* Every step keeps CapacityInv: whoever is about to provision has seen, or
\* made, a free place, and holds the lock since.
LEMMA CapacityInvStep == LeaseInv /\ TodoInv /\ CapacityInv /\ [Next]_vars => CapacityInv'
<1> SUFFICES ASSUME LeaseInv, TodoInv, CapacityInv, [Next]_vars PROVE CapacityInv'
  OBVIOUS
<1> USE CapacityAssumption, NamesAssumption, PoolFinite DEF CapacityInv, CapacityBound
<1>1. ASSUME NEW b \in Backends, ReapOrphan(b) PROVE CapacityInv'
  <2>1. PICK r \in todo, tornDown \in BOOLEAN : Quarantine(r, tornDown)
    BY <1>1 DEF ReapOrphan
  <2>2. Cardinality(pool') <= Cardinality(pool)
    BY <2>1, QuarantinePool DEF LeaseInv, TypeOK
  <2>3. \A c \in Backends : pc'[c] = "provisioning" => pc[c] = "provisioning"
    BY <1>1 DEF ReapOrphan, NotifyAll, LeaseInv, TypeOK
  <2> QED
    BY <2>2, <2>3
<1>2. ASSUME NEW b \in Backends, LookForCapacity(b) PROVE CapacityInv'
  <2>1. pool' = pool
    BY <1>2 DEF LookForCapacity, recordVars, pool
  <2>2. \A c \in Backends : pc'[c] = "provisioning" =>
          pc[c] = "provisioning" \/ Cardinality(pool) < MaxActive
    BY <1>2 DEF LookForCapacity, Goto, AtCapacity, LeaseInv, TypeOK
  <2> QED
    BY <2>1, <2>2
<1>3. ASSUME NEW b \in Backends, EvictIdle(b) PROVE CapacityInv'
  <2>1. PICK r \in todo, tornDown \in BOOLEAN :
          Quarantine(r, tornDown) /\ pc' = NotifyAll(Goto(b, IF tornDown THEN "provisioning" ELSE "evicting"))
    BY <1>3 DEF EvictIdle
  <2>2. r \in pool /\ r \in Records
    BY DEF TodoInv, LeaseInv, TypeOK
  <2>3. Cardinality(pool') <= Cardinality(pool) /\ (tornDown => Cardinality(pool') < Cardinality(pool))
    BY <2>1, <2>2, QuarantinePool
  <2>4. \A c \in Backends : pc'[c] = "provisioning" => pc[c] = "provisioning" \/ tornDown
    BY <2>1 DEF NotifyAll, Goto, LeaseInv, TypeOK
  <2> QED
    BY <2>3, <2>4
<1>4. ASSUME NEW b \in Backends, Provision(b) PROVE CapacityInv'
  <2>1. PICK r \in Records : Fresh(r) /\ shelf' = [shelf EXCEPT ![r] = want[b]] /\ Grant(b, r)
    BY <1>4 DEF Provision
  <2>2. want[b] \in Scales
    BY <1>4 DEF Provision, LeaseInv, ScaleKnown, AcquirePcs
  <2>3. pool' = pool \cup {r} /\ r \notin pool
    BY <2>1, <2>2 DEF pool, Fresh, LeaseInv, TypeOK
  <2>4. Cardinality(pool') = Cardinality(pool) + 1
    BY <2>3, FS_AddElement
  <2>5. Cardinality(pool) < MaxActive
    BY <1>4 DEF Provision
  <2>6. \A c \in Backends : pc'[c] # "provisioning"
    BY <1>4, <2>1 DEF Provision, Grant, Goto, LeaseInv, TypeOK, LockDiscipline, LockedPcs
  <2> QED
    BY <2>4, <2>5, <2>6
<1>5. ASSUME NEW b \in Backends, QuarantineLeased(b) PROVE CapacityInv'
  <2>1. PICK tornDown \in BOOLEAN : Quarantine(rec[b], tornDown)
    BY <1>5 DEF QuarantineLeased
  <2>2. rec[b] \in Records
    BY <1>5 DEF QuarantineLeased, LeaseInv, RecordHeld, Holds, HolderPcs
  <2>3. Cardinality(pool') <= Cardinality(pool)
    BY <2>1, <2>2, QuarantinePool
  <2>4. \A c \in Backends : pc'[c] = "provisioning" => pc[c] = "provisioning"
    BY <1>5 DEF QuarantineLeased, NotifyAll, Goto, LeaseInv, TypeOK
  <2> QED
    BY <2>3, <2>4
<1>6. CASE DrainOne
  <2>1. PICK r \in todo, tornDown \in BOOLEAN : Quarantine(r, tornDown)
    BY <1>6 DEF DrainOne
  <2>2. Cardinality(pool') <= Cardinality(pool)
    BY <2>1, QuarantinePool DEF LeaseInv, TypeOK
  <2>3. \A c \in Backends : pc'[c] = "provisioning" => pc[c] = "provisioning"
    BY <1>6 DEF DrainOne, NotifyAll, LeaseInv, TypeOK
  <2> QED
    BY <2>2, <2>3
<1>7. ASSUME shelf' = shelf, \A c \in Backends : pc'[c] = "provisioning" => pc[c] = "provisioning"
      PROVE  CapacityInv'
  <2>1. pool' = pool
    BY <1>7 DEF pool
  <2> QED
    BY <1>7, <2>1
<1>8. ASSUME NEW b \in Backends,
             \/ EnterLoop(b) \/ LeaseWarm(b) \/ NothingToEvict(b) \/ ProvisionFails(b) \/ WaitForLease(b) \/ GiveUp(b) \/ WakeUp(b) \/ TopologyMismatch(b)
             \/ PrepareRuntime(b) \/ BaselineNotReady(b) \/ PrepareFails(b) \/ ObserveEpisode(b) \/ RefreshLease(b) \/ CleanupSucceeds(b)
             \/ CleanupFails(b) \/ Release(b) \/ StartTool(b) \/ StartFinish(b)
             \/ (\E s \in Scales : Request(b, s)) \/ (\E l \in AgentLimits : OpenSession(b, l))
      PROVE  shelf' = shelf /\ \A c \in Backends : pc'[c] = "provisioning" => pc[c] = "provisioning"
  BY <1>8 DEF LeaseInv, TypeOK, recordVars, Goto, NotifyAll, Grant, EnterLoop, LeaseWarm, NothingToEvict, ProvisionFails, WaitForLease, GiveUp, WakeUp, TopologyMismatch, PrepareRuntime, BaselineNotReady, PrepareFails, ObserveEpisode, RefreshLease, CleanupSucceeds, CleanupFails, Release, StartTool, StartFinish, Request, OpenSession
<1>9. ASSUME DrainBegin \/ DrainEnd \/ Tick \/ UNCHANGED vars
      PROVE  shelf' = shelf /\ pc' = pc
  BY <1>9 DEF DrainBegin, DrainEnd, Tick, vars, recordVars
<1> QED
  BY <1>1, <1>2, <1>3, <1>4, <1>5, <1>6, <1>7, <1>8, <1>9
  DEF Next, Acquire, Prepare, Finish, Client, Drain

\* max_active_runtimes bounds the runtimes the pool owns, the quarantined ones
\* whose teardown failed included.
THEOREM CapacityRespected == Spec => []CapacityBound
<1>1. Init => CapacityInv
  <2> SUFFICES ASSUME Init PROVE CapacityInv
    OBVIOUS
  <2>1. pool = {}
    BY DEF Init, pool
  <2> QED
    BY <2>1, FS_EmptySet, CapacityAssumption DEF Init, CapacityInv, CapacityBound
<1>2. CapacityInv => CapacityBound
  BY DEF CapacityInv
<1> QED
  BY <1>1, <1>2, CapacityInvStep, TodoInvariant, LeaseInvariant, PTL DEF Spec

\* What RuntimesAccounted says of leases, of idle runtimes and of the pool's size.
THEOREM RuntimesNotLost == Spec => []RuntimesAccounted
<1>1. LeasesAccounted /\ IdleRuntimeClean /\ CapacityBound => RuntimesAccounted
  BY DEF RuntimesAccounted
<1> QED
  BY <1>1, LeasesNotLeaked, IdleClean, CapacityRespected, PTL

----------------------------------------------------------------------------
(* Sleeping threads are woken *)

\* Every step keeps FullInv: a runtime becomes free only by a step that wakes
\* every sleeping thread and that nobody can take while another holds the lock.
LEMMA FullInvStep == LeaseInv /\ FullInv /\ [Next]_vars => FullInv'
<1> SUFFICES ASSUME LeaseInv, FullInv, [Next]_vars PROVE FullInv'
  OBVIOUS
<1> USE NamesAssumption DEF FullInv, LeaseInv, TypeOK, LockDiscipline, LockedPcs
<1>1. ASSUME \A c \in Backends : pc'[c] \notin {"evicting", "refused", "waiting"} PROVE FullInv'
  BY <1>1
<1>2. ASSUME NEW b \in Backends, ReapOrphan(b) \/ QuarantineLeased(b) \/ Release(b) PROVE FullInv'
  BY <1>1, <1>2 DEF ReapOrphan, QuarantineLeased, Release, NotifyAll, Goto
<1>3. CASE DrainOne
  BY <1>1, <1>3 DEF DrainOne, NotifyAll
<1>4. ASSUME NEW b \in Backends, EvictIdle(b) PROVE FullInv'
  <2>1. PICK r \in todo, tornDown \in BOOLEAN :
          /\ Quarantine(r, tornDown)
          /\ todo' = IF tornDown THEN {} ELSE todo \ {r}
          /\ pc' = NotifyAll(Goto(b, IF tornDown THEN "provisioning" ELSE "evicting"))
    BY <1>4 DEF EvictIdle
  <2>2. \A c \in Backends \ {b} : pc'[c] \notin {"evicting", "refused", "waiting"}
    BY <1>4, <2>1 DEF EvictIdle, NotifyAll, Goto
  <2>3. CASE tornDown
    BY <1>1, <2>1, <2>2, <2>3 DEF NotifyAll, Goto
  <2>4. CASE ~tornDown
    <3>1. pool' = pool /\ pc[b] = "evicting" /\ pc'[b] = "evicting"
      BY <1>4, <2>1, <2>4 DEF EvictIdle, Quarantine, pool, NotifyAll, Goto
    <3>2. NothingIdle(b)'
      BY <3>1, <2>1, <2>4 DEF NothingIdle, Quarantine, AtCapacity, pool
    <3> QED
      BY <2>2, <3>2
  <2> QED
    BY <2>3, <2>4
<1>5. ASSUME NEW b \in Backends, LookForCapacity(b) PROVE FullInv'
  <2>1. pool' = pool /\ inUse' = inUse /\ quarantined' = quarantined
    BY <1>5 DEF LookForCapacity, recordVars, pool
  <2>2. ASSUME NEW c \in Backends, pc'[c] \in {"evicting", "refused", "waiting"} PROVE NothingIdle(c)'
    <3>1. CASE c = b
      BY <1>5, <2>1, <2>2, <3>1 DEF LookForCapacity, Goto, NothingIdle, AtCapacity, Available, IdleOfOtherScale, pool
    <3>2. CASE c # b
      BY <1>5, <2>1, <2>2, <3>2 DEF LookForCapacity, Goto, NothingIdle, AtCapacity, pool
    <3> QED
      BY <3>1, <3>2
  <2> QED
    BY <2>2
<1>6. ASSUME NEW b \in Backends, Provision(b) PROVE FullInv'
  <2>1. PICK r \in Records : /\ Fresh(r) /\ shelf' = [shelf EXCEPT ![r] = want[b]]
                             /\ quarantined' = [quarantined EXCEPT ![r] = FALSE] /\ Grant(b, r)
    BY <1>6 DEF Provision
  <2>2. want[b] \in Scales
    BY <1>6 DEF Provision, ScaleKnown, AcquirePcs
  <2>3. pool' = pool \cup {r} /\ r \notin pool
    BY <2>1, <2>2 DEF pool, Fresh
  <2>4. Cardinality(pool') = Cardinality(pool) + 1
    BY <2>3, PoolFinite, FS_AddElement
  <2>5. AtCapacity => AtCapacity'
    BY <2>4, PoolFinite, CapacityAssumption DEF AtCapacity
  <2>6. \A c \in Backends : pc'[c] \in {"evicting", "refused", "waiting"} => pc[c] = "waiting" /\ pc'[c] = "waiting"
    BY <1>6, <2>1 DEF Provision, Grant, Goto
  <2> QED
    BY <2>1, <2>3, <2>5, <2>6 DEF NothingIdle, Grant, pool
<1>7. ASSUME NEW b \in Backends, LeaseWarm(b) PROVE FullInv'
  <2>1. pool' = pool /\ quarantined' = quarantined /\ \A r \in pool : inUse[r] => inUse'[r]
    BY <1>7 DEF LeaseWarm, Grant, pool
  <2>2. \A c \in Backends : pc'[c] \in {"evicting", "refused", "waiting"} => pc[c] = "waiting" /\ pc'[c] = "waiting"
    BY <1>7 DEF LeaseWarm, Grant, Goto
  <2> QED
    BY <2>1, <2>2 DEF NothingIdle, AtCapacity
<1>8. ASSUME shelf' = shelf, inUse' = inUse, quarantined' = quarantined,
             \A c \in Backends : pc'[c] \in {"evicting", "refused", "waiting"} =>
               /\ pc[c] \in {"evicting", "refused", "waiting"}
               /\ pc[c] = "evicting" => todo = {} \/ (pc'[c] = "evicting" /\ todo' = todo)
      PROVE  FullInv'
  <2>1. pool' = pool
    BY <1>8 DEF pool
  <2> QED
    BY <1>8, <2>1 DEF NothingIdle, AtCapacity
<1>9. ASSUME NEW b \in Backends,
             \/ EnterLoop(b) \/ NothingToEvict(b) \/ ProvisionFails(b) \/ WaitForLease(b) \/ GiveUp(b) \/ WakeUp(b)
             \/ TopologyMismatch(b) \/ PrepareRuntime(b) \/ BaselineNotReady(b) \/ PrepareFails(b) \/ ObserveEpisode(b)
             \/ RefreshLease(b) \/ CleanupSucceeds(b) \/ CleanupFails(b) \/ StartTool(b) \/ StartFinish(b)
             \/ (\E s \in Scales : Request(b, s)) \/ (\E l \in AgentLimits : OpenSession(b, l))
      PROVE  FullInv'
  <2>1. shelf' = shelf /\ inUse' = inUse /\ quarantined' = quarantined
    BY <1>9 DEF recordVars, EnterLoop, NothingToEvict, ProvisionFails, WaitForLease, GiveUp, WakeUp, TopologyMismatch, PrepareRuntime, BaselineNotReady, PrepareFails, ObserveEpisode, RefreshLease, CleanupSucceeds, CleanupFails, StartTool, StartFinish, Request, OpenSession
  <2>2. \A c \in Backends : pc'[c] \in {"evicting", "refused", "waiting"} =>
               /\ pc[c] \in {"evicting", "refused", "waiting"}
               /\ pc[c] = "evicting" => todo = {} \/ (pc'[c] = "evicting" /\ todo' = todo)
    BY <1>9 DEF lockVars, Goto, LeaveAcquire, EnterLoop, NothingToEvict, ProvisionFails, WaitForLease, GiveUp, WakeUp, TopologyMismatch, PrepareRuntime, BaselineNotReady, PrepareFails, ObserveEpisode, RefreshLease, CleanupSucceeds, CleanupFails, StartTool, StartFinish, Request, OpenSession
  <2> QED
    BY <1>8, <2>1, <2>2
<1>10. CASE DrainBegin \/ DrainEnd \/ Tick \/ UNCHANGED vars
  <2>1. shelf' = shelf /\ inUse' = inUse /\ quarantined' = quarantined /\ pc' = pc
    BY <1>10 DEF DrainBegin, DrainEnd, Tick, vars, recordVars
  <2>2. todo' = todo \/ owner = Nobody
    BY <1>10 DEF DrainBegin, DrainEnd, Tick, vars, lockVars
  <2> QED
    BY <1>8, <2>1, <2>2
<1> QED
  BY <1>2, <1>3, <1>4, <1>5, <1>6, <1>7, <1>9, <1>10
  DEF Next, Acquire, Prepare, Finish, Client, Drain

\* Every step keeps AlarmInv: a lease that is granted or refreshed lasts at
\* least Ttl, and no thread sleeps longer than WaitLimit.
LEMMA AlarmInvStep == LeaseInv /\ LeaseInv' /\ AlarmInv /\ [Next]_vars => AlarmInv'
<1> SUFFICES ASSUME LeaseInv, LeaseInv', AlarmInv, [Next]_vars PROVE AlarmInv'
  OBVIOUS
<1> USE TimeAssumption, NamesAssumption DEF AlarmInv, LeaseInv, TypeOK, pool, Sooner
<1>1. ASSUME NEW b \in Backends, ReapOrphan(b) \/ QuarantineLeased(b) \/ Release(b) \/ EvictIdle(b) PROVE AlarmInv'
  BY <1>1 DEF ReapOrphan, QuarantineLeased, Release, EvictIdle, NotifyAll, Goto
<1>2. CASE DrainOne
  BY <1>2 DEF DrainOne, NotifyAll
<1>3. ASSUME NEW b \in Backends, LeaseWarm(b) \/ Provision(b) PROVE AlarmInv'
  BY <1>3 DEF LeaseWarm, Provision, Fresh, Grant, LeaveAcquire, Goto
<1>4. ASSUME NEW b \in Backends, WaitForLease(b) PROVE AlarmInv'
  BY <1>4 DEF WaitForLease, NextWaitTimeout, Goto, recordVars
<1>5. ASSUME NEW b \in Backends, RefreshLease(b) PROVE AlarmInv'
  BY <1>5 DEF RefreshLease, Refresh, Later, Goto, waitVars
<1>6. ASSUME NEW b \in Backends, NEW l \in AgentLimits, OpenSession(b, l) PROVE AlarmInv'
  BY <1>6 DEF OpenSession, Refresh, Later, Goto, waitVars
<1>7. CASE Tick
  BY <1>7 DEF Tick, Pred
<1>8. ASSUME shelf' = shelf, inUse' = inUse, ttl' = ttl,
             \A c \in Backends : pc'[c] = "waiting" => pc[c] = "waiting" /\ alarm'[c] = alarm[c]
      PROVE  AlarmInv'
  BY <1>8
<1>9. ASSUME NEW b \in Backends,
             \/ EnterLoop(b) \/ LookForCapacity(b) \/ NothingToEvict(b) \/ ProvisionFails(b) \/ GiveUp(b) \/ WakeUp(b)
             \/ TopologyMismatch(b) \/ PrepareRuntime(b) \/ BaselineNotReady(b) \/ PrepareFails(b) \/ ObserveEpisode(b)
             \/ CleanupSucceeds(b) \/ CleanupFails(b) \/ StartTool(b) \/ StartFinish(b) \/ (\E s \in Scales : Request(b, s))
      PROVE  AlarmInv'
  BY <1>8, <1>9 DEF recordVars, waitVars, Goto, LeaveAcquire, EnterLoop, LookForCapacity, NothingToEvict, ProvisionFails, GiveUp, WakeUp, TopologyMismatch, PrepareRuntime, BaselineNotReady, PrepareFails, ObserveEpisode, CleanupSucceeds, CleanupFails, StartTool, StartFinish, Request
<1>10. CASE DrainBegin \/ DrainEnd \/ UNCHANGED vars
  BY <1>8, <1>10 DEF DrainBegin, DrainEnd, vars, recordVars, waitVars
<1> QED
  BY <1>1, <1>2, <1>3, <1>4, <1>5, <1>6, <1>7, <1>9, <1>10
  DEF Next, Acquire, Prepare, Finish, Client, Drain

\* No thread sleeps while it could be served, nor past a deadline by more than an acquire may wait longer
\* than a lease lasts.
THEOREM SleepersWoken == Spec => []NoLostWakeup
<1>1. Init => FullInv /\ AlarmInv
  BY DEF Init, FullInv, AlarmInv
<1>2. LeaseInv /\ FullInv /\ AlarmInv => NoLostWakeup
  BY DEF LeaseInv, TypeOK, FullInv, AlarmInv, NothingIdle, NoLostWakeup
<1> QED
  BY <1>1, <1>2, FullInvStep, AlarmInvStep, LeaseInvariant, PTL DEF Spec

----------------------------------------------------------------------------
(* The pool implements ExclusiveLease *)

\* A runtime's holder is the one backend it is leased to.
LEMMA HolderUnique ==
  ASSUME LeaseInv, NEW r \in Records
  PROVE  /\ \A b \in Backends : LeasedTo(b, r) <=> holderMap[r] = b
         /\ (\A b \in Backends : ~LeasedTo(b, r)) <=> holderMap[r] = Nobody
BY NamesAssumption DEF holderMap, HolderOf, LeasedTo, LeaseInv, ExclusiveEpisodeLease

\* The same of the state after a step.
LEMMA HolderUniqueNext ==
  ASSUME LeaseInv', NEW r \in Records
  PROVE  /\ \A b \in Backends : LeasedTo(b, r)' <=> holderMap'[r] = b
         /\ (\A b \in Backends : ~LeasedTo(b, r)') <=> holderMap'[r] = Nobody
BY NamesAssumption DEF holderMap, HolderOf, LeasedTo, LeaseInv, ExclusiveEpisodeLease

\* Holders are the same as long as every backend holds what it held.
LEMMA SameHolders ==
  ASSUME LeaseInv, LeaseInv',
         \A b \in Backends, r \in Records : LeasedTo(b, r)' <=> LeasedTo(b, r)
  PROVE  holderMap' = holderMap
<1>1. ASSUME NEW r \in Records PROVE HolderOf(r)' = HolderOf(r)
  <2>1. CASE \E b \in Backends : LeasedTo(b, r)
    <3>1. PICK b \in Backends : LeasedTo(b, r)
      BY <2>1
    <3> QED
      BY <3>1, HolderUnique, HolderUniqueNext DEF holderMap
  <2>2. CASE \A b \in Backends : ~LeasedTo(b, r)
    BY <2>2, HolderUnique, HolderUniqueNext DEF holderMap
  <2> QED
    BY <2>1, <2>2
<1> QED
  BY <1>1 DEF holderMap

\* One backend gets or gives up one runtime, and nobody else's changes.
LEMMA OneHolderChanges ==
  ASSUME LeaseInv, LeaseInv', NEW b \in Backends, NEW r \in Records,
         NEW h \in {b, Nobody},
         LeasedTo(b, r)' <=> h = b,
         \A c \in Backends : c # b => ~LeasedTo(c, r)',
         \A c \in Backends, x \in Records : x # r => (LeasedTo(c, x)' <=> LeasedTo(c, x))
  PROVE  holderMap' = [holderMap EXCEPT ![r] = h]
<1>1. HolderOf(r)' = h
  BY HolderUniqueNext, NamesAssumption DEF holderMap
<1>2. ASSUME NEW x \in Records, x # r PROVE HolderOf(x)' = HolderOf(x)
  <2>1. CASE \E c \in Backends : LeasedTo(c, x)
    <3>1. PICK c \in Backends : LeasedTo(c, x)
      BY <2>1
    <3> QED
      BY <1>2, <3>1, HolderUnique, HolderUniqueNext DEF holderMap
  <2>2. CASE \A c \in Backends : ~LeasedTo(c, x)
    BY <1>2, <2>2, HolderUnique, HolderUniqueNext DEF holderMap
  <2> QED
    BY <2>1, <2>2
<1> QED
  BY <1>1, <1>2 DEF holderMap

\* Every step of the pool is a step of the exclusive lease or leaves holders and
\* retired runtimes alone.
LEMMA RefinementStep == LeaseInv /\ LeaseInv' /\ TodoInv /\ [Next]_vars => [EL!Next]_(EL!vars)
<1> SUFFICES ASSUME LeaseInv, LeaseInv', TodoInv, [Next]_vars
             PROVE  EL!Next \/ UNCHANGED <<holderMap, retiredMap>>
  BY DEF EL!vars
<1> USE NamesAssumption
\* A record of the pool is quarantined while its holder, if any, keeps it.
<1>1. ASSUME NEW r \in Records, NEW tornDown \in BOOLEAN, Quarantine(r, tornDown),
             rec' = rec, \A c \in Backends : Holds(c)' <=> Holds(c)
      PROVE  EL!Next
  <2>1. holderMap' = holderMap
    BY <1>1, SameHolders DEF LeasedTo
  <2>2. retiredMap' = retiredMap \cup {r}
    BY <1>1 DEF retiredMap, Quarantine, LeaseInv, TypeOK
  <2> QED
    BY <2>1, <2>2 DEF EL!Next, EL!Retire
<1>2. ASSUME NEW b \in Backends, ReapOrphan(b) \/ EvictIdle(b) PROVE EL!Next
  <2>1. PICK r \in todo, tornDown \in BOOLEAN : Quarantine(r, tornDown)
    BY <1>2 DEF ReapOrphan, EvictIdle
  <2>2. rec' = rec /\ \A c \in Backends : Holds(c)' <=> Holds(c)
    BY <1>2 DEF ReapOrphan, EvictIdle, NotifyAll, Goto, Holds, HolderPcs, SessionPcs, LeaseInv, TypeOK
  <2> QED
    BY <1>1, <2>1, <2>2 DEF LeaseInv, TypeOK
<1>3. ASSUME DrainOne PROVE EL!Next
  <2>1. PICK r \in todo, tornDown \in BOOLEAN : Quarantine(r, tornDown)
    BY <1>3 DEF DrainOne
  <2>2. rec' = rec /\ \A c \in Backends : Holds(c)' <=> Holds(c)
    BY <1>3 DEF DrainOne, NotifyAll, Holds, HolderPcs, SessionPcs, LeaseInv, TypeOK
  <2> QED
    BY <1>1, <2>1, <2>2 DEF LeaseInv, TypeOK
\* A grant: nobody held the record, and the backend held nothing.
<1>4. ASSUME NEW b \in Backends, NEW r \in Records, Grant(b, r), ~Holds(b),
             \A c \in Backends : ~LeasedTo(c, r)
      PROVE  /\ holderMap' = [holderMap EXCEPT ![r] = b]
             /\ \A x \in Records : holderMap[x] # b
             /\ holderMap[r] = Nobody
  <2>1. LeasedTo(b, r)' /\ \A c \in Backends : c # b => ~LeasedTo(c, r)'
    BY <1>4 DEF Grant, Goto, LeasedTo, Holds, HolderPcs, LeaseInv, TypeOK
  <2>2. \A c \in Backends, x \in Records : x # r => (LeasedTo(c, x)' <=> LeasedTo(c, x))
    BY <1>4 DEF Grant, Goto, LeasedTo, Holds, HolderPcs, LeaseInv, TypeOK
  <2>3. holderMap' = [holderMap EXCEPT ![r] = b]
    BY <2>1, <2>2, OneHolderChanges
  <2> QED
    BY <1>4, <2>3, HolderUnique DEF LeasedTo
<1>5. ASSUME NEW b \in Backends, LeaseWarm(b) PROVE EL!Next
  <2>1. PICK r \in Available(want[b]) : Grant(b, r)
    BY <1>5 DEF LeaseWarm
  <2>2. r \in Records /\ ~inUse[r] /\ ~quarantined[r] /\ \A c \in Backends : ~LeasedTo(c, r)
    BY DEF Available, pool, LeasedTo, LeaseInv, LeasesAccounted
  <2>3. ~Holds(b)
    BY <1>5 DEF LeaseWarm, Holds, HolderPcs, SessionPcs
  <2>4. retiredMap' = retiredMap \ {r} /\ r \notin retiredMap
    BY <1>5, <2>2 DEF LeaseWarm, retiredMap
  <2> QED
    BY <1>4, <2>1, <2>2, <2>3, <2>4
    DEF EL!Next, EL!LeaseInService, EL!Lease, EL!Idle
<1>6. ASSUME NEW b \in Backends, Provision(b) PROVE EL!Next
  <2>1. PICK r \in Records :
          Fresh(r) /\ quarantined' = [quarantined EXCEPT ![r] = FALSE] /\ Grant(b, r)
    BY <1>6 DEF Provision
  <2>2. quarantined[r] /\ \A c \in Backends : ~LeasedTo(c, r)
    BY <2>1 DEF Fresh, pool, LeasedTo, LeaseInv, GoneIsQuarantined
  <2>3. ~Holds(b)
    BY <1>6 DEF Provision, Holds, HolderPcs, SessionPcs
  <2>4. retiredMap' = retiredMap \ {r} /\ r \in retiredMap
    BY <2>1, <2>2 DEF retiredMap, LeaseInv, TypeOK
  <2> QED
    BY <1>4, <2>1, <2>2, <2>3, <2>4 DEF EL!Next, EL!LeaseNew, EL!Lease, EL!Idle
\* The holder lets go.
<1>7. ASSUME NEW b \in Backends, Holds(b), NEW r \in Records, r = rec[b],
             rec' = [rec EXCEPT ![b] = NoRecord], pc' = NotifyAll(Goto(b, "idle"))
      PROVE  /\ holderMap[r] = b
             /\ holderMap' = [holderMap EXCEPT ![r] = Nobody]
  <2>1. LeasedTo(b, r)
    BY <1>7 DEF LeasedTo
  <2>2. ~Holds(b)' /\ \A c \in Backends : c # b => (Holds(c)' <=> Holds(c)) /\ rec'[c] = rec[c]
    BY <1>7 DEF NotifyAll, Goto, Holds, HolderPcs, SessionPcs, LeaseInv, TypeOK
  <2>3. \A c \in Backends : ~LeasedTo(c, r)'
    BY <1>7, <2>1, <2>2 DEF LeasedTo, LeaseInv, ExclusiveEpisodeLease
  <2>4. \A c \in Backends, x \in Records : x # r => (LeasedTo(c, x)' <=> LeasedTo(c, x))
    BY <1>7, <2>2 DEF LeasedTo
  <2>5. holderMap' = [holderMap EXCEPT ![r] = Nobody]
    BY <2>3, <2>4, OneHolderChanges
  <2> QED
    BY <2>1, <2>5, HolderUnique
<1>8. ASSUME NEW b \in Backends, Release(b) PROVE EL!Next
  <2>1. Holds(b)
    BY <1>8 DEF Release, Holds, HolderPcs
  <2>2. retiredMap' = retiredMap /\ rec[b] \in Records
    BY <1>8, <2>1 DEF Release, retiredMap, LeaseInv, RecordHeld
  <2> QED
    BY <1>7, <1>8, <2>1, <2>2 DEF Release, EL!Next, EL!Return
<1>9. ASSUME NEW b \in Backends, QuarantineLeased(b) PROVE EL!Next
  <2>1. Holds(b)
    BY <1>9 DEF QuarantineLeased, Holds, HolderPcs
  <2>2. rec[b] \in Records
    BY <2>1 DEF LeaseInv, RecordHeld
  <2>3. retiredMap' = retiredMap \cup {rec[b]}
    BY <1>9, <2>2 DEF QuarantineLeased, Quarantine, retiredMap, LeaseInv, TypeOK
  <2> QED
    BY <1>7, <1>9, <2>1, <2>2, <2>3 DEF QuarantineLeased, EL!Next, EL!Return
\* Every other step changes neither a holder nor a quarantine.
<1>10. ASSUME rec' = rec, quarantined' = quarantined, \A c \in Backends : Holds(c)' <=> Holds(c)
       PROVE  UNCHANGED <<holderMap, retiredMap>>
  <2>1. holderMap' = holderMap
    BY <1>10, SameHolders DEF LeasedTo
  <2> QED
    BY <1>10, <2>1 DEF retiredMap
<1>11. ASSUME NEW b \in Backends,
             \/ EnterLoop(b) \/ LookForCapacity(b) \/ NothingToEvict(b) \/ ProvisionFails(b) \/ WaitForLease(b) \/ GiveUp(b) \/ WakeUp(b)
             \/ TopologyMismatch(b) \/ PrepareRuntime(b) \/ BaselineNotReady(b) \/ PrepareFails(b) \/ ObserveEpisode(b) \/ RefreshLease(b)
             \/ CleanupSucceeds(b) \/ CleanupFails(b) \/ StartTool(b) \/ StartFinish(b)
             \/ (\E s \in Scales : Request(b, s)) \/ (\E l \in AgentLimits : OpenSession(b, l))
       PROVE  rec' = rec /\ quarantined' = quarantined /\ \A c \in Backends : Holds(c)' <=> Holds(c)
  BY <1>11 DEF LeaseInv, TypeOK, recordVars, Goto, Holds, HolderPcs, SessionPcs,
     EnterLoop, LookForCapacity, NothingToEvict, ProvisionFails, WaitForLease, GiveUp, WakeUp, TopologyMismatch, PrepareRuntime, BaselineNotReady, PrepareFails, ObserveEpisode, RefreshLease, CleanupSucceeds, CleanupFails, StartTool, StartFinish, Request, OpenSession
<1>12. ASSUME DrainBegin \/ DrainEnd \/ Tick \/ UNCHANGED vars
       PROVE  rec' = rec /\ quarantined' = quarantined /\ pc' = pc
  BY <1>12 DEF DrainBegin, DrainEnd, Tick, vars, recordVars
<1>13. CASE DrainBegin \/ DrainEnd \/ Tick \/ UNCHANGED vars
  BY <1>10, <1>12, <1>13 DEF Holds
<1> QED
  BY <1>2, <1>3, <1>5, <1>6, <1>8, <1>9, <1>10, <1>11, <1>13
  DEF Next, Acquire, Prepare, Finish, Client, Drain

\* The pool and its backends implement the exclusive lease.
THEOREM PoolImplementsLease == Spec => ImplementsExclusiveLease
<1>1. Init => EL!Init
  <2> SUFFICES ASSUME Init PROVE EL!Init
    OBVIOUS
  <2>1. \A r \in Records, b \in Backends : ~LeasedTo(b, r)
    BY DEF Init, LeasedTo, Holds, HolderPcs, SessionPcs
  <2>2. retiredMap = Records
    BY DEF Init, retiredMap
  <2> QED
    BY <2>1, <2>2 DEF EL!Init, holderMap, HolderOf
<1> QED
  BY <1>1, RefinementStep, LeaseInvariant, TodoInvariant, PTL
  DEF Spec, ImplementsExclusiveLease, EL!Spec
=============================================================================
