----------------------------- MODULE LeasePool -----------------------------
(***************************************************************************)
(* The simulator's pool of warm runtimes (platform/simulator/runtime.py):  *)
(* RuntimeLeasePool, guarded by one re-entrant lock, and the               *)
(* RuntimeEpisodeBackends that acquire a runtime, prepare an incident on   *)
(* it, keep the lease alive while a diagnostic session calls tools, and    *)
(* finish by releasing or quarantining the runtime.                        *)
(*                                                                         *)
(* Each backend stands for the thread that drives it.  A value of Records  *)
(* names a WarmRuntime object; a name is used again for a new object only  *)
(* when nothing refers to the old one any more.  Time is counted in ticks: *)
(* ttl[r] is the number of ticks before r's lease deadline is in the past. *)
(***************************************************************************)
EXTENDS Naturals, FiniteSets

CONSTANTS
  Records,      \* names for WarmRuntime objects
  Backends,     \* RuntimeEpisodeBackend objects, one thread each
  Scales,       \* topology scales a scenario may ask for
  NoRecord,     \* self.record is None
  NoScale,      \* the record is in no list of _runtimes; no scale asked for
  Nobody,       \* the pool's lock is free
  Drainer,      \* the thread inside RuntimeLeasePool.drain
  MaxActive,    \* config.max_active_runtimes
  Ttl,          \* config.orphan_lease_ttl_seconds, in ticks
  Grace,        \* the 300 seconds refresh adds to min_seconds, in ticks
  AgentLimits,  \* the max_agent_seconds sessions are opened with, in ticks
  WaitLimit     \* _LEASE_WAIT_TIMEOUT_SECONDS, in ticks

ASSUME CapacityAssumption == MaxActive \in Nat \ {0}
ASSUME TimeAssumption ==
  /\ Ttl \in Nat \ {0}
  /\ Grace \in Nat
  /\ WaitLimit \in Nat \ {0}
  /\ AgentLimits \subseteq Nat
ASSUME NamesAssumption ==
  /\ NoRecord \notin Records
  /\ Nobody \notin Backends
  /\ Drainer \notin Backends
  /\ Drainer # Nobody
  /\ NoScale \notin Scales
ASSUME RecordsAssumption == IsFiniteSet(Records)

VARIABLES
  shelf,        \* the key of RuntimeLeasePool._runtimes that lists the record
  inUse,        \* record.in_use
  quarantined,  \* record.quarantined
  ttl,          \* record.lease_deadline - now, 0 when the deadline is past
  faulted,      \* the runner of the record still has an active fault
  owner,        \* the thread that holds the pool's lock
  todo,         \* the records the lock holder still has to quarantine
  pc,           \* where each backend's thread is
  rec,          \* the record a backend has leased
  want,         \* the scale a backend asked for
  waited,       \* ticks since acquire was called
  alarm,        \* ticks before the timeout of Condition.wait
  limit,        \* max_agent_seconds of the open session
  elapsed       \* ticks since the session started

recordVars == <<shelf, inUse, quarantined, ttl, faulted>>
lockVars   == <<owner, todo>>
waitVars   == <<want, waited, alarm>>
clockVars  == <<limit, elapsed>>
vars == <<recordVars, lockVars, pc, rec, waitVars, clockVars>>

AcquirePcs == {"acquiring", "waiting", "reaping", "evicting", "provisioning", "refused"}
LockedPcs  == {"reaping", "evicting", "provisioning", "refused"}
SessionPcs == {"session", "refreshing", "executing"}
HolderPcs  == {"preparing", "observing", "active", "cleaning", "releasing", "quarantining"}
                \cup SessionPcs
Pcs == {"idle"} \cup AcquirePcs \cup HolderPcs

TypeOK ==
  /\ shelf \in [Records -> Scales \cup {NoScale}]
  /\ inUse \in [Records -> BOOLEAN]
  /\ quarantined \in [Records -> BOOLEAN]
  /\ ttl \in [Records -> Nat]
  /\ faulted \in [Records -> BOOLEAN]
  /\ owner \in Backends \cup {Nobody, Drainer}
  /\ todo \subseteq Records
  /\ pc \in [Backends -> Pcs]
  /\ rec \in [Backends -> Records \cup {NoRecord}]
  /\ want \in [Backends -> Scales \cup {NoScale}]
  /\ waited \in [Backends -> 0..WaitLimit]
  /\ alarm \in [Backends -> 0..WaitLimit]
  /\ limit \in [Backends -> Nat]
  /\ elapsed \in [Backends -> Nat]

Init ==
  /\ shelf = [r \in Records |-> NoScale]
  /\ inUse = [r \in Records |-> FALSE]
  /\ quarantined = [r \in Records |-> TRUE]  \* a name without object looks discarded
  /\ ttl = [r \in Records |-> 0]
  /\ faulted = [r \in Records |-> FALSE]
  /\ owner = Nobody
  /\ todo = {}
  /\ pc = [b \in Backends |-> "idle"]
  /\ rec = [b \in Backends |-> NoRecord]
  /\ want = [b \in Backends |-> NoScale]
  /\ waited = [b \in Backends |-> 0]
  /\ alarm = [b \in Backends |-> 0]
  /\ limit = [b \in Backends |-> 0]
  /\ elapsed = [b \in Backends |-> 0]

----------------------------------------------------------------------------
(* Helpers *)

pool == {r \in Records : shelf[r] # NoScale}

Later(a, b) == IF a >= b THEN a ELSE b
Sooner(a, b) == IF a <= b THEN a ELSE b
Pred(n) == IF n = 0 THEN 0 ELSE n - 1

Holds(b) == pc[b] \in HolderPcs
LeasedTo(b, r) == Holds(b) /\ rec[b] = r
InSession(b) == pc[b] \in SessionPcs
WithinLimit(b) == InSession(b) /\ elapsed[b] <= limit[b]

\* Mutant: a quarantined record is handed out again.
AvailableUnlessInUse(s) == {r \in pool : shelf[r] = s /\ ~inUse[r]}
Available(s) == {r \in pool : shelf[r] = s /\ ~inUse[r] /\ ~quarantined[r]}
IdleOfOtherScale(s) == {r \in pool : shelf[r] # s /\ ~inUse[r] /\ ~quarantined[r]}
\* Mutant: a lease ends one tick before its deadline.
StaleTooSoon == {r \in pool : inUse[r] /\ ttl[r] <= 1}
StaleLeases == {r \in pool : inUse[r] /\ ttl[r] = 0}
AtCapacity == Cardinality(pool) >= MaxActive

\* A name that stands for no existing WarmRuntime object.
Fresh(r) == r \in Records \ pool /\ \A b \in Backends : rec[b] # r

\* Condition.notify_all: the waiting threads compete for the lock again.
NotifyAll(p) == [b \in Backends |-> IF p[b] = "waiting" THEN "acquiring" ELSE p[b]]
Goto(b, label) == [pc EXCEPT ![b] = label]

\* acquire returns or raises: the lock is let go and its locals are gone.
LeaveAcquire(b) ==
  /\ want' = [want EXCEPT ![b] = NoScale]
  /\ waited' = [waited EXCEPT ![b] = 0]
  /\ alarm' = [alarm EXCEPT ![b] = 0]
  /\ owner' = Nobody
  /\ todo' = {}

\* record.in_use = True with a full lease.
Grant(b, r) ==
  /\ inUse' = [inUse EXCEPT ![r] = TRUE]
  /\ ttl' = [ttl EXCEPT ![r] = Ttl]
  /\ rec' = [rec EXCEPT ![b] = r]
  /\ pc' = Goto(b, "preparing")
  /\ LeaveAcquire(b)

\* The session is over: nothing reads its limit and its start any more.
EndSession(b) ==
  /\ limit' = [limit EXCEPT ![b] = 0]
  /\ elapsed' = [elapsed EXCEPT ![b] = 0]

\* Mutant: a revoked lease only frees the record.
FreeOnly(r, tornDown) ==
  /\ inUse' = [inUse EXCEPT ![r] = FALSE]
  /\ ttl' = [ttl EXCEPT ![r] = 0]
  /\ shelf' = IF tornDown THEN [shelf EXCEPT ![r] = NoScale] ELSE shelf
  /\ UNCHANGED <<quarantined, faulted>>

\* RuntimeLeasePool.quarantine: the record leaves the pool only when its
\* teardown succeeded; a failed teardown keeps it there, quarantined.
Quarantine(r, tornDown) ==
  /\ quarantined' = [quarantined EXCEPT ![r] = TRUE]
  /\ inUse' = [inUse EXCEPT ![r] = FALSE]
  /\ ttl' = [ttl EXCEPT ![r] = 0]
  /\ shelf' = IF tornDown THEN [shelf EXCEPT ![r] = NoScale] ELSE shelf
  /\ faulted' = IF tornDown THEN [faulted EXCEPT ![r] = FALSE] ELSE faulted

----------------------------------------------------------------------------
(* RuntimeLeasePool.acquire *)

\* A client opens an incident: backend.prepare calls leases.acquire(scale).
Request(b, s) ==
  /\ pc[b] = "idle"
  /\ pc' = Goto(b, "acquiring")
  /\ want' = [want EXCEPT ![b] = s]
  /\ UNCHANGED <<recordVars, lockVars, rec, waited, alarm, clockVars>>

\* The top of the loop: take the lock and list the leases past their deadline.
EnterLoop(b) ==
  /\ pc[b] = "acquiring"
  /\ owner = Nobody
  /\ owner' = b
  /\ todo' = StaleLeases
  /\ pc' = Goto(b, "reaping")
  /\ UNCHANGED <<recordVars, rec, waitVars, clockVars>>

\* reap_orphans quarantines one stale lease; a failed teardown is only logged.
ReapOrphan(b) ==
  /\ pc[b] = "reaping"
  /\ \E r \in todo, tornDown \in BOOLEAN :
       /\ Quarantine(r, tornDown)
       /\ todo' = todo \ {r}
  /\ pc' = NotifyAll(pc)
  /\ UNCHANGED <<owner, rec, waitVars, clockVars>>

\* A warm runtime of the scale is free: lease it.
LeaseWarm(b) ==
  /\ pc[b] = "reaping"
  /\ todo = {}
  /\ \E r \in Available(want[b]) : Grant(b, r)
  /\ UNCHANGED <<shelf, quarantined, faulted, clockVars>>

\* None is free: _make_capacity_for lists the idle runtimes of other scales
\* when the pool is full.
LookForCapacity(b) ==
  /\ pc[b] = "reaping"
  /\ todo = {}
  /\ Available(want[b]) = {}
  /\ todo' = IF AtCapacity THEN IdleOfOtherScale(want[b]) ELSE {}
  /\ pc' = Goto(b, IF AtCapacity THEN "evicting" ELSE "provisioning")
  /\ UNCHANGED <<recordVars, owner, rec, waitVars, clockVars>>

\* _make_capacity_for stops at the first idle runtime it can tear down.
EvictIdle(b) ==
  /\ pc[b] = "evicting"
  /\ \E r \in todo, tornDown \in BOOLEAN :
       /\ Quarantine(r, tornDown)
       /\ todo' = IF tornDown THEN {} ELSE todo \ {r}
       /\ pc' = NotifyAll(Goto(b, IF tornDown THEN "provisioning" ELSE "evicting"))
  /\ UNCHANGED <<owner, rec, waitVars, clockVars>>

NothingToEvict(b) ==
  /\ pc[b] = "evicting"
  /\ todo = {}
  /\ pc' = Goto(b, "refused")
  /\ UNCHANGED <<recordVars, lockVars, rec, waitVars, clockVars>>

\* _provision, under the lock, and the lease on the new runtime.
Provision(b) ==
  /\ pc[b] = "provisioning"
  /\ \E r \in Records :
       /\ Fresh(r)
       /\ shelf' = [shelf EXCEPT ![r] = want[b]]
       /\ quarantined' = [quarantined EXCEPT ![r] = FALSE]
       /\ faulted' = [faulted EXCEPT ![r] = FALSE]
       /\ Grant(b, r)
  /\ UNCHANGED clockVars

\* RuntimeManager.provision raises: so does acquire.
ProvisionFails(b) ==
  /\ pc[b] = "provisioning"
  /\ pc' = Goto(b, "idle")
  /\ LeaveAcquire(b)
  /\ UNCHANGED <<recordVars, rec, clockVars>>

\* _next_wait_timeout: the nearest deadline that is still ahead, at most what
\* is left of the wait.  A lease already past its deadline does not count.
NextWaitTimeout(b, t) ==
  LET timeouts == {WaitLimit - waited[b]} \cup {ttl[r] : r \in {x \in pool : inUse[x] /\ ttl[x] > 0}}
  IN  t \in timeouts /\ \A u \in timeouts : t <= u

\* Condition.wait lets the lock go until a notification or the alarm.
WaitForLease(b) ==
  /\ pc[b] = "refused"
  /\ waited[b] < WaitLimit
  /\ \E t \in 0..WaitLimit :
       NextWaitTimeout(b, t) /\ alarm' = [alarm EXCEPT ![b] = t]
  /\ pc' = Goto(b, "waiting")
  /\ owner' = Nobody
  /\ UNCHANGED <<recordVars, todo, rec, want, waited, clockVars>>

\* "Timed out waiting for runtime lease".
GiveUp(b) ==
  /\ pc[b] = "refused"
  /\ waited[b] = WaitLimit
  /\ pc' = Goto(b, "idle")
  /\ LeaveAcquire(b)
  /\ UNCHANGED <<recordVars, rec, clockVars>>

WakeUp(b) ==
  /\ pc[b] = "waiting"
  /\ alarm[b] = 0
  /\ pc' = Goto(b, "acquiring")
  /\ UNCHANGED <<recordVars, lockVars, rec, waitVars, clockVars>>

----------------------------------------------------------------------------
(* RuntimeEpisodeBackend.prepare, after the lease is acquired *)

\* Mutant: the lease is forgotten when the topology does not match.
ForgetLease(b) ==
  /\ pc[b] = "preparing"
  /\ pc' = Goto(b, "idle")
  /\ rec' = [rec EXCEPT ![b] = NoRecord]
  /\ UNCHANGED <<recordVars, lockVars, waitVars, clockVars>>

\* require_scenario_topology raises: the lease goes back at once.
TopologyMismatch(b) ==
  /\ pc[b] = "preparing"
  /\ pc' = Goto(b, "releasing")
  /\ UNCHANGED <<recordVars, lockVars, rec, waitVars, clockVars>>

\* Fault recovery, health check, traffic and baseline succeed.
PrepareRuntime(b) ==
  /\ pc[b] = "preparing"
  /\ faulted' = [faulted EXCEPT ![rec[b]] = FALSE]
  /\ pc' = Goto(b, "observing")
  /\ UNCHANGED <<shelf, inUse, quarantined, ttl, lockVars, rec, waitVars, clockVars>>

\* The runtime is healthy but its baseline is not clean yet
\* (_BaselineNotReadyError): finish(broken=False) keeps the runtime.
BaselineNotReady(b) ==
  /\ pc[b] = "preparing"
  /\ faulted' = [faulted EXCEPT ![rec[b]] = FALSE]
  /\ pc' = Goto(b, "releasing")
  /\ UNCHANGED <<shelf, inUse, quarantined, ttl, lockVars, rec, waitVars, clockVars>>

\* Recovery, health or traffic fails: the incident is BROKEN and
\* finish(broken=True) quarantines the runtime.
PrepareFails(b) ==
  /\ pc[b] = "preparing"
  /\ pc' = Goto(b, "quarantining")
  /\ UNCHANGED <<recordVars, lockVars, rec, waitVars, clockVars>>

\* delegate.prepare injects the fault of the episode (none in a healthy one)
\* and observes it; when it raises, the incident is broken.
ObserveEpisode(b) ==
  /\ pc[b] = "observing"
  /\ \E injected \in BOOLEAN : faulted' = [faulted EXCEPT ![rec[b]] = injected]
  /\ \E label \in {"active", "quarantining"} : pc' = Goto(b, label)
  /\ UNCHANGED <<shelf, inUse, quarantined, ttl, lockVars, rec, waitVars, clockVars>>

----------------------------------------------------------------------------
(* Diagnostic sessions keep the lease alive *)

\* Mutant: the deadline is set to what was asked for, however close.
RefreshExactly(r, minTicks) ==
  ttl' = IF inUse[r] /\ ~quarantined[r] THEN [ttl EXCEPT ![r] = minTicks] ELSE ttl

\* RuntimeLeasePool.refresh: silently nothing when the lease was revoked.
Refresh(r, minTicks) ==
  ttl' = IF inUse[r] /\ ~quarantined[r] THEN [ttl EXCEPT ![r] = Later(Ttl, minTicks)] ELSE ttl

\* PreparedIncident.open_session: refresh for the whole session, then start it.
OpenSession(b, seconds) ==
  /\ pc[b] = "active"
  /\ owner = Nobody
  /\ Refresh(rec[b], seconds + Grace)
  /\ limit' = [limit EXCEPT ![b] = seconds]
  /\ elapsed' = [elapsed EXCEPT ![b] = 0]
  /\ pc' = Goto(b, "session")
  /\ UNCHANGED <<shelf, inUse, quarantined, faulted, lockVars, rec, waitVars>>

\* DiagnosticSession.call_tool: past the limit the session is terminal, and
\* the incident still has to be closed.
StartTool(b) ==
  /\ pc[b] = "session"
  /\ \/ elapsed[b] > limit[b] /\ pc' = Goto(b, "active") /\ EndSession(b)
     \/ elapsed[b] <= limit[b] /\ pc' = Goto(b, "refreshing") /\ UNCHANGED clockVars
  /\ UNCHANGED <<recordVars, lockVars, rec, waitVars>>

\* PreparedIncident.call_tool refreshes before the tool runs and after it.
RefreshLease(b) ==
  /\ \/ pc[b] = "refreshing" /\ pc' = Goto(b, "executing")
     \/ pc[b] = "executing" /\ pc' = Goto(b, "session")
  /\ owner = Nobody
  /\ Refresh(rec[b], Grace)
  /\ UNCHANGED <<shelf, inUse, quarantined, faulted, lockVars, rec, waitVars, clockVars>>

----------------------------------------------------------------------------
(* RuntimeEpisodeBackend.finish *)

\* PreparedIncident.close: cleanup of the scenario begins.
StartFinish(b) ==
  /\ pc[b] \in {"active", "session"}
  /\ pc' = Goto(b, "cleaning")
  /\ EndSession(b)
  /\ UNCHANGED <<recordVars, lockVars, rec, waitVars>>

\* delegate.finish recovered every fault.
CleanupSucceeds(b) ==
  /\ pc[b] = "cleaning"
  /\ faulted' = [faulted EXCEPT ![rec[b]] = FALSE]
  /\ pc' = Goto(b, "releasing")
  /\ UNCHANGED <<shelf, inUse, quarantined, ttl, lockVars, rec, waitVars, clockVars>>

CleanupFails(b) ==
  /\ pc[b] = "cleaning"
  /\ pc' = Goto(b, "quarantining")
  /\ UNCHANGED <<recordVars, lockVars, rec, waitVars, clockVars>>

\* Mutant: release does not notify.
ReleaseSilently(b) ==
  /\ pc[b] = "releasing"
  /\ owner = Nobody
  /\ inUse' = [inUse EXCEPT ![rec[b]] = FALSE]
  /\ ttl' = [ttl EXCEPT ![rec[b]] = 0]
  /\ rec' = [rec EXCEPT ![b] = NoRecord]
  /\ pc' = Goto(b, "idle")
  /\ UNCHANGED <<shelf, quarantined, faulted, lockVars, waitVars, clockVars>>

\* RuntimeLeasePool.release.
Release(b) ==
  /\ pc[b] = "releasing"
  /\ owner = Nobody
  /\ inUse' = [inUse EXCEPT ![rec[b]] = FALSE]
  /\ ttl' = [ttl EXCEPT ![rec[b]] = 0]
  /\ rec' = [rec EXCEPT ![b] = NoRecord]
  /\ pc' = NotifyAll(Goto(b, "idle"))
  /\ UNCHANGED <<shelf, quarantined, faulted, lockVars, waitVars, clockVars>>

\* The broken runtime is torn down; when that fails, finish raises.
QuarantineLeased(b) ==
  /\ pc[b] = "quarantining"
  /\ owner = Nobody
  /\ \E tornDown \in BOOLEAN : Quarantine(rec[b], tornDown)
  /\ rec' = [rec EXCEPT ![b] = NoRecord]
  /\ pc' = NotifyAll(Goto(b, "idle"))
  /\ UNCHANGED <<lockVars, waitVars, clockVars>>

----------------------------------------------------------------------------
(* RuntimeLeasePool.drain, called by SimulatorManager.close *)

DrainBegin ==
  /\ owner = Nobody
  /\ pool # {}
  /\ owner' = Drainer
  /\ \E selected \in SUBSET Scales : todo' = {r \in pool : shelf[r] \in selected}
  /\ UNCHANGED <<recordVars, pc, rec, waitVars, clockVars>>

DrainOne ==
  /\ owner = Drainer
  /\ \E r \in todo, tornDown \in BOOLEAN :
       /\ Quarantine(r, tornDown)
       /\ todo' = todo \ {r}
  /\ pc' = NotifyAll(pc)
  /\ UNCHANGED <<owner, rec, waitVars, clockVars>>

DrainEnd ==
  /\ owner = Drainer
  /\ todo = {}
  /\ owner' = Nobody
  /\ UNCHANGED <<recordVars, todo, pc, rec, waitVars, clockVars>>

----------------------------------------------------------------------------
\* One tick of time.monotonic, which may fall anywhere, also while a thread
\* holds the lock to provision or to tear down.
Tick ==
  /\ ttl' = [r \in Records |-> Pred(ttl[r])]
  /\ waited' = [b \in Backends |->
                  IF pc[b] \in AcquirePcs THEN Sooner(WaitLimit, waited[b] + 1) ELSE waited[b]]
  /\ alarm' = [b \in Backends |-> IF pc[b] = "waiting" THEN Pred(alarm[b]) ELSE alarm[b]]
  /\ elapsed' = [b \in Backends |->
                  IF WithinLimit(b) THEN elapsed[b] + 1 ELSE elapsed[b]]
  /\ UNCHANGED <<shelf, inUse, quarantined, faulted, lockVars, pc, rec, want, limit>>

\* What a thread does by itself once a client has called it.
Acquire(b) ==
  \/ EnterLoop(b) \/ ReapOrphan(b) \/ LeaseWarm(b) \/ LookForCapacity(b)
  \/ EvictIdle(b) \/ NothingToEvict(b) \/ Provision(b) \/ ProvisionFails(b)
  \/ WaitForLease(b) \/ GiveUp(b) \/ WakeUp(b)
Prepare(b) ==
  \/ TopologyMismatch(b) \/ PrepareRuntime(b) \/ BaselineNotReady(b)
  \/ PrepareFails(b) \/ ObserveEpisode(b)
Finish(b) ==
  \/ CleanupSucceeds(b) \/ CleanupFails(b) \/ Release(b) \/ QuarantineLeased(b)

\* What a client may or may not do.
Client(b) ==
  \/ \E s \in Scales : Request(b, s)
  \/ \E seconds \in AgentLimits : OpenSession(b, seconds)
  \/ StartTool(b)
  \/ StartFinish(b)

Drain == DrainBegin \/ DrainOne \/ DrainEnd

Next ==
  \/ \E b \in Backends : Acquire(b) \/ Prepare(b) \/ RefreshLease(b) \/ Finish(b) \/ Client(b)
  \/ Drain
  \/ Tick

Spec == Init /\ [][Next]_vars

\* Time passes, a thread that can run does, and the lock does not starve a
\* thread that wants it.  Clients promise nothing: a lease may be orphaned.
Fairness ==
  /\ WF_vars(Tick)
  /\ WF_vars(DrainOne) /\ WF_vars(DrainEnd)
  /\ \A b \in Backends :
       /\ SF_vars(EnterLoop(b))
       /\ WF_vars(Acquire(b))
       /\ WF_vars(Prepare(b))
       /\ SF_vars(RefreshLease(b))
       /\ SF_vars(Finish(b))

FairSpec == Spec /\ Fairness
----------------------------------------------------------------------------
(* Properties *)

\* No two incidents ever drive the same runtime: "grant one exclusive episode
\* lease at a time" (RuntimeLeasePool's docstring), also across a lease that
\* was revoked while its holder was still at work or about to release it.
ExclusiveEpisodeLease ==
  \A b, c \in Backends : b # c /\ Holds(b) /\ Holds(c) => rec[b] # rec[c]

\* A record marked in use is in the pool and some backend will finish it, and
\* a holder's record is in use unless it was revoked, which is for good: no
\* failure path of prepare or finish leaks a lease or frees a runtime twice.
LeasesAccounted ==
  /\ \A r \in Records : inUse[r] => r \in pool /\ ~quarantined[r] /\ \E b \in Backends : LeasedTo(b, r)
  /\ \A b \in Backends : Holds(b) => inUse[rec[b]] \/ quarantined[rec[b]]

\* The pool never owns more runtimes than max_active_runtimes, counting those
\* whose teardown failed, although eviction and provisioning are two steps.
CapacityBound == Cardinality(pool) <= MaxActive

\* A runtime the pool may hand out carries no fault of an earlier episode: it
\* was released only after its cleanup succeeded or before anything was injected.
IdleRuntimeClean ==
  \A r \in pool : ~inUse[r] /\ ~quarantined[r] => ~faulted[r]

\* Every runtime the pool owns is one of at most max_active_runtimes: leased to
\* a backend that will end the lease, idle and clean, or out of service for good.
RuntimesAccounted == LeasesAccounted /\ IdleRuntimeClean /\ CapacityBound

\* No thread sleeps in acquire while it could be served: the pool is full, nothing in it is idle, and
\* the thread wakes before any lease that is not past its deadline expires (notify_all in release and
\* quarantine, _next_wait_timeout).  Only where an acquire may wait longer than a lease lasts can it be
\* late, and by no more than that: a lease past its deadline does not count when the thread falls
\* asleep, and a tool that returns may refresh it.
NoLostWakeup ==
  \A b \in Backends :
    pc[b] = "waiting" =>
      /\ AtCapacity
      /\ \A r \in pool : quarantined[r] \/ (inUse[r] /\ (ttl[r] > 0 => alarm[b] + Sooner(Ttl, WaitLimit) <= ttl[r] + WaitLimit))

\* While a session is within max_agent_seconds, its lease, unless revoked
\* already, covers what is left of the session plus the cleanup grace
\* (SimulatorConfig.validate_lease_deadline).
SessionLeaseCovered ==
  \A b \in Backends :
    WithinLimit(b) /\ ~quarantined[rec[b]] => ttl[rec[b]] + elapsed[b] >= limit[b] + Grace

\* Only a drain takes a runtime away from a session that is within its limit:
\* reap_orphans and _make_capacity_for of other threads never do.
OnlyDrainRevokesSession ==
  [][\A b \in Backends :
       WithinLimit(b) /\ ~quarantined[rec[b]] /\ quarantined'[rec[b]] => owner = Drainer]_vars

\* Every acquire ends, with a lease or with an error: no wakeup is lost and the
\* wait is bounded by _LEASE_WAIT_TIMEOUT_SECONDS.
AcquireReturns ==
  \A b \in Backends : (pc[b] \in AcquirePcs) ~> (pc[b] \notin AcquirePcs)

\* A lease whose holder went silent does not hold its runtime for ever: as
\* long as clients keep asking for runtimes, it ends (reap_orphans at the top of
\* acquire's loop), even if an acquire that was under way gives up.
OrphanReclaimed ==
  \A r \in Records :
    []<>(\E b \in Backends : pc[b] = "acquiring") => []<>(r \notin StaleLeases)

----------------------------------------------------------------------------
(* The pool implements ExclusiveLease *)

HolderOf(r) ==
  IF \E b \in Backends : LeasedTo(b, r) THEN CHOOSE b \in Backends : LeasedTo(b, r) ELSE Nobody

holderMap == [r \in Records |-> HolderOf(r)]
retiredMap == {r \in Records : quarantined[r]}

EL == INSTANCE ExclusiveLease WITH holder <- holderMap, retired <- retiredMap

\* Every behaviour of the pool's threads is one of the exclusive lease's: a
\* runtime changes hands only through its holder, and a revoked one is never
\* leased again.
ImplementsExclusiveLease == EL!Spec
=============================================================================
