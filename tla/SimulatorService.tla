-------------------------- MODULE SimulatorService --------------------------
(***************************************************************************)
(* The HTTP service over simulator environments: SimulatorService, one     *)
(* DiagnosticEnvironment per slot, and the SimulatorManager's registry of  *)
(* environments and its current lease pool.  Request threads create, step  *)
(* and delete environments while another thread closes the service.        *)
(***************************************************************************)
EXTENDS Naturals, FiniteSets, FiniteSetsExt

CONSTANTS
  Envs,              \* names of environments: an id is never used again
  Workers,           \* threads that serve requests
  Closer,            \* the thread that closes the service
  Nobody,            \* no thread, no environment
  MaxActive,         \* SimulatorConfig.max_active_runtimes
  MaxTombstones,     \* _MAX_TERMINAL_TOMBSTONES
  MaxPools           \* bound: pools made by the manager

ASSUME NamesAssumption == Closer \notin Workers /\ Nobody \notin Workers \cup {Closer} \cup Envs
ASSUME BoundsAssumption ==
  /\ IsFiniteSet(Envs) /\ MaxActive \in Nat \ {0} /\ MaxTombstones \in Nat \ {0}
  /\ MaxPools \in Nat

Threads == Workers \cup {Closer}
Pools == 1..MaxPools
NoPool == 0

VARIABLES
  table,             \* environments: the ids with a slot
  bound,             \* the slots whose environment is not None
  terminal,          \* slot.terminal
  terminalAt,        \* the order of the slots' terminal_at, 0 for None
  expired,           \* the last that is older than the tombstone TTL
  slotLock,          \* slot.lock
  incident,          \* state of the environment's incident: "ended" is closed or broken
  cleaned,           \* incidents whose cleanup_status is set
  closeLock,         \* the incident's _close_lock
  session,           \* state of the environment's session
  leased,            \* environments that lease a runtime of their pool
  poolOf,            \* the pool its engine was made with
  idle, broken,      \* per pool: runtimes that nobody leases, and those that could not be torn down
  pool,              \* SimulatorManager._lease_pool
  registered,        \* SimulatorManager._environments
  notified,          \* environments with _close_notified
  drained,           \* the pool that manager.close found when it started
  pc, on, phase,     \* per thread: where it is, on which environment, and where in environment.close
  todo               \* the closer's list of slots or environments

slotVars == <<table, bound, terminal, terminalAt, expired>>
envVars == <<incident, cleaned, session>>
poolVars == <<leased, poolOf, idle, broken, pool>>
registryVars == <<registered, notified, drained>>
threadVars == <<pc, on, phase, todo>>
vars == <<slotVars, slotLock, envVars, closeLock, poolVars, registryVars, threadVars>>

Pcs == {"idle", "creating", "resetting", "acquiring", "preparing", "opening", "rejecting",
        "inserting", "stepping", "acting", "answering", "ending", "stamping", "pruning",
        "deleting", "removing", "sweeping", "sweepingOne", "unregistering", "clearing"}

Init ==
  /\ table = {} /\ bound = {} /\ terminal = {} /\ terminalAt = [e \in Envs |-> 0] /\ expired = 0
  /\ slotLock = [e \in Envs |-> Nobody] /\ closeLock = [e \in Envs |-> Nobody]
  /\ incident = [e \in Envs |-> "none"] /\ cleaned = {}
  /\ session = [e \in Envs |-> "none"]
  /\ leased = {} /\ poolOf = [e \in Envs |-> NoPool]
  /\ idle = [p \in Pools |-> 0] /\ broken = [p \in Pools |-> 0] /\ pool = NoPool
  /\ registered = {} /\ notified = {} /\ drained = NoPool
  /\ pc = [t \in Threads |-> "idle"] /\ on = [t \in Threads |-> Nobody]
  /\ phase = [t \in Threads |-> "none"] /\ todo = {}
----------------------------------------------------------------------------
At(t, place) == pc[t] = place /\ phase[t] = "none"
Goto(t, place) == pc' = [pc EXCEPT ![t] = place] /\ UNCHANGED <<on, phase, todo>>
Return(t) ==
  /\ pc' = [pc EXCEPT ![t] = "idle"] /\ on' = [on EXCEPT ![t] = Nobody]
  /\ UNCHANGED <<phase, todo>>

\* environment.close() is called at place, where the thread goes on afterwards.
CloseAt(t, place) ==
  /\ pc' = [pc EXCEPT ![t] = place] /\ phase' = [phase EXCEPT ![t] = "close"]

Lock(t, e) == slotLock[e] = Nobody /\ slotLock' = [slotLock EXCEPT ![e] = t]
Unlock(e) == slotLock' = [slotLock EXCEPT ![e] = Nobody]

Leased(p) == {e \in leased : poolOf[e] = p}
FreshPool == 1 + Max({poolOf[e] : e \in Envs})
RuntimeCount(p) == idle[p] + broken[p] + Cardinality(Leased(p))

\* An incident can be closed once engine.prepare has returned it.
Attached(e) == incident[e] \notin {"none", "preparing"}
----------------------------------------------------------------------------
(* Tombstones *)

\* Slots that are terminal and whose environment is gone, stamped already or not.
Tombstones(tab) == (tab \cap terminal) \ bound

\* terminal_at or infinity: a slot that is not stamped yet counts as the newest.
AsNew(at, e, f) == at[e] = 0 \/ (at[f] > 0 /\ at[e] >= at[f])

\* Mutant: the newest are dropped.
PruneNewest(tab, tomb, at) ==
  LET fresh == {e \in tomb : at[e] = 0 \/ at[e] > expired}
  IN  {(tab \ tomb) \cup kept : kept \in
         {K \in SUBSET fresh : /\ Cardinality(K) <= MaxTombstones
                              /\ (K = fresh \/ Cardinality(K) = MaxTombstones)
                              /\ \A e \in K, f \in fresh \ K : AsNew(at, f, e)}}

\* _prune_terminal_environments: the tables it may leave of tab, where tomb are
\* tombstones stamped by at.  Those past the TTL go, then the oldest beyond the
\* maximum; among those without a stamp any may be the oldest.
Prunes(tab, tomb, at) ==
  LET fresh == {e \in tomb : at[e] = 0 \/ at[e] > expired}
  IN  {(tab \ tomb) \cup kept : kept \in
         {K \in SUBSET fresh : /\ Cardinality(K) <= MaxTombstones
                              /\ (K = fresh \/ Cardinality(K) = MaxTombstones)
                              /\ \A e \in K, f \in fresh \ K : AsNew(at, e, f)}}

LastStamp == Max({terminalAt[e] : e \in Envs})
Stamp(e) == [terminalAt EXCEPT ![e] = LastStamp + 1]

\* _TERMINAL_TOMBSTONE_TTL_SECONDS pass for the oldest that is not past it.
TimePasses ==
  /\ expired < LastStamp
  /\ expired' = expired + 1
  /\ UNCHANGED <<table, bound, terminal, terminalAt, slotLock, envVars, closeLock, poolVars, registryVars, threadVars>>
----------------------------------------------------------------------------
(* environment.close, as a subroutine of whoever calls it *)

\* finish of the incident's backend: the runtime goes back to the pool, or is
\* torn down, or cannot be torn down.  A revoked one is the pool's business.
GiveBack(e) ==
  LET p == poolOf[e] IN
  /\ leased' = leased \ {e}
  /\ UNCHANGED <<poolOf, pool>>
  /\ IF e \notin leased
     THEN UNCHANGED <<idle, broken>>
     ELSE \/ idle' = [idle EXCEPT ![p] = @ + 1] /\ UNCHANGED broken
          \/ UNCHANGED <<idle, broken>>
          \/ broken' = [broken EXCEPT ![p] = @ + 1] /\ UNCHANGED idle

\* incident.close takes _close_lock and finds its cleanup still to do.
BeginClose(t) ==
  LET e == on[t] IN
  /\ phase[t] = "close" /\ Attached(e) /\ closeLock[e] = Nobody /\ e \notin cleaned
  /\ closeLock' = [closeLock EXCEPT ![e] = t]
  /\ incident' = [incident EXCEPT ![e] = "closing"]
  /\ phase' = [phase EXCEPT ![t] = "finish"]
  /\ UNCHANGED <<slotVars, slotLock, cleaned, session, poolVars, registryVars, pc, on, todo>>

\* There is no incident yet, or it was cleaned up before.
NothingToClose(t) ==
  LET e == on[t] IN
  /\ phase[t] = "close" /\ (~Attached(e) \/ (closeLock[e] = Nobody /\ e \in cleaned))
  /\ phase' = [phase EXCEPT ![t] = "notify"]
  /\ UNCHANGED <<slotVars, slotLock, envVars, closeLock, poolVars, registryVars, pc, on, todo>>

FinishClose(t) ==
  LET e == on[t] IN
  /\ phase[t] = "finish"
  /\ GiveBack(e)
  /\ cleaned' = cleaned \cup {e}
  /\ incident' = [incident EXCEPT ![e] = "ended"]
  /\ closeLock' = [closeLock EXCEPT ![e] = Nobody]
  /\ phase' = [phase EXCEPT ![t] = "notify"]
  /\ UNCHANGED <<slotVars, slotLock, session, registryVars, pc, on, todo>>

\* _notify_close: the manager forgets the environment, the first time.
Discard(e) ==
  /\ notified' = notified \cup {e}
  /\ registered' = IF e \in notified THEN registered ELSE registered \ {e}
  /\ UNCHANGED drained

NotifyClose(t) ==
  /\ phase[t] = "notify"
  /\ Discard(on[t])
  /\ phase' = [phase EXCEPT ![t] = "none"]
  /\ UNCHANGED <<slotVars, slotLock, envVars, closeLock, poolVars, pc, on, todo>>
----------------------------------------------------------------------------
(* POST /v1/environments *)

\* SimulatorManager._engine: the current pool, or a new one.
Create(t, e) ==
  /\ At(t, "idle") /\ poolOf[e] = NoPool
  /\ pool' = IF pool = NoPool THEN FreshPool ELSE pool
  /\ pool' \in Pools
  /\ poolOf' = [poolOf EXCEPT ![e] = pool']
  /\ pc' = [pc EXCEPT ![t] = "creating"] /\ on' = [on EXCEPT ![t] = e]
  /\ UNCHANGED <<slotVars, slotLock, envVars, closeLock, leased, idle, broken, registryVars, phase, todo>>

\* SimulatorManager.create: the environment is registered.
Register(t) ==
  /\ At(t, "creating")
  /\ registered' = registered \cup {on[t]}
  /\ Goto(t, "resetting")
  /\ UNCHANGED <<slotVars, slotLock, envVars, closeLock, poolVars, notified, drained>>

\* environment.reset: the engine prepares the incident.
Reset(t) ==
  /\ At(t, "resetting")
  /\ incident' = [incident EXCEPT ![on[t]] = "preparing"]
  /\ Goto(t, "acquiring")
  /\ UNCHANGED <<slotVars, slotLock, cleaned, session, closeLock, poolVars, registryVars>>

\* RuntimeLeasePool.acquire grants an idle runtime or provisions one.
AcquireRuntime(t) ==
  LET e == on[t]
      p == poolOf[e] IN
  /\ At(t, "acquiring")
  /\ \/ idle[p] > 0 /\ idle' = [idle EXCEPT ![p] = @ - 1]
     \/ idle[p] = 0 /\ RuntimeCount(p) < MaxActive /\ UNCHANGED idle
  /\ leased' = leased \cup {e}
  /\ Goto(t, "preparing")
  /\ UNCHANGED <<slotVars, slotLock, envVars, closeLock, poolOf, broken, pool, registryVars>>

\* Preparation failed: the backend is finished at once and reset reports an
\* invalid case.
Broken(t) ==
  LET e == on[t] IN
  /\ incident' = [incident EXCEPT ![e] = "ended"]
  /\ cleaned' = cleaned \cup {e}
  /\ Goto(t, "rejecting")
  /\ UNCHANGED <<slotVars, slotLock, session, closeLock, registryVars>>

\* acquire times out or its provisioning fails.
AcquireFails(t) == At(t, "acquiring") /\ Broken(t) /\ UNCHANGED poolVars

PrepareFails(t) == At(t, "preparing") /\ Broken(t) /\ GiveBack(on[t])

PrepareSucceeds(t) ==
  /\ At(t, "preparing")
  /\ incident' = [incident EXCEPT ![on[t]] = "active"]
  /\ Goto(t, "opening")
  /\ UNCHANGED <<slotVars, slotLock, cleaned, session, closeLock, poolVars, registryVars>>

\* open_session, which raises when the manager has closed the incident meanwhile.
OpenSession(t) ==
  /\ At(t, "opening")
  /\ IF incident[on[t]] = "active"
     THEN session' = [session EXCEPT ![on[t]] = "active"] /\ Goto(t, "inserting")
     ELSE UNCHANGED session /\ Return(t)
  /\ UNCHANGED <<slotVars, slotLock, incident, cleaned, closeLock, poolVars, registryVars>>

\* reset notifies the manager of an invalid case, and create closes the environment.
Reject(t) ==
  /\ At(t, "rejecting")
  /\ Discard(on[t])
  /\ CloseAt(t, "inserting")
  /\ UNCHANGED <<slotVars, slotLock, envVars, closeLock, poolVars, on, todo>>

\* The slot is made, a tombstone if the case was invalid.
Insert(t) ==
  LET e == on[t]
      invalid == session[e] = "none" IN
  /\ At(t, "inserting")
  /\ terminalAt' = IF invalid THEN Stamp(e) ELSE terminalAt
  /\ terminal' = IF invalid THEN terminal \cup {e} ELSE terminal
  /\ bound' = IF invalid THEN bound ELSE bound \cup {e}
  /\ \E tab \in Prunes(table, Tombstones(table), terminalAt) :
       table' \in Prunes(tab \cup {e}, Tombstones(tab) \cup (IF invalid THEN {e} ELSE {}), terminalAt')
  /\ Return(t)
  /\ UNCHANGED <<expired, slotLock, envVars, closeLock, poolVars, registryVars>>
----------------------------------------------------------------------------
(* POST /v1/environments/{environment_id}/actions *)

\* step prunes and looks for the slot under the service's lock.
Lookup(t, e) ==
  /\ At(t, "idle")
  /\ table' \in Prunes(table, Tombstones(table), terminalAt)
  /\ IF e \in table'
     THEN pc' = [pc EXCEPT ![t] = "stepping"] /\ on' = [on EXCEPT ![t] = e]
     ELSE UNCHANGED <<pc, on>>
  /\ UNCHANGED <<bound, terminal, terminalAt, expired, slotLock, envVars, closeLock, poolVars, registryVars, phase, todo>>

\* Under slot.lock: is the environment terminal or gone?
Conflict(t) ==
  LET e == on[t] IN
  /\ At(t, "stepping") /\ slotLock[e] = Nobody
  /\ e \in terminal \/ e \notin bound
  /\ Return(t)
  /\ UNCHANGED <<slotVars, slotLock, envVars, closeLock, poolVars, registryVars>>

EnterStep(t) ==
  LET e == on[t] IN
  /\ At(t, "stepping") /\ e \notin terminal /\ e \in bound
  /\ Lock(t, e)
  /\ Goto(t, "acting")
  /\ UNCHANGED <<slotVars, envVars, closeLock, poolVars, registryVars>>

\* DiagnosticSession._require_active
RequireActive(e) == session[e] = "active" /\ incident[e] = "active"

\* A tool call that leaves the session active, or an action that raises: in
\* submit the evaluation may.
StepReturns(t) ==
  /\ At(t, "acting")
  /\ Unlock(on[t]) /\ Return(t)
  /\ UNCHANGED <<slotVars, envVars, closeLock, poolVars, registryVars>>

\* The session becomes terminal: a tool call over the limit is answered, a
\* submission and a protocol error close the incident first.
Terminate(t) ==
  LET e == on[t] IN
  /\ At(t, "acting") /\ RequireActive(e)
  /\ session' = [session EXCEPT ![e] = "terminal"]
  /\ UNCHANGED <<slotVars, slotLock, incident, cleaned, closeLock, poolVars, registryVars>>

ToolOverLimit(t) == Terminate(t) /\ Goto(t, "answering")
Submit(t) == Terminate(t) /\ CloseAt(t, "answering") /\ UNCHANGED <<on, todo>>

\* The result is terminal: so is the slot, and its environment is closed.
MarkTerminal(t) ==
  /\ At(t, "answering")
  /\ terminal' = terminal \cup {on[t]}
  /\ CloseAt(t, "ending")
  /\ UNCHANGED <<table, bound, terminalAt, expired, slotLock, envVars, closeLock, poolVars, registryVars, on, todo>>

\* slot.environment = None: from here on whoever prunes counts the slot.
Retire(t) ==
  /\ At(t, "ending")
  /\ bound' = bound \ {on[t]}
  /\ Goto(t, "stamping")
  /\ UNCHANGED <<table, terminal, terminalAt, expired, slotLock, envVars, closeLock, poolVars, registryVars>>

\* slot.terminal_at, still without the service's lock.
StampSlot(t) ==
  /\ At(t, "stamping")
  /\ terminalAt' = Stamp(on[t])
  /\ Goto(t, "pruning")
  /\ UNCHANGED <<table, bound, terminal, expired, slotLock, envVars, closeLock, poolVars, registryVars>>

\* The service's lock is taken to prune, then the slot's is left.
PruneSlots(t) ==
  /\ At(t, "pruning")
  /\ table' \in Prunes(table, Tombstones(table), terminalAt)
  /\ Unlock(on[t]) /\ Return(t)
  /\ UNCHANGED <<bound, terminal, terminalAt, expired, envVars, closeLock, poolVars, registryVars>>
----------------------------------------------------------------------------
(* DELETE /v1/environments/{environment_id} *)

Delete(t, e) ==
  /\ At(t, "idle") /\ e \in table
  /\ table' = table \ {e}
  /\ pc' = [pc EXCEPT ![t] = "deleting"] /\ on' = [on EXCEPT ![t] = e]
  /\ UNCHANGED <<bound, terminal, terminalAt, expired, slotLock, envVars, closeLock, poolVars, registryVars, phase, todo>>

DeleteGone(t) ==
  /\ At(t, "deleting") /\ slotLock[on[t]] = Nobody /\ on[t] \notin bound
  /\ Return(t)
  /\ UNCHANGED <<slotVars, slotLock, envVars, closeLock, poolVars, registryVars>>

DeleteBound(t) ==
  /\ At(t, "deleting") /\ on[t] \in bound
  /\ Lock(t, on[t])
  /\ CloseAt(t, "removing")
  /\ UNCHANGED <<slotVars, envVars, closeLock, poolVars, registryVars, on, todo>>

DeleteDone(t) ==
  /\ At(t, "removing")
  /\ bound' = bound \ {on[t]}
  /\ Unlock(on[t]) /\ Return(t)
  /\ UNCHANGED <<table, terminal, terminalAt, expired, envVars, closeLock, poolVars, registryVars>>
----------------------------------------------------------------------------
(* SimulatorService.close and SimulatorManager.close *)

CloseService ==
  /\ At(Closer, "idle")
  /\ todo' = table /\ table' = {}
  /\ pc' = [pc EXCEPT ![Closer] = "sweeping"]
  /\ UNCHANGED <<bound, terminal, terminalAt, expired, slotLock, envVars, closeLock, poolVars, registryVars, on, phase>>

\* Mutant: slots that are being stepped are skipped.
SweepUnlessBusy(e) ==
  /\ At(Closer, "sweeping") /\ e \in todo
  /\ todo' = todo \ {e}
  /\ IF e \in bound /\ slotLock[e] = Nobody
     THEN /\ slotLock' = [slotLock EXCEPT ![e] = Closer]
          /\ on' = [on EXCEPT ![Closer] = e]
          /\ CloseAt(Closer, "sweepingOne")
     ELSE UNCHANGED <<slotLock, on, pc, phase>>
  /\ UNCHANGED <<slotVars, envVars, closeLock, poolVars, registryVars>>

\* One slot of the list, under its lock.
SweepSlot(e) ==
  /\ At(Closer, "sweeping") /\ e \in todo /\ slotLock[e] = Nobody
  /\ todo' = todo \ {e}
  /\ IF e \in bound
     THEN /\ slotLock' = [slotLock EXCEPT ![e] = Closer]
          /\ on' = [on EXCEPT ![Closer] = e]
          /\ CloseAt(Closer, "sweepingOne")
     ELSE UNCHANGED <<slotLock, on, pc, phase>>
  /\ UNCHANGED <<slotVars, envVars, closeLock, poolVars, registryVars>>

SweptSlot ==
  /\ At(Closer, "sweepingOne")
  /\ bound' = bound \ {on[Closer]}
  /\ Unlock(on[Closer])
  /\ on' = [on EXCEPT ![Closer] = Nobody] /\ pc' = [pc EXCEPT ![Closer] = "sweeping"]
  /\ UNCHANGED <<table, terminal, terminalAt, expired, envVars, closeLock, poolVars, registryVars, phase, todo>>

\* manager.close, at the end of the service's close or called again by
\* NetOpsBench.aclose: it works on a copy of the registry and on the pool of now.
CloseManager ==
  /\ \/ At(Closer, "sweeping") /\ todo = {}
     \/ At(Closer, "idle")
  /\ todo' = registered /\ drained' = pool
  /\ on' = [on EXCEPT ![Closer] = Nobody]
  /\ pc' = [pc EXCEPT ![Closer] = "unregistering"]
  /\ UNCHANGED <<slotVars, slotLock, envVars, closeLock, poolVars, registered, notified, phase>>

CloseRegistered(e) ==
  /\ At(Closer, "unregistering") /\ e \in todo
  /\ todo' = todo \ {e}
  /\ on' = [on EXCEPT ![Closer] = e]
  /\ CloseAt(Closer, "unregistering")
  /\ UNCHANGED <<slotVars, slotLock, envVars, closeLock, poolVars, registryVars>>

\* drain of that pool: every runtime is torn down, leased or not, or stays
\* broken, and then the close raises.
DrainPool ==
  /\ At(Closer, "unregistering") /\ todo = {}
  /\ IF drained = NoPool
     THEN UNCHANGED <<leased, idle, broken, drained>> /\ Goto(Closer, "clearing")
     ELSE \E failed \in 0..RuntimeCount(drained) :
            /\ broken' = [broken EXCEPT ![drained] = failed]
            /\ idle' = [idle EXCEPT ![drained] = 0]
            /\ leased' = leased \ Leased(drained)
            /\ drained' = IF failed = 0 THEN drained ELSE NoPool
            /\ Goto(Closer, IF failed = 0 THEN "clearing" ELSE "idle")
  /\ UNCHANGED <<slotVars, slotLock, envVars, closeLock, poolOf, pool, registered, notified>>

\* Nothing failed: the manager starts afresh, unless it has another pool by now.
ClearRegistries ==
  /\ At(Closer, "clearing")
  /\ registered' = {} /\ drained' = NoPool
  /\ pool' = IF pool = drained THEN NoPool ELSE pool
  /\ on' = [on EXCEPT ![Closer] = Nobody] /\ pc' = [pc EXCEPT ![Closer] = "idle"]
  /\ UNCHANGED <<slotVars, slotLock, envVars, closeLock, leased, poolOf, idle, broken, notified, phase, todo>>
----------------------------------------------------------------------------
\* The lease of a client that went silent is revoked by whoever next acquires.
LeaseExpires(e) ==
  /\ e \in leased /\ incident[e] = "active"
  /\ leased' = leased \ {e}
  /\ \/ UNCHANGED broken
     \/ broken' = [broken EXCEPT ![poolOf[e]] = @ + 1]
  /\ UNCHANGED <<slotVars, slotLock, envVars, closeLock, poolOf, idle, pool, registryVars, threadVars>>

CloseEnvironment(t) == BeginClose(t) \/ NothingToClose(t) \/ FinishClose(t) \/ NotifyClose(t)

CreateSteps(t) ==
  \/ Register(t) \/ Reset(t) \/ AcquireRuntime(t) \/ AcquireFails(t) \/ PrepareFails(t)
  \/ PrepareSucceeds(t) \/ OpenSession(t) \/ Reject(t) \/ Insert(t)

StepSteps(t) ==
  \/ Conflict(t) \/ EnterStep(t) \/ StepReturns(t) \/ ToolOverLimit(t) \/ Submit(t)
  \/ MarkTerminal(t) \/ Retire(t) \/ StampSlot(t) \/ PruneSlots(t)

DeleteSteps(t) == DeleteGone(t) \/ DeleteBound(t) \/ DeleteDone(t)

CloserSteps ==
  \/ SweptSlot \/ DrainPool \/ ClearRegistries
  \/ At(Closer, "sweeping") /\ CloseManager
  \/ \E e \in Envs : SweepSlot(e) \/ CloseRegistered(e)

Work(t) == CreateSteps(t) \/ StepSteps(t) \/ DeleteSteps(t) \/ CloseEnvironment(t)
Request(t, e) == Create(t, e) \/ Lookup(t, e) \/ Delete(t, e)

Next ==
  \/ \E t \in Workers : Work(t) \/ \E e \in Envs : Request(t, e)
  \/ CloserSteps \/ CloseEnvironment(Closer)
  \/ CloseService \/ CloseManager
  \/ TimePasses
  \/ \E e \in Envs : LeaseExpires(e)

\* Threads that serve a request keep running and the closer too; nobody has to
\* send a request.  A thread that waits for a lock gets it in the end.
Fairness ==
  /\ \A t \in Workers : WF_vars(Work(t)) /\ SF_vars(EnterStep(t) \/ Conflict(t)) /\ SF_vars(DeleteSteps(t))
  /\ \A t \in Threads : WF_vars(CloseEnvironment(t)) /\ SF_vars(BeginClose(t) \/ NothingToClose(t))
  /\ WF_vars(CloserSteps) /\ SF_vars(\E e \in Envs : SweepSlot(e))

Spec == Init /\ [][Next]_vars
FairSpec == Spec /\ Fairness
----------------------------------------------------------------------------
(* Properties *)

TypeOK ==
  /\ table \subseteq Envs /\ bound \subseteq Envs /\ terminal \subseteq Envs
  /\ terminalAt \in [Envs -> Nat] /\ expired \in Nat
  /\ slotLock \in [Envs -> Threads \cup {Nobody}] /\ closeLock \in [Envs -> Threads \cup {Nobody}]
  /\ incident \in [Envs -> {"none", "preparing", "active", "closing", "ended"}]
  /\ cleaned \subseteq Envs
  /\ session \in [Envs -> {"none", "active", "terminal"}]
  /\ leased \subseteq Envs /\ poolOf \in [Envs -> Pools \cup {NoPool}]
  /\ idle \in [Pools -> Nat] /\ broken \in [Pools -> Nat] /\ pool \in Pools \cup {NoPool}
  /\ registered \subseteq Envs /\ notified \subseteq Envs /\ drained \in Pools \cup {NoPool}
  /\ pc \in [Threads -> Pcs] /\ on \in [Threads -> Envs \cup {Nobody}]
  /\ phase \in [Threads -> {"none", "close", "finish", "notify"}] /\ todo \subseteq Envs

\* A request is at work on the environment, or the closer has it in its list or closes it.
Attended(e) ==
  \/ \E t \in Workers : on[t] = e
  \/ on[Closer] = e /\ phase[Closer] # "none"
  \/ e \in todo

\* An environment that still drives a runtime can be stepped, deleted or closed
\* by somebody: no interleaving of create, step, delete and close loses it.
NoRuntimeLost == \A e \in leased : (e \in table /\ e \in bound) \/ Attended(e)

\* A thread is about to stamp the slot, or to prune after it.
Retiring(e) == \E t \in Workers : pc[t] \in {"stamping", "pruning"} /\ on[t] = e

\* The service remembers a bounded number of terminal environments: no more
\* than the maximum and those that threads are retiring at this moment.
TombstonesBounded == Cardinality({e \in Tombstones(table) : ~Retiring(e)}) <= MaxTombstones

\* Somebody deletes the slot or sweeps the table: whatever else leaves it was pruned.
Taken(e) ==
  \/ pc[Closer] # pc'[Closer]
  \/ \E t \in Workers : pc[t] = "idle" /\ pc'[t] = "deleting" /\ on'[t] = e

\* The slot of an invalid case is made in this step.
Rejected(e) == terminalAt'[e] > 0 /\ \E t \in Workers : pc[t] = "inserting" /\ on[t] = e

\* Pruning reads slots whose lock another thread may hold, and counts one as the
\* newest whose environment is gone but which has no stamp yet.  It never takes
\* one whose environment was not closed, which would make its runtime
\* unreachable.  It drops a tombstone only when it is past its TTL or when enough
\* are kept that are at least as new, so that a replayed action is answered with
\* a conflict, and not with "unknown environment", while the service can
\* remember it; and it keeps no more.
PruneIsExact ==
  /\ []TombstonesBounded
  /\ [][\A e \in table \ table' : Taken(e) \/ (e \in terminal /\ e \in cleaned)]_vars
  /\ [][\A e \in Envs \ table' :
         (e \in Tombstones(table) /\ ~Taken(e)) \/ Rejected(e)
         => \/ terminalAt'[e] \in 1..expired
            \/ Cardinality({f \in Tombstones(table)' : AsNew(terminalAt', f, e)}) >= MaxTombstones]_vars

\* When the manager has closed successfully it has left no runtime behind, and
\* while tearing down fails it keeps the pool to try again.
NoPoolForgotten ==
  (\A t \in Threads : pc[t] = "idle") => \A p \in Pools : p # pool => RuntimeCount(p) = 0

\* Every request is answered, and a close ends: step holds the slot's lock while
\* it closes the incident, and delete, close and the manager want both.
RequestsReturn == \A t \in Threads : pc[t] # "idle" ~> pc[t] = "idle"
=============================================================================
