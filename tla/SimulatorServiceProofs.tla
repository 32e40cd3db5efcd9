----------------------- MODULE SimulatorServiceProofs -----------------------
(***************************************************************************)
(* Proofs about SimulatorService for every finite set of environments, any *)
(* threads and every limit on runtimes, tombstones and pools.              *)
(***************************************************************************)
EXTENDS SimulatorService, FiniteSetTheorems, WellFoundedInduction, TLAPS

CreatePcs == {"creating", "resetting", "acquiring", "preparing", "opening", "rejecting", "inserting"}
StepPcs == {"stepping", "acting", "answering", "ending", "stamping", "pruning"}
DeletePcs == {"deleting", "removing"}
CloserPcs == {"sweeping", "sweepingOne", "unregistering", "clearing"}

\* The slot's lock is held here and the slot still has its environment.
LockedPcs == {"acting", "answering", "ending", "removing", "sweepingOne"}

\* The slot's lock is held and its environment is gone.
RetiringPcs == {"stamping", "pruning"}

\* An incident that has been prepared and not finished yet is closed here.
ClosingPcs == {"ending", "removing", "sweepingOne"}

\* Where a thread can be, and on what.
PlaceOK(t) ==
  /\ t \in Workers => /\ pc[t] \in {"idle"} \cup CreatePcs \cup StepPcs \cup DeletePcs
                      /\ pc[t] # "idle" => on[t] \in Envs
                      /\ phase[t] # "none" => pc[t] \in {"inserting", "answering", "ending", "removing"}
  /\ t = Closer => /\ pc[t] \in {"idle"} \cup CloserPcs
                   /\ pc[t] = "sweepingOne" => on[t] \in Envs
                   /\ phase[t] # "none" => pc[t] \in {"sweepingOne", "unregistering"} /\ on[t] \in Envs

\* Locks are held by who says so; an environment keeps its slot while it is locked.
HoldsOK(t) ==
  /\ pc[t] \in LockedPcs => slotLock[on[t]] = t /\ on[t] \in bound
  /\ pc[t] \in RetiringPcs => slotLock[on[t]] = t /\ on[t] \notin bound /\ on[t] \in terminal /\ on[t] \in cleaned
  /\ phase[t] = "finish" => closeLock[on[t]] = t /\ incident[on[t]] = "closing"
  /\ pc[t] \in ClosingPcs /\ phase[t] \in {"notify", "none"} => on[t] \in cleaned
  /\ pc[t] = "ending" => on[t] \in terminal

\* The incident of an environment on its way to its slot.
Stage(e, place) ==
  /\ place \in {"creating", "resetting"} => incident[e] = "none"
  /\ place \in {"acquiring", "preparing"} => incident[e] = "preparing"
  /\ place = "rejecting" => incident[e] = "ended"
  /\ place \in {"opening", "inserting"} => Attached(e)
  /\ place = "inserting" /\ session[e] = "none" => incident[e] = "ended"

\* One request creates an environment, and nobody else knows of it but the
\* manager's registry.
CreatorOK(t) ==
  t \in Workers /\ pc[t] \in CreatePcs =>
    /\ Stage(on[t], pc[t])
    /\ on[t] \notin table /\ on[t] \notin bound /\ on[t] \notin terminal /\ terminalAt[on[t]] = 0
    /\ poolOf[on[t]] # NoPool
    /\ \A u \in Workers : on[u] = on[t] => u = t

ThreadsInv == \A t \in Threads : PlaceOK(t) /\ HoldsOK(t) /\ CreatorOK(t)

\* An environment that was never created is nowhere.
UnusedOK(e) ==
  poolOf[e] = NoPool =>
    /\ e \notin table /\ e \notin bound /\ e \notin terminal /\ terminalAt[e] = 0
    /\ incident[e] = "none" /\ \A t \in Workers : on[t] # e

\* The incident's state, its cleanup and its lock belong together.
IncidentOK(e) ==
  /\ e \in cleaned <=> incident[e] = "ended"
  /\ incident[e] = "ended" => e \notin leased
  /\ incident[e] = "closing" => closeLock[e] # Nobody
  /\ closeLock[e] # Nobody => on[closeLock[e]] = e /\ phase[closeLock[e]] = "finish"

\* A slot is a tombstone, or its environment is live or about to be retired.
SlotOK(e) ==
  /\ terminalAt[e] > 0 => e \in terminal /\ e \notin bound /\ e \in cleaned
  /\ e \in bound => Attached(e)
  /\ e \in terminal => terminalAt[e] > 0 \/ \E t \in Workers : pc[t] \in {"ending", "stamping"} /\ on[t] = e

\* The slot of a live environment is in the table, or in the hands of who deletes or sweeps it.
Deleted(e) == \E t \in Workers : pc[t] \in DeletePcs /\ on[t] = e
Swept(e) ==
  \/ pc[Closer] \in {"sweeping", "sweepingOne"} /\ e \in todo
  \/ pc[Closer] = "sweepingOne" /\ on[Closer] = e
SlotHeld(e) == e \in bound => e \in table \/ Deleted(e) \/ Swept(e)

\* A runtime is leased to a live environment, to one that is being created, or
\* to one whose incident is being finished.
LeaseHeld(e) ==
  e \in leased =>
    \/ e \in bound
    \/ \E t \in Workers : on[t] = e /\ pc[t] \in {"preparing", "opening", "inserting"}
    \/ incident[e] = "closing"

EnvsInv == \A e \in Envs : UnusedOK(e) /\ IncidentOK(e) /\ SlotOK(e) /\ SlotHeld(e) /\ LeaseHeld(e)

CoreInv == TypeOK /\ ThreadsInv /\ EnvsInv
ServiceInv == CoreInv /\ TombstonesBounded
----------------------------------------------------------------------------
(* Pruning *)

\* Some element of a finite set has the largest stamp: the set of those that
\* are stamped as high is the smallest of its kind.
LEMMA LargestStamp ==
  ASSUME NEW S \in SUBSET Envs, S # {}, NEW at \in [Envs -> Nat]
  PROVE  \E x \in S : \A y \in S : at[y] <= at[x]
<1> DEFINE Above(e) == {f \in S : at[f] >= at[e]}
           Tops == {Above(e) : e \in S}
<1>1. IsFiniteSet(S)
  BY BoundsAssumption, FS_Subset
<1>2. IsWellFoundedOn(StrictSubsetOrdering(S), FiniteSubsetsOf(S))
  BY FS_StrictSubsetOrderingWellFounded
<1>3. Tops # {} /\ Tops \subseteq SUBSET S
  OBVIOUS
<1>4. Tops \subseteq FiniteSubsetsOf(S)
  BY <1>1, <1>3, FS_Subset DEF FiniteSubsetsOf
<1>5. PICK T \in Tops : \A U \in Tops : ~(<<U, T>> \in StrictSubsetOrdering(S))
  <2> HIDE DEF Tops
  <2> QED
    BY <1>2, <1>3, <1>4, WFMin
<1>6. PICK x \in S : T = Above(x)
  OBVIOUS
<1>7. ASSUME NEW y \in S, at[y] > at[x]
      PROVE  FALSE
  <2>1. Above(y) \subseteq T /\ x \in T /\ x \notin Above(y)
    BY <1>6, <1>7
  <2>2. <<Above(y), T>> \in (SUBSET S) \X (SUBSET S) /\ Above(y) \subseteq T /\ Above(y) # T
    BY <2>1, <1>3
  <2>3. <<Above(y), T>> \in StrictSubsetOrdering(S)
    BY <2>2 DEF StrictSubsetOrdering
  <2> QED
    BY <2>3, <1>5
<1> QED
  BY <1>7

\* No stamp is larger than the last one.
LEMMA LastStampIsLast ==
  ASSUME terminalAt \in [Envs -> Nat], NEW e \in Envs
  PROVE  LastStamp \in Nat /\ terminalAt[e] <= LastStamp
<1> DEFINE Stamps == {terminalAt[f] : f \in Envs}
<1>1. PICK x \in Envs : \A y \in Envs : terminalAt[y] <= terminalAt[x]
  BY LargestStamp
<1>2. terminalAt[x] \in Stamps /\ \A n \in Stamps : terminalAt[x] >= n
  BY <1>1
<1>3. LastStamp \in Stamps /\ \A n \in Stamps : LastStamp >= n
  BY <1>2 DEF LastStamp, Max
<1> QED
  BY <1>3

\* Pruning keeps what is no tombstone and at most the maximum of tombstones; one
\* that it drops is past the TTL, or the maximum is kept and nothing kept is older.
Pruned(left, tab, tomb, at) ==
         /\ left \subseteq tab /\ tab \ tomb \subseteq left
         /\ IsFiniteSet(left \cap tomb) /\ Cardinality(left \cap tomb) \in Nat
         /\ Cardinality(left \cap tomb) <= MaxTombstones
         /\ \A e \in left \cap tomb : at[e] \notin 1..expired
         /\ \A e \in tomb \ left :
              \/ at[e] \in 1..expired
              \/ /\ Cardinality(left \cap tomb) = MaxTombstones
                 /\ \A f \in left \cap tomb : AsNew(at, f, e)

LEMMA PruneResult ==
  ASSUME NEW tab \in SUBSET Envs, NEW tomb \in SUBSET tab, NEW at \in [Envs -> Nat],
         NEW left \in Prunes(tab, tomb, at), expired \in Nat
  PROVE  Pruned(left, tab, tomb, at)
<1> DEFINE fresh == {e \in tomb : at[e] = 0 \/ at[e] > expired}
<1>1. PICK K \in SUBSET fresh :
        /\ left = (tab \ tomb) \cup K
        /\ Cardinality(K) <= MaxTombstones
        /\ K = fresh \/ Cardinality(K) = MaxTombstones
        /\ \A e \in K, f \in fresh \ K : AsNew(at, e, f)
  BY DEF Prunes
<1>2. left \cap tomb = K
  BY <1>1
<1>3. IsFiniteSet(K) /\ Cardinality(K) \in Nat
  <2>1. K \in SUBSET Envs
    OBVIOUS
  <2> QED
    BY <2>1, BoundsAssumption, FS_Subset, FS_CardinalityType
<1>4. \A e \in tomb : e \in fresh <=> at[e] \notin 1..expired
  OBVIOUS
<1> HIDE DEF fresh
<1> QED
  BY <1>1, <1>2, <1>3, <1>4 DEF Pruned

\* As new as is transitive.
LEMMA AsNewChain ==
  ASSUME NEW at \in [Envs -> Nat], NEW e \in Envs, NEW f \in Envs, NEW g \in Envs,
         AsNew(at, e, f), AsNew(at, f, g)
  PROVE  AsNew(at, e, g)
  BY DEF AsNew

\* The maximum is kept, and nothing that is older than e.
FullOfNewer(kept, at, e) == Cardinality(kept) = MaxTombstones /\ \A f \in kept : AsNew(at, f, e)

\* A table that is pruned before a tombstone is added and after: what the first
\* time dropped is still no newer than the maximum that is kept.
LEMMA PruneTwice ==
  ASSUME NEW tab \in SUBSET Envs, NEW tomb \in SUBSET tab, NEW at \in [Envs -> Nat], NEW to \in [Envs -> Nat],
         NEW first \in Prunes(tab, tomb, at), NEW n \in Envs \ tab, NEW more \in SUBSET {n},
         NEW second \in Prunes(first \cup {n}, (first \cap tomb) \cup more, to),
         \A f \in tab : to[f] = at[f], expired \in Nat,
         NEW e \in tomb \ first
  PROVE  to[e] \in 1..expired \/ FullOfNewer(second \cap (tomb \cup more), to, e)
<1> DEFINE one == first \cap tomb
           two == second \cap (one \cup more)
<1>1. /\ first \subseteq tab /\ one \subseteq tomb
      /\ first \cup {n} \in SUBSET Envs /\ one \cup more \in SUBSET (first \cup {n})
  <2>1. Pruned(first, tab, tomb, at)
    BY PruneResult
  <2> QED
    BY <2>1 DEF Pruned
<1>0. Pruned(first, tab, tomb, at)
  BY PruneResult
<1>2. Pruned(second, first \cup {n}, one \cup more, to) /\ second \subseteq first \cup {n}
  <2>1. Pruned(second, first \cup {n}, one \cup more, to)
    BY <1>1, PruneResult
  <2> QED
    BY <2>1 DEF Pruned
<1>3. second \cap (tomb \cup more) = two
  BY <1>1, <1>2
<1>4. SUFFICES ASSUME to[e] \notin 1..expired
               PROVE  Cardinality(two) = MaxTombstones /\ \A f \in two : AsNew(to, f, e)
  BY <1>3 DEF FullOfNewer
<1>5. /\ IsFiniteSet(one) /\ Cardinality(one) = MaxTombstones
      /\ \A f \in one : AsNew(at, f, e) /\ at[f] \notin 1..expired
  BY <1>0, <1>4 DEF Pruned
<1>6. /\ IsFiniteSet(two) /\ Cardinality(two) \in Nat /\ Cardinality(two) <= MaxTombstones
      /\ \A d \in (one \cup more) \ second :
            \/ to[d] \in 1..expired
            \/ Cardinality(two) = MaxTombstones /\ \A f \in two : AsNew(to, f, d)
  BY <1>2 DEF Pruned
<1>7. \A f \in one : to[f] \notin 1..expired /\ AsNew(to, f, e)
  BY <1>1, <1>5 DEF AsNew
<1>8. CASE one \subseteq second
  <2>1. one \subseteq two
    BY <1>8
  <2>2. Cardinality(one) <= Cardinality(two) /\ (Cardinality(one) = Cardinality(two) => one = two)
    BY <2>1, <1>6, FS_Subset
  <2>3. Cardinality(one) = Cardinality(two)
    BY <2>2, <1>5, <1>6, BoundsAssumption
  <2> QED
    BY <2>2, <2>3, <1>5, <1>7
<1>9. CASE ~(one \subseteq second)
  <2>1. PICK d \in one : d \notin second
    BY <1>9
  <2>2. Cardinality(two) = MaxTombstones /\ \A f \in two : AsNew(to, f, d)
    BY <2>1, <1>6, <1>7
  <2>3. d \in Envs /\ two \in SUBSET Envs /\ e \in Envs /\ AsNew(to, d, e)
    BY <2>1, <1>1, <1>2, <1>7
  <2> QED
    BY <2>2, <2>3, AsNewChain
<1> QED
  BY <1>8, <1>9

\* The stamp of a slot that is retired is later than all others.
LEMMA StampIsNew ==
  ASSUME TypeOK, NEW e \in Envs
  PROVE  /\ Stamp(e) \in [Envs -> Nat] /\ Stamp(e)[e] > 0
         /\ \A f \in Envs \ {e} : Stamp(e)[f] = terminalAt[f]
         /\ \A f \in Envs \ {e} : terminalAt[f] < Stamp(e)[e]
<1>1. LastStamp \in Nat /\ \A f \in Envs : terminalAt[f] <= LastStamp
  BY LastStampIsLast DEF TypeOK
<1> QED
  BY <1>1 DEF Stamp, TypeOK

\* The service's own table, pruned.
LEMMA PruneTable ==
  ASSUME TypeOK, NEW left \in Prunes(table, Tombstones(table), terminalAt)
  PROVE  Pruned(left, table, Tombstones(table), terminalAt)
<1>1. Tombstones(table) \in SUBSET table
  BY DEF Tombstones
<1> QED
  BY <1>1, PruneResult DEF TypeOK

USE NamesAssumption DEF TypeOK, Threads, CreatePcs, StepPcs, DeletePcs, CloserPcs, LockedPcs, RetiringPcs, ClosingPcs
----------------------------------------------------------------------------
(* POST /v1/environments *)

\* The creator of a new environment is its only one.
LEMMA CreateKeeps ==
  ASSUME CoreInv, NEW t \in Workers, NEW e \in Envs, Create(t, e)
  PROVE  CoreInv'
<1> USE DEF CoreInv, ThreadsInv, EnvsInv, Create, At, slotVars, envVars, registryVars
<1>1. TypeOK'
  BY DEF PlaceOK, Pcs
<1>2. ASSUME NEW u \in Threads PROVE PlaceOK(u)' /\ HoldsOK(u)' /\ CreatorOK(u)'
  BY <1>2 DEF PlaceOK, HoldsOK, CreatorOK, UnusedOK, IncidentOK, Stage, Attached, Pools, NoPool
<1>3. ASSUME NEW x \in Envs
      PROVE  UnusedOK(x)' /\ IncidentOK(x)' /\ SlotOK(x)' /\ SlotHeld(x)' /\ LeaseHeld(x)'
  BY <1>3 DEF PlaceOK, HoldsOK, CreatorOK, UnusedOK, IncidentOK, SlotOK, SlotHeld, LeaseHeld,
     Deleted, Swept, Stage, Attached, Pools, NoPool
<1> QED
  BY <1>1, <1>2, <1>3

\* Registering changes only what the manager knows.
LEMMA RegisterKeeps ==
  ASSUME CoreInv, NEW t \in Workers, Register(t)
  PROVE  CoreInv'
<1> USE DEF CoreInv, ThreadsInv, EnvsInv, Register, At, Goto, slotVars, envVars, poolVars
<1>1. TypeOK'
  BY DEF PlaceOK, Pcs
<1>2. ASSUME NEW u \in Threads PROVE PlaceOK(u)' /\ HoldsOK(u)' /\ CreatorOK(u)'
  BY <1>2 DEF PlaceOK, HoldsOK, CreatorOK, UnusedOK, IncidentOK, Stage, Attached
<1>3. ASSUME NEW x \in Envs
      PROVE  UnusedOK(x)' /\ IncidentOK(x)' /\ SlotOK(x)' /\ SlotHeld(x)' /\ LeaseHeld(x)'
  BY <1>3 DEF PlaceOK, HoldsOK, CreatorOK, UnusedOK, IncidentOK, SlotOK, SlotHeld, LeaseHeld,
     Deleted, Swept, Stage, Attached
<1> QED
  BY <1>1, <1>2, <1>3

\* The incident of a registered environment is not attached, so nobody closes it.
LEMMA ResetKeeps ==
  ASSUME CoreInv, NEW t \in Workers, Reset(t)
  PROVE  CoreInv'
<1> USE DEF CoreInv, ThreadsInv, EnvsInv, Reset, At, Goto, slotVars, poolVars, registryVars
<1>1. TypeOK'
  BY DEF PlaceOK, Pcs
<1>2. ASSUME NEW u \in Threads PROVE PlaceOK(u)' /\ HoldsOK(u)' /\ CreatorOK(u)'
  BY <1>2 DEF PlaceOK, HoldsOK, CreatorOK, UnusedOK, IncidentOK, Stage, Attached
<1>3. ASSUME NEW x \in Envs
      PROVE  UnusedOK(x)' /\ IncidentOK(x)' /\ SlotOK(x)' /\ SlotHeld(x)' /\ LeaseHeld(x)'
  BY <1>3 DEF PlaceOK, HoldsOK, CreatorOK, UnusedOK, IncidentOK, SlotOK, SlotHeld, LeaseHeld,
     Deleted, Swept, Stage, Attached
<1> QED
  BY <1>1, <1>2, <1>3

\* The lease is held by a request that prepares the incident.
LEMMA AcquireRuntimeKeeps ==
  ASSUME CoreInv, NEW t \in Workers, AcquireRuntime(t)
  PROVE  CoreInv'
<1> USE DEF CoreInv, ThreadsInv, EnvsInv, AcquireRuntime, At, Goto, slotVars, envVars, registryVars
<1>1. TypeOK'
  BY DEF PlaceOK, Pcs
<1>2. ASSUME NEW u \in Threads PROVE PlaceOK(u)' /\ HoldsOK(u)' /\ CreatorOK(u)'
  BY <1>2 DEF PlaceOK, HoldsOK, CreatorOK, UnusedOK, IncidentOK, Stage, Attached
<1>3. ASSUME NEW x \in Envs
      PROVE  UnusedOK(x)' /\ IncidentOK(x)' /\ SlotOK(x)' /\ SlotHeld(x)' /\ LeaseHeld(x)'
  BY <1>3 DEF PlaceOK, HoldsOK, CreatorOK, UnusedOK, IncidentOK, SlotOK, SlotHeld, LeaseHeld,
     Deleted, Swept, Stage, Attached
<1> QED
  BY <1>1, <1>2, <1>3

\* An incident without a runtime is over.
LEMMA AcquireFailsKeeps ==
  ASSUME CoreInv, NEW t \in Workers, AcquireFails(t)
  PROVE  CoreInv'
<1> USE DEF CoreInv, ThreadsInv, EnvsInv, AcquireFails, At, Goto, Broken, slotVars, poolVars, registryVars
<1>1. TypeOK'
  BY DEF PlaceOK, Pcs
<1>2. ASSUME NEW u \in Threads PROVE PlaceOK(u)' /\ HoldsOK(u)' /\ CreatorOK(u)'
  BY <1>2 DEF PlaceOK, HoldsOK, CreatorOK, UnusedOK, IncidentOK, Stage, Attached
<1>3. ASSUME NEW x \in Envs
      PROVE  UnusedOK(x)' /\ IncidentOK(x)' /\ SlotOK(x)' /\ SlotHeld(x)' /\ LeaseHeld(x)'
  BY <1>3 DEF PlaceOK, HoldsOK, CreatorOK, UnusedOK, IncidentOK, SlotOK, SlotHeld, LeaseHeld,
     Deleted, Swept, Stage, Attached
<1> QED
  BY <1>1, <1>2, <1>3

\* An incident whose preparation failed gives its runtime back.
LEMMA PrepareFailsKeeps ==
  ASSUME CoreInv, NEW t \in Workers, PrepareFails(t)
  PROVE  CoreInv'
<1> USE DEF CoreInv, ThreadsInv, EnvsInv, PrepareFails, At, Goto, Broken, GiveBack, slotVars, registryVars
<1>1. TypeOK'
  BY DEF PlaceOK, Pcs
<1>2. ASSUME NEW u \in Threads PROVE PlaceOK(u)' /\ HoldsOK(u)' /\ CreatorOK(u)'
  BY <1>2 DEF PlaceOK, HoldsOK, CreatorOK, UnusedOK, IncidentOK, Stage, Attached
<1>3. ASSUME NEW x \in Envs
      PROVE  UnusedOK(x)' /\ IncidentOK(x)' /\ SlotOK(x)' /\ SlotHeld(x)' /\ LeaseHeld(x)'
  BY <1>3 DEF PlaceOK, HoldsOK, CreatorOK, UnusedOK, IncidentOK, SlotOK, SlotHeld, LeaseHeld,
     Deleted, Swept, Stage, Attached
<1> QED
  BY <1>1, <1>2, <1>3

\* A prepared incident can be closed by the manager at once.
LEMMA PrepareSucceedsKeeps ==
  ASSUME CoreInv, NEW t \in Workers, PrepareSucceeds(t)
  PROVE  CoreInv'
<1> USE DEF CoreInv, ThreadsInv, EnvsInv, PrepareSucceeds, At, Goto, slotVars, poolVars, registryVars
<1>1. TypeOK'
  BY DEF PlaceOK, Pcs
<1>2. ASSUME NEW u \in Threads PROVE PlaceOK(u)' /\ HoldsOK(u)' /\ CreatorOK(u)'
  BY <1>2 DEF PlaceOK, HoldsOK, CreatorOK, UnusedOK, IncidentOK, Stage, Attached
<1>3. ASSUME NEW x \in Envs
      PROVE  UnusedOK(x)' /\ IncidentOK(x)' /\ SlotOK(x)' /\ SlotHeld(x)' /\ LeaseHeld(x)'
  BY <1>3 DEF PlaceOK, HoldsOK, CreatorOK, UnusedOK, IncidentOK, SlotOK, SlotHeld, LeaseHeld,
     Deleted, Swept, Stage, Attached
<1> QED
  BY <1>1, <1>2, <1>3

\* A create that gives up leaves a runtime only with who closes the incident.
LEMMA OpenSessionKeeps ==
  ASSUME CoreInv, NEW t \in Workers, OpenSession(t)
  PROVE  CoreInv'
<1> USE DEF CoreInv, ThreadsInv, EnvsInv, OpenSession, At, Goto, Return, slotVars, poolVars, registryVars
<1>1. TypeOK'
  BY DEF PlaceOK, Pcs
<1>2. ASSUME NEW u \in Threads PROVE PlaceOK(u)' /\ HoldsOK(u)' /\ CreatorOK(u)'
  BY <1>2 DEF PlaceOK, HoldsOK, CreatorOK, UnusedOK, IncidentOK, Stage, Attached
<1>3. ASSUME NEW x \in Envs
      PROVE  UnusedOK(x)' /\ IncidentOK(x)' /\ SlotOK(x)' /\ SlotHeld(x)' /\ LeaseHeld(x)'
  BY <1>3 DEF PlaceOK, HoldsOK, CreatorOK, UnusedOK, IncidentOK, SlotOK, SlotHeld, LeaseHeld,
     Deleted, Swept, Stage, Attached
<1> QED
  BY <1>1, <1>2, <1>3

\* The environment of an invalid case has nothing left to close.
LEMMA RejectKeeps ==
  ASSUME CoreInv, NEW t \in Workers, Reject(t)
  PROVE  CoreInv'
<1> USE DEF CoreInv, ThreadsInv, EnvsInv, Reject, At, CloseAt, Discard, slotVars, envVars, poolVars
<1>1. TypeOK'
  BY DEF PlaceOK, Pcs
<1>2. ASSUME NEW u \in Threads PROVE PlaceOK(u)' /\ HoldsOK(u)' /\ CreatorOK(u)'
  BY <1>2 DEF PlaceOK, HoldsOK, CreatorOK, UnusedOK, IncidentOK, Stage, Attached
<1>3. ASSUME NEW x \in Envs
      PROVE  UnusedOK(x)' /\ IncidentOK(x)' /\ SlotOK(x)' /\ SlotHeld(x)' /\ LeaseHeld(x)'
  BY <1>3 DEF PlaceOK, HoldsOK, CreatorOK, UnusedOK, IncidentOK, SlotOK, SlotHeld, LeaseHeld,
     Deleted, Swept, Stage, Attached
<1> QED
  BY <1>1, <1>2, <1>3

----------------------------------------------------------------------------
(* POST /v1/environments/{environment_id}/actions *)

\* A replayed action changes nothing.
LEMMA ConflictKeeps ==
  ASSUME CoreInv, NEW t \in Workers, Conflict(t)
  PROVE  CoreInv'
<1> USE DEF CoreInv, ThreadsInv, EnvsInv, Conflict, At, Return, slotVars, envVars, poolVars, registryVars
<1>1. TypeOK'
  BY DEF PlaceOK, Pcs
<1>2. ASSUME NEW u \in Threads PROVE PlaceOK(u)' /\ HoldsOK(u)' /\ CreatorOK(u)'
  BY <1>2 DEF PlaceOK, HoldsOK, CreatorOK, UnusedOK, IncidentOK, Stage, Attached
<1>3. ASSUME NEW x \in Envs
      PROVE  UnusedOK(x)' /\ IncidentOK(x)' /\ SlotOK(x)' /\ SlotHeld(x)' /\ LeaseHeld(x)'
  BY <1>3 DEF PlaceOK, HoldsOK, CreatorOK, UnusedOK, IncidentOK, SlotOK, SlotHeld, LeaseHeld,
     Deleted, Swept, Stage, Attached
<1> QED
  BY <1>1, <1>2, <1>3

\* A step locks the slot of a live environment.
LEMMA EnterStepKeeps ==
  ASSUME CoreInv, NEW t \in Workers, EnterStep(t)
  PROVE  CoreInv'
<1> USE DEF CoreInv, ThreadsInv, EnvsInv, EnterStep, At, Goto, Lock, slotVars, envVars, poolVars, registryVars
<1>1. TypeOK'
  BY DEF PlaceOK, Pcs
<1>2. ASSUME NEW u \in Threads PROVE PlaceOK(u)' /\ HoldsOK(u)' /\ CreatorOK(u)'
  BY <1>2 DEF PlaceOK, HoldsOK, CreatorOK, UnusedOK, IncidentOK, Stage, Attached
<1>3. ASSUME NEW x \in Envs
      PROVE  UnusedOK(x)' /\ IncidentOK(x)' /\ SlotOK(x)' /\ SlotHeld(x)' /\ LeaseHeld(x)'
  BY <1>3 DEF PlaceOK, HoldsOK, CreatorOK, UnusedOK, IncidentOK, SlotOK, SlotHeld, LeaseHeld,
     Deleted, Swept, Stage, Attached
<1> QED
  BY <1>1, <1>2, <1>3

\* A step gives back the slot as it found it.
LEMMA StepReturnsKeeps ==
  ASSUME CoreInv, NEW t \in Workers, StepReturns(t)
  PROVE  CoreInv'
<1> USE DEF CoreInv, ThreadsInv, EnvsInv, StepReturns, At, Unlock, Return, slotVars, envVars, poolVars, registryVars
<1>1. TypeOK'
  BY DEF PlaceOK, Pcs
<1>2. ASSUME NEW u \in Threads PROVE PlaceOK(u)' /\ HoldsOK(u)' /\ CreatorOK(u)'
  BY <1>2 DEF PlaceOK, HoldsOK, CreatorOK, UnusedOK, IncidentOK, Stage, Attached
<1>3. ASSUME NEW x \in Envs
      PROVE  UnusedOK(x)' /\ IncidentOK(x)' /\ SlotOK(x)' /\ SlotHeld(x)' /\ LeaseHeld(x)'
  BY <1>3 DEF PlaceOK, HoldsOK, CreatorOK, UnusedOK, IncidentOK, SlotOK, SlotHeld, LeaseHeld,
     Deleted, Swept, Stage, Attached
<1> QED
  BY <1>1, <1>2, <1>3

\* The session ends, the slot stays locked.
LEMMA ToolOverLimitKeeps ==
  ASSUME CoreInv, NEW t \in Workers, ToolOverLimit(t)
  PROVE  CoreInv'
<1> USE DEF CoreInv, ThreadsInv, EnvsInv, ToolOverLimit, At, Terminate, Goto, slotVars, poolVars, registryVars
<1>1. TypeOK'
  BY DEF PlaceOK, Pcs
<1>2. ASSUME NEW u \in Threads PROVE PlaceOK(u)' /\ HoldsOK(u)' /\ CreatorOK(u)'
  BY <1>2 DEF PlaceOK, HoldsOK, CreatorOK, UnusedOK, IncidentOK, Stage, Attached
<1>3. ASSUME NEW x \in Envs
      PROVE  UnusedOK(x)' /\ IncidentOK(x)' /\ SlotOK(x)' /\ SlotHeld(x)' /\ LeaseHeld(x)'
  BY <1>3 DEF PlaceOK, HoldsOK, CreatorOK, UnusedOK, IncidentOK, SlotOK, SlotHeld, LeaseHeld,
     Deleted, Swept, Stage, Attached
<1> QED
  BY <1>1, <1>2, <1>3

\* A submission closes the environment before its slot is marked.
LEMMA SubmitKeeps ==
  ASSUME CoreInv, NEW t \in Workers, Submit(t)
  PROVE  CoreInv'
<1> USE DEF CoreInv, ThreadsInv, EnvsInv, Submit, At, Terminate, CloseAt, slotVars, poolVars, registryVars
<1>1. TypeOK'
  BY DEF PlaceOK, Pcs
<1>2. ASSUME NEW u \in Threads PROVE PlaceOK(u)' /\ HoldsOK(u)' /\ CreatorOK(u)'
  BY <1>2 DEF PlaceOK, HoldsOK, CreatorOK, UnusedOK, IncidentOK, Stage, Attached
<1>3. ASSUME NEW x \in Envs
      PROVE  UnusedOK(x)' /\ IncidentOK(x)' /\ SlotOK(x)' /\ SlotHeld(x)' /\ LeaseHeld(x)'
  BY <1>3 DEF PlaceOK, HoldsOK, CreatorOK, UnusedOK, IncidentOK, SlotOK, SlotHeld, LeaseHeld,
     Deleted, Swept, Stage, Attached
<1> QED
  BY <1>1, <1>2, <1>3

\* A terminal slot stays locked until it is retired.
LEMMA MarkTerminalKeeps ==
  ASSUME CoreInv, NEW t \in Workers, MarkTerminal(t)
  PROVE  CoreInv'
<1> USE DEF CoreInv, ThreadsInv, EnvsInv, MarkTerminal, At, CloseAt, envVars, poolVars, registryVars
<1>1. TypeOK'
  BY DEF PlaceOK, Pcs
<1>2. ASSUME NEW u \in Threads PROVE PlaceOK(u)' /\ HoldsOK(u)' /\ CreatorOK(u)'
  BY <1>2 DEF PlaceOK, HoldsOK, CreatorOK, UnusedOK, IncidentOK, Stage, Attached
<1>3. ASSUME NEW x \in Envs
      PROVE  UnusedOK(x)' /\ IncidentOK(x)' /\ SlotOK(x)' /\ SlotHeld(x)' /\ LeaseHeld(x)'
  BY <1>3 DEF PlaceOK, HoldsOK, CreatorOK, UnusedOK, IncidentOK, SlotOK, SlotHeld, LeaseHeld,
     Deleted, Swept, Stage, Attached
<1> QED
  BY <1>1, <1>2, <1>3

----------------------------------------------------------------------------
(* DELETE /v1/environments/{environment_id} *)

\* A slot leaves the table in the hands of a request.
LEMMA DeleteKeeps ==
  ASSUME CoreInv, NEW t \in Workers, NEW e \in Envs, Delete(t, e)
  PROVE  CoreInv'
<1> USE DEF CoreInv, ThreadsInv, EnvsInv, Delete, At, envVars, poolVars, registryVars
<1>1. TypeOK'
  BY DEF PlaceOK, Pcs
<1>2. ASSUME NEW u \in Threads PROVE PlaceOK(u)' /\ HoldsOK(u)' /\ CreatorOK(u)'
  BY <1>2 DEF PlaceOK, HoldsOK, CreatorOK, UnusedOK, IncidentOK, Stage, Attached
<1>3. ASSUME NEW x \in Envs
      PROVE  UnusedOK(x)' /\ IncidentOK(x)' /\ SlotOK(x)' /\ SlotHeld(x)' /\ LeaseHeld(x)'
  BY <1>3 DEF PlaceOK, HoldsOK, CreatorOK, UnusedOK, IncidentOK, SlotOK, SlotHeld, LeaseHeld,
     Deleted, Swept, Stage, Attached
<1> QED
  BY <1>1, <1>2, <1>3

\* Who deletes a retired slot loses nothing.
LEMMA DeleteGoneKeeps ==
  ASSUME CoreInv, NEW t \in Workers, DeleteGone(t)
  PROVE  CoreInv'
<1> USE DEF CoreInv, ThreadsInv, EnvsInv, DeleteGone, At, Return, slotVars, envVars, poolVars, registryVars
<1>1. TypeOK'
  BY DEF PlaceOK, Pcs
<1>2. ASSUME NEW u \in Threads PROVE PlaceOK(u)' /\ HoldsOK(u)' /\ CreatorOK(u)'
  BY <1>2 DEF PlaceOK, HoldsOK, CreatorOK, UnusedOK, IncidentOK, Stage, Attached
<1>3. ASSUME NEW x \in Envs
      PROVE  UnusedOK(x)' /\ IncidentOK(x)' /\ SlotOK(x)' /\ SlotHeld(x)' /\ LeaseHeld(x)'
  BY <1>3 DEF PlaceOK, HoldsOK, CreatorOK, UnusedOK, IncidentOK, SlotOK, SlotHeld, LeaseHeld,
     Deleted, Swept, Stage, Attached
<1> QED
  BY <1>1, <1>2, <1>3

\* The slot of a live environment is deleted under its lock.
LEMMA DeleteBoundKeeps ==
  ASSUME CoreInv, NEW t \in Workers, DeleteBound(t)
  PROVE  CoreInv'
<1> USE DEF CoreInv, ThreadsInv, EnvsInv, DeleteBound, At, Lock, CloseAt, slotVars, envVars, poolVars, registryVars
<1>1. TypeOK'
  BY DEF PlaceOK, Pcs
<1>2. ASSUME NEW u \in Threads PROVE PlaceOK(u)' /\ HoldsOK(u)' /\ CreatorOK(u)'
  BY <1>2 DEF PlaceOK, HoldsOK, CreatorOK, UnusedOK, IncidentOK, Stage, Attached
<1>3. ASSUME NEW x \in Envs
      PROVE  UnusedOK(x)' /\ IncidentOK(x)' /\ SlotOK(x)' /\ SlotHeld(x)' /\ LeaseHeld(x)'
  BY <1>3 DEF PlaceOK, HoldsOK, CreatorOK, UnusedOK, IncidentOK, SlotOK, SlotHeld, LeaseHeld,
     Deleted, Swept, Stage, Attached
<1> QED
  BY <1>1, <1>2, <1>3

\* The environment of a deleted slot is cleaned up.
LEMMA DeleteDoneKeeps ==
  ASSUME CoreInv, NEW t \in Workers, DeleteDone(t)
  PROVE  CoreInv'
<1> USE DEF CoreInv, ThreadsInv, EnvsInv, DeleteDone, At, Unlock, Return, envVars, poolVars, registryVars
<1>1. TypeOK'
  BY DEF PlaceOK, Pcs
<1>2. ASSUME NEW u \in Threads PROVE PlaceOK(u)' /\ HoldsOK(u)' /\ CreatorOK(u)'
  BY <1>2 DEF PlaceOK, HoldsOK, CreatorOK, UnusedOK, IncidentOK, Stage, Attached
<1>3. ASSUME NEW x \in Envs
      PROVE  UnusedOK(x)' /\ IncidentOK(x)' /\ SlotOK(x)' /\ SlotHeld(x)' /\ LeaseHeld(x)'
  BY <1>3 DEF PlaceOK, HoldsOK, CreatorOK, UnusedOK, IncidentOK, SlotOK, SlotHeld, LeaseHeld,
     Deleted, Swept, Stage, Attached
<1> QED
  BY <1>1, <1>2, <1>3

----------------------------------------------------------------------------
(* environment.close *)

\* One thread closes an incident.
LEMMA BeginCloseKeeps ==
  ASSUME CoreInv, NEW t \in Threads, BeginClose(t)
  PROVE  CoreInv'
<1> USE DEF CoreInv, ThreadsInv, EnvsInv, BeginClose, slotVars, poolVars, registryVars
<1>1. TypeOK'
  BY DEF PlaceOK, Pcs
<1>2. ASSUME NEW u \in Threads PROVE PlaceOK(u)' /\ HoldsOK(u)' /\ CreatorOK(u)'
  BY <1>2 DEF PlaceOK, HoldsOK, CreatorOK, UnusedOK, IncidentOK, Stage, Attached
<1>3. ASSUME NEW x \in Envs
      PROVE  UnusedOK(x)' /\ IncidentOK(x)' /\ SlotOK(x)' /\ SlotHeld(x)' /\ LeaseHeld(x)'
  BY <1>3 DEF PlaceOK, HoldsOK, CreatorOK, UnusedOK, IncidentOK, SlotOK, SlotHeld, LeaseHeld,
     Deleted, Swept, Stage, Attached
<1> QED
  BY <1>1, <1>2, <1>3

\* A finished incident has no runtime, and nobody gets it another.
LEMMA FinishCloseKeeps ==
  ASSUME CoreInv, NEW t \in Threads, FinishClose(t)
  PROVE  CoreInv'
<1> USE DEF CoreInv, ThreadsInv, EnvsInv, FinishClose, GiveBack, slotVars, registryVars
<1>1. TypeOK'
  BY DEF PlaceOK, Pcs
<1>2. ASSUME NEW u \in Threads PROVE PlaceOK(u)' /\ HoldsOK(u)' /\ CreatorOK(u)'
  BY <1>2 DEF PlaceOK, HoldsOK, CreatorOK, UnusedOK, IncidentOK, Stage, Attached
<1>3. ASSUME NEW x \in Envs
      PROVE  UnusedOK(x)' /\ IncidentOK(x)' /\ SlotOK(x)' /\ SlotHeld(x)' /\ LeaseHeld(x)'
  BY <1>3 DEF PlaceOK, HoldsOK, CreatorOK, UnusedOK, IncidentOK, SlotOK, SlotHeld, LeaseHeld,
     Deleted, Swept, Stage, Attached
<1> QED
  BY <1>1, <1>2, <1>3

\* The registry does not matter here.
LEMMA NotifyCloseKeeps ==
  ASSUME CoreInv, NEW t \in Threads, NotifyClose(t)
  PROVE  CoreInv'
<1> USE DEF CoreInv, ThreadsInv, EnvsInv, NotifyClose, Discard, slotVars, envVars, poolVars
<1>1. TypeOK'
  BY DEF PlaceOK, Pcs
<1>2. ASSUME NEW u \in Threads PROVE PlaceOK(u)' /\ HoldsOK(u)' /\ CreatorOK(u)'
  BY <1>2 DEF PlaceOK, HoldsOK, CreatorOK, UnusedOK, IncidentOK, Stage, Attached
<1>3. ASSUME NEW x \in Envs
      PROVE  UnusedOK(x)' /\ IncidentOK(x)' /\ SlotOK(x)' /\ SlotHeld(x)' /\ LeaseHeld(x)'
  BY <1>3 DEF PlaceOK, HoldsOK, CreatorOK, UnusedOK, IncidentOK, SlotOK, SlotHeld, LeaseHeld,
     Deleted, Swept, Stage, Attached
<1> QED
  BY <1>1, <1>2, <1>3

----------------------------------------------------------------------------
(* The end of the service, and of leases *)

\* All slots leave the table for the list of who closes the service.
LEMMA CloseServiceKeeps ==
  ASSUME CoreInv, CloseService
  PROVE  CoreInv'
<1> USE DEF CoreInv, ThreadsInv, EnvsInv, CloseService, At, envVars, poolVars, registryVars
<1>1. TypeOK'
  BY DEF PlaceOK, Pcs
<1>2. ASSUME NEW u \in Threads PROVE PlaceOK(u)' /\ HoldsOK(u)' /\ CreatorOK(u)'
  BY <1>2 DEF PlaceOK, HoldsOK, CreatorOK, UnusedOK, IncidentOK, Stage, Attached
<1>3. ASSUME NEW x \in Envs
      PROVE  UnusedOK(x)' /\ IncidentOK(x)' /\ SlotOK(x)' /\ SlotHeld(x)' /\ LeaseHeld(x)'
  BY <1>3 DEF PlaceOK, HoldsOK, CreatorOK, UnusedOK, IncidentOK, SlotOK, SlotHeld, LeaseHeld,
     Deleted, Swept, Stage, Attached
<1> QED
  BY <1>1, <1>2, <1>3

\* A slot leaves the list locked, or without an environment.
LEMMA SweepSlotKeeps ==
  ASSUME CoreInv, NEW e \in Envs, SweepSlot(e)
  PROVE  CoreInv'
<1> USE DEF CoreInv, ThreadsInv, EnvsInv, SweepSlot, At, CloseAt, slotVars, envVars, poolVars, registryVars
<1>1. TypeOK'
  BY DEF PlaceOK, Pcs
<1>2. ASSUME NEW u \in Threads PROVE PlaceOK(u)' /\ HoldsOK(u)' /\ CreatorOK(u)'
  BY <1>2 DEF PlaceOK, HoldsOK, CreatorOK, UnusedOK, IncidentOK, Stage, Attached
<1>3. ASSUME NEW x \in Envs
      PROVE  UnusedOK(x)' /\ IncidentOK(x)' /\ SlotOK(x)' /\ SlotHeld(x)' /\ LeaseHeld(x)'
  BY <1>3 DEF PlaceOK, HoldsOK, CreatorOK, UnusedOK, IncidentOK, SlotOK, SlotHeld, LeaseHeld,
     Deleted, Swept, Stage, Attached
<1> QED
  BY <1>1, <1>2, <1>3

\* The environment of a swept slot is cleaned up.
LEMMA SweptSlotKeeps ==
  ASSUME CoreInv, SweptSlot
  PROVE  CoreInv'
<1> USE DEF CoreInv, ThreadsInv, EnvsInv, SweptSlot, At, Unlock, envVars, poolVars, registryVars
<1>1. TypeOK'
  BY DEF PlaceOK, Pcs
<1>2. ASSUME NEW u \in Threads PROVE PlaceOK(u)' /\ HoldsOK(u)' /\ CreatorOK(u)'
  BY <1>2 DEF PlaceOK, HoldsOK, CreatorOK, UnusedOK, IncidentOK, Stage, Attached
<1>3. ASSUME NEW x \in Envs
      PROVE  UnusedOK(x)' /\ IncidentOK(x)' /\ SlotOK(x)' /\ SlotHeld(x)' /\ LeaseHeld(x)'
  BY <1>3 DEF PlaceOK, HoldsOK, CreatorOK, UnusedOK, IncidentOK, SlotOK, SlotHeld, LeaseHeld,
     Deleted, Swept, Stage, Attached
<1> QED
  BY <1>1, <1>2, <1>3

\* The manager is closed when no slot is left to sweep.
LEMMA CloseManagerKeeps ==
  ASSUME CoreInv, CloseManager
  PROVE  CoreInv'
<1> USE DEF CoreInv, ThreadsInv, EnvsInv, CloseManager, At, slotVars, envVars, poolVars, registryVars
<1>1. TypeOK'
  BY DEF PlaceOK, Pcs
<1>2. ASSUME NEW u \in Threads PROVE PlaceOK(u)' /\ HoldsOK(u)' /\ CreatorOK(u)'
  BY <1>2 DEF PlaceOK, HoldsOK, CreatorOK, UnusedOK, IncidentOK, Stage, Attached
<1>3. ASSUME NEW x \in Envs
      PROVE  UnusedOK(x)' /\ IncidentOK(x)' /\ SlotOK(x)' /\ SlotHeld(x)' /\ LeaseHeld(x)'
  BY <1>3 DEF PlaceOK, HoldsOK, CreatorOK, UnusedOK, IncidentOK, SlotOK, SlotHeld, LeaseHeld,
     Deleted, Swept, Stage, Attached
<1> QED
  BY <1>1, <1>2, <1>3

\* A registered environment is closed without its slot.
LEMMA CloseRegisteredKeeps ==
  ASSUME CoreInv, NEW e \in Envs, CloseRegistered(e)
  PROVE  CoreInv'
<1> USE DEF CoreInv, ThreadsInv, EnvsInv, CloseRegistered, At, CloseAt, slotVars, envVars, poolVars, registryVars
<1>1. TypeOK'
  BY DEF PlaceOK, Pcs
<1>2. ASSUME NEW u \in Threads PROVE PlaceOK(u)' /\ HoldsOK(u)' /\ CreatorOK(u)'
  BY <1>2 DEF PlaceOK, HoldsOK, CreatorOK, UnusedOK, IncidentOK, Stage, Attached
<1>3. ASSUME NEW x \in Envs
      PROVE  UnusedOK(x)' /\ IncidentOK(x)' /\ SlotOK(x)' /\ SlotHeld(x)' /\ LeaseHeld(x)'
  BY <1>3 DEF PlaceOK, HoldsOK, CreatorOK, UnusedOK, IncidentOK, SlotOK, SlotHeld, LeaseHeld,
     Deleted, Swept, Stage, Attached
<1> QED
  BY <1>1, <1>2, <1>3

\* Draining takes runtimes only away.
LEMMA DrainPoolKeeps ==
  ASSUME CoreInv, DrainPool
  PROVE  CoreInv'
<1> USE DEF CoreInv, ThreadsInv, EnvsInv
<1>1. TypeOK'
  BY DEF DrainPool, At, Goto, Leased, slotVars, envVars, registryVars, PlaceOK, Pcs
<1>2. /\ pc[Closer] = "unregistering" /\ pc' = [pc EXCEPT ![Closer] = pc'[Closer]]
      /\ pc'[Closer] \in {"clearing", "idle"} /\ phase[Closer] = "none" /\ leased' \subseteq leased
      /\ UNCHANGED <<on, phase, todo, slotVars, slotLock, envVars, closeLock, poolOf>>
  BY DEF DrainPool, At, Goto
<1>3. ASSUME NEW u \in Threads PROVE PlaceOK(u)' /\ HoldsOK(u)' /\ CreatorOK(u)'
  BY <1>2, <1>3 DEF slotVars, envVars, PlaceOK, HoldsOK, CreatorOK, UnusedOK, IncidentOK, Stage, Attached
<1>4. ASSUME NEW x \in Envs
      PROVE  UnusedOK(x)' /\ IncidentOK(x)' /\ SlotOK(x)' /\ SlotHeld(x)' /\ LeaseHeld(x)'
  BY <1>2, <1>4 DEF slotVars, envVars, PlaceOK, HoldsOK, CreatorOK, UnusedOK, IncidentOK, SlotOK, SlotHeld, LeaseHeld,
     Deleted, Swept, Stage, Attached
<1> QED
  BY <1>1, <1>3, <1>4

\* The manager forgets its pool.
LEMMA ClearRegistriesKeeps ==
  ASSUME CoreInv, ClearRegistries
  PROVE  CoreInv'
<1> USE DEF CoreInv, ThreadsInv, EnvsInv, ClearRegistries, At, slotVars, envVars
<1>1. TypeOK'
  BY DEF PlaceOK, Pcs
<1>2. ASSUME NEW u \in Threads PROVE PlaceOK(u)' /\ HoldsOK(u)' /\ CreatorOK(u)'
  BY <1>2 DEF PlaceOK, HoldsOK, CreatorOK, UnusedOK, IncidentOK, Stage, Attached
<1>3. ASSUME NEW x \in Envs
      PROVE  UnusedOK(x)' /\ IncidentOK(x)' /\ SlotOK(x)' /\ SlotHeld(x)' /\ LeaseHeld(x)'
  BY <1>3 DEF PlaceOK, HoldsOK, CreatorOK, UnusedOK, IncidentOK, SlotOK, SlotHeld, LeaseHeld,
     Deleted, Swept, Stage, Attached
<1> QED
  BY <1>1, <1>2, <1>3

\* Revoking takes a runtime only away.
LEMMA LeaseExpiresKeeps ==
  ASSUME CoreInv, NEW e \in Envs, LeaseExpires(e)
  PROVE  CoreInv'
<1> USE DEF CoreInv, ThreadsInv, EnvsInv, LeaseExpires, slotVars, envVars, registryVars, threadVars
<1>1. TypeOK'
  BY DEF PlaceOK, Pcs
<1>2. ASSUME NEW u \in Threads PROVE PlaceOK(u)' /\ HoldsOK(u)' /\ CreatorOK(u)'
  BY <1>2 DEF PlaceOK, HoldsOK, CreatorOK, UnusedOK, IncidentOK, Stage, Attached
<1>3. ASSUME NEW x \in Envs
      PROVE  UnusedOK(x)' /\ IncidentOK(x)' /\ SlotOK(x)' /\ SlotHeld(x)' /\ LeaseHeld(x)'
  BY <1>3 DEF PlaceOK, HoldsOK, CreatorOK, UnusedOK, IncidentOK, SlotOK, SlotHeld, LeaseHeld,
     Deleted, Swept, Stage, Attached
<1> QED
  BY <1>1, <1>2, <1>3

\* Time changes no slot.
LEMMA TimePassesKeeps ==
  ASSUME CoreInv, TimePasses
  PROVE  CoreInv'
<1> USE DEF CoreInv, ThreadsInv, EnvsInv, TimePasses, envVars, poolVars, registryVars, threadVars
<1>1. TypeOK'
  BY DEF PlaceOK, Pcs
<1>2. ASSUME NEW u \in Threads PROVE PlaceOK(u)' /\ HoldsOK(u)' /\ CreatorOK(u)'
  BY <1>2 DEF PlaceOK, HoldsOK, CreatorOK, UnusedOK, IncidentOK, Stage, Attached
<1>3. ASSUME NEW x \in Envs
      PROVE  UnusedOK(x)' /\ IncidentOK(x)' /\ SlotOK(x)' /\ SlotHeld(x)' /\ LeaseHeld(x)'
  BY <1>3 DEF PlaceOK, HoldsOK, CreatorOK, UnusedOK, IncidentOK, SlotOK, SlotHeld, LeaseHeld,
     Deleted, Swept, Stage, Attached
<1> QED
  BY <1>1, <1>2, <1>3
----------------------------------------------------------------------------
(* Pruning steps, and closing what was closed before *)

\* The slot is live, or it is a tombstone of an incident that is over.
LEMMA InsertKeeps ==
  ASSUME CoreInv, NEW t \in Workers, Insert(t)
  PROVE  CoreInv'
<1> USE DEF CoreInv, ThreadsInv, EnvsInv, Insert, At, Return, envVars, poolVars, registryVars
<1>1. on[t] \in Envs /\ phase[t] = "none"
  BY DEF PlaceOK
<1>2. PICK at \in [Envs -> Nat] :
        /\ terminalAt' = at
        /\ at[on[t]] = 0 <=> session[on[t]] # "none"
        /\ \A f \in Envs \ {on[t]} : at[f] = terminalAt[f]
  BY <1>1, StampIsNew DEF CreatorOK
<1>3. /\ table' \subseteq table \cup {on[t]}
      /\ \A f \in table : f \in bound => f \in table'
      /\ on[t] \in bound' => on[t] \in table'
  <2>1. on[t] \notin table
    BY <1>1 DEF CreatorOK
  <2>2. PICK first \in Prunes(table, Tombstones(table), terminalAt), more \in SUBSET {on[t]} :
          /\ table' \in Prunes(first \cup {on[t]}, Tombstones(first) \cup more, at)
          /\ on[t] \in bound' => more = {}
    BY <1>1, <1>2 DEF CreatorOK
  <2>3. first \subseteq table /\ table \ Tombstones(table) \subseteq first
    BY PruneTable DEF Pruned
  <2>4. /\ first \cup {on[t]} \in SUBSET Envs /\ Tombstones(first) \cup more \in SUBSET (first \cup {on[t]})
    BY <2>3, <1>1 DEF Tombstones
  <2>5. table' \subseteq first \cup {on[t]} /\ (first \cup {on[t]}) \ (Tombstones(first) \cup more) \subseteq table'
    <3>1. expired \in Nat
      OBVIOUS
    <3> HIDE DEF CoreInv, Insert
    <3>2. Pruned(table', first \cup {on[t]}, Tombstones(first) \cup more, at)
      BY <3>1, <2>2, <2>4, <1>2, PruneResult
    <3> QED
      BY <3>2 DEF Pruned
  <2> HIDE DEF CoreInv, Insert
  <2> QED
    BY <2>1, <2>2, <2>3, <2>5 DEF Tombstones
<1>4. TypeOK'
  BY <1>1, <1>2, <1>3 DEF Pcs
<1> USE <1>1, <1>2, <1>3
<1> HIDE DEF Insert
<1>5. /\ bound \subseteq bound' /\ bound' \subseteq bound \cup {on[t]}
      /\ terminal \subseteq terminal' /\ terminal' \subseteq terminal \cup {on[t]}
      /\ on[t] \in bound' <=> session[on[t]] # "none"
      /\ on[t] \in terminal' <=> session[on[t]] = "none"
      /\ pc' = [pc EXCEPT ![t] = "idle"] /\ on' = [on EXCEPT ![t] = Nobody]
      /\ pc[t] = "inserting"
      /\ UNCHANGED <<phase, todo, expired, slotLock, incident, cleaned, session, closeLock, leased, poolOf>>
  BY DEF Insert, CreatorOK
<1>6. ASSUME NEW u \in Threads PROVE PlaceOK(u)' /\ HoldsOK(u)' /\ CreatorOK(u)'
  BY <1>5, <1>6 DEF PlaceOK, HoldsOK, CreatorOK, UnusedOK, IncidentOK, Stage, Attached
<1>7. ASSUME NEW x \in Envs PROVE UnusedOK(x)' /\ IncidentOK(x)'
  BY <1>5, <1>7 DEF CreatorOK, UnusedOK, IncidentOK, PlaceOK, HoldsOK
<1>8. ASSUME NEW x \in Envs PROVE SlotOK(x)'
  BY <1>5, <1>8 DEF PlaceOK, HoldsOK, CreatorOK, Stage, IncidentOK, SlotOK, Attached
<1>9. ASSUME NEW x \in Envs PROVE SlotHeld(x)'
  <2>1. CASE x \in bound
    BY <1>5, <1>9, <2>1 DEF PlaceOK, SlotOK, SlotHeld, Deleted, Swept
  <2>2. CASE x \notin bound
    BY <1>5, <1>9, <2>2 DEF SlotHeld
  <2> QED
    BY <2>1, <2>2
<1>10. ASSUME NEW x \in Envs PROVE LeaseHeld(x)'
  BY <1>5, <1>10 DEF PlaceOK, CreatorOK, Stage, IncidentOK, LeaseHeld
<1> QED
  BY <1>4, <1>6, <1>7, <1>8, <1>9, <1>10

\* Looking a slot up prunes the table, which takes no live slot.
LEMMA LookupKeeps ==
  ASSUME CoreInv, NEW t \in Workers, NEW e \in Envs, Lookup(t, e)
  PROVE  CoreInv'
<1> USE DEF CoreInv, ThreadsInv, EnvsInv, Lookup, At, envVars, poolVars, registryVars
<1>1. table' \subseteq table /\ \A f \in table : f \in bound => f \in table'
  <2>1. Pruned(table', table, Tombstones(table), terminalAt)
    BY PruneTable
  <2> QED
    BY <2>1 DEF Pruned, Tombstones
<1>2. TypeOK'
  BY <1>1 DEF Pcs
<1>3. ASSUME NEW u \in Threads PROVE PlaceOK(u)' /\ HoldsOK(u)' /\ CreatorOK(u)'
  BY <1>1, <1>3 DEF PlaceOK, HoldsOK, CreatorOK, UnusedOK, IncidentOK, Stage, Attached
<1>4. ASSUME NEW x \in Envs
      PROVE  UnusedOK(x)' /\ IncidentOK(x)' /\ SlotOK(x)' /\ SlotHeld(x)' /\ LeaseHeld(x)'
  BY <1>1, <1>4 DEF PlaceOK, HoldsOK, CreatorOK, UnusedOK, IncidentOK, SlotOK, SlotHeld, LeaseHeld,
     Deleted, Swept, Stage, Attached
<1> QED
  BY <1>2, <1>3, <1>4

\* A slot loses its environment when that has been cleaned up.
LEMMA RetireKeeps ==
  ASSUME CoreInv, NEW t \in Workers, Retire(t)
  PROVE  CoreInv'
<1> USE DEF CoreInv, ThreadsInv, EnvsInv, Retire, At, Goto, envVars, poolVars, registryVars
<1>1. TypeOK'
  BY DEF PlaceOK, Pcs
<1>2. ASSUME NEW u \in Threads PROVE PlaceOK(u)' /\ HoldsOK(u)' /\ CreatorOK(u)'
  BY <1>2 DEF PlaceOK, HoldsOK, CreatorOK, UnusedOK, IncidentOK, Stage, Attached
<1>3. ASSUME NEW x \in Envs
      PROVE  UnusedOK(x)' /\ IncidentOK(x)' /\ SlotOK(x)' /\ SlotHeld(x)' /\ LeaseHeld(x)'
  BY <1>3 DEF PlaceOK, HoldsOK, CreatorOK, UnusedOK, IncidentOK, SlotOK, SlotHeld, LeaseHeld,
     Deleted, Swept, Stage, Attached
<1> QED
  BY <1>1, <1>2, <1>3

\* A slot is stamped while its lock is held.
LEMMA StampSlotKeeps ==
  ASSUME CoreInv, NEW t \in Workers, StampSlot(t)
  PROVE  CoreInv'
<1> USE DEF CoreInv, ThreadsInv, EnvsInv, StampSlot, At, Goto, envVars, poolVars, registryVars
<1>1. on[t] \in Envs
  BY DEF PlaceOK
<1>2. PICK at \in [Envs -> Nat] :
        /\ terminalAt' = at /\ at[on[t]] > 0
        /\ \A f \in Envs \ {on[t]} : at[f] = terminalAt[f]
  BY <1>1, StampIsNew
<1>3. TypeOK'
  BY <1>2 DEF Pcs
<1>4. ASSUME NEW u \in Threads PROVE PlaceOK(u)' /\ HoldsOK(u)' /\ CreatorOK(u)'
  BY <1>1, <1>2, <1>4 DEF PlaceOK, HoldsOK, CreatorOK, UnusedOK, IncidentOK, Stage, Attached
<1>5. ASSUME NEW x \in Envs
      PROVE  UnusedOK(x)' /\ IncidentOK(x)' /\ SlotOK(x)' /\ SlotHeld(x)' /\ LeaseHeld(x)'
  BY <1>1, <1>2, <1>5 DEF PlaceOK, HoldsOK, CreatorOK, UnusedOK, IncidentOK, SlotOK, SlotHeld, LeaseHeld,
     Deleted, Swept, Stage, Attached
<1> QED
  BY <1>3, <1>4, <1>5

\* A step that ended its environment prunes before it leaves the slot's lock.
LEMMA PruneSlotsKeeps ==
  ASSUME CoreInv, NEW t \in Workers, PruneSlots(t)
  PROVE  CoreInv'
<1> USE DEF CoreInv, ThreadsInv, EnvsInv, PruneSlots, At, Unlock, Return, envVars, poolVars, registryVars
<1>1. table' \subseteq table /\ \A f \in table : f \in bound => f \in table'
  <2>1. Pruned(table', table, Tombstones(table), terminalAt)
    BY PruneTable
  <2> QED
    BY <2>1 DEF Pruned, Tombstones
<1>2. TypeOK'
  BY <1>1 DEF Pcs
<1>3. ASSUME NEW u \in Threads PROVE PlaceOK(u)' /\ HoldsOK(u)' /\ CreatorOK(u)'
  BY <1>1, <1>3 DEF PlaceOK, HoldsOK, CreatorOK, UnusedOK, IncidentOK, Stage, Attached
<1>4. ASSUME NEW x \in Envs
      PROVE  UnusedOK(x)' /\ IncidentOK(x)' /\ SlotOK(x)' /\ SlotHeld(x)' /\ LeaseHeld(x)'
  BY <1>1, <1>4 DEF PlaceOK, HoldsOK, CreatorOK, UnusedOK, IncidentOK, SlotOK, SlotHeld, LeaseHeld,
     Deleted, Swept, Stage, Attached
<1> QED
  BY <1>2, <1>3, <1>4

\* There is nothing to close only when it was closed before: a live environment
\* has an incident.
LEMMA NothingToCloseKeeps ==
  ASSUME CoreInv, NEW t \in Threads, NothingToClose(t)
  PROVE  CoreInv'
<1> USE DEF CoreInv, ThreadsInv, EnvsInv, NothingToClose, slotVars, envVars, poolVars, registryVars
<1>1. TypeOK'
  OBVIOUS
<1>2. ASSUME NEW u \in Threads PROVE PlaceOK(u)' /\ HoldsOK(u)' /\ CreatorOK(u)'
  BY <1>2 DEF PlaceOK, HoldsOK, CreatorOK, UnusedOK, IncidentOK, SlotOK, Stage, Attached
<1>3. ASSUME NEW x \in Envs
      PROVE  UnusedOK(x)' /\ IncidentOK(x)' /\ SlotOK(x)' /\ SlotHeld(x)' /\ LeaseHeld(x)'
  BY <1>3 DEF PlaceOK, HoldsOK, CreatorOK, UnusedOK, IncidentOK, SlotOK, SlotHeld, LeaseHeld,
     Deleted, Swept, Stage, Attached
<1> QED
  BY <1>1, <1>2, <1>3

----------------------------------------------------------------------------
(* All steps *)

\* A service without environments.
LEMMA CoreStarts == Init => CoreInv
  BY DEF Init, CoreInv, ThreadsInv, EnvsInv, PlaceOK, HoldsOK, CreatorOK, UnusedOK, IncidentOK, SlotOK,
     SlotHeld, LeaseHeld, Attached, Pcs, NoPool

\* No slot becomes a tombstone, and no thread stops retiring one.
Quiet ==
  /\ Tombstones(table)' \subseteq Tombstones(table)
  /\ \A t \in Workers : pc[t] \in RetiringPcs => pc'[t] \in RetiringPcs /\ on'[t] = on[t]

\* Where tables are pruned and slots retired; every other step keeps the stamps,
\* and takes a slot away only for who deletes it or closes the service.
Pruning == \E t \in Workers : Insert(t) \/ PruneSlots(t) \/ \E e \in Envs : Lookup(t, e)
Retirement == \E t \in Workers : Retire(t) \/ StampSlot(t)
Plain == table' = table /\ UNCHANGED terminalAt /\ Quiet
Taking == UNCHANGED terminalAt /\ table' \subseteq table /\ Quiet /\ \A e \in table \ table' : Taken(e)

\* A terminal slot that has its environment is locked by the thread that ends it.
LEMMA EndedByHolder ==
  ASSUME CoreInv, NEW t \in Threads, pc[t] \in {"removing", "sweepingOne"}
  PROVE  on[t] \in Envs /\ on[t] \notin terminal
  BY DEF CoreInv, ThreadsInv, EnvsInv, PlaceOK, HoldsOK, SlotOK

\* The work of a request's thread, step by step.
LEMMA WorkKeeps ==
  ASSUME CoreInv, NEW t \in Workers, Work(t)
  PROVE  CoreInv' /\ (Plain \/ Retirement \/ Pruning)
<1> USE DEF Plain, Quiet, Tombstones, slotVars
<1>1. CASE CreateSteps(t)
  <2>1. CASE Insert(t)
    BY <2>1, InsertKeeps DEF Pruning
  <2>2. CASE Register(t) \/ Reset(t) \/ AcquireRuntime(t) \/ AcquireFails(t)
    <3>1. Plain
      BY <2>2 DEF Register, Reset, AcquireRuntime, AcquireFails, Broken, CoreInv, At, Goto
    <3> QED
      BY <2>2, <3>1, RegisterKeeps, ResetKeeps, AcquireRuntimeKeeps, AcquireFailsKeeps
  <2>3. CASE PrepareFails(t) \/ PrepareSucceeds(t) \/ OpenSession(t) \/ Reject(t)
    <3>1. Plain
      BY <2>3 DEF PrepareFails, PrepareSucceeds, OpenSession, Reject, Broken, CoreInv, At, Goto, Return, CloseAt
    <3> QED
      BY <2>3, <3>1, PrepareFailsKeeps, PrepareSucceedsKeeps, OpenSessionKeeps, RejectKeeps
  <2> QED
    BY <1>1, <2>1, <2>2, <2>3 DEF CreateSteps
<1>2. CASE StepSteps(t)
  <2>1. CASE Retire(t) \/ StampSlot(t)
    BY <2>1, RetireKeeps, StampSlotKeeps DEF Retirement
  <2>4. CASE PruneSlots(t)
    BY <2>4, PruneSlotsKeeps DEF Pruning
  <2>2. CASE Conflict(t) \/ EnterStep(t) \/ StepReturns(t)
    <3>1. Plain
      BY <2>2 DEF Conflict, EnterStep, StepReturns, CoreInv, At, Goto, Return
    <3> QED
      BY <2>2, <3>1, ConflictKeeps, EnterStepKeeps, StepReturnsKeeps
  <2>3. CASE ToolOverLimit(t) \/ Submit(t) \/ MarkTerminal(t)
    <3>1. pc[t] = "answering" => on[t] \in bound
      BY DEF CoreInv, ThreadsInv, HoldsOK
    <3>2. Plain
      BY <2>3, <3>1 DEF ToolOverLimit, Submit, MarkTerminal, Terminate, CoreInv, At, Goto, CloseAt
    <3> QED
      BY <2>3, <3>2, ToolOverLimitKeeps, SubmitKeeps, MarkTerminalKeeps
  <2> QED
    BY <1>2, <2>1, <2>2, <2>3, <2>4 DEF StepSteps
<1>3. CASE DeleteSteps(t)
  <2>1. Plain
    BY <1>3, EndedByHolder DEF DeleteSteps, DeleteGone, DeleteBound, DeleteDone, CoreInv, At, Return, CloseAt
  <2> QED
    BY <1>3, <2>1, DeleteGoneKeeps, DeleteBoundKeeps, DeleteDoneKeeps DEF DeleteSteps
<1>4. CASE CloseEnvironment(t)
  BY <1>4, BeginCloseKeeps, NothingToCloseKeeps, FinishCloseKeeps, NotifyCloseKeeps
     DEF CloseEnvironment, BeginClose, NothingToClose, FinishClose, NotifyClose
<1> QED
  BY <1>1, <1>2, <1>3, <1>4 DEF Work

\* A request creates, looks up or takes out one environment.
LEMMA RequestKeeps ==
  ASSUME CoreInv, NEW t \in Workers, NEW e \in Envs, Request(t, e)
  PROVE  CoreInv' /\ (Plain \/ Retirement \/ Pruning \/ Taking)
<1>1. CASE Create(t, e)
  <2>1. Plain
    BY <1>1 DEF Create, Plain, Quiet, Tombstones, slotVars, CoreInv, At
  <2> QED
    BY <1>1, <2>1, CreateKeeps
<1>2. CASE Lookup(t, e)
  BY <1>2, LookupKeeps DEF Pruning
<1>3. CASE Delete(t, e)
  <2>1. Taking
    BY <1>3 DEF Delete, At, Taking, Taken, Quiet, Tombstones, CoreInv
  <2> QED
    BY <1>3, <2>1, DeleteKeeps
<1> QED
  BY <1>1, <1>2, <1>3 DEF Request

\* The closer's steps: only the first takes slots out of the table.
LEMMA CloserKeeps ==
  ASSUME CoreInv, CloserSteps \/ CloseEnvironment(Closer) \/ CloseService \/ CloseManager
  PROVE  CoreInv' /\ (Plain \/ Taking)
<1> USE DEF Plain, Quiet, Tombstones, slotVars
<1>1. CASE SweptSlot \/ DrainPool \/ ClearRegistries \/ CloseManager
  <2>1. Plain
    BY <1>1, EndedByHolder DEF SweptSlot, DrainPool, ClearRegistries, CloseManager, CoreInv, At, Goto
  <2> QED
    BY <1>1, <2>1, SweptSlotKeeps, DrainPoolKeeps, ClearRegistriesKeeps, CloseManagerKeeps
<1>2. ASSUME NEW e \in Envs, SweepSlot(e) \/ CloseRegistered(e)
      PROVE  CoreInv' /\ Plain
  <2>1. Plain
    BY <1>2 DEF SweepSlot, CloseRegistered, CoreInv, At, CloseAt
  <2> QED
    BY <1>2, <2>1, SweepSlotKeeps, CloseRegisteredKeeps
<1>3. CASE CloseEnvironment(Closer)
  <2>1. Plain
    BY <1>3 DEF CloseEnvironment, BeginClose, NothingToClose, FinishClose, NotifyClose
  <2> QED
    BY <1>3, <2>1, BeginCloseKeeps, NothingToCloseKeeps, FinishCloseKeeps, NotifyCloseKeeps DEF CloseEnvironment
<1>4. CASE CloseService
  <2>1. Taking
    BY <1>4 DEF CloseService, At, Taking, Taken, CoreInv
  <2> QED
    BY <1>4, <2>1, CloseServiceKeeps
<1> QED
  BY <1>1, <1>2, <1>3, <1>4 DEF CloserSteps

\* Every step keeps the invariant, and is one of three kinds for the table.
LEMMA CoreSteps ==
  ASSUME CoreInv, [Next]_vars
  PROVE  CoreInv' /\ (Plain \/ Retirement \/ Pruning \/ Taking)
<1>1. CASE UNCHANGED vars
  BY <1>1 DEF vars, slotVars, envVars, poolVars, registryVars, threadVars, Plain, Quiet, Tombstones, CoreInv, ThreadsInv, EnvsInv,
     PlaceOK, HoldsOK, CreatorOK, UnusedOK, IncidentOK, SlotOK, SlotHeld, LeaseHeld, Deleted, Swept, Stage, Attached
<1>2. CASE TimePasses
  BY <1>2, TimePassesKeeps DEF TimePasses, Plain, Quiet, Tombstones, threadVars
<1>3. ASSUME NEW e \in Envs, LeaseExpires(e)
      PROVE  CoreInv' /\ Plain
  BY <1>3, LeaseExpiresKeeps DEF LeaseExpires, Plain, Quiet, Tombstones, slotVars, threadVars
<1>4. ASSUME NEW t \in Workers, Work(t) \/ \E e \in Envs : Request(t, e)
      PROVE  CoreInv' /\ (Plain \/ Retirement \/ Pruning \/ Taking)
  BY <1>4, WorkKeeps, RequestKeeps
<1> QED
  BY <1>1, <1>2, <1>3, <1>4, CloserKeeps DEF Next

\* Tombstones that no thread is retiring: only pruning has to bound them, and it does.
Settled == {e \in Tombstones(table) : ~Retiring(e)}

LEMMA LimitStep ==
  ASSUME CoreInv, CoreInv', TombstonesBounded, Plain \/ Retirement \/ Pruning \/ Taking
  PROVE  TombstonesBounded'
<1> USE DEF CoreInv
<1>1. /\ Settled \in SUBSET Envs /\ IsFiniteSet(Settled)
      /\ Cardinality(Settled) \in Nat /\ Cardinality(Settled) <= MaxTombstones
  <2>1. Settled \in SUBSET Envs
    BY DEF Settled, Tombstones
  <2> QED
    BY <2>1, BoundsAssumption, FS_Subset, FS_CardinalityType DEF TombstonesBounded, Settled
<1>2. ASSUME NEW T, Settled' \subseteq T, IsFiniteSet(T), Cardinality(T) \in Nat, Cardinality(T) <= MaxTombstones
      PROVE  TombstonesBounded'
  <2>1. IsFiniteSet(Settled') /\ Cardinality(Settled') <= Cardinality(T) /\ Cardinality(Settled') \in Nat
    BY <1>2, FS_Subset, FS_CardinalityType
  <2> QED
    BY <2>1, <1>2, BoundsAssumption DEF TombstonesBounded, Settled
<1>3. CASE Plain \/ Taking
  <2>1. Settled' \subseteq Settled
    BY <1>3 DEF Plain, Taking, Quiet, Settled, Retiring
  <2> QED
    BY <2>1, <1>1, <1>2
<1>4. ASSUME NEW t \in Workers, Retire(t) \/ StampSlot(t)
      PROVE  TombstonesBounded'
  <2>1. /\ pc' = [pc EXCEPT ![t] = pc'[t]] /\ pc'[t] \in RetiringPcs /\ on' = on
        /\ Tombstones(table)' \subseteq Tombstones(table) \cup {on[t]}
    BY <1>4 DEF Retire, StampSlot, At, Goto, Tombstones
  <2>2. Settled' \subseteq Settled
    BY <2>1 DEF Settled, Retiring
  <2> QED
    BY <2>2, <1>1, <1>2
<1>5. ASSUME NEW tab \in SUBSET Envs, NEW tomb \in SUBSET tab, table' \in Prunes(tab, tomb, terminalAt'),
             Tombstones(table)' \subseteq tomb
      PROVE  TombstonesBounded'
  <2>1. /\ IsFiniteSet(table' \cap tomb) /\ Cardinality(table' \cap tomb) \in Nat
        /\ Cardinality(table' \cap tomb) <= MaxTombstones
    <3>1. Pruned(table', tab, tomb, terminalAt')
      BY <1>5, PruneResult
    <3> QED
      BY <3>1 DEF Pruned
  <2>2. Settled' \subseteq table' \cap tomb
    BY <1>5 DEF Settled, Tombstones
  <2> QED
    BY <2>1, <2>2, <1>2
<1>6. ASSUME NEW t \in Workers, Insert(t)
      PROVE  TombstonesBounded'
  <2>1. on[t] \in Envs /\ on[t] \notin table
    BY <1>6 DEF Insert, At, ThreadsInv, PlaceOK, CreatorOK
  <2>2. PICK first \in Prunes(table, Tombstones(table), terminalAt), more \in SUBSET {on[t]} :
          /\ table' \in Prunes(first \cup {on[t]}, Tombstones(first) \cup more, terminalAt')
          /\ terminal' = terminal \cup more
          /\ more = {} => bound' = bound \cup {on[t]}
          /\ more # {} => bound' = bound
    BY <1>6 DEF Insert
  <2>3. first \subseteq table
    BY PruneTable DEF Pruned
  <2>4. /\ first \cup {on[t]} \in SUBSET Envs
        /\ Tombstones(first) \cup more \in SUBSET (first \cup {on[t]})
        /\ Pruned(table', first \cup {on[t]}, Tombstones(first) \cup more, terminalAt')
        /\ table' \subseteq first \cup {on[t]}
    <3>1. /\ first \cup {on[t]} \in SUBSET Envs
          /\ Tombstones(first) \cup more \in SUBSET (first \cup {on[t]})
      BY <2>1, <2>3 DEF Tombstones
    <3>2. Pruned(table', first \cup {on[t]}, Tombstones(first) \cup more, terminalAt')
      BY <2>2, <3>1, PruneResult
    <3> QED
      BY <3>1, <3>2 DEF Pruned
  <2>5. Tombstones(table)' \subseteq Tombstones(first) \cup more
    BY <2>2, <2>4 DEF Tombstones
  <2> QED
    BY <2>2, <2>4, <2>5, <1>5
<1>7. ASSUME NEW t \in Workers, PruneSlots(t) \/ \E e \in Envs : Lookup(t, e)
      PROVE  TombstonesBounded'
  <2>1. table' \in Prunes(table, Tombstones(table), terminalAt) /\ UNCHANGED <<terminalAt, terminal, bound>>
    BY <1>7 DEF PruneSlots, Lookup
  <2>2. table' \subseteq table
    BY <2>1, PruneTable DEF Pruned
  <2>3. Tombstones(table)' \subseteq Tombstones(table) /\ Tombstones(table) \in SUBSET table
    BY <2>1, <2>2 DEF Tombstones
  <2> QED
    BY <2>1, <2>3, <1>5
<1> QED
  BY <1>3, <1>4, <1>6, <1>7 DEF Pruning, Retirement

\* The inductive invariant of the service and its environments.
THEOREM ServiceInvariant == Spec => []ServiceInv
<1>1. Init => ServiceInv
  <2>1. ASSUME Init PROVE TombstonesBounded
    <3>1. {e \in Tombstones(table) : ~Retiring(e)} = {} /\ Cardinality({}) = 0
      BY <2>1, FS_EmptySet DEF Init, Tombstones
    <3> QED
      BY <3>1, BoundsAssumption DEF TombstonesBounded
  <2> QED
    BY <2>1, CoreStarts DEF ServiceInv
<1>2. ServiceInv /\ [Next]_vars => ServiceInv'
  BY CoreSteps, LimitStep DEF ServiceInv
<1> QED
  BY <1>1, <1>2, PTL DEF Spec

\* The service's tables, locks, pools and threads are always well typed.
THEOREM ServiceTyped == Spec => []TypeOK
<1>1. ServiceInv => TypeOK
  BY DEF ServiceInv, CoreInv
<1> QED
  BY <1>1, ServiceInvariant, PTL

\* Whatever requests, the service's close and the manager's close do to each
\* other, an environment that leases a runtime has a slot through which it can be
\* closed, or a thread that is about to close it.
THEOREM RuntimesKept == Spec => []NoRuntimeLost
<1>1. CoreInv => NoRuntimeLost
  <2> SUFFICES ASSUME CoreInv, NEW e \in leased
               PROVE  (e \in table /\ e \in bound) \/ Attended(e)
    BY DEF NoRuntimeLost
  <2> USE DEF CoreInv, ThreadsInv, EnvsInv, Attended
  <2>1. e \in Envs /\ incident[e] # "ended" /\ e \notin cleaned
    BY DEF IncidentOK
  <2>2. CASE incident[e] = "closing"
    BY <2>1, <2>2 DEF IncidentOK
  <2>3. CASE \E t \in Workers : on[t] = e /\ pc[t] \in {"preparing", "opening", "inserting"}
    BY <2>3
  <2>4. CASE e \in bound
    <3>1. e \in table \/ Deleted(e) \/ Swept(e)
      BY <2>1, <2>4 DEF SlotHeld
    <3>2. CASE Deleted(e)
      BY <3>2 DEF Deleted
    <3>3. CASE Swept(e)
      BY <2>1, <3>3 DEF Swept, HoldsOK, PlaceOK
    <3> QED
      BY <2>4, <3>1, <3>2, <3>3
  <2> QED
    BY <2>1, <2>2, <2>3, <2>4 DEF LeaseHeld
<1> QED
  BY <1>1, ServiceInvariant, PTL DEF ServiceInv

\* Why a tombstone is not in the table.
Outdated(e) ==
  \/ terminalAt'[e] \in 1..expired
  \/ Cardinality({f \in Tombstones(table)' : AsNew(terminalAt', f, e)}) >= MaxTombstones

\* A tombstone is dropped when the maximum of tombstones is kept that are as new.
LEMMA OutdatedByMaximum ==
  ASSUME CoreInv', NEW e, NEW K \in SUBSET Tombstones(table)', Cardinality(K) = MaxTombstones,
         \A f \in K : AsNew(terminalAt', f, e)
  PROVE  Outdated(e)
<1> DEFINE newer == {f \in Tombstones(table)' : AsNew(terminalAt', f, e)}
<1>1. newer \in SUBSET Envs /\ K \in SUBSET newer
  BY DEF CoreInv, Tombstones
<1>2. IsFiniteSet(newer)
  BY <1>1, BoundsAssumption, FS_Subset
<1>3. Cardinality(K) <= Cardinality(newer) /\ Cardinality(newer) \in Nat
  BY <1>1, <1>2, FS_Subset, FS_CardinalityType
<1> QED
  BY <1>3, BoundsAssumption DEF Outdated

\* A step drops only tombstones, and those only when they are due.
LEMMA PruneSteps ==
  ASSUME ServiceInv, ServiceInv', [Next]_vars
  PROVE  /\ \A e \in table \ table' : Taken(e) \/ (e \in terminal /\ e \in cleaned)
         /\ \A e \in Envs \ table' : (e \in Tombstones(table) /\ ~Taken(e)) \/ Rejected(e) => Outdated(e)
<1> USE DEF ServiceInv, CoreInv
<1>1. \A e \in Tombstones(table) : e \in terminal /\ e \in cleaned
  BY DEF Tombstones, EnvsInv, SlotOK, ThreadsInv, HoldsOK
<1>2. ASSUME NEW e \in Envs, Rejected(e)
      PROVE  \E t \in Workers : pc[t] = "inserting" /\ on[t] = e /\ terminalAt[e] = 0
  BY <1>2 DEF Rejected, ThreadsInv, CreatorOK
<1>3. CASE Plain \/ Taking
  BY <1>2, <1>3 DEF Plain, Taking, Rejected, Tombstones
<1>4. ASSUME NEW t \in Workers, Retire(t) \/ StampSlot(t)
      PROVE  table' = table /\ \A e \in Envs : ~Rejected(e)
  <2>1. /\ table' = table /\ pc[t] # "inserting" /\ on[t] \in Envs
        /\ terminalAt' = terminalAt \/ terminalAt' = Stamp(on[t])
    BY <1>4 DEF Retire, StampSlot, At, ThreadsInv, PlaceOK
  <2>2. ASSUME NEW e \in Envs, Rejected(e)
        PROVE  FALSE
    <3>1. PICK u \in Workers : pc[u] = "inserting" /\ on[u] = e /\ terminalAt[e] = 0
      BY <2>2, <1>2
    <3>2. e # on[t]
      BY <2>1, <3>1 DEF ThreadsInv, CreatorOK
    <3>3. terminalAt'[e] = terminalAt[e]
      BY <2>1, <3>2, StampIsNew
    <3> QED
      BY <2>2, <3>1, <3>3 DEF Rejected
  <2> QED
    BY <2>1, <2>2
<1>5. ASSUME NEW t \in Workers, Insert(t)
      PROVE  /\ \A e \in table \ table' : e \in terminal /\ e \in cleaned
             /\ \A e \in Envs \ table' : e \in Tombstones(table) \/ Rejected(e) => Outdated(e)
  <2>1. on[t] \in Envs /\ on[t] \notin table /\ pc[t] = "inserting" /\ on[t] \notin terminal /\ on[t] \notin bound
    BY <1>5 DEF Insert, At, ThreadsInv, PlaceOK, CreatorOK
  <2>2. PICK first \in Prunes(table, Tombstones(table), terminalAt), more \in SUBSET {on[t]} :
          /\ table' \in Prunes(first \cup {on[t]}, Tombstones(first) \cup more, terminalAt')
          /\ terminal' = terminal \cup more
          /\ more = {} => bound' = bound \cup {on[t]} /\ terminalAt' = terminalAt
          /\ more # {} => bound' = bound /\ terminalAt' = Stamp(on[t])
    BY <1>5 DEF Insert
  <2>3. \A f \in table : terminalAt'[f] = terminalAt[f]
    BY <2>1, <2>2, StampIsNew
  <2>4. /\ first \subseteq table /\ table \ Tombstones(table) \subseteq first
        /\ Tombstones(table) \in SUBSET table
    BY PruneTable DEF Tombstones, Pruned
  <2>5. /\ Tombstones(first) = first \cap Tombstones(table)
        /\ first \cup {on[t]} \in SUBSET Envs
        /\ Tombstones(first) \cup more \in SUBSET (first \cup {on[t]})
    BY <2>1, <2>4 DEF Tombstones
  <2>6. /\ (first \cup {on[t]}) \ (Tombstones(first) \cup more) \subseteq table'
        /\ \A e \in (Tombstones(first) \cup more) \ table' :
             \/ terminalAt'[e] \in 1..expired
             \/ /\ Cardinality(table' \cap (Tombstones(first) \cup more)) = MaxTombstones
                /\ \A f \in table' \cap (Tombstones(first) \cup more) : AsNew(terminalAt', f, e)
    <3>1. Pruned(table', first \cup {on[t]}, Tombstones(first) \cup more, terminalAt')
      BY <2>2, <2>5, PruneResult
    <3> QED
      BY <3>1 DEF Pruned
  <2>7. table' \cap (Tombstones(table) \cup more) \subseteq Tombstones(table)'
    BY <2>1, <2>2 DEF Tombstones
  <2>8. ASSUME NEW e \in (Tombstones(first) \cup more) \ table'
        PROVE  Outdated(e)
    <3>1. table' \cap (Tombstones(first) \cup more) \in SUBSET Tombstones(table)'
      BY <2>5, <2>7
    <3> QED
      BY <3>1, <2>6, OutdatedByMaximum DEF Outdated
  <2>9. ASSUME NEW e \in Tombstones(table) \ first
        PROVE  Outdated(e)
    <3>1. \/ terminalAt'[e] \in 1..expired
          \/ /\ Cardinality(table' \cap (Tombstones(table) \cup more)) = MaxTombstones
             /\ \A f \in table' \cap (Tombstones(table) \cup more) : AsNew(terminalAt', f, e)
      <4>1. table' \in Prunes(first \cup {on[t]}, (first \cap Tombstones(table)) \cup more, terminalAt')
        BY <2>2, <2>5
      <4>2. on[t] \in Envs \ table /\ e \in Tombstones(table) \ first
        BY <2>1
      <4>3. terminalAt \in [Envs -> Nat] /\ terminalAt' \in [Envs -> Nat] /\ table \in SUBSET Envs /\ expired \in Nat
        OBVIOUS
      <4> HIDE DEF ServiceInv, CoreInv, TypeOK
      <4> QED
        <5>1. terminalAt'[e] \in 1..expired
              \/ FullOfNewer(table' \cap (Tombstones(table) \cup more), terminalAt', e)
          BY <4>1, <4>2, <4>3, <2>2, <2>3, <2>4, PruneTwice
        <5> QED
          BY <5>1 DEF FullOfNewer
    <3> QED
      BY <3>1, <2>7, OutdatedByMaximum DEF Outdated
  <2>10. ASSUME NEW e \in Envs, Rejected(e)
         PROVE  e \in more
    <3>1. PICK u \in Workers : pc[u] = "inserting" /\ on[u] = e /\ terminalAt[e] = 0
      BY <2>10, <1>2
    <3>2. terminalAt'[e] > 0
      BY <2>10 DEF Rejected
    <3> QED
      BY <2>1, <2>2, <3>1, <3>2, StampIsNew
  <2>11. \A e \in Tombstones(table) \ table' : Outdated(e)
    BY <2>5, <2>8, <2>9
  <2>12. \A e \in table \ table' : e \in Tombstones(table)
    BY <2>1, <2>4, <2>5, <2>6
  <2> QED
    BY <1>1, <2>8, <2>10, <2>11, <2>12
<1>6. ASSUME NEW t \in Workers, PruneSlots(t) \/ \E e \in Envs : Lookup(t, e)
      PROVE  /\ \A e \in table \ table' : e \in terminal /\ e \in cleaned
             /\ \A e \in Envs \ table' : e \in Tombstones(table) \/ Rejected(e) => Outdated(e)
  <2>1. /\ table' \in Prunes(table, Tombstones(table), terminalAt)
        /\ UNCHANGED <<terminalAt, terminal, bound>>
    BY <1>6 DEF PruneSlots, Lookup
  <2>2. Tombstones(table) \in SUBSET table
    BY DEF Tombstones
  <2>3. /\ table \ Tombstones(table) \subseteq table'
        /\ \A e \in Tombstones(table) \ table' :
             \/ terminalAt[e] \in 1..expired
             \/ /\ Cardinality(table' \cap Tombstones(table)) = MaxTombstones
                /\ \A f \in table' \cap Tombstones(table) : AsNew(terminalAt, f, e)
    <3>1. Pruned(table', table, Tombstones(table), terminalAt)
      BY <2>1, PruneTable
    <3> QED
      BY <3>1 DEF Pruned
  <2>4. table' \cap Tombstones(table) \in SUBSET Tombstones(table)'
    BY <2>1 DEF Tombstones
  <2>5. \A e \in Tombstones(table) \ table' : Outdated(e)
    BY <2>1, <2>3, <2>4, OutdatedByMaximum DEF Outdated
  <2>6. \A e \in Envs : ~Rejected(e)
    BY <2>1, <1>2 DEF Rejected
  <2> QED
    BY <1>1, <2>3, <2>5, <2>6
<1>7. CASE Retirement
  BY <1>4, <1>7 DEF Retirement, Tombstones
<1> QED
  BY <1>3, <1>5, <1>6, <1>7, CoreSteps DEF Pruning

\* Pruning is exact: besides what threads are retiring at most the maximum of
\* tombstones is remembered, only slots of closed environments are dropped
\* unasked, and a tombstone only when it is past its TTL or the maximum is kept
\* and none of those is older.
THEOREM PruningExact == Spec => PruneIsExact
<1>1. ServiceInv /\ ServiceInv' /\ [Next]_vars
        => [\A e \in table \ table' : Taken(e) \/ (e \in terminal /\ e \in cleaned)]_vars
  BY PruneSteps
<1>2. ServiceInv /\ ServiceInv' /\ [Next]_vars
        => [\A e \in Envs \ table' :
              (e \in Tombstones(table) /\ ~Taken(e)) \/ Rejected(e)
              => \/ terminalAt'[e] \in 1..expired
                 \/ Cardinality({f \in Tombstones(table)' : AsNew(terminalAt', f, e)}) >= MaxTombstones]_vars
  BY PruneSteps DEF Outdated
<1>3. ServiceInv => TombstonesBounded
  BY DEF ServiceInv
<1> QED
  BY <1>1, <1>2, <1>3, ServiceInvariant, PTL DEF Spec, PruneIsExact
=============================================================================
