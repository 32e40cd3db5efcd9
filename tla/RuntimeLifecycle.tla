-------------------------- MODULE RuntimeLifecycle --------------------------
(***************************************************************************)
(* Provisioning and teardown of runtimes on one host                       *)
(* (platform/runtime/manager.py, lifecycle.py, deployment.py and           *)
(* platform/observability/ownership.py, influxdb.py, lifecycle.py).        *)
(*                                                                         *)
(* Each runtime is worked on by one process at a time.  The processes      *)
(* share the host's labs, management subnets, collectors and buckets,      *)
(* serialise deployments with a file lock, and recover from a crash only   *)
(* with what was written to runtime.json and telemetry-buckets.json.       *)
(*                                                                         *)
(* Any command of the host may fail, and any process may die; MaxTrouble   *)
(* bounds how often.                                                       *)
(*                                                                         *)
(* Runtimes of one name in two workspaces have the same labs and buckets,  *)
(* and directories and ownership files of their own.                       *)
(***************************************************************************)
EXTENDS Naturals, FiniteSets

CONSTANTS
  Runtimes,     \* the runtimes of the workspaces on this host
  Labs,         \* for each runtime, the labs of its workers
  NoOne,        \* no runtime
  Others,       \* labs that somebody else deployed under the name of one of ours
  Subnets,      \* number of management subnets of the scale
  Parallel,     \* worker_deploy_parallelism is more than one
  MaxTrouble    \* bound: for each runtime, its commands that fail and processes that die

AllLabs == UNION {Labs[r] : r \in Runtimes}

ASSUME LabsAssumption == \A r \in Runtimes : IsFiniteSet(Labs[r]) /\ Labs[r] # {}
ASSUME NamesAssumption == NoOne \notin Runtimes /\ "other" \notin Runtimes /\ Others \subseteq AllLabs
ASSUME BoundsAssumption == Subnets \in Nat /\ MaxTrouble \in [Runtimes -> Nat]
ASSUME SwitchAssumption == Parallel \in BOOLEAN

VARIABLES
  lab,        \* who deployed the lab of this name, in which subnet, and whether it is whole
  telegraf,   \* labs with a telegraf sidecar
  collector,  \* for each runtime, the labs a BGP collector with a pid file runs for
  bucket,     \* who created the bucket of the lab's worker, NoOne when there is none
  owned,      \* for each runtime, the buckets telemetry-buckets.json records
  disk,       \* runtime.json; NoFile without the runtime's directory, Bare in one without it
  pc,         \* where the process working on the runtime is
  job,        \* its memory
  lock,       \* holder of runtime_deploy_lock
  trouble,    \* for each runtime, its commands that failed and processes that died
  torn,       \* history: runtimes of which a teardown has begun, or a lab of which another cleaned up
  orphans     \* history: for each runtime, what it left that no file of its own leads to

hostVars == <<lab, telegraf, collector, bucket>>
fileVars == <<owned, disk>>
ghostVars == <<torn, orphans>>
vars == <<hostVars, fileVars, pc, job, lock, trouble, ghostVars>>

NoLab == [by |-> NoOne, subnet |-> 0, whole |-> FALSE]
NoFile == [state |-> "absent", deploy |-> FALSE, pending |-> {}, listed |-> FALSE]
Bare == [NoFile EXCEPT !.state = "bare"]
File == [state : {"absent", "bare", "created", "deployed", "warm", "cleanup_failed"},
         deploy : BOOLEAN,                     \* stage_results has an entry for the deploy stage
         listed : BOOLEAN, pending : SUBSET AllLabs]  \* cleanup_pending_buckets, when listed
NoPlan == [l \in AllLabs |-> 0]
Idle == [todo |-> {}, failed |-> FALSE, started |-> FALSE, created |-> {}, teardown |-> FALSE, plan |-> NoPlan]
Job == [todo : SUBSET AllLabs, failed : BOOLEAN, started : BOOLEAN, created : SUBSET AllLabs, teardown : BOOLEAN,
        plan : [AllLabs -> 0..Subnets]]        \* the management subnets of the workers
Stages == {"off", "describe", "lock", "allocate", "deploy", "observe", "record", "sidecars", "pid", "telegraf",
           "ready", "undo", "buckets", "rmdir"}
Items == {"lab", "bucket", "collector"} \X AllLabs

TypeOK ==
  /\ lab \in [AllLabs -> [by : Runtimes \cup {NoOne, "other"}, subnet : 0..Subnets, whole : BOOLEAN]]
  /\ telegraf \subseteq AllLabs /\ collector \in [Runtimes -> SUBSET AllLabs]
  /\ bucket \in [AllLabs -> Runtimes \cup {NoOne}]
  /\ owned \in [Runtimes -> SUBSET AllLabs] /\ disk \in [Runtimes -> File]
  /\ pc \in [Runtimes -> Stages] /\ job \in [Runtimes -> Job]
  /\ lock \in Runtimes \cup {NoOne} /\ trouble \in [Runtimes -> Nat] /\ \A r \in Runtimes : trouble[r] <= MaxTrouble[r]
  /\ torn \subseteq Runtimes /\ orphans \in [Runtimes -> SUBSET Items]

Init ==
  /\ lab = [l \in AllLabs |-> IF l \in Others THEN [by |-> "other", subnet |-> 0, whole |-> TRUE] ELSE NoLab]
  /\ telegraf = Others /\ collector = [r \in Runtimes |-> {}]
  /\ bucket = [l \in AllLabs |-> NoOne]
  /\ owned = [r \in Runtimes |-> {}] /\ disk = [r \in Runtimes |-> NoFile]
  /\ pc = [r \in Runtimes |-> "off"] /\ job = [r \in Runtimes |-> Idle]
  /\ lock = NoOne /\ trouble = [r \in Runtimes |-> 0]
  /\ torn = {} /\ orphans = [r \in Runtimes |-> {}]

\* A command of r's process fails.
Fail(r) == trouble[r] < MaxTrouble[r] /\ trouble' = [trouble EXCEPT ![r] = @ + 1]

FirstOf(S) == CHOOSE x \in S : TRUE
Goto(r, stage, j) == pc' = [pc EXCEPT ![r] = stage] /\ job' = [job EXCEPT ![r] = j]
Write(r, file) == disk' = [disk EXCEPT ![r] = file]
Unlock(r) == lock' = IF lock = r THEN NoOne ELSE lock

\* r loses sight of what it left, or makes it anew; it lays hands on what others of the name may use.
Lose(r, items) == orphans' = [orphans EXCEPT ![r] = @ \cup items]
Renew(r, item) == orphans' = [orphans EXCEPT ![r] = @ \ {item}]
Namesakes(r, labs) == {s \in Runtimes \ {r} : Labs[s] \cap labs # {}}

----------------------------------------------------------------------------
(* RuntimeManager.provision *)

(* _build_runtime: mkdir refuses a directory that exists; then the first _write_metadata *)
Provision(r) ==
  /\ pc[r] = "off" /\ disk[r] = NoFile
  /\ Write(r, Bare) /\ Goto(r, "describe", Idle) /\ torn' = torn \ {r}
  /\ UNCHANGED <<hostVars, owned, lock, trouble, orphans>>

Describe(r) ==
  /\ pc[r] = "describe"
  /\ \/ Write(r, [NoFile EXCEPT !.state = "created"]) /\ Goto(r, "lock", Idle) /\ UNCHANGED trouble
     \/ Fail(r) /\ Goto(r, "off", Idle) /\ UNCHANGED disk
  /\ UNCHANGED <<hostVars, owned, lock, ghostVars>>

Lock(r) ==
  /\ pc[r] = "lock" /\ lock = NoOne
  /\ lock' = r /\ Goto(r, "allocate", job[r])
  /\ UNCHANGED <<hostVars, fileVars, trouble, ghostVars>>

\* Mutant: a provisioning that was refused undoes the labs it has found.
UndoRefused(r) ==
  /\ Write(r, [disk[r] EXCEPT !.deploy = TRUE])
  /\ Goto(r, "undo", [job[r] EXCEPT !.todo = Labs[r], !.failed = FALSE, !.plan = NoPlan])
  /\ Unlock(r)

\* A stage that raises: _run_stage records it, provision starts to undo what was deployed.
FailDeploy(r) ==
  /\ Write(r, [disk[r] EXCEPT !.deploy = TRUE])
  /\ Goto(r, "undo", [job[r] EXCEPT !.todo = IF job[r].started THEN Labs[r] ELSE {}, !.failed = FALSE, !.plan = NoPlan])
  /\ Unlock(r)
FailStage(r) ==
  /\ Goto(r, "undo", [job[r] EXCEPT !.todo = Labs[r], !.failed = FALSE])
  /\ UNCHANGED <<fileVars, lock>>

InUse == {lab[l].subnet : l \in AllLabs}
FreeSubnets == (1..Subnets) \ InUse

(* allocate_management_subnets: the lowest free ones, one for each worker, if there are so many *)
Lowest(n) == {s \in FreeSubnets : Cardinality({t \in FreeSubnets : t < s}) < n}

\* Mutant: the subnets already selected for the other workers are not looked at.
PlansMayRepeat(r) ==
  {p \in [AllLabs -> {0} \cup Lowest(Cardinality(Labs[r]))] : \A l \in AllLabs : p[l] = 0 <=> l \notin Labs[r]}

Plans(r) ==
  {p \in [AllLabs -> {0} \cup Lowest(Cardinality(Labs[r]))] :
     /\ \A l \in AllLabs : p[l] = 0 <=> l \notin Labs[r]
     /\ \A l, m \in Labs[r] : l # m => p[l] # p[m]}

(* which needs docker's answers, and then assert_worker_slot_available, which takes a question *)
(* that docker fails to answer for a slot that is free                                         *)
Occupied(l) == lab[l] # NoLab \/ l \in telegraf
Allocate(r) ==
  /\ pc[r] = "allocate"
  /\ LET room == Plans(r) # {}
         free == \A l \in Labs[r] : ~Occupied(l)
     IN \/ /\ room
           /\ IF free THEN UNCHANGED <<trouble, torn>>
              ELSE Fail(r) /\ torn' = torn \cup {r} \cup Namesakes(r, Labs[r])
           /\ Goto(r, "deploy", [job[r] EXCEPT !.started = TRUE, !.todo = Labs[r], !.plan = FirstOf(Plans(r))])
           /\ UNCHANGED <<fileVars, lock>>
        \/ /\ IF room /\ free THEN Fail(r) ELSE UNCHANGED trouble
           /\ FailDeploy(r) /\ UNCHANGED <<owned, torn>>
  /\ UNCHANGED <<hostVars, orphans>>

(* deploy_workers and deploy_worker_lab, in the subnet planned *)
Deploy(r) ==
  /\ pc[r] = "deploy" /\ job[r].todo # {} /\ (Parallel \/ ~job[r].failed)
  /\ \E l \in job[r].todo :
       LET deployed(whole) == [by |-> r, subnet |-> job[r].plan[l], whole |-> whole]
           done == [job[r] EXCEPT !.todo = @ \ {l}]
       IN \/ /\ lab' = [lab EXCEPT ![l] = deployed(TRUE)] /\ Renew(r, <<"lab", l>>)
             /\ Goto(r, "deploy", done) /\ UNCHANGED trouble
          \/ /\ Fail(r)
             /\ \/ lab' = [lab EXCEPT ![l] = deployed(FALSE)] /\ Renew(r, <<"lab", l>>)
                \/ lab' \in {lab, [lab EXCEPT ![l] = NoLab]} /\ UNCHANGED orphans
             /\ Goto(r, "deploy", [done EXCEPT !.failed = TRUE])
  /\ UNCHANGED <<telegraf, collector, bucket, fileVars, lock, torn>>

EndDeploy(r) ==
  /\ pc[r] = "deploy" /\ (job[r].todo = {} \/ (job[r].failed /\ ~Parallel))
  /\ IF job[r].failed THEN FailDeploy(r)
     ELSE /\ Write(r, [disk[r] EXCEPT !.state = "deployed", !.deploy = TRUE])
          /\ Goto(r, "observe", [job[r] EXCEPT !.todo = Labs[r], !.plan = NoPlan])
          /\ Unlock(r)
  /\ UNCHANGED <<hostVars, owned, trouble, ghostVars>>

(* ensure_worker_observability: ensure_bucket reports a creation only when it saw the answer to it *)
Observe(r) ==
  /\ pc[r] = "observe" /\ job[r].todo # {}
  /\ LET l == FirstOf(job[r].todo)
         create == bucket[l] = NoOne /\ bucket' = [bucket EXCEPT ![l] = r]
     IN \/ bucket[l] # NoOne /\ Goto(r, "sidecars", job[r]) /\ UNCHANGED <<bucket, fileVars, lock, trouble, orphans>>
        \/ /\ create /\ Renew(r, <<"bucket", l>>)
           /\ Goto(r, "record", job[r]) /\ UNCHANGED <<fileVars, lock, trouble>>
        \/ /\ Fail(r) /\ create /\ Lose(r, {<<"bucket", l>>})
           /\ \/ Goto(r, "sidecars", job[r]) /\ UNCHANGED <<fileVars, lock>>
              \/ FailStage(r)
        \/ Fail(r) /\ FailStage(r) /\ UNCHANGED <<bucket, orphans>>
  /\ UNCHANGED <<lab, telegraf, collector, torn>>

(* ManagedBucketRegistry.record_created *)
Record(r) ==
  /\ pc[r] = "record"
  /\ LET l == FirstOf(job[r].todo)
     IN \/ /\ owned' = [owned EXCEPT ![r] = @ \cup {l}]
           /\ Goto(r, "sidecars", [job[r] EXCEPT !.created = @ \cup {l}])
           /\ UNCHANGED <<disk, lock, trouble, orphans>>
        \/ Fail(r) /\ FailStage(r) /\ Lose(r, {<<"bucket", l>>})
  /\ UNCHANGED <<hostVars, torn>>

(* ensure_worker_bgp_collector starts the process, then writes its pid file; *)
(* in a directory of this provisioning none runs yet                         *)
Sidecars(r) ==
  /\ pc[r] = "sidecars"
  /\ \/ Goto(r, "pid", job[r]) /\ UNCHANGED <<fileVars, lock, trouble>>
     \/ Fail(r) /\ FailStage(r)
  /\ UNCHANGED <<hostVars, ghostVars>>

WritePid(r) ==
  /\ pc[r] = "pid"
  /\ LET l == FirstOf(job[r].todo)
     IN \/ /\ collector' = [collector EXCEPT ![r] = @ \cup {l}]
           /\ Goto(r, "telegraf", job[r]) /\ UNCHANGED <<fileVars, lock, trouble, orphans>>
        \/ Fail(r) /\ FailStage(r) /\ Lose(r, {<<"collector", l>>}) /\ UNCHANGED collector
  /\ UNCHANGED <<lab, telegraf, bucket, torn>>

(* ensure_worker_telegraf, which replaces the container *)
Telegraf(r) ==
  /\ pc[r] = "telegraf"
  /\ LET l == FirstOf(job[r].todo)
         left == [job[r] EXCEPT !.todo = @ \ {l}]
     IN /\ \/ /\ telegraf' = telegraf \cup {l}
              /\ Goto(r, IF left.todo = {} THEN "ready" ELSE "observe", left)
              /\ UNCHANGED <<fileVars, lock, trouble>>
           \/ Fail(r) /\ FailStage(r) /\ telegraf' \in {telegraf, telegraf \ {l}, telegraf \cup {l}}
        /\ torn' = IF r \in torn THEN torn \cup Namesakes(r, {l}) ELSE torn
  /\ UNCHANGED <<lab, collector, bucket, orphans>>

(* ensure_pingmesh and warm *)
Ready(r) ==
  /\ pc[r] = "ready"
  /\ \/ /\ Write(r, [disk[r] EXCEPT !.state = "warm"]) /\ Goto(r, "off", Idle)
        /\ UNCHANGED <<owned, lock, trouble>>
     \/ Fail(r) /\ FailStage(r)
  /\ UNCHANGED <<hostVars, ghostVars>>

----------------------------------------------------------------------------
(* Cleanup: the compensation of provision, and RuntimePool.teardown *)

Attachable(r) == disk[r].state \notin {"absent", "bare"}

\* Mutant: a runtime whose cleanup failed is not torn down again.
RefuseFailedCleanup(r) ==
  /\ pc[r] = "off" /\ disk[r].state \in {"created", "deployed", "warm"}
  /\ IF disk[r].state # "created" \/ disk[r].deploy
     THEN Goto(r, "undo", [Idle EXCEPT !.todo = Labs[r], !.teardown = TRUE])
     ELSE Goto(r, "rmdir", [Idle EXCEPT !.teardown = TRUE])
  /\ torn' = torn \cup {r}
  /\ UNCHANGED <<hostVars, fileVars, lock, trouble, orphans>>

(* RuntimeManager.attach, which needs runtime.json, and the first test of teardown *)
Teardown(r) ==
  /\ pc[r] = "off" /\ Attachable(r)
  /\ IF disk[r].state # "created" \/ disk[r].deploy
     THEN Goto(r, "undo", [Idle EXCEPT !.todo = Labs[r], !.teardown = TRUE])
     ELSE Goto(r, "rmdir", [Idle EXCEPT !.teardown = TRUE])
  /\ torn' = torn \cup {r}
  /\ UNCHANGED <<hostVars, fileVars, lock, trouble, orphans>>

\* A cleanup of r that has deployed, or that is torn down, takes what others of the name may use.
Strike(r, l) == torn' = IF job[r].started \/ job[r].teardown THEN torn \cup Namesakes(r, {l}) ELSE torn

(* _stop_collector ends the process only if it runs for this topology_dir *)
StopCollector(r, l) == collector' = [collector EXCEPT ![r] = @ \ {l}]

(* teardown_worker_lab: by name, whoever deployed it.  What remains is an error, and so is a *)
(* question whose answer does not come in time; when docker refuses to answer, the lab       *)
(* passes for removed.                                                                       *)
UndoLab(r) ==
  /\ pc[r] = "undo" /\ job[r].todo # {}
  /\ LET l == FirstOf(job[r].todo)
         left == [job[r] EXCEPT !.todo = @ \ {l}]
         attempted == /\ lab' \in {lab, [lab EXCEPT ![l].whole = FALSE], [lab EXCEPT ![l] = NoLab]}
                      /\ telegraf' \in {telegraf, telegraf \ {l}}
     IN /\ \/ /\ lab' = [lab EXCEPT ![l] = NoLab] /\ telegraf' = telegraf \ {l} /\ StopCollector(r, l)
              /\ Goto(r, "undo", left) /\ Renew(r, <<"lab", l>>) /\ UNCHANGED trouble
           \/ /\ Fail(r) /\ attempted /\ (StopCollector(r, l) \/ UNCHANGED collector)
              /\ Goto(r, "undo", [left EXCEPT !.failed = TRUE]) /\ UNCHANGED orphans
           \/ /\ Fail(r) /\ attempted /\ StopCollector(r, l)
              /\ Goto(r, "undo", left) /\ Lose(r, {<<"lab", l>>})
        /\ Strike(r, l)
  /\ UNCHANGED <<bucket, fileVars, lock>>

CleanupFailed(r, pending) ==
  /\ Write(r, [disk[r] EXCEPT !.state = "cleanup_failed", !.listed = TRUE, !.pending = pending])
  /\ Goto(r, "off", Idle)

\* The buckets to delete: those this process created, or those the attached runtime still has.
EndUndo(r) ==
  /\ pc[r] = "undo" /\ job[r].todo = {}
  /\ LET buckets == IF ~job[r].teardown THEN job[r].created
                    ELSE IF disk[r].state = "cleanup_failed" /\ disk[r].listed THEN disk[r].pending
                    ELSE owned[r]
     IN IF job[r].failed
        THEN CleanupFailed(r, IF job[r].teardown THEN owned[r] ELSE job[r].created)
        ELSE /\ Goto(r, "buckets", [job[r] EXCEPT !.todo = buckets, !.created = buckets]) /\ UNCHANGED disk
  /\ UNCHANGED <<hostVars, owned, lock, trouble, ghostVars>>

(* _delete_provision_created_buckets, delete_bucket and mark_deleted *)
DeleteBucket(r) ==
  /\ pc[r] = "buckets" /\ job[r].todo # {}
  /\ LET l == FirstOf(job[r].todo)
         left == [job[r] EXCEPT !.todo = @ \ {l}]
     IN /\ \/ /\ bucket' = [bucket EXCEPT ![l] = NoOne] /\ owned' = [owned EXCEPT ![r] = @ \ {l}]
              /\ Goto(r, "buckets", [left EXCEPT !.created = @ \ {l}]) /\ Renew(r, <<"bucket", l>>) /\ UNCHANGED trouble
           \/ /\ Fail(r) /\ bucket' \in {bucket, [bucket EXCEPT ![l] = NoOne]}
              /\ Goto(r, "buckets", [left EXCEPT !.failed = TRUE]) /\ UNCHANGED <<owned, orphans>>
        /\ Strike(r, l)
  /\ UNCHANGED <<lab, telegraf, collector, disk, lock>>

\* Mutant: a bucket that could not be deleted does not stop the removal of the directory.
IgnoreFailedDeletion(r) ==
  /\ pc[r] = "buckets" /\ job[r].todo = {}
  /\ Goto(r, "rmdir", job[r])
  /\ UNCHANGED <<hostVars, fileVars, lock, trouble, ghostVars>>

\* The list of what is pending is dropped in memory only.
EndBuckets(r) ==
  /\ pc[r] = "buckets" /\ job[r].todo = {}
  /\ IF job[r].failed THEN CleanupFailed(r, job[r].created)
     ELSE Goto(r, "rmdir", job[r]) /\ UNCHANGED disk
  /\ UNCHANGED <<hostVars, owned, lock, trouble, ghostVars>>

(* rmtree and sudo rm: the directory is gone; or it remains and runtime.json is written anew; *)
(* or rm does not end in time, or that write fails, with runtime.json there or not            *)
RemoveDirectory(r) ==
  /\ pc[r] = "rmdir"
  /\ \/ Write(r, NoFile) /\ UNCHANGED trouble
     \/ Fail(r) /\ Write(r, [disk[r] EXCEPT !.state = "cleanup_failed", !.listed = FALSE, !.pending = {}])
     \/ Fail(r) /\ \E file \in {disk[r], Bare} : Write(r, file)
  /\ Goto(r, "off", Idle)
  /\ UNCHANGED <<hostVars, owned, lock, ghostVars>>

----------------------------------------------------------------------------
(* The process dies, and a command it runs with it; its file lock is released.  What it has *)
(* not recorded yet nobody finds: the labs it deployed, a bucket, a collector process.      *)
Unrecorded(r) ==
  CASE pc[r] = "deploy" -> {<<"lab", l>> : l \in {m \in AllLabs : lab[m].by = r}}
    [] pc[r] = "record" -> {<<"bucket", FirstOf(job[r].todo)>>}
    [] pc[r] = "pid" -> {<<"collector", FirstOf(job[r].todo)>>}
    [] OTHER -> {}

Crash(r) ==
  /\ pc[r] # "off" /\ Fail(r)
  /\ Goto(r, "off", Idle) /\ Unlock(r) /\ Lose(r, Unrecorded(r))
  /\ \E file \in IF pc[r] = "rmdir" THEN {disk[r], Bare} ELSE {disk[r]} : Write(r, file)
  /\ UNCHANGED <<hostVars, owned, torn>>

Step(r) ==
  \/ Describe(r) \/ Lock(r) \/ Allocate(r) \/ Deploy(r) \/ EndDeploy(r)
  \/ Observe(r) \/ Record(r) \/ Sidecars(r) \/ WritePid(r) \/ Telegraf(r) \/ Ready(r)
  \/ UndoLab(r) \/ EndUndo(r) \/ DeleteBucket(r) \/ EndBuckets(r) \/ RemoveDirectory(r)

Next == \E r \in Runtimes : Provision(r) \/ Step(r) \/ Teardown(r) \/ Crash(r)

\* A process keeps running; a teardown that did not end well is tried again.
Fairness == \A r \in Runtimes : WF_vars(Step(r)) /\ WF_vars(Teardown(r))

Spec == Init /\ [][Next]_vars /\ Fairness

----------------------------------------------------------------------------
(* Properties *)

\* A runtime that cannot be attached any more, so that nothing could find what it left, has left
\* nothing: no lab, no bucket, no entry of a bucket and no collector, but for what its processes
\* died over, or were not told of, before a file of theirs said so.
GoneMeansClean ==
  \A r \in Runtimes : ~Attachable(r) =>
    /\ \A l \in AllLabs : /\ lab[l].by = r => <<"lab", l>> \in orphans[r]
                          /\ bucket[l] = r => <<"bucket", l>> \in orphans[r]
    /\ owned[r] = {} /\ collector[r] = {}

\* Two labs never share a management subnet, whatever was deployed and removed meanwhile.
SubnetsDisjoint ==
  \A l, m \in AllLabs : l # m /\ lab[l].subnet # 0 => lab[l].subnet # lab[m].subnet

\* A runtime recorded as warm that nobody has begun to tear down has its labs, sidecars and
\* buckets, whatever the other runtimes of the host deploy, undo and remove, namesakes that are
\* refused or fail before they deploy included; only a cleanup by the same names, or a
\* deployment for which docker did not tell that the slot is taken, can take them away.
WarmMeansComplete ==
  \A r \in Runtimes \ torn : disk[r].state = "warm" =>
    \A l \in Labs[r] : /\ lab[l].by = r /\ lab[l].whole /\ l \in telegraf /\ l \in collector[r]
                       /\ bucket[l] # NoOne

\* Cleanup removes only what the runtime deployed (teardown's "precise cleanup of any
\* partially-created resources").
PreciseTeardown == [][\A l \in AllLabs : lab[l].by = "other" => lab'[l] = lab[l]]_vars

\* A runtime of which a teardown has begun is gone in the end, however its teardowns and its
\* processes end meanwhile: none leaves a state from which the next one cannot do better.
EventuallyGone == \A r \in Runtimes : job[r].teardown ~> ~Attachable(r)
=============================================================================
