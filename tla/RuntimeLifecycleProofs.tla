------------------------ MODULE RuntimeLifecycleProofs ------------------------
(***************************************************************************)
(* Proofs about RuntimeLifecycle for any number of runtimes, labs, subnets *)
(* and failures, and about WorkerReadiness for any devices, clients,       *)
(* addresses and limits.                                                   *)
(***************************************************************************)
EXTENDS RuntimeLifecycle, WorkerReadiness, TLAPS

----------------------------------------------------------------------------
(* Runtimes: their labs, subnets and files *)

LabRecord == [by : Runtimes \cup {NoOne, "other"}, subnet : 0..Subnets, whole : BOOLEAN]

\* Subnets are looked at and taken by the holder of runtime_deploy_lock only.
LockHeld == \A r \in Runtimes : pc[r] \in {"allocate", "deploy"} => lock = r

\* What a process works through, and what the files list, are labs of its runtime.
OwnNames ==
  \A r \in Runtimes : /\ job[r].todo \subseteq Labs[r] /\ job[r].created \subseteq Labs[r]
                      /\ owned[r] \subseteq Labs[r] /\ disk[r].pending \subseteq Labs[r]

\* Between the stages of one lab that lab is listed.
AtWork == \A r \in Runtimes : pc[r] \in {"record", "sidecars", "pid", "telegraf"} => job[r].todo # {}

\* The subnets planned for the labs still to be deployed are still free, and different.
PlanFree ==
  \A r \in Runtimes : pc[r] = "deploy" =>
    /\ \A l \in job[r].todo : job[r].plan[l] \in FreeSubnets
    /\ \A l, m \in job[r].todo : l # m => job[r].plan[l] # job[r].plan[m]

SubnetInv == TypeOK /\ LockHeld /\ OwnNames /\ AtWork /\ PlanFree /\ SubnetsDisjoint

\* The same, taken apart by what a step may touch.
Procs ==
  /\ pc \in [Runtimes -> Stages] /\ job \in [Runtimes -> Job]
  /\ \A r \in Runtimes : job[r].todo \subseteq Labs[r] /\ job[r].created \subseteq Labs[r]
  /\ LockHeld /\ AtWork
Host ==
  /\ lab \in [AllLabs -> LabRecord]
  /\ telegraf \subseteq AllLabs /\ collector \in [Runtimes -> SUBSET AllLabs]
  /\ bucket \in [AllLabs -> Runtimes \cup {NoOne}]
Files ==
  /\ owned \in [Runtimes -> SUBSET AllLabs] /\ disk \in [Runtimes -> File]
  /\ \A r \in Runtimes : owned[r] \subseteq Labs[r] /\ disk[r].pending \subseteq Labs[r]
Rest ==
  /\ lock \in Runtimes \cup {NoOne}
  /\ trouble \in [Runtimes -> Nat] /\ \A r \in Runtimes : trouble[r] <= MaxTrouble[r]
  /\ torn \subseteq Runtimes /\ orphans \in [Runtimes -> SUBSET Items]

LEMMA TakenApart == SubnetInv <=> Procs /\ Host /\ Files /\ Rest /\ PlanFree /\ SubnetsDisjoint
  BY DEF SubnetInv, TypeOK, OwnNames, Procs, Host, Files, Rest, LabRecord

----------------------------------------------------------------------------
(* Subnets *)

\* Labs only disappear, or lose their wholeness: what was free stays free.
LEMMA SubnetsFreed ==
  ASSUME Host, SubnetsDisjoint, Host', \A l \in AllLabs : lab'[l].subnet \in {0, lab[l].subnet}
  PROVE  FreeSubnets \subseteq FreeSubnets' /\ SubnetsDisjoint'
<1>1. FreeSubnets \subseteq FreeSubnets'
  BY BoundsAssumption DEF FreeSubnets, InUse
<1>2. SubnetsDisjoint'
  BY DEF SubnetsDisjoint
<1> QED
  BY <1>1, <1>2

LEMMA FirstListed == ASSUME NEW S, S # {} PROVE FirstOf(S) \in S
  BY DEF FirstOf

\* The plan of allocate_management_subnets: a free subnet for each worker, all different.
LEMMA PlansAreFree ==
  ASSUME Host, NEW r \in Runtimes, NEW p \in Plans(r)
  PROVE  /\ p \in [AllLabs -> 0..Subnets]
         /\ \A l \in Labs[r] : p[l] \in FreeSubnets
         /\ \A l, m \in Labs[r] : l # m => p[l] # p[m]
<1>1. Lowest(Cardinality(Labs[r])) \subseteq FreeSubnets /\ FreeSubnets \subseteq 1..Subnets
  BY DEF Lowest, FreeSubnets
<1>2. {0} \cup Lowest(Cardinality(Labs[r])) \subseteq 0..Subnets
  <2>1. 0 \in 0..Subnets /\ 1..Subnets \subseteq 0..Subnets
    BY BoundsAssumption
  <2> QED
    BY <1>1, <2>1
<1>3. Labs[r] \subseteq AllLabs
  BY DEF AllLabs
<1>4. /\ p \in [AllLabs -> {0} \cup Lowest(Cardinality(Labs[r]))]
      /\ \A l \in AllLabs : p[l] = 0 <=> l \notin Labs[r]
      /\ \A l, m \in Labs[r] : l # m => p[l] # p[m]
  BY DEF Plans
<1>5. p \in [AllLabs -> 0..Subnets]
  BY <1>2, <1>4
<1>6. \A l \in Labs[r] : p[l] \in FreeSubnets
  BY <1>1, <1>3, <1>4
<1> QED
  BY <1>4, <1>5, <1>6

LEMMA IdleIsJob == Idle \in Job /\ Idle.todo = {} /\ Idle.created = {} /\ NoPlan \in [AllLabs -> 0..Subnets]
<1>1. NoPlan \in [AllLabs -> 0..Subnets]
  BY BoundsAssumption DEF NoPlan
<1> QED
  BY <1>1 DEF Idle, Job

LEMMA SubnetInvInit == Init => SubnetInv
<1> SUFFICES ASSUME Init PROVE SubnetInv
  OBVIOUS
<1>1. TypeOK
  <2>1. NoFile \in File
    BY DEF NoFile, File
  <2>2. \A l \in AllLabs : lab[l] \in [by : Runtimes \cup {NoOne, "other"}, subnet : 0..Subnets, whole : BOOLEAN]
    BY BoundsAssumption DEF Init, NoLab
  <2>3. lab \in [AllLabs -> [by : Runtimes \cup {NoOne, "other"}, subnet : 0..Subnets, whole : BOOLEAN]]
    BY <2>2 DEF Init
  <2>4. disk \in [Runtimes -> File] /\ job \in [Runtimes -> Job] /\ pc \in [Runtimes -> Stages]
    BY <2>1, IdleIsJob DEF Init, Stages
  <2>5. trouble \in [Runtimes -> Nat] /\ \A r \in Runtimes : trouble[r] <= MaxTrouble[r]
    BY BoundsAssumption DEF Init
  <2> QED
    BY <2>3, <2>4, <2>5, NamesAssumption DEF Init, TypeOK
<1> QED
  BY <1>1 DEF Init, SubnetInv, LockHeld, OwnNames, AtWork, PlanFree, SubnetsDisjoint, Idle, NoFile, NoLab

\* A deployment takes the subnet planned for one lab of the list.
LEMMA DeployStep ==
  ASSUME SubnetInv, NEW r \in Runtimes, Deploy(r)
  PROVE  SubnetInv'
<1> DEFINE v(l, whole) == [by |-> r, subnet |-> job[r].plan[l], whole |-> whole]
<1>0. Procs /\ Host /\ Files /\ Rest /\ PlanFree /\ SubnetsDisjoint
  BY TakenApart
<1>1. PICK l \in job[r].todo :
        /\ lab' \in {lab, [lab EXCEPT ![l] = NoLab], [lab EXCEPT ![l] = v(l, TRUE)], [lab EXCEPT ![l] = v(l, FALSE)]}
        /\ trouble' = trouble \/ Fail(r)
        /\ orphans' = orphans \/ Renew(r, <<"lab", l>>)
        /\ \E j \in {[job[r] EXCEPT !.todo = @ \ {l}], [[job[r] EXCEPT !.todo = @ \ {l}] EXCEPT !.failed = TRUE]} :
             Goto(r, "deploy", j)
  BY DEF Deploy
<1>2. /\ l \in Labs[r] /\ l \in AllLabs /\ pc[r] = "deploy" /\ lock = r
      /\ \A s \in Runtimes : s # r => pc[s] # "deploy"
  BY DEF SubnetInv, OwnNames, LockHeld, AllLabs, Deploy
<1>3. /\ job[r].plan[l] \in FreeSubnets /\ job[r].plan[l] \in 1..Subnets /\ job[r].plan[l] \in 0..Subnets
      /\ job[r].plan[l] # 0
  BY <1>0, <1>2, BoundsAssumption DEF PlanFree, FreeSubnets
<1>4. /\ lab' \in [AllLabs -> LabRecord]
      /\ \A m \in AllLabs : m # l => lab'[m] = lab[m]
      /\ lab'[l].subnet \in {0, lab[l].subnet, job[r].plan[l]}
  <2>1. {NoLab, v(l, TRUE), v(l, FALSE)} \subseteq LabRecord
    BY <1>3, BoundsAssumption DEF NoLab, LabRecord
  <2>2. NoLab.subnet = 0 /\ v(l, TRUE).subnet = job[r].plan[l] /\ v(l, FALSE).subnet = job[r].plan[l]
    BY DEF NoLab
  <2> HIDE DEF v
  <2>3. lab' = lab \/ \E w \in {NoLab, v(l, TRUE), v(l, FALSE)} : lab' = [lab EXCEPT ![l] = w]
    BY <1>1
  <2>4. CASE lab' = lab
    BY <1>0, <2>4 DEF Host
  <2>5. ASSUME NEW w \in {NoLab, v(l, TRUE), v(l, FALSE)}, lab' = [lab EXCEPT ![l] = w]
        PROVE  /\ lab' \in [AllLabs -> LabRecord]
               /\ \A m \in AllLabs : m # l => lab'[m] = lab[m]
               /\ lab'[l].subnet \in {0, lab[l].subnet, job[r].plan[l]}
    <3>1. w \in LabRecord /\ w.subnet \in {0, job[r].plan[l]}
      BY <2>1, <2>2, <2>5
    <3> QED
      BY <1>0, <1>2, <2>5, <3>1 DEF Host
  <2> QED
    BY <2>3, <2>4, <2>5
<1>5. SubnetsDisjoint'
  BY <1>3, <1>4 DEF SubnetInv, SubnetsDisjoint, FreeSubnets, InUse
<1>6. FreeSubnets \ {job[r].plan[l]} \subseteq FreeSubnets'
  BY <1>4, BoundsAssumption DEF FreeSubnets, InUse
<1>7. /\ pc' = pc /\ job'[r].todo = job[r].todo \ {l} /\ job'[r].created = job[r].created
      /\ job'[r].plan = job[r].plan /\ \A s \in Runtimes : s # r => job'[s] = job[s]
      /\ job' \in [Runtimes -> Job]
  <2>1. job \in [Runtimes -> Job] /\ pc \in [Runtimes -> Stages]
    BY DEF SubnetInv, TypeOK
  <2>2. job[r].todo \ {l} \in SUBSET AllLabs /\ job[r] \in Job
    BY <2>1 DEF Job
  <2>3. PICK j : /\ j \in {[job[r] EXCEPT !.todo = @ \ {l}], [[job[r] EXCEPT !.todo = @ \ {l}] EXCEPT !.failed = TRUE]}
                 /\ Goto(r, "deploy", j)
    BY <1>1
  <2>4. j \in Job /\ j.todo = job[r].todo \ {l} /\ j.created = job[r].created /\ j.plan = job[r].plan
    BY <2>2, <2>3 DEF Job
  <2> QED
    BY <1>2, <2>1, <2>3, <2>4 DEF Goto
<1>8. PlanFree'
  <2>1. /\ \A m \in job'[r].todo : job'[r].plan[m] \in FreeSubnets'
        /\ \A m, n \in job'[r].todo : m # n => job'[r].plan[m] # job'[r].plan[n]
    BY <1>0, <1>2, <1>6, <1>7 DEF PlanFree
  <2> QED
    BY <1>2, <1>7, <2>1 DEF PlanFree
<1>9. Host' /\ Files' /\ Procs'
  BY <1>0, <1>2, <1>4, <1>7 DEF Deploy, Host, Files, Procs, LockHeld, AtWork, fileVars
<1>10. Rest'
  <2>1. <<"lab", l>> \in Items
    BY <1>2 DEF Items
  <2>2. trouble' \in [Runtimes -> Nat] /\ \A s \in Runtimes : trouble'[s] <= MaxTrouble[s]
    BY <1>0, <1>1, BoundsAssumption DEF Rest, Fail
  <2>3. orphans' \in [Runtimes -> SUBSET Items]
    BY <1>0, <1>1, <2>1 DEF Rest, Renew
  <2> QED
    BY <1>0, <2>2, <2>3 DEF Deploy, Rest
<1> QED
  BY <1>5, <1>8, <1>9, <1>10, TakenApart DEF SubnetInv, TypeOK, OwnNames, Procs, Host, Files, Rest, LabRecord

\* A process that goes on to a stage with a memory of the right kind.
LEMMA GoesOn ==
  ASSUME Procs, NEW r \in Runtimes, NEW stage \in Stages, NEW j \in Job, Goto(r, stage, j),
         j.todo \subseteq Labs[r], j.created \subseteq Labs[r],
         stage \in {"record", "sidecars", "pid", "telegraf"} => j.todo # {},
         stage \in {"allocate", "deploy"} => lock' = r,
         \A s \in Runtimes \ {r} : lock = s => lock' = s
  PROVE  Procs'
  BY DEF Procs, Goto, LockHeld, AtWork

\* The bounds and the history, whatever a step adds to them.
LEMMA RestKept ==
  ASSUME Rest, NEW r \in Runtimes, lock' \in Runtimes \cup {NoOne}, trouble' = trouble \/ Fail(r), torn' \subseteq Runtimes,
         \/ orphans' = orphans
         \/ \E S \in SUBSET Items : Lose(r, S)
         \/ \E i \in Items : Renew(r, i)
  PROVE  Rest'
<1>1. trouble' \in [Runtimes -> Nat] /\ \A s \in Runtimes : trouble'[s] <= MaxTrouble[s]
  BY BoundsAssumption DEF Rest, Fail
<1>2. orphans' \in [Runtimes -> SUBSET Items]
  BY DEF Rest, Lose, Renew
<1> QED
  BY <1>1, <1>2 DEF Rest

\* A step that leaves subnets alone or frees them.
LEMMA QuietStep ==
  ASSUME SubnetInv, Procs', Host', Files', Rest',
         \A l \in AllLabs : lab'[l].subnet \in {0, lab[l].subnet},
         \A s \in Runtimes : pc'[s] = "deploy" => pc[s] = "deploy" /\ job'[s] = job[s]
  PROVE  SubnetInv'
<1>1. FreeSubnets \subseteq FreeSubnets' /\ SubnetsDisjoint'
  BY SubnetsFreed, TakenApart
<1>2. PlanFree'
  BY <1>1 DEF PlanFree, SubnetInv
<1> QED
  BY <1>1, <1>2 DEF SubnetInv, TypeOK, OwnNames, Procs, Host, Files, Rest, LabRecord

\* Memories and files of the right kind.
LEMMA JobUpdates ==
  ASSUME Procs, NEW r \in Runtimes, NEW S \in SUBSET Labs[r], NEW f \in BOOLEAN
  PROVE  /\ job[r] \in Job /\ job[r].todo \subseteq Labs[r] /\ job[r].created \subseteq Labs[r]
         /\ \A j \in {[job[r] EXCEPT !.todo = S], [job[r] EXCEPT !.todo = S, !.failed = f],
                      [[job[r] EXCEPT !.todo = S] EXCEPT !.failed = f],
                      [job[r] EXCEPT !.todo = S, !.failed = f, !.plan = NoPlan],
                      [job[r] EXCEPT !.todo = S, !.plan = NoPlan],
                      [Idle EXCEPT !.todo = S, !.teardown = TRUE]} :
              j \in Job /\ j.todo = S /\ j.created \subseteq Labs[r]
<1>1. job[r] \in Job /\ job[r].todo \subseteq Labs[r] /\ job[r].created \subseteq Labs[r]
  BY DEF Procs
<1>2. S \in SUBSET AllLabs /\ NoPlan \in [AllLabs -> 0..Subnets]
  BY IdleIsJob DEF AllLabs
<1> QED
  BY <1>1, <1>2 DEF Job, Idle

LEMMA FileWritten ==
  ASSUME Files, NEW r \in Runtimes, NEW f \in File, f.pending \subseteq Labs[r], Write(r, f), UNCHANGED owned
  PROVE  Files'
  BY DEF Files, Write

LEMMA FileUpdates ==
  ASSUME Files, NEW r \in Runtimes, NEW S \in SUBSET Labs[r],
         NEW state \in {"deployed", "warm", "cleanup_failed"}
  PROVE  \A f \in {[disk[r] EXCEPT !.deploy = TRUE], [disk[r] EXCEPT !.state = state],
                   [disk[r] EXCEPT !.state = state, !.deploy = TRUE],
                   [disk[r] EXCEPT !.state = state, !.listed = TRUE, !.pending = S],
                   [disk[r] EXCEPT !.state = state, !.listed = FALSE, !.pending = {}],
                   [NoFile EXCEPT !.state = "created"], NoFile, Bare, disk[r]} :
           f \in File /\ f.pending \subseteq Labs[r]
<1>1. disk[r] \in File /\ disk[r].pending \subseteq Labs[r]
  BY DEF Files
<1>2. S \in SUBSET AllLabs
  BY DEF AllLabs
<1>3. \A f \in {[NoFile EXCEPT !.state = "created"], NoFile, Bare} : f \in File /\ f.pending \subseteq Labs[r]
  <2>1. NoFile \in File /\ NoFile.pending = {}
    BY DEF File, NoFile
  <2>2. ASSUME NEW s \in {"created", "bare"}
        PROVE  [NoFile EXCEPT !.state = s] \in File /\ [NoFile EXCEPT !.state = s].pending = {}
    BY <2>1 DEF File
  <2> QED
    BY <2>1, <2>2 DEF Bare
<1>4. state \in {"absent", "bare", "created", "deployed", "warm", "cleanup_failed"}
  OBVIOUS
<1>5. ASSUME NEW f \in {[disk[r] EXCEPT !.deploy = TRUE], [disk[r] EXCEPT !.state = state],
                      [disk[r] EXCEPT !.state = state, !.deploy = TRUE]}
      PROVE  f \in File /\ f.pending = disk[r].pending
  BY <1>1, <1>4, <1>5 DEF File
<1>6. ASSUME NEW f \in {[disk[r] EXCEPT !.state = state, !.listed = TRUE, !.pending = S],
                      [disk[r] EXCEPT !.state = state, !.listed = FALSE, !.pending = {}]}
      PROVE  f \in File /\ f.pending \in {S, {}}
  BY <1>1, <1>2, <1>4, <1>6 DEF File
<1> QED
  BY <1>1, <1>3, <1>5, <1>6

LEMMA StartKeeps ==
  ASSUME Procs, Host, Files, Rest, NEW r \in Runtimes, Provision(r) \/ Describe(r) \/ Lock(r)
  PROVE  Procs' /\ Host' /\ Files' /\ Rest'
<1>1. Host' /\ UNCHANGED owned /\ orphans' = orphans
  BY DEF Provision, Describe, Lock, Host, hostVars, fileVars, ghostVars
<1>2. Files'
  BY <1>1, FileWritten, FileUpdates DEF Provision, Describe, Lock, Files, fileVars
<1>3. Rest'
  BY <1>1, RestKept DEF Provision, Describe, Lock, Rest, ghostVars
<1>4. Procs'
  <2>1. job[r] \in Job /\ job[r].todo \subseteq Labs[r] /\ job[r].created \subseteq Labs[r]
    BY DEF Procs
  <2>2. CASE Provision(r) \/ Describe(r)
    BY <2>2, IdleIsJob, GoesOn DEF Provision, Describe, Stages
  <2>3. CASE Lock(r)
    BY <2>1, <2>3, GoesOn, NamesAssumption DEF Lock, Stages
  <2> QED
    BY <2>2, <2>3
<1> QED
  BY <1>1, <1>2, <1>3, <1>4

\* A stage that raised, inside and outside the lock.
LEMMA FailedStageKeeps ==
  ASSUME Procs, Files, Rest, NEW r \in Runtimes,
         (FailDeploy(r) /\ UNCHANGED owned) \/ FailStage(r)
  PROVE  Procs' /\ Files' /\ lock' \in Runtimes \cup {NoOne}
<1>1. CASE FailDeploy(r) /\ UNCHANGED owned
  <2> DEFINE j == [job[r] EXCEPT !.todo = IF job[r].started THEN Labs[r] ELSE {}, !.failed = FALSE, !.plan = NoPlan]
  <2>1. j \in Job /\ j.todo \subseteq Labs[r] /\ j.created \subseteq Labs[r]
    <3>1. PICK S \in {Labs[r], {}} : j = [job[r] EXCEPT !.todo = S, !.failed = FALSE, !.plan = NoPlan]
      OBVIOUS
    <3>2. S \in SUBSET Labs[r] /\ FALSE \in BOOLEAN
      BY <3>1
    <3> DEFINE k == [job[r] EXCEPT !.todo = S, !.failed = FALSE, !.plan = NoPlan]
    <3>3. k \in Job /\ k.todo = S /\ k.created \subseteq Labs[r]
      BY <3>2, JobUpdates
    <3>4. j = k
      BY <3>1
    <3> HIDE DEF j, k
    <3> QED
      BY <3>2, <3>3, <3>4
  <2>2. Procs'
    BY <1>1, <2>1, GoesOn, NamesAssumption DEF FailDeploy, Unlock, Stages
  <2>3. Files'
    BY <1>1, FileWritten, FileUpdates DEF FailDeploy
  <2> QED
    BY <1>1, <2>2, <2>3 DEF FailDeploy, Unlock, Rest
<1>2. CASE FailStage(r)
  <2> DEFINE j == [job[r] EXCEPT !.todo = Labs[r], !.failed = FALSE]
  <2>1. j \in Job /\ j.todo \subseteq Labs[r] /\ j.created \subseteq Labs[r]
    BY JobUpdates
  <2>2. Procs'
    BY <1>2, <2>1, GoesOn DEF FailStage, Stages
  <2> QED
    BY <1>2, <2>2 DEF FailStage, Files, Rest, fileVars
<1> QED
  BY <1>1, <1>2

LEMMA NamesakesAreRuntimes == \A r \in Runtimes, S \in SUBSET AllLabs : Namesakes(r, S) \subseteq Runtimes
  BY DEF Namesakes

\* A deployment begins with all labs listed and a subnet planned for each.
Begins(r) ==
  \E p \in Plans(r) :
    /\ Goto(r, "deploy", [job[r] EXCEPT !.started = TRUE, !.todo = Labs[r], !.plan = p])
    /\ UNCHANGED <<fileVars, lock>>

LEMMA AllocateCases ==
  ASSUME NEW r \in Runtimes, Allocate(r)
  PROVE  Begins(r) \/ (FailDeploy(r) /\ UNCHANGED <<owned, torn>>)
<1>1. ASSUME Plans(r) # {} PROVE FirstOf(Plans(r)) \in Plans(r)
  BY <1>1, FirstListed
<1> QED
  BY <1>1 DEF Allocate, Begins

LEMMA AllocateKeeps ==
  ASSUME Procs, Host, Files, Rest, NEW r \in Runtimes, Allocate(r)
  PROVE  /\ Procs' /\ Host' /\ Files' /\ Rest' /\ lab' = lab
         /\ pc'[r] = "deploy" => /\ \A l \in job'[r].todo : job'[r].plan[l] \in FreeSubnets
                                 /\ \A l, m \in job'[r].todo : l # m => job'[r].plan[l] # job'[r].plan[m]
         /\ \A s \in Runtimes \ {r} : pc'[s] = pc[s] /\ job'[s] = job[s]
<1>1. Host' /\ orphans' = orphans /\ lab' = lab
  BY DEF Allocate, Host, hostVars
<1>2. (trouble' = trouble \/ Fail(r)) /\ torn' \subseteq Runtimes
  <2>1. Labs[r] \in SUBSET AllLabs
    BY DEF AllLabs
  <2>2. torn' \in {torn, torn \cup {r} \cup Namesakes(r, Labs[r])}
    BY DEF Allocate
  <2>3. trouble' = trouble \/ Fail(r)
    BY DEF Allocate
  <2> QED
    BY <2>1, <2>2, <2>3, NamesakesAreRuntimes DEF Rest
<1>3. CASE FailDeploy(r) /\ UNCHANGED owned
  <2>1. Procs' /\ Files' /\ lock' \in Runtimes \cup {NoOne}
    BY <1>3, FailedStageKeeps
  <2>2. pc'[r] # "deploy" /\ \A s \in Runtimes \ {r} : pc'[s] = pc[s] /\ job'[s] = job[s]
    BY <1>3 DEF FailDeploy, Goto, Procs
  <2> QED
    BY <1>1, <1>2, <2>1, <2>2, RestKept
<1>4. CASE Begins(r)
  <2>1. PICK p \in Plans(r) : Goto(r, "deploy", [job[r] EXCEPT !.started = TRUE, !.todo = Labs[r], !.plan = p])
                              /\ UNCHANGED <<fileVars, lock>>
    BY <1>4 DEF Begins
  <2> DEFINE j == [job[r] EXCEPT !.started = TRUE, !.todo = Labs[r], !.plan = p]
  <2>2. Labs[r] \in SUBSET AllLabs
    BY DEF AllLabs
  <2>3. j \in Job /\ j.todo = Labs[r] /\ j.created \subseteq Labs[r] /\ j.plan = p
    <3>1. p \in [AllLabs -> 0..Subnets]
      BY PlansAreFree
    <3> QED
      BY <2>2, <3>1 DEF Procs, Job
  <2> HIDE DEF j
  <2>4. Goto(r, "deploy", j)
    BY <2>1 DEF j
  <2>5. lock' = r
    BY <2>1 DEF Allocate, Procs, LockHeld
  <2>6. Procs'
    BY <2>1, <2>3, <2>4, <2>5, GoesOn DEF Stages
  <2>7. job'[r] = j /\ \A s \in Runtimes \ {r} : pc'[s] = pc[s] /\ job'[s] = job[s]
    BY <2>4 DEF Goto, Procs
  <2>8. Files' /\ Rest'
    BY <1>1, <1>2, <2>1, RestKept DEF Files, Rest, fileVars
  <2>9. /\ \A l \in job'[r].todo : job'[r].plan[l] \in FreeSubnets
        /\ \A l, m \in job'[r].todo : l # m => job'[r].plan[l] # job'[r].plan[m]
    BY <2>3, <2>7, PlansAreFree
  <2> QED
    BY <1>1, <2>6, <2>7, <2>8, <2>9
<1> QED
  BY <1>3, <1>4, AllocateCases

LEMMA EndDeployKeeps ==
  ASSUME Procs, Host, Files, Rest, NEW r \in Runtimes, EndDeploy(r)
  PROVE  Procs' /\ Host' /\ Files' /\ Rest'
<1>1. Host' /\ trouble' = trouble /\ UNCHANGED <<torn, orphans>> /\ UNCHANGED owned /\ torn' \subseteq Runtimes
  BY DEF EndDeploy, Host, hostVars, ghostVars, Rest
<1>2. CASE FailDeploy(r)
  BY <1>1, <1>2, FailedStageKeeps, RestKept
<1>3. CASE /\ Write(r, [disk[r] EXCEPT !.state = "deployed", !.deploy = TRUE])
           /\ Goto(r, "observe", [job[r] EXCEPT !.todo = Labs[r], !.plan = NoPlan]) /\ Unlock(r)
  <2> DEFINE j == [job[r] EXCEPT !.todo = Labs[r], !.plan = NoPlan]
  <2>1. j \in Job /\ j.todo \subseteq Labs[r] /\ j.created \subseteq Labs[r]
    BY JobUpdates
  <2>2. Procs'
    BY <1>3, <2>1, GoesOn, NamesAssumption DEF Stages, Unlock
  <2>3. Files'
    BY <1>1, <1>3, FileWritten, FileUpdates
  <2> QED
    BY <1>1, <1>3, <2>2, <2>3, RestKept DEF Rest, Unlock
<1> QED
  BY <1>2, <1>3 DEF EndDeploy

\* What follows for the lab at work.
LEMMA LabAtWork ==
  ASSUME Procs, NEW r \in Runtimes, job[r].todo # {}
  PROVE  /\ FirstOf(job[r].todo) \in job[r].todo /\ FirstOf(job[r].todo) \in Labs[r] /\ FirstOf(job[r].todo) \in AllLabs
         /\ \A kind \in {"lab", "bucket", "collector"} : <<kind, FirstOf(job[r].todo)>> \in Items
  BY FirstListed DEF Procs, AllLabs, Items

LEMMA ObserveKeeps ==
  ASSUME Procs, Host, Files, Rest, NEW r \in Runtimes, Observe(r)
  PROVE  Procs' /\ Host' /\ Files' /\ Rest'
<1> DEFINE l == FirstOf(job[r].todo)
<1>1. /\ l \in AllLabs /\ <<"bucket", l>> \in Items /\ {<<"bucket", l>>} \in SUBSET Items /\ job[r].todo # {}
      /\ job[r] \in Job /\ job[r].todo \subseteq Labs[r] /\ job[r].created \subseteq Labs[r]
  BY LabAtWork DEF Observe, Procs
<1> HIDE DEF l
<1>2. /\ bucket' \in {bucket, [bucket EXCEPT ![l] = r]} /\ (trouble' = trouble \/ Fail(r))
      /\ UNCHANGED <<lab, telegraf, collector, torn>>
      /\ orphans' = orphans \/ Renew(r, <<"bucket", l>>) \/ Lose(r, {<<"bucket", l>>})
  BY DEF Observe, l
<1>3. Host' /\ torn' \subseteq Runtimes
  BY <1>1, <1>2 DEF Host, Rest
<1>4. CASE FailStage(r)
  BY <1>1, <1>2, <1>3, <1>4, FailedStageKeeps, RestKept
<1>5. CASE (Goto(r, "record", job[r]) \/ Goto(r, "sidecars", job[r])) /\ UNCHANGED <<fileVars, lock>>
  <2>1. Procs'
    BY <1>1, <1>5, GoesOn DEF Stages
  <2>2. lock' \in Runtimes \cup {NoOne}
    BY <1>5 DEF Rest
  <2> QED
    BY <1>1, <1>2, <1>3, <1>5, <2>1, <2>2, RestKept DEF Files, fileVars
<1> QED
  BY <1>4, <1>5 DEF Observe

LEMMA RecordKeeps ==
  ASSUME Procs, Host, Files, Rest, NEW r \in Runtimes, Record(r)
  PROVE  Procs' /\ Host' /\ Files' /\ Rest'
<1> DEFINE l == FirstOf(job[r].todo)
           j == [job[r] EXCEPT !.created = @ \cup {l}]
<1>1. /\ l \in AllLabs /\ l \in Labs[r] /\ {<<"bucket", l>>} \in SUBSET Items /\ job[r].todo # {}
      /\ job[r] \in Job /\ job[r].todo \subseteq Labs[r] /\ job[r].created \subseteq Labs[r]
  BY LabAtWork DEF Record, Procs, AtWork
<1>2. Host' /\ torn' \subseteq Runtimes
  BY DEF Record, Host, Rest, hostVars
<1>3. CASE Fail(r) /\ FailStage(r) /\ Lose(r, {<<"bucket", l>>})
  BY <1>1, <1>2, <1>3, FailedStageKeeps, RestKept
<1>4. CASE /\ Goto(r, "sidecars", j) /\ owned' = [owned EXCEPT ![r] = @ \cup {l}]
           /\ UNCHANGED <<disk, lock, trouble, orphans>>
  <2> HIDE DEF l
  <2>1. j \in Job /\ j.todo = job[r].todo /\ j.created \subseteq Labs[r]
    BY <1>1 DEF Job
  <2> HIDE DEF j
  <2>2. Procs'
    BY <1>1, <1>4, <2>1, GoesOn DEF Stages
  <2>3. Files' /\ lock' \in Runtimes \cup {NoOne}
    BY <1>1, <1>4 DEF Files, Rest
  <2> QED
    BY <1>2, <1>4, <2>2, <2>3, RestKept
<1> QED
  BY <1>3, <1>4 DEF Record

LEMMA SidecarsKeeps ==
  ASSUME Procs, Host, Files, Rest, NEW r \in Runtimes, Sidecars(r)
  PROVE  Procs' /\ Host' /\ Files' /\ Rest'
<1>1. job[r] \in Job /\ job[r].todo \subseteq Labs[r] /\ job[r].created \subseteq Labs[r] /\ job[r].todo # {}
  BY DEF Sidecars, Procs, AtWork
<1>2. Host' /\ torn' \subseteq Runtimes /\ orphans' = orphans /\ (trouble' = trouble \/ Fail(r))
  BY DEF Sidecars, Host, Rest, hostVars, ghostVars
<1>3. CASE FailStage(r)
  BY <1>2, <1>3, FailedStageKeeps, RestKept
<1>4. CASE Goto(r, "pid", job[r]) /\ UNCHANGED <<fileVars, lock>>
  <2>1. Procs'
    BY <1>1, <1>4, GoesOn DEF Stages
  <2>2. lock' \in Runtimes \cup {NoOne} /\ Files'
    BY <1>4 DEF Rest, Files, fileVars
  <2> QED
    BY <1>2, <2>1, <2>2, RestKept
<1> QED
  BY <1>3, <1>4 DEF Sidecars

LEMMA WritePidKeeps ==
  ASSUME Procs, Host, Files, Rest, NEW r \in Runtimes, WritePid(r)
  PROVE  Procs' /\ Host' /\ Files' /\ Rest'
<1> DEFINE l == FirstOf(job[r].todo)
<1>1. /\ l \in AllLabs /\ {<<"collector", l>>} \in SUBSET Items /\ job[r].todo # {}
      /\ job[r] \in Job /\ job[r].todo \subseteq Labs[r] /\ job[r].created \subseteq Labs[r]
  BY LabAtWork DEF WritePid, Procs, AtWork
<1> HIDE DEF l
<1>2. /\ collector' \in {collector, [collector EXCEPT ![r] = @ \cup {l}]} /\ (trouble' = trouble \/ Fail(r))
      /\ UNCHANGED <<lab, telegraf, bucket, torn>>
      /\ orphans' = orphans \/ Lose(r, {<<"collector", l>>})
  BY DEF WritePid, l
<1>3. Host' /\ torn' \subseteq Runtimes
  BY <1>1, <1>2 DEF Host, Rest
<1>4. CASE FailStage(r)
  BY <1>1, <1>2, <1>3, <1>4, FailedStageKeeps, RestKept
<1>5. CASE Goto(r, "telegraf", job[r]) /\ UNCHANGED <<fileVars, lock>>
  <2>1. Procs'
    BY <1>1, <1>5, GoesOn DEF Stages
  <2>2. lock' \in Runtimes \cup {NoOne} /\ Files'
    BY <1>5 DEF Rest, Files, fileVars
  <2> QED
    BY <1>1, <1>2, <1>3, <2>1, <2>2, RestKept
<1> QED
  BY <1>4, <1>5 DEF WritePid

LEMMA TelegrafKeeps ==
  ASSUME Procs, Host, Files, Rest, NEW r \in Runtimes, Telegraf(r)
  PROVE  Procs' /\ Host' /\ Files' /\ Rest'
<1> DEFINE l == FirstOf(job[r].todo)
           j == [job[r] EXCEPT !.todo = @ \ {l}]
<1>1. l \in AllLabs /\ {l} \in SUBSET AllLabs /\ job[r].todo \ {l} \in SUBSET Labs[r]
  BY LabAtWork DEF Telegraf, Procs, AtWork
<1>2. j \in Job /\ j.todo \subseteq Labs[r] /\ j.created \subseteq Labs[r]
  <2>1. job[r] \in Job /\ job[r].created \subseteq Labs[r] /\ job[r].todo \ {l} \in SUBSET AllLabs
    BY <1>1 DEF Procs, AllLabs
  <2> HIDE DEF l
  <2> QED
    BY <1>1, <2>1 DEF Job
<1>4. /\ telegraf' \in {telegraf, telegraf \ {l}, telegraf \cup {l}}
      /\ UNCHANGED <<lab, bucket, collector, orphans>>
      /\ torn' \in {torn, torn \cup Namesakes(r, {l})}
  BY DEF Telegraf
<1>5. Host' /\ torn' \subseteq Runtimes
  <2> HIDE DEF l
  <2> QED
    BY <1>1, <1>4, NamesakesAreRuntimes DEF Host, Rest
<1>6. CASE Fail(r) /\ FailStage(r)
  <2> HIDE DEF l, j
  <2> QED
    BY <1>4, <1>5, <1>6, FailedStageKeeps, RestKept
<1>7. CASE Goto(r, IF j.todo = {} THEN "ready" ELSE "observe", j) /\ UNCHANGED <<fileVars, lock, trouble>>
  <2> HIDE DEF l, j
  <2>1. Goto(r, "ready", j) \/ Goto(r, "observe", j)
    BY <1>7
  <2>2. Procs'
    BY <1>2, <1>7, <2>1, GoesOn DEF Stages
  <2>3. lock' \in Runtimes \cup {NoOne} /\ Files'
    BY <1>7 DEF Rest, Files, fileVars
  <2> QED
    BY <1>4, <1>5, <1>7, <2>2, <2>3, RestKept
<1> QED
  BY <1>6, <1>7 DEF Telegraf

LEMMA ReadyKeeps ==
  ASSUME Procs, Host, Files, Rest, NEW r \in Runtimes, Ready(r)
  PROVE  Procs' /\ Host' /\ Files' /\ Rest'
<1>1. Host' /\ (trouble' = trouble \/ Fail(r)) /\ torn' \subseteq Runtimes /\ orphans' = orphans
  BY DEF Ready, Rest, Host, hostVars, ghostVars
<1>2. CASE FailStage(r)
  BY <1>1, <1>2, FailedStageKeeps, RestKept
<1>3. CASE Goto(r, "off", Idle) /\ Write(r, [disk[r] EXCEPT !.state = "warm"]) /\ UNCHANGED <<owned, lock>>
  <2>1. Procs'
    BY <1>3, IdleIsJob, GoesOn DEF Stages
  <2>2. Files' /\ lock' \in Runtimes \cup {NoOne}
    BY <1>3, FileWritten, FileUpdates DEF Rest
  <2> QED
    BY <1>1, <2>1, <2>2, RestKept
<1> QED
  BY <1>2, <1>3 DEF Ready

LEMMA TeardownKeeps ==
  ASSUME Procs, Host, Files, Rest, NEW r \in Runtimes, Teardown(r)
  PROVE  Procs' /\ Host' /\ Files' /\ Rest'
<1>1. Procs'
  <2>1. Labs[r] \in SUBSET AllLabs
    BY DEF AllLabs
  <2>2. /\ [Idle EXCEPT !.todo = Labs[r], !.teardown = TRUE] \in Job
        /\ [Idle EXCEPT !.teardown = TRUE] \in Job
    BY <2>1, IdleIsJob DEF Job
  <2>3. PICK j \in {[Idle EXCEPT !.todo = Labs[r], !.teardown = TRUE], [Idle EXCEPT !.teardown = TRUE]} :
          Goto(r, "undo", j) \/ Goto(r, "rmdir", j)
    BY DEF Teardown
  <2>4. j \in Job /\ j.todo \subseteq Labs[r] /\ j.created \subseteq Labs[r]
    BY <2>2, <2>3 DEF Idle
  <2> QED
    BY <2>3, <2>4, GoesOn DEF Teardown, Stages
<1>2. Rest'
  BY RestKept DEF Teardown, Rest
<1> QED
  BY <1>1, <1>2 DEF Teardown, Host, Files, hostVars, fileVars

\* Attempts to remove a lab leave it, break it or remove it.
LEMMA AttemptedLab ==
  ASSUME Host, NEW l \in AllLabs, lab' \in {lab, [lab EXCEPT ![l].whole = FALSE], [lab EXCEPT ![l] = NoLab]}
  PROVE  /\ lab' \in [AllLabs -> LabRecord]
         /\ \A m \in AllLabs : lab'[m].subnet \in {0, lab[m].subnet} /\ lab'[m].by \in {NoOne, lab[m].by}
         /\ \A m \in AllLabs \ {l} : lab'[m] = lab[m]
<1>1. NoLab \in LabRecord /\ NoLab.subnet = 0 /\ NoLab.by = NoOne
  BY BoundsAssumption DEF NoLab, LabRecord
<1>2. /\ [lab[l] EXCEPT !.whole = FALSE] \in LabRecord /\ [lab[l] EXCEPT !.whole = FALSE].subnet = lab[l].subnet
      /\ [lab[l] EXCEPT !.whole = FALSE].by = lab[l].by
  BY DEF Host, LabRecord
<1>3. PICK v \in {lab[l], NoLab, [lab[l] EXCEPT !.whole = FALSE]} : lab' = [lab EXCEPT ![l] = v]
  BY DEF Host
<1>4. v \in LabRecord /\ v.subnet \in {0, lab[l].subnet} /\ v.by \in {NoOne, lab[l].by}
  <2>1. lab[l] \in LabRecord
    BY DEF Host
  <2> QED
    BY <1>1, <1>2, <1>3, <2>1
<1> QED
  BY <1>3, <1>4 DEF Host

\* What a cleanup makes of the memory of the process.
Left(r, l, j) ==
  /\ j \in Job /\ j.todo = job[r].todo \ {l} /\ j.todo \subseteq Labs[r] /\ j.created \subseteq Labs[r]
  /\ j.started = job[r].started /\ j.teardown = job[r].teardown

LEMMA LabDone ==
  ASSUME Procs, NEW r \in Runtimes, NEW l \in job[r].todo, NEW left, left = [job[r] EXCEPT !.todo = @ \ {l}]
  PROVE  /\ Left(r, l, left) /\ Left(r, l, [left EXCEPT !.failed = TRUE]) /\ Left(r, l, [left EXCEPT !.created = @ \ {l}])
<1>1. job[r] \in Job /\ job[r].todo \subseteq Labs[r] /\ job[r].created \subseteq Labs[r]
  BY DEF Procs
<1>2. /\ left \in Job /\ left.todo = job[r].todo \ {l} /\ left.created = job[r].created /\ left.failed = job[r].failed
      /\ left.started = job[r].started /\ left.teardown = job[r].teardown
  BY <1>1 DEF Job
<1>3. ASSUME NEW j \in {[left EXCEPT !.failed = TRUE], [left EXCEPT !.created = @ \ {l}]}
      PROVE  /\ j \in Job /\ j.todo = left.todo /\ j.created \subseteq left.created
             /\ j.started = left.started /\ j.teardown = left.teardown
  <2>1. CASE j = [left EXCEPT !.failed = TRUE]
    BY <1>2, <2>1 DEF Job
  <2>2. CASE j = [left EXCEPT !.created = @ \ {l}]
    <3>1. left.created \ {l} \in SUBSET AllLabs
      BY <1>2 DEF Job
    <3> QED
      BY <1>2, <2>2, <3>1 DEF Job
  <2> QED
    BY <1>3, <2>1, <2>2
<1> QED
  BY <1>1, <1>2, <1>3 DEF Left

LEMMA UndoLabKeeps ==
  ASSUME Procs, Host, Files, Rest, NEW r \in Runtimes, UndoLab(r)
  PROVE  Procs' /\ Host' /\ Files' /\ Rest' /\ \A l \in AllLabs : lab'[l].subnet \in {0, lab[l].subnet}
<1> DEFINE l == FirstOf(job[r].todo)
           left == [job[r] EXCEPT !.todo = @ \ {l}]
<1>1. /\ l \in job[r].todo /\ l \in AllLabs /\ {l} \in SUBSET AllLabs /\ <<"lab", l>> \in Items
      /\ {<<"lab", l>>} \in SUBSET Items
  BY LabAtWork DEF UndoLab
<1>2. /\ lab' \in {lab, [lab EXCEPT ![l].whole = FALSE], [lab EXCEPT ![l] = NoLab]}
      /\ telegraf' \in {telegraf, telegraf \ {l}}
      /\ collector' \in {collector, [collector EXCEPT ![r] = @ \ {l}]}
      /\ (trouble' = trouble \/ Fail(r)) /\ UNCHANGED <<bucket, fileVars, lock>>
      /\ orphans' = orphans \/ Renew(r, <<"lab", l>>) \/ Lose(r, {<<"lab", l>>})
      /\ torn' \in {torn, torn \cup Namesakes(r, {l})}
  BY DEF UndoLab, StopCollector, Strike
<1>3. \E j \in {left, [left EXCEPT !.failed = TRUE]} : Goto(r, "undo", j)
  BY DEF UndoLab
<1>4. \A j \in {left, [left EXCEPT !.failed = TRUE]} : j \in Job /\ j.todo \subseteq Labs[r] /\ j.created \subseteq Labs[r]
  <2>1. left = [job[r] EXCEPT !.todo = @ \ {l}]
    OBVIOUS
  <2> HIDE DEF l, left
  <2>2. Left(r, l, left) /\ Left(r, l, [left EXCEPT !.failed = TRUE]) /\ Left(r, l, [left EXCEPT !.created = @ \ {l}])
    BY <1>1, <2>1, LabDone
  <2> QED
    BY <2>2 DEF Left
<1> HIDE DEF l, left
<1>5. /\ lab' \in [AllLabs -> LabRecord]
      /\ \A m \in AllLabs : lab'[m].subnet \in {0, lab[m].subnet}
  BY <1>1, <1>2, AttemptedLab
<1>6. Host' /\ Files' /\ torn' \subseteq Runtimes /\ lock' \in Runtimes \cup {NoOne}
  BY <1>1, <1>2, <1>5, NamesakesAreRuntimes DEF Host, Files, Rest, fileVars
<1>7. Procs'
  BY <1>2, <1>3, <1>4, GoesOn DEF Stages
<1>8. Rest'
  BY <1>1, <1>2, <1>6, RestKept
<1> QED
  BY <1>5, <1>6, <1>7, <1>8

LEMMA EndUndoKeeps ==
  ASSUME Procs, Host, Files, Rest, NEW r \in Runtimes, EndUndo(r)
  PROVE  Procs' /\ Host' /\ Files' /\ Rest'
<1> DEFINE buckets == IF ~job[r].teardown THEN job[r].created
                      ELSE IF disk[r].state = "cleanup_failed" /\ disk[r].listed THEN disk[r].pending
                      ELSE owned[r]
           pending == IF job[r].teardown THEN owned[r] ELSE job[r].created
           j == [job[r] EXCEPT !.todo = buckets, !.created = buckets]
<1>1. /\ buckets \subseteq Labs[r] /\ buckets \in SUBSET AllLabs
      /\ pending \subseteq Labs[r] /\ pending \in SUBSET AllLabs
  BY DEF Procs, Files, AllLabs
<1>2. UNCHANGED <<hostVars, owned, lock, trouble, ghostVars>>
  BY DEF EndUndo
<1>3. Host' /\ Rest'
  BY <1>2 DEF Host, Rest, hostVars, ghostVars
<1>4. CASE CleanupFailed(r, pending)
  <2> HIDE DEF pending
  <2>1. Procs'
    BY <1>2, <1>4, IdleIsJob, GoesOn DEF CleanupFailed, Stages
  <2>2. Files'
    BY <1>1, <1>2, <1>4, FileWritten, FileUpdates DEF CleanupFailed
  <2> QED
    BY <1>3, <2>1, <2>2
<1>5. CASE Goto(r, "buckets", j) /\ UNCHANGED disk
  <2> HIDE DEF buckets
  <2>1. j \in Job /\ j.todo \subseteq Labs[r] /\ j.created \subseteq Labs[r]
    BY <1>1 DEF Procs, Job
  <2> HIDE DEF j
  <2>2. Procs'
    BY <1>2, <1>5, <2>1, GoesOn DEF Stages
  <2> QED
    BY <1>2, <1>3, <1>5, <2>2 DEF Files
<1> QED
  BY <1>4, <1>5 DEF EndUndo

LEMMA DeleteBucketKeeps ==
  ASSUME Procs, Host, Files, Rest, NEW r \in Runtimes, DeleteBucket(r)
  PROVE  Procs' /\ Host' /\ Files' /\ Rest'
<1> DEFINE l == FirstOf(job[r].todo)
           left == [job[r] EXCEPT !.todo = @ \ {l}]
<1>1. l \in job[r].todo /\ l \in AllLabs /\ {l} \in SUBSET AllLabs /\ <<"bucket", l>> \in Items
  BY LabAtWork DEF DeleteBucket
<1>2. /\ bucket' \in {bucket, [bucket EXCEPT ![l] = NoOne]} /\ owned' \in {owned, [owned EXCEPT ![r] = @ \ {l}]}
      /\ (trouble' = trouble \/ Fail(r)) /\ UNCHANGED <<lab, telegraf, collector, disk, lock>>
      /\ orphans' = orphans \/ Renew(r, <<"bucket", l>>)
      /\ torn' \in {torn, torn \cup Namesakes(r, {l})}
  BY DEF DeleteBucket, Strike
<1>3. \E j \in {[left EXCEPT !.created = @ \ {l}], [left EXCEPT !.failed = TRUE]} : Goto(r, "buckets", j)
  BY DEF DeleteBucket
<1>4. \A j \in {[left EXCEPT !.created = @ \ {l}], [left EXCEPT !.failed = TRUE]} :
        j \in Job /\ j.todo \subseteq Labs[r] /\ j.created \subseteq Labs[r]
  <2>1. left = [job[r] EXCEPT !.todo = @ \ {l}]
    OBVIOUS
  <2> HIDE DEF l, left
  <2>2. Left(r, l, left) /\ Left(r, l, [left EXCEPT !.failed = TRUE]) /\ Left(r, l, [left EXCEPT !.created = @ \ {l}])
    BY <1>1, <2>1, LabDone
  <2> QED
    BY <2>2 DEF Left
<1> HIDE DEF l, left
<1>5. Host' /\ Files' /\ torn' \subseteq Runtimes /\ lock' \in Runtimes \cup {NoOne}
  BY <1>1, <1>2, NamesakesAreRuntimes DEF Host, Files, Rest
<1>6. Procs'
  BY <1>2, <1>3, <1>4, GoesOn DEF Stages
<1> QED
  BY <1>1, <1>2, <1>5, <1>6, RestKept

LEMMA EndBucketsKeeps ==
  ASSUME Procs, Host, Files, Rest, NEW r \in Runtimes, EndBuckets(r)
  PROVE  Procs' /\ Host' /\ Files' /\ Rest'
<1>1. job[r] \in Job /\ job[r].todo \subseteq Labs[r] /\ job[r].created \subseteq Labs[r]
  BY DEF Procs
<1>2. UNCHANGED <<hostVars, owned, lock, trouble, ghostVars>>
  BY DEF EndBuckets
<1>3. Files'
  <2>1. disk' = disk
        \/ Write(r, [disk[r] EXCEPT !.state = "cleanup_failed", !.listed = TRUE, !.pending = job[r].created])
    BY DEF EndBuckets, CleanupFailed
  <2> QED
    BY <1>1, <1>2, <2>1, FileWritten, FileUpdates DEF Files
<1>4. Procs'
  <2>1. Goto(r, "off", Idle) \/ Goto(r, "rmdir", job[r])
    BY DEF EndBuckets, CleanupFailed
  <2> QED
    BY <1>1, <1>2, <2>1, IdleIsJob, GoesOn DEF Stages
<1> QED
  BY <1>2, <1>3, <1>4 DEF Host, Rest, hostVars, ghostVars

LEMMA RemoveDirectoryKeeps ==
  ASSUME Procs, Host, Files, Rest, NEW r \in Runtimes, RemoveDirectory(r)
  PROVE  Procs' /\ Host' /\ Files' /\ Rest'
<1>1. UNCHANGED <<hostVars, owned, lock, ghostVars>> /\ (trouble' = trouble \/ Fail(r))
  BY DEF RemoveDirectory
<1>2. Files'
  BY <1>1, FileWritten, FileUpdates DEF RemoveDirectory
<1>3. Procs'
  BY <1>1, IdleIsJob, GoesOn DEF RemoveDirectory, Stages
<1>4. Rest'
  BY <1>1, RestKept DEF ghostVars, Rest
<1> QED
  BY <1>1, <1>2, <1>3, <1>4 DEF Host, hostVars

LEMMA CrashKeeps ==
  ASSUME Procs, Host, Files, Rest, NEW r \in Runtimes, Crash(r)
  PROVE  Procs' /\ Host' /\ Files' /\ Rest'
<1>1. UNCHANGED <<hostVars, owned, torn>> /\ lock' \in Runtimes \cup {NoOne}
  BY DEF Crash, Rest, Unlock
<1>2. Procs'
  BY IdleIsJob, GoesOn DEF Crash, Unlock, Stages
<1>3. Files'
  BY <1>1, FileWritten, FileUpdates DEF Crash
<1>4. Unrecorded(r) \in SUBSET Items
  <2>1. {<<"lab", l>> : l \in {m \in AllLabs : lab[m].by = r}} \subseteq Items
    BY DEF Items
  <2>2. ASSUME pc[r] \in {"record", "pid"} PROVE \A kind \in {"bucket", "collector"} : <<kind, FirstOf(job[r].todo)>> \in Items
    BY <2>2, LabAtWork DEF Procs, AtWork
  <2> QED
    BY <2>1, <2>2 DEF Unrecorded
<1>5. Rest'
  BY <1>1, <1>4, RestKept DEF Crash, Rest
<1> QED
  BY <1>1, <1>2, <1>3, <1>5 DEF Host, hostVars

----------------------------------------------------------------------------

LEMMA SubnetInvStep == SubnetInv /\ [Next]_vars => SubnetInv'
<1> SUFFICES ASSUME SubnetInv, [Next]_vars PROVE SubnetInv'
  OBVIOUS
<1>1. Procs /\ Host /\ Files /\ Rest /\ PlanFree /\ SubnetsDisjoint
  BY TakenApart
<1>2. CASE UNCHANGED vars
  <2>1. FreeSubnets' = FreeSubnets
    BY <1>2 DEF FreeSubnets, InUse, vars, hostVars
  <2> QED
    BY <1>2, <2>1 DEF SubnetInv, TypeOK, LockHeld, OwnNames, AtWork, PlanFree, SubnetsDisjoint, vars, hostVars, fileVars,
       ghostVars
<1>3. ASSUME NEW r \in Runtimes, Deploy(r) PROVE SubnetInv'
  BY <1>3, DeployStep
<1>4. ASSUME NEW r \in Runtimes, Allocate(r) PROVE SubnetInv'
  <2>1. /\ Procs' /\ Host' /\ Files' /\ Rest' /\ lab' = lab
        /\ pc'[r] = "deploy" => /\ \A l \in job'[r].todo : job'[r].plan[l] \in FreeSubnets
                                /\ \A l, m \in job'[r].todo : l # m => job'[r].plan[l] # job'[r].plan[m]
        /\ \A s \in Runtimes \ {r} : pc'[s] = pc[s] /\ job'[s] = job[s]
    BY <1>1, <1>4, AllocateKeeps
  <2>2. FreeSubnets' = FreeSubnets /\ SubnetsDisjoint'
    BY <1>1, <2>1 DEF FreeSubnets, InUse, SubnetsDisjoint
  <2>3. PlanFree'
    <3> SUFFICES ASSUME NEW s \in Runtimes, pc'[s] = "deploy"
                 PROVE  /\ \A l \in job'[s].todo : job'[s].plan[l] \in FreeSubnets'
                        /\ \A l, m \in job'[s].todo : l # m => job'[s].plan[l] # job'[s].plan[m]
      BY DEF PlanFree
    <3>1. CASE s = r
      BY <2>1, <2>2, <3>1
    <3>2. CASE s # r
      BY <1>1, <2>1, <2>2, <3>2 DEF PlanFree
    <3> QED
      BY <3>1, <3>2
  <2> QED
    BY <2>1, <2>2, <2>3 DEF SubnetInv, TypeOK, OwnNames, Procs, Host, Files, Rest, LabRecord
<1>5. ASSUME NEW r \in Runtimes,
             Provision(r) \/ Describe(r) \/ Lock(r) \/ EndDeploy(r) \/ Observe(r) \/ Record(r) \/ Sidecars(r)
             \/ WritePid(r) \/ Telegraf(r) \/ Ready(r) \/ Teardown(r) \/ UndoLab(r) \/ EndUndo(r) \/ DeleteBucket(r)
             \/ EndBuckets(r) \/ RemoveDirectory(r) \/ Crash(r)
      PROVE  SubnetInv'
  <2>1. Procs' /\ Host' /\ Files' /\ Rest'
    BY <1>1, <1>5, StartKeeps, EndDeployKeeps, ObserveKeeps, RecordKeeps, SidecarsKeeps, WritePidKeeps, TelegrafKeeps,
       ReadyKeeps, TeardownKeeps, UndoLabKeeps, EndUndoKeeps, DeleteBucketKeeps, EndBucketsKeeps,
       RemoveDirectoryKeeps, CrashKeeps
  <2>2. \A l \in AllLabs : lab'[l].subnet \in {0, lab[l].subnet}
    <3>1. CASE UndoLab(r)
      BY <1>1, <3>1, UndoLabKeeps
    <3>2. CASE ~UndoLab(r)
      BY <1>5, <3>2 DEF Provision, Describe, Lock, EndDeploy, Observe, Record, Sidecars, WritePid, Telegraf, Ready,
         Teardown, EndUndo, DeleteBucket, EndBuckets, RemoveDirectory, Crash, hostVars
    <3> QED
      BY <3>1, <3>2
  <2>3. ASSUME NEW s \in Runtimes, pc'[s] = "deploy"
        PROVE  pc[s] = "deploy" /\ job'[s] = job[s]
    <3>1. CASE Provision(r) \/ Describe(r) \/ Lock(r) \/ EndDeploy(r) \/ Teardown(r) \/ RemoveDirectory(r) \/ Crash(r)
      BY <1>1, <2>3, <3>1 DEF Provision, Describe, Lock, EndDeploy, Teardown, RemoveDirectory, Crash, FailDeploy,
         Goto, Procs
    <3>2. CASE Observe(r) \/ Record(r) \/ Sidecars(r) \/ WritePid(r) \/ Ready(r)
      BY <1>1, <2>3, <3>2 DEF Observe, Record, Sidecars, WritePid, Ready, FailStage, Goto, Procs
    <3>3. CASE Telegraf(r)
      BY <1>1, <2>3, <3>3 DEF Telegraf, FailStage, Goto, Procs
    <3>4. CASE UndoLab(r) \/ EndUndo(r)
      BY <1>1, <2>3, <3>4 DEF UndoLab, EndUndo, CleanupFailed, Goto, Procs
    <3>5. CASE DeleteBucket(r) \/ EndBuckets(r)
      BY <1>1, <2>3, <3>5 DEF DeleteBucket, EndBuckets, CleanupFailed, Goto, Procs
    <3> QED
      BY <1>5, <3>1, <3>2, <3>3, <3>4, <3>5
  <2> QED
    BY <1>1, <2>1, <2>2, <2>3, QuietStep
<1> QED
  BY <1>2, <1>3, <1>4, <1>5 DEF Next, Step

\* Every variable of the host, the files and the processes keeps its type, however commands fail
\* and processes die between the steps of provision and teardown.
THEOREM RuntimeTypeCorrect == Spec => []TypeOK
<1>1. SubnetInv => TypeOK
  BY DEF SubnetInv
<1> QED
  BY <1>1, SubnetInvInit, SubnetInvStep, PTL DEF Spec

\* No two labs of the host get the same management subnet: allocate_management_subnets plans
\* those of all workers at once, the deploy lock is held from there to the end of
\* deploy_workers, and a process that dies in between leaves its labs in the list that the
\* next one reads.
THEOREM SubnetsStayDisjoint == Spec => []SubnetsDisjoint
<1>1. SubnetInv => SubnetsDisjoint
  BY DEF SubnetInv
<1> QED
  BY <1>1, SubnetInvInit, SubnetInvStep, PTL DEF Spec

----------------------------------------------------------------------------
(* What a runtime has left on the host *)

Building == {"observe", "record", "sidecars", "pid", "telegraf", "ready"}

\* The labs and buckets it deployed and created and has not lost sight of.
DeployedBy(r) == {l \in AllLabs : lab[l].by = r /\ <<"lab", l>> \notin orphans[r]}
CreatedBy(r) == {l \in AllLabs : bucket[l] = r /\ <<"bucket", l>> \notin orphans[r]}

\* It has left nothing.
Nothing(r) == DeployedBy(r) = {} /\ CreatedBy(r) = {} /\ owned[r] = {} /\ collector[r] = {}

\* What it has is among its labs, and its buckets are recorded, or about to be.
Listed(r) ==
  /\ DeployedBy(r) \subseteq Labs[r] /\ collector[r] \subseteq Labs[r]
  /\ CreatedBy(r) \subseteq owned[r] \cup IF pc[r] = "record" THEN {FirstOf(job[r].todo)} ELSE {}

\* What runtime.json says of a process that dies here.
OnDisk(r) ==
  /\ disk[r].state = "absent" => disk[r] = NoFile /\ pc[r] = "off"
  /\ disk[r].state = "bare" => pc[r] \in {"off", "describe"}
  /\ pc[r] = "describe" => disk[r].state = "bare"
  /\ pc[r] \in {"lock", "allocate", "deploy"} => disk[r].state = "created"
  /\ pc[r] \in Building => disk[r].state = "deployed"
  /\ pc[r] \in {"undo", "buckets"} => disk[r].state # "created" \/ disk[r].deploy
  /\ disk[r].state = "cleanup_failed" /\ disk[r].listed => owned[r] \subseteq disk[r].pending

\* What the process remembers.
InMemory(r) ==
  /\ pc[r] \in Building \cup {"describe", "lock", "allocate", "deploy"} => ~job[r].teardown
  /\ pc[r] # "off" /\ ~job[r].teardown => owned[r] = job[r].created
  /\ pc[r] = "deploy" => job[r].started
  /\ pc[r] = "buckets" => owned[r] \subseteq job[r].created

\* How far it has come, and how far its cleanup is.
Undone(r) ==
  /\ pc[r] \in {"describe", "lock", "allocate", "rmdir"} => Nothing(r)
  /\ pc[r] = "deploy" => CreatedBy(r) = {} /\ owned[r] = {} /\ collector[r] = {}
  /\ pc[r] = "off" /\ (~Attachable(r) \/ (disk[r].state = "created" /\ ~disk[r].deploy)) => Nothing(r)
  /\ pc[r] = "undo" /\ ~job[r].failed => DeployedBy(r) \cup collector[r] \subseteq job[r].todo
  /\ pc[r] = "buckets" => /\ DeployedBy(r) = {} /\ collector[r] = {}
                          /\ job[r].failed \/ owned[r] \subseteq job[r].todo

CleanOf(r) == Listed(r) /\ OnDisk(r) /\ InMemory(r) /\ Undone(r)
CleanInv == \A r \in Runtimes : CleanOf(r)

\* The types of what a process works with.
LEMMA OwnTypes ==
  ASSUME SubnetInv, NEW r \in Runtimes
  PROVE  /\ pc \in [Runtimes -> Stages] /\ job \in [Runtimes -> Job] /\ disk \in [Runtimes -> File]
         /\ owned \in [Runtimes -> SUBSET AllLabs] /\ collector \in [Runtimes -> SUBSET AllLabs]
         /\ bucket \in [AllLabs -> Runtimes \cup {NoOne}] /\ lab \in [AllLabs -> LabRecord]
         /\ orphans \in [Runtimes -> SUBSET Items]
         /\ job[r] \in Job /\ disk[r] \in File /\ pc[r] \in Stages
         /\ job[r].todo \subseteq Labs[r] /\ owned[r] \subseteq Labs[r] /\ Labs[r] \subseteq AllLabs
  BY DEF SubnetInv, TypeOK, OwnNames, LabRecord, AllLabs

LEMMA OwnLab ==
  ASSUME SubnetInv, NEW r \in Runtimes, job[r].todo # {}
  PROVE  /\ FirstOf(job[r].todo) \in job[r].todo /\ FirstOf(job[r].todo) \in Labs[r] /\ FirstOf(job[r].todo) \in AllLabs
  BY TakenApart, LabAtWork

\* A process does not disturb the others: it only removes what they have.
LEMMA OthersClean ==
  ASSUME NEW s \in Runtimes, CleanOf(s),
         pc'[s] = pc[s], job'[s] = job[s], disk'[s] = disk[s], owned'[s] = owned[s], collector'[s] = collector[s],
         DeployedBy(s)' \subseteq DeployedBy(s), CreatedBy(s)' \subseteq CreatedBy(s)
  PROVE  CleanOf(s)'
  BY DEF CleanOf, Listed, OnDisk, InMemory, Undone, Nothing, Attachable

\* Nothing that is left changes when the host and the history stay as they are.
LEMMA SameLeft ==
  ASSUME NEW r \in Runtimes, UNCHANGED <<lab, bucket>>, orphans' = orphans
  PROVE  DeployedBy(r)' = DeployedBy(r) /\ CreatedBy(r)' = CreatedBy(r)
  BY DEF DeployedBy, CreatedBy

\* Provision goes from one stage to the next after the deployment.
LEMMA BuildingClean ==
  ASSUME NEW r \in Runtimes, pc'[r] \in Building,
         ~job'[r].teardown, disk'[r].state = "deployed", owned'[r] = job'[r].created,
         DeployedBy(r)' \subseteq Labs[r], collector'[r] \subseteq Labs[r],
         CreatedBy(r)' \subseteq owned'[r] \cup IF pc'[r] = "record" THEN {FirstOf(job'[r].todo)} ELSE {}
  PROVE  CleanOf(r)'
  BY DEF CleanOf, Listed, OnDisk, InMemory, Undone, Nothing, Building

\* A cleanup begins: all labs of the runtime are listed, or nothing is left of them.
LEMMA UndoingClean ==
  ASSUME NEW r \in Runtimes, pc'[r] = "undo", Attachable(r)', disk'[r].state # "created" \/ disk'[r].deploy,
         disk'[r].state = "cleanup_failed" /\ disk'[r].listed => owned'[r] \subseteq disk'[r].pending,
         ~job'[r].teardown => owned'[r] = job'[r].created,
         DeployedBy(r)' \subseteq Labs[r], collector'[r] \subseteq Labs[r], CreatedBy(r)' \subseteq owned'[r],
         ~job'[r].failed => DeployedBy(r)' \cup collector'[r] \subseteq job'[r].todo
  PROVE  CleanOf(r)'
  BY DEF CleanOf, Listed, OnDisk, InMemory, Undone, Nothing, Attachable, Building

\* Nobody works on a runtime that is recorded as deployed, or has nothing.
LEMMA RestingClean ==
  ASSUME NEW r \in Runtimes, pc'[r] = "off",
         disk'[r].state = "absent" => disk'[r] = NoFile,
         disk'[r].state = "cleanup_failed" /\ disk'[r].listed => owned'[r] \subseteq disk'[r].pending,
         DeployedBy(r)' \subseteq Labs[r], collector'[r] \subseteq Labs[r], CreatedBy(r)' \subseteq owned'[r],
         \/ DeployedBy(r)' = {} /\ CreatedBy(r)' = {} /\ owned'[r] = {} /\ collector'[r] = {}
         \/ Attachable(r)' /\ (disk'[r].state = "created" => disk'[r].deploy)
  PROVE  CleanOf(r)'
  BY DEF CleanOf, Listed, OnDisk, InMemory, Undone, Nothing, Attachable, Building

LEMMA FailDeployClean ==
  ASSUME SubnetInv, NEW r \in Runtimes, CleanOf(r), pc[r] \in {"allocate", "deploy"},
         FailDeploy(r), UNCHANGED <<hostVars, owned, orphans>>
  PROVE  CleanOf(r)'
<1>1. /\ pc'[r] = "undo" /\ disk'[r].state = disk[r].state /\ disk'[r].deploy
      /\ job'[r].teardown = job[r].teardown /\ job'[r].created = job[r].created
      /\ job'[r].todo = IF job[r].started THEN Labs[r] ELSE {}
  BY OwnTypes DEF FailDeploy, Goto, Write, File, Job
<1>2. DeployedBy(r)' = DeployedBy(r) /\ CreatedBy(r)' = CreatedBy(r) /\ UNCHANGED <<owned, collector>>
  BY SameLeft DEF hostVars
<1>3. /\ disk[r].state = "created" /\ ~job[r].teardown /\ owned[r] = job[r].created
      /\ CreatedBy(r) \subseteq owned[r] /\ DeployedBy(r) \subseteq Labs[r] /\ collector[r] \subseteq Labs[r]
      /\ job[r].started \/ (DeployedBy(r) = {} /\ collector[r] = {})
  BY DEF CleanOf, Listed, OnDisk, InMemory, Undone, Nothing
<1> QED
  BY <1>1, <1>2, <1>3, UndoingClean DEF Attachable

LEMMA FailStageClean ==
  ASSUME SubnetInv, NEW r \in Runtimes, CleanOf(r), pc[r] \in Building, FailStage(r),
         DeployedBy(r)' \subseteq DeployedBy(r), CreatedBy(r)' \subseteq owned[r], collector'[r] = collector[r]
  PROVE  CleanOf(r)'
<1>1. /\ pc'[r] = "undo" /\ disk' = disk /\ owned' = owned
      /\ job'[r].teardown = job[r].teardown /\ job'[r].created = job[r].created /\ job'[r].todo = Labs[r]
  BY OwnTypes DEF FailStage, Goto, Job, fileVars
<1>2. /\ disk[r].state = "deployed" /\ ~job[r].teardown /\ owned[r] = job[r].created
      /\ DeployedBy(r) \subseteq Labs[r] /\ collector[r] \subseteq Labs[r]
  BY DEF CleanOf, Listed, OnDisk, InMemory, Building
<1> QED
  BY <1>1, <1>2, UndoingClean DEF Attachable

LEMMA StartClean ==
  ASSUME SubnetInv, NEW r \in Runtimes, CleanOf(r), Provision(r) \/ Describe(r) \/ Lock(r)
  PROVE  CleanOf(r)'
<1>1. DeployedBy(r)' = DeployedBy(r) /\ CreatedBy(r)' = CreatedBy(r) /\ UNCHANGED <<owned, collector>>
  BY SameLeft DEF Provision, Describe, Lock, hostVars, fileVars, ghostVars
<1>2. Nothing(r)
  BY DEF Provision, Describe, Lock, NoFile, CleanOf, Undone, Attachable
<1>3. Nothing(r)'
  BY <1>1, <1>2 DEF Nothing
<1>4. CASE Provision(r)
  <2>1. pc'[r] = "describe" /\ job'[r] = Idle /\ disk'[r] = Bare
    BY <1>4, OwnTypes DEF Provision, Goto, Write
  <2>2. disk'[r].state = "bare" /\ ~job'[r].teardown /\ job'[r].created = {}
    BY <2>1 DEF NoFile, Bare, Idle
  <2> QED
    BY <1>3, <2>1, <2>2 DEF CleanOf, Listed, OnDisk, InMemory, Undone, Nothing, Building, Attachable
<1>5. CASE Describe(r)
  <2>1. CASE Write(r, [NoFile EXCEPT !.state = "created"]) /\ Goto(r, "lock", Idle)
    <3>1. pc'[r] = "lock" /\ job'[r] = Idle /\ disk'[r] = [NoFile EXCEPT !.state = "created"]
      BY <2>1, OwnTypes DEF Goto, Write
    <3>2. disk'[r].state = "created" /\ ~job'[r].teardown /\ job'[r].created = {}
      BY <3>1 DEF NoFile, Idle
    <3> QED
      BY <1>3, <3>1, <3>2 DEF CleanOf, Listed, OnDisk, InMemory, Undone, Nothing, Building, Attachable
  <2>2. CASE Goto(r, "off", Idle) /\ UNCHANGED disk
    <3>1. pc'[r] = "off" /\ disk'[r] = disk[r] /\ disk[r].state = "bare"
      BY <1>5, <2>2, OwnTypes DEF Describe, Goto, CleanOf, OnDisk
    <3> QED
      BY <1>3, <3>1, RestingClean DEF Nothing
  <2> QED
    BY <1>5, <2>1, <2>2 DEF Describe
<1>6. CASE Lock(r)
  <2>1. pc[r] = "lock" /\ pc'[r] = "allocate" /\ job'[r] = job[r] /\ UNCHANGED <<hostVars, fileVars>>
    BY <1>6, OwnTypes DEF Lock, Goto
  <2> QED
    BY <1>1, <1>3, <2>1 DEF CleanOf, Listed, OnDisk, InMemory, Undone, Nothing, hostVars, fileVars, Building, Attachable
<1> QED
  BY <1>4, <1>5, <1>6

LEMMA AllocateClean ==
  ASSUME SubnetInv, NEW r \in Runtimes, CleanOf(r), Allocate(r)
  PROVE  CleanOf(r)'
<1>1. UNCHANGED <<hostVars, orphans>> /\ pc[r] = "allocate"
  BY DEF Allocate
<1>2. CASE FailDeploy(r) /\ UNCHANGED owned
  BY <1>1, <1>2, FailDeployClean
<1>3. CASE Begins(r)
  <2>1. /\ pc'[r] = "deploy" /\ job'[r].started /\ job'[r].teardown = job[r].teardown
        /\ job'[r].created = job[r].created
    BY <1>3, OwnTypes DEF Begins, Goto, Job
  <2>2. DeployedBy(r)' = DeployedBy(r) /\ CreatedBy(r)' = CreatedBy(r) /\ UNCHANGED <<owned, disk, collector>>
    BY <1>1, <1>3, SameLeft DEF Begins, hostVars, fileVars
  <2> QED
    BY <1>1, <2>1, <2>2 DEF CleanOf, Listed, OnDisk, InMemory, Undone, Nothing, Building
<1> QED
  BY <1>2, <1>3, AllocateCases

LEMMA DeployClean ==
  ASSUME SubnetInv, NEW r \in Runtimes, CleanOf(r), Deploy(r)
  PROVE  CleanOf(r)'
<1>1. PICK l \in job[r].todo :
        /\ \A m \in AllLabs \ {l} : lab'[m] = lab[m]
        /\ orphans' = orphans \/ Renew(r, <<"lab", l>>)
        /\ \E j \in {[job[r] EXCEPT !.todo = @ \ {l}], [[job[r] EXCEPT !.todo = @ \ {l}] EXCEPT !.failed = TRUE]} :
             Goto(r, "deploy", j)
  BY OwnTypes DEF Deploy
<1>2. /\ pc'[r] = "deploy" /\ job'[r].started = job[r].started /\ job'[r].teardown = job[r].teardown
      /\ job'[r].created = job[r].created
  <2>1. PICK j \in {[job[r] EXCEPT !.todo = @ \ {l}], [[job[r] EXCEPT !.todo = @ \ {l}] EXCEPT !.failed = TRUE]} :
          Goto(r, "deploy", j)
    BY <1>1
  <2>2. j.started = job[r].started /\ j.teardown = job[r].teardown /\ j.created = job[r].created
    BY <2>1, OwnTypes DEF Job
  <2> QED
    BY <2>1, <2>2, OwnTypes DEF Goto
<1>3. l \in Labs[r]
  BY <1>1, OwnTypes
<1>4. \A item \in Items \ {<<"lab", l>>} : item \in orphans'[r] <=> item \in orphans[r]
  BY <1>1, OwnTypes DEF Renew
<1>5. DeployedBy(r)' \subseteq DeployedBy(r) \cup {l}
  <2> SUFFICES ASSUME NEW m \in AllLabs \ {l}, lab'[m].by = r, <<"lab", m>> \notin orphans'[r]
               PROVE  lab[m].by = r /\ <<"lab", m>> \notin orphans[r]
    BY DEF DeployedBy
  <2>1. <<"lab", m>> \in Items \ {<<"lab", l>>}
    BY DEF Items
  <2> QED
    BY <1>1, <1>4, <2>1
<1>6. CreatedBy(r)' = CreatedBy(r) /\ UNCHANGED <<owned, disk, collector>> /\ pc[r] = "deploy"
  <2>1. \A m \in AllLabs : <<"bucket", m>> \in Items \ {<<"lab", l>>}
    BY DEF Items
  <2> QED
    BY <1>4, <2>1 DEF Deploy, CreatedBy, fileVars
<1> QED
  BY <1>2, <1>3, <1>5, <1>6 DEF CleanOf, Listed, OnDisk, InMemory, Undone, Building

LEMMA EndDeployClean ==
  ASSUME SubnetInv, NEW r \in Runtimes, CleanOf(r), EndDeploy(r)
  PROVE  CleanOf(r)'
<1>1. DeployedBy(r)' = DeployedBy(r) /\ CreatedBy(r)' = CreatedBy(r) /\ UNCHANGED <<hostVars, owned, collector, orphans>>
      /\ pc[r] = "deploy"
  BY SameLeft DEF EndDeploy, hostVars, ghostVars
<1>2. CASE FailDeploy(r)
  BY <1>1, <1>2, FailDeployClean
<1>3. CASE /\ Write(r, [disk[r] EXCEPT !.state = "deployed", !.deploy = TRUE])
           /\ Goto(r, "observe", [job[r] EXCEPT !.todo = Labs[r], !.plan = NoPlan])
  <2>1. /\ pc'[r] = "observe" /\ disk'[r].state = "deployed" /\ job'[r].teardown = job[r].teardown
        /\ job'[r].created = job[r].created
    BY <1>3, OwnTypes DEF Goto, Write, File, Job
  <2>2. /\ ~job[r].teardown /\ owned[r] = job[r].created /\ CreatedBy(r) \subseteq owned[r]
        /\ DeployedBy(r) \subseteq Labs[r] /\ collector[r] \subseteq Labs[r]
    BY <1>1 DEF CleanOf, Listed, InMemory
  <2> QED
    BY <1>1, <2>1, <2>2, BuildingClean DEF Building
<1> QED
  BY <1>2, <1>3 DEF EndDeploy

\* What holds while provision works on the observability of a runtime.
LEMMA WhileBuilding ==
  ASSUME NEW r \in Runtimes, CleanOf(r), pc[r] \in Building
  PROVE  /\ ~job[r].teardown /\ disk[r].state = "deployed" /\ owned[r] = job[r].created
         /\ DeployedBy(r) \subseteq Labs[r] /\ collector[r] \subseteq Labs[r]
         /\ CreatedBy(r) \subseteq owned[r] \cup IF pc[r] = "record" THEN {FirstOf(job[r].todo)} ELSE {}
  BY DEF CleanOf, Listed, OnDisk, InMemory, Building

\* What is lost sight of, or made anew, of one kind changes nothing of the other.
LEMMA OtherKind ==
  ASSUME NEW r \in Runtimes, NEW l \in AllLabs, orphans \in [Runtimes -> SUBSET Items], UNCHANGED lab,
         \/ orphans' = orphans
         \/ \E i \in {<<"bucket", l>>, <<"collector", l>>} : Renew(r, i) \/ Lose(r, {i})
  PROVE  DeployedBy(r)' = DeployedBy(r)
<1>1. \A m \in AllLabs : <<"lab", m>> \in orphans'[r] <=> <<"lab", m>> \in orphans[r]
  BY DEF Renew, Lose
<1> QED
  BY <1>1 DEF DeployedBy

LEMMA ObserveClean ==
  ASSUME SubnetInv, NEW r \in Runtimes, CleanOf(r), Observe(r)
  PROVE  CleanOf(r)'
<1> DEFINE l == FirstOf(job[r].todo)
<1>1. l \in AllLabs /\ pc[r] = "observe" /\ pc[r] \in Building
  BY OwnLab DEF Observe, Building
<1>2. CreatedBy(r) \subseteq owned[r] /\ collector' = collector
  BY <1>1, WhileBuilding DEF Observe
<1>3. /\ UNCHANGED lab
      /\ orphans' = orphans \/ Renew(r, <<"bucket", l>>) \/ Lose(r, {<<"bucket", l>>})
      /\ \/ UNCHANGED <<bucket, orphans>>
         \/ bucket' = [bucket EXCEPT ![l] = r] /\ Lose(r, {<<"bucket", l>>})
         \/ bucket' = [bucket EXCEPT ![l] = r] /\ Renew(r, <<"bucket", l>>) /\ Goto(r, "record", job[r]) /\ UNCHANGED fileVars
      /\ FailStage(r) \/ ((Goto(r, "sidecars", job[r]) \/ Goto(r, "record", job[r])) /\ UNCHANGED fileVars)
      /\ FailStage(r) => UNCHANGED <<bucket, orphans>> \/ Lose(r, {<<"bucket", l>>})
      /\ Goto(r, "sidecars", job[r]) => UNCHANGED <<bucket, orphans>> \/ Lose(r, {<<"bucket", l>>})
  BY OwnTypes DEF Observe, FailStage, Goto
<1> HIDE DEF l
<1>4. DeployedBy(r)' = DeployedBy(r)
  BY <1>1, <1>3, OtherKind, OwnTypes
<1>5. CreatedBy(r)' \subseteq CreatedBy(r) \cup {l}
  <2>1. \A m \in AllLabs \ {l} : bucket'[m] = bucket[m] /\ (<<"bucket", m>> \in orphans'[r] <=> <<"bucket", m>> \in orphans[r])
    BY <1>1, <1>3, OwnTypes DEF Renew, Lose
  <2> QED
    BY <2>1 DEF CreatedBy
<1>6. ASSUME UNCHANGED <<bucket, orphans>> \/ (bucket' = [bucket EXCEPT ![l] = r] /\ Lose(r, {<<"bucket", l>>}))
      PROVE  CreatedBy(r)' \subseteq CreatedBy(r)
  <2>1. CASE UNCHANGED <<bucket, orphans>>
    BY <2>1 DEF CreatedBy
  <2>2. CASE Lose(r, {<<"bucket", l>>})
    <3>1. <<"bucket", l>> \in orphans'[r]
      BY <2>2, OwnTypes DEF Lose
    <3> QED
      BY <1>5, <3>1 DEF CreatedBy
  <2> QED
    BY <1>6, <2>1, <2>2
<1>7. CASE bucket' = [bucket EXCEPT ![l] = r] /\ Renew(r, <<"bucket", l>>) /\ Goto(r, "record", job[r]) /\ UNCHANGED fileVars
  <2>1. pc'[r] = "record" /\ job'[r] = job[r] /\ UNCHANGED <<owned, disk>> /\ FirstOf(job'[r].todo) = l
    BY <1>7, OwnTypes DEF Goto, fileVars, l
  <2> QED
    BY <1>1, <1>2, <1>4, <1>5, <2>1, WhileBuilding, BuildingClean DEF Building
<1>8. CASE UNCHANGED <<bucket, orphans>> \/ (bucket' = [bucket EXCEPT ![l] = r] /\ Lose(r, {<<"bucket", l>>}))
  <2>1. CreatedBy(r)' \subseteq owned[r]
    BY <1>2, <1>6, <1>8
  <2>2. CASE FailStage(r)
    BY <1>1, <1>2, <1>4, <2>1, <2>2, FailStageClean
  <2>3. CASE (Goto(r, "sidecars", job[r]) \/ Goto(r, "record", job[r])) /\ UNCHANGED fileVars
    <3>1. pc'[r] \in {"sidecars", "record"} /\ job'[r] = job[r] /\ UNCHANGED <<owned, disk>>
      BY <2>3, OwnTypes DEF Goto, fileVars
    <3> QED
      BY <1>1, <1>2, <1>4, <2>1, <3>1, WhileBuilding, BuildingClean DEF Building
  <2> QED
    BY <1>3, <2>2, <2>3
<1> QED
  BY <1>3, <1>7, <1>8

LEMMA RecordClean ==
  ASSUME SubnetInv, NEW r \in Runtimes, CleanOf(r), Record(r)
  PROVE  CleanOf(r)'
<1> DEFINE l == FirstOf(job[r].todo)
<1>1. pc[r] = "record" /\ pc[r] \in Building /\ UNCHANGED hostVars /\ l \in AllLabs
  BY OwnLab DEF Record, Building, SubnetInv, AtWork
<1>2. CreatedBy(r) \subseteq owned[r] \cup {l}
  BY <1>1, WhileBuilding
<1>3. CASE FailStage(r) /\ Lose(r, {<<"bucket", l>>})
  <2> HIDE DEF l
  <2>1. DeployedBy(r)' = DeployedBy(r)
    BY <1>1, <1>3, OtherKind, OwnTypes DEF hostVars
  <2>2. CreatedBy(r)' \subseteq owned[r]
    BY <1>1, <1>2, <1>3, OwnTypes DEF CreatedBy, Lose, hostVars
  <2> QED
    BY <1>1, <1>3, <2>1, <2>2, FailStageClean DEF hostVars
<1>4. CASE /\ owned' = [owned EXCEPT ![r] = @ \cup {l}] /\ Goto(r, "sidecars", [job[r] EXCEPT !.created = @ \cup {l}])
           /\ UNCHANGED <<disk, orphans>>
  <2>1. /\ pc'[r] = "sidecars" /\ owned'[r] = owned[r] \cup {l}
        /\ job'[r].created = job[r].created \cup {l} /\ job'[r].teardown = job[r].teardown
    BY <1>4, OwnTypes DEF Goto, Job
  <2>2. DeployedBy(r)' = DeployedBy(r) /\ CreatedBy(r)' = CreatedBy(r) /\ UNCHANGED <<disk, collector>>
    BY <1>1, <1>4, SameLeft DEF hostVars
  <2> HIDE DEF l
  <2> QED
    BY <1>1, <1>2, <2>1, <2>2, WhileBuilding, BuildingClean DEF Building
<1> QED
  BY <1>3, <1>4 DEF Record

LEMMA SidecarsClean ==
  ASSUME SubnetInv, NEW r \in Runtimes, CleanOf(r), Sidecars(r) \/ Ready(r)
  PROVE  CleanOf(r)'
<1>1. /\ pc[r] \in Building /\ pc[r] # "record" /\ UNCHANGED hostVars
      /\ DeployedBy(r)' = DeployedBy(r) /\ CreatedBy(r)' = CreatedBy(r)
  BY SameLeft DEF Sidecars, Ready, Building, hostVars, ghostVars
<1>2. CreatedBy(r) \subseteq owned[r] /\ collector' = collector
  BY <1>1, WhileBuilding DEF hostVars
<1>3. CASE FailStage(r)
  BY <1>1, <1>2, <1>3, FailStageClean
<1>4. CASE Goto(r, "pid", job[r]) /\ UNCHANGED fileVars
  <2>1. pc'[r] = "pid" /\ job'[r] = job[r] /\ UNCHANGED <<owned, disk>>
    BY <1>4, OwnTypes DEF Goto, fileVars
  <2> QED
    BY <1>1, <1>2, <2>1, WhileBuilding, BuildingClean DEF Building
<1>5. CASE Goto(r, "off", Idle) /\ Write(r, [disk[r] EXCEPT !.state = "warm"]) /\ UNCHANGED owned
  <2>1. pc'[r] = "off" /\ disk'[r].state = "warm" /\ UNCHANGED owned
    BY <1>5, OwnTypes DEF Goto, Write, File
  <2> QED
    BY <1>1, <1>2, <2>1, WhileBuilding, RestingClean DEF Attachable
<1> QED
  BY <1>3, <1>4, <1>5 DEF Sidecars, Ready

LEMMA WritePidClean ==
  ASSUME SubnetInv, NEW r \in Runtimes, CleanOf(r), WritePid(r)
  PROVE  CleanOf(r)'
<1> DEFINE l == FirstOf(job[r].todo)
<1>1. pc[r] = "pid" /\ pc[r] \in Building /\ UNCHANGED <<lab, bucket>> /\ l \in AllLabs /\ l \in Labs[r]
  BY OwnLab DEF WritePid, Building, SubnetInv, AtWork
<1>2. CreatedBy(r) \subseteq owned[r]
  BY <1>1, WhileBuilding
<1>3. CASE FailStage(r) /\ Lose(r, {<<"collector", l>>}) /\ UNCHANGED collector
  <2> HIDE DEF l
  <2>1. DeployedBy(r)' = DeployedBy(r)
    BY <1>1, <1>3, OtherKind, OwnTypes
  <2>2. CreatedBy(r)' = CreatedBy(r)
    BY <1>1, <1>3, OwnTypes DEF CreatedBy, Lose
  <2> QED
    BY <1>1, <1>2, <1>3, <2>1, <2>2, FailStageClean
<1>4. CASE /\ collector' = [collector EXCEPT ![r] = @ \cup {l}] /\ Goto(r, "telegraf", job[r])
           /\ UNCHANGED <<fileVars, orphans>>
  <2> HIDE DEF l
  <2>1. pc'[r] = "telegraf" /\ job'[r] = job[r] /\ UNCHANGED <<owned, disk>> /\ collector'[r] = collector[r] \cup {l}
    BY <1>4, OwnTypes DEF Goto, fileVars
  <2>2. DeployedBy(r)' = DeployedBy(r) /\ CreatedBy(r)' = CreatedBy(r)
    BY <1>1, <1>4, SameLeft
  <2> QED
    BY <1>1, <1>2, <2>1, <2>2, WhileBuilding, BuildingClean DEF Building
<1> QED
  BY <1>3, <1>4 DEF WritePid

LEMMA TelegrafClean ==
  ASSUME SubnetInv, NEW r \in Runtimes, CleanOf(r), Telegraf(r)
  PROVE  CleanOf(r)'
<1> DEFINE l == FirstOf(job[r].todo)
           left == [job[r] EXCEPT !.todo = @ \ {l}]
<1>1. /\ pc[r] = "telegraf" /\ pc[r] \in Building /\ collector' = collector
      /\ DeployedBy(r)' = DeployedBy(r) /\ CreatedBy(r)' = CreatedBy(r)
  BY SameLeft DEF Telegraf, Building
<1>2. CreatedBy(r) \subseteq owned[r]
  BY <1>1, WhileBuilding
<1>3. left.teardown = job[r].teardown /\ left.created = job[r].created
  BY OwnTypes DEF Job
<1>4. CASE FailStage(r)
  BY <1>1, <1>2, <1>4, FailStageClean
<1>5. CASE Goto(r, IF left.todo = {} THEN "ready" ELSE "observe", left) /\ UNCHANGED fileVars
  <2> HIDE DEF left
  <2>1. pc'[r] \in {"ready", "observe"} /\ job'[r] = left /\ UNCHANGED <<owned, disk>>
    BY <1>5, OwnTypes DEF Goto, fileVars
  <2> QED
    BY <1>1, <1>2, <1>3, <2>1, WhileBuilding, BuildingClean DEF Building
<1> QED
  BY <1>4, <1>5 DEF Telegraf

LEMMA TeardownClean ==
  ASSUME SubnetInv, NEW r \in Runtimes, CleanOf(r), Teardown(r)
  PROVE  CleanOf(r)'
<1>1. /\ DeployedBy(r)' = DeployedBy(r) /\ CreatedBy(r)' = CreatedBy(r) /\ UNCHANGED <<collector, owned, disk>>
      /\ pc[r] = "off" /\ Attachable(r) /\ Attachable(r)'
  BY SameLeft DEF Teardown, hostVars, fileVars, Attachable
<1>2. /\ DeployedBy(r) \subseteq Labs[r] /\ collector[r] \subseteq Labs[r]
      /\ CreatedBy(r) \subseteq owned[r]
      /\ disk[r].state = "cleanup_failed" /\ disk[r].listed => owned[r] \subseteq disk[r].pending
  BY <1>1 DEF CleanOf, Listed, OnDisk
<1>3. CASE disk[r].state # "created" \/ disk[r].deploy
  <2>1. pc'[r] = "undo" /\ job'[r] = [Idle EXCEPT !.todo = Labs[r], !.teardown = TRUE]
    BY <1>3, OwnTypes DEF Teardown, Goto
  <2>2. job'[r].teardown /\ job'[r].todo = Labs[r]
    BY <2>1 DEF Idle
  <2> QED
    BY <1>1, <1>2, <1>3, <2>1, <2>2, UndoingClean
<1>4. CASE ~(disk[r].state # "created" \/ disk[r].deploy)
  <2>1. pc'[r] = "rmdir" /\ job'[r] = [Idle EXCEPT !.teardown = TRUE]
    BY <1>4, OwnTypes DEF Teardown, Goto
  <2>2. job'[r].teardown
    BY <2>1 DEF Idle
  <2>3. Nothing(r)
    BY <1>1, <1>4 DEF CleanOf, Undone
  <2> QED
    BY <1>1, <1>2, <1>4, <2>1, <2>2, <2>3 DEF CleanOf, Listed, OnDisk, InMemory, Undone, Nothing, Building, Attachable
<1> QED
  BY <1>3, <1>4

\* What holds while the labs of a runtime are removed.
LEMMA WhileUndoing ==
  ASSUME NEW r \in Runtimes, CleanOf(r), pc[r] = "undo"
  PROVE  /\ Attachable(r) /\ DeployedBy(r) \subseteq Labs[r] /\ collector[r] \subseteq Labs[r]
         /\ CreatedBy(r) \subseteq owned[r] /\ (disk[r].state # "created" \/ disk[r].deploy)
         /\ disk[r].state = "cleanup_failed" /\ disk[r].listed => owned[r] \subseteq disk[r].pending
         /\ ~job[r].teardown => owned[r] = job[r].created
         /\ ~job[r].failed => DeployedBy(r) \cup collector[r] \subseteq job[r].todo
  BY DEF CleanOf, Listed, OnDisk, InMemory, Undone, Attachable

\* The lab at work may go, be lost sight of, or stay.
LEMMA UndoneLab ==
  ASSUME SubnetInv, NEW r \in Runtimes, NEW l \in AllLabs,
         lab' \in {lab, [lab EXCEPT ![l].whole = FALSE], [lab EXCEPT ![l] = NoLab]}, bucket' = bucket,
         orphans' = orphans \/ Renew(r, <<"lab", l>>) \/ Lose(r, {<<"lab", l>>})
  PROVE  /\ CreatedBy(r)' = CreatedBy(r)
         /\ lab' = [lab EXCEPT ![l] = NoLab] \/ ~Renew(r, <<"lab", l>>) \/ orphans' = orphans => DeployedBy(r)' \subseteq DeployedBy(r)
         /\ lab' = [lab EXCEPT ![l] = NoLab] \/ Lose(r, {<<"lab", l>>}) => l \notin DeployedBy(r)'
<1>1. /\ \A m \in AllLabs : lab'[m].by \in {NoOne, lab[m].by}
      /\ NoLab.by = NoOne /\ NoOne # r
  BY TakenApart, AttemptedLab, NamesAssumption DEF NoLab
<1>2. \A m \in AllLabs : <<"bucket", m>> \in orphans'[r] <=> <<"bucket", m>> \in orphans[r]
  BY OwnTypes DEF Renew, Lose
<1>3. \A m \in AllLabs \ {l} : <<"lab", m>> \in orphans'[r] <=> <<"lab", m>> \in orphans[r]
  BY OwnTypes DEF Renew, Lose
<1>4. ASSUME lab' = [lab EXCEPT ![l] = NoLab] PROVE lab'[l].by # r
  BY <1>1, <1>4, OwnTypes
<1>5. ASSUME orphans' = orphans \/ Lose(r, {<<"lab", l>>})
      PROVE  <<"lab", l>> \in orphans[r] => <<"lab", l>> \in orphans'[r]
  BY <1>5, OwnTypes DEF Lose
<1>6. ASSUME Lose(r, {<<"lab", l>>}) PROVE <<"lab", l>> \in orphans'[r]
  BY <1>6, OwnTypes DEF Lose
<1>7. CreatedBy(r)' = CreatedBy(r)
  BY <1>2 DEF CreatedBy
<1>8. ASSUME lab' = [lab EXCEPT ![l] = NoLab] \/ ~Renew(r, <<"lab", l>>) \/ orphans' = orphans
      PROVE  DeployedBy(r)' \subseteq DeployedBy(r)
  BY <1>1, <1>3, <1>4, <1>5, <1>8 DEF DeployedBy
<1>9. ASSUME lab' = [lab EXCEPT ![l] = NoLab] \/ Lose(r, {<<"lab", l>>}) PROVE l \notin DeployedBy(r)'
  BY <1>4, <1>6, <1>9 DEF DeployedBy
<1> QED
  BY <1>7, <1>8, <1>9

LEMMA UndoLabClean ==
  ASSUME SubnetInv, NEW r \in Runtimes, CleanOf(r), UndoLab(r)
  PROVE  CleanOf(r)'
<1> DEFINE l == FirstOf(job[r].todo)
           left == [job[r] EXCEPT !.todo = @ \ {l}]
           attempted == lab' \in {lab, [lab EXCEPT ![l].whole = FALSE], [lab EXCEPT ![l] = NoLab]}
<1>1. /\ pc[r] = "undo" /\ bucket' = bucket /\ UNCHANGED <<owned, disk>> /\ (Attachable(r)' <=> Attachable(r))
  BY DEF UndoLab, fileVars, Attachable
<1>2. l \in job[r].todo /\ l \in AllLabs
  BY OwnLab DEF UndoLab
<1>3. /\ left.todo = job[r].todo \ {l} /\ left.teardown = job[r].teardown /\ left.created = job[r].created
      /\ left.failed = job[r].failed
      /\ [left EXCEPT !.failed = TRUE].failed /\ [left EXCEPT !.failed = TRUE].created = job[r].created
      /\ [left EXCEPT !.failed = TRUE].teardown = job[r].teardown
  <2>1. left = [job[r] EXCEPT !.todo = @ \ {l}]
    OBVIOUS
  <2> HIDE DEF l, left
  <2>2. Procs
    BY TakenApart
  <2>3. Left(r, l, left) /\ Left(r, l, [left EXCEPT !.failed = TRUE])
    BY <1>2, <2>1, <2>2, LabDone
  <2>4. left.failed = job[r].failed /\ left.created = job[r].created
    BY <2>1, OwnTypes DEF Job
  <2>5. [left EXCEPT !.failed = TRUE].failed /\ [left EXCEPT !.failed = TRUE].created = job[r].created
    BY <2>3, <2>4 DEF Left, Job
  <2> QED
    BY <2>3, <2>4, <2>5 DEF Left
<1>4. CASE /\ attempted /\ StopCollector(r, l) /\ Goto(r, "undo", left)
           /\ (lab' = [lab EXCEPT ![l] = NoLab] /\ Renew(r, <<"lab", l>>)) \/ Lose(r, {<<"lab", l>>})
  <2> HIDE DEF left, l
  <2>1. pc'[r] = "undo" /\ job'[r] = left /\ collector'[r] = collector[r] \ {l}
    BY <1>4, OwnTypes DEF Goto, StopCollector
  <2>2. Lose(r, {<<"lab", l>>}) => ~Renew(r, <<"lab", l>>)
    BY OwnTypes DEF Lose, Renew
  <2>3. DeployedBy(r)' \subseteq DeployedBy(r) \ {l} /\ CreatedBy(r)' = CreatedBy(r)
    BY <1>1, <1>2, <1>4, <2>2, UndoneLab
  <2> QED
    BY <1>1, <1>3, <2>1, <2>3, WhileUndoing, UndoingClean
<1>5. CASE /\ attempted /\ (StopCollector(r, l) \/ UNCHANGED collector)
           /\ Goto(r, "undo", [left EXCEPT !.failed = TRUE]) /\ UNCHANGED orphans
  <2> HIDE DEF left, l
  <2>1. pc'[r] = "undo" /\ job'[r] = [left EXCEPT !.failed = TRUE] /\ collector'[r] \subseteq collector[r]
    BY <1>5, OwnTypes DEF Goto, StopCollector
  <2>2. DeployedBy(r)' \subseteq DeployedBy(r) /\ CreatedBy(r)' = CreatedBy(r)
    BY <1>1, <1>2, <1>5, UndoneLab
  <2> QED
    BY <1>1, <1>3, <2>1, <2>2, WhileUndoing, UndoingClean
<1> QED
  BY <1>4, <1>5 DEF UndoLab

LEMMA EndUndoClean ==
  ASSUME SubnetInv, NEW r \in Runtimes, CleanOf(r), EndUndo(r)
  PROVE  CleanOf(r)'
<1> DEFINE buckets == IF ~job[r].teardown THEN job[r].created
                      ELSE IF disk[r].state = "cleanup_failed" /\ disk[r].listed THEN disk[r].pending
                      ELSE owned[r]
           pending == IF job[r].teardown THEN owned[r] ELSE job[r].created
<1>1. /\ pc[r] = "undo" /\ job[r].todo = {} /\ DeployedBy(r)' = DeployedBy(r) /\ CreatedBy(r)' = CreatedBy(r)
      /\ UNCHANGED <<owned, collector>>
  BY SameLeft DEF EndUndo, hostVars, ghostVars
<1>2. /\ Attachable(r) /\ DeployedBy(r) \subseteq Labs[r] /\ collector[r] \subseteq Labs[r]
      /\ CreatedBy(r) \subseteq owned[r] /\ (disk[r].state # "created" \/ disk[r].deploy)
      /\ disk[r].state = "cleanup_failed" /\ disk[r].listed => owned[r] \subseteq disk[r].pending
      /\ ~job[r].teardown => owned[r] = job[r].created
      /\ ~job[r].failed => DeployedBy(r) = {} /\ collector[r] = {}
  BY <1>1, WhileUndoing
<1>3. owned[r] \subseteq buckets /\ owned[r] \subseteq pending /\ pending \subseteq AllLabs
  BY <1>2, OwnTypes DEF Job
<1>4. ~job[r].teardown => owned[r] = buckets
  BY <1>2
<1>5. CASE CleanupFailed(r, pending)
  <2> HIDE DEF pending, buckets
  <2>1. pc'[r] = "off" /\ disk'[r].state = "cleanup_failed" /\ disk'[r].pending = pending
    BY <1>3, <1>5, OwnTypes DEF CleanupFailed, Goto, Write, File
  <2> QED
    BY <1>1, <1>2, <1>3, <2>1, RestingClean DEF Attachable
<1>6. CASE /\ ~job[r].failed /\ Goto(r, "buckets", [job[r] EXCEPT !.todo = buckets, !.created = buckets])
           /\ UNCHANGED disk
  <2> HIDE DEF pending, buckets
  <2>1. /\ pc'[r] = "buckets" /\ job'[r].todo = buckets /\ job'[r].created = buckets
        /\ job'[r].teardown = job[r].teardown
    BY <1>6, OwnTypes DEF Goto, Job
  <2> QED
    BY <1>1, <1>2, <1>3, <1>4, <1>6, <2>1 DEF CleanOf, Listed, OnDisk, InMemory, Undone, Attachable, Building
<1> QED
  BY <1>5, <1>6 DEF EndUndo

\* What holds while the buckets of a runtime are deleted.
LEMMA WhileDeleting ==
  ASSUME NEW r \in Runtimes, CleanOf(r), pc[r] = "buckets"
  PROVE  /\ Attachable(r) /\ (disk[r].state # "created" \/ disk[r].deploy)
         /\ DeployedBy(r) = {} /\ collector[r] = {} /\ CreatedBy(r) \subseteq owned[r]
         /\ disk[r].state = "cleanup_failed" /\ disk[r].listed => owned[r] \subseteq disk[r].pending
         /\ ~job[r].teardown => owned[r] = job[r].created
         /\ owned[r] \subseteq job[r].created /\ (job[r].failed \/ owned[r] \subseteq job[r].todo)
  BY DEF CleanOf, Listed, OnDisk, InMemory, Undone, Attachable

\* And the other way round.
LEMMA DeletingClean ==
  ASSUME NEW r \in Runtimes, pc'[r] = "buckets", Attachable(r)', disk'[r].state # "created" \/ disk'[r].deploy,
         DeployedBy(r)' = {}, collector'[r] = {}, CreatedBy(r)' \subseteq owned'[r], owned'[r] \subseteq job'[r].created,
         disk'[r].state = "cleanup_failed" /\ disk'[r].listed => owned'[r] \subseteq disk'[r].pending,
         ~job'[r].teardown => owned'[r] = job'[r].created,
         job'[r].failed \/ owned'[r] \subseteq job'[r].todo
  PROVE  CleanOf(r)'
  BY DEF CleanOf, Listed, OnDisk, InMemory, Undone, Attachable, Building

LEMMA DeleteBucketClean ==
  ASSUME SubnetInv, NEW r \in Runtimes, CleanOf(r), DeleteBucket(r)
  PROVE  CleanOf(r)'
<1> DEFINE l == FirstOf(job[r].todo)
           left == [job[r] EXCEPT !.todo = @ \ {l}]
<1>0. orphans' = orphans \/ Renew(r, <<"bucket", l>>)
  BY DEF DeleteBucket
<1>1. pc[r] = "buckets" /\ UNCHANGED <<lab, collector, disk>> /\ (Attachable(r)' <=> Attachable(r))
  BY DEF DeleteBucket, Attachable
<1>2. l \in job[r].todo /\ l \in AllLabs
  BY OwnLab DEF DeleteBucket
<1>3. /\ left.todo = job[r].todo \ {l} /\ left.teardown = job[r].teardown
      /\ [left EXCEPT !.failed = TRUE].failed /\ [left EXCEPT !.failed = TRUE].created = job[r].created
      /\ [left EXCEPT !.failed = TRUE].teardown = job[r].teardown
      /\ [left EXCEPT !.created = @ \ {l}].failed = job[r].failed
      /\ [left EXCEPT !.created = @ \ {l}].created = job[r].created \ {l}
      /\ [left EXCEPT !.created = @ \ {l}].teardown = job[r].teardown
      /\ [left EXCEPT !.created = @ \ {l}].todo = job[r].todo \ {l}
  <2>1. left = [job[r] EXCEPT !.todo = @ \ {l}]
    OBVIOUS
  <2> HIDE DEF l, left
  <2>2. Procs
    BY TakenApart
  <2>3. Left(r, l, left) /\ Left(r, l, [left EXCEPT !.failed = TRUE]) /\ Left(r, l, [left EXCEPT !.created = @ \ {l}])
    BY <1>2, <2>1, <2>2, LabDone
  <2>4. left.failed = job[r].failed /\ left.created = job[r].created
    BY <2>1, OwnTypes DEF Job
  <2>5. /\ [left EXCEPT !.failed = TRUE].failed /\ [left EXCEPT !.failed = TRUE].created = job[r].created
        /\ [left EXCEPT !.created = @ \ {l}].failed = job[r].failed
        /\ [left EXCEPT !.created = @ \ {l}].created = job[r].created \ {l}
    BY <2>3, <2>4 DEF Left, Job
  <2> QED
    BY <2>3, <2>5 DEF Left
<1>4. DeployedBy(r)' = {}
  <2> HIDE DEF l
  <2>1. DeployedBy(r)' = DeployedBy(r)
    BY <1>0, <1>1, <1>2, OtherKind, OwnTypes
  <2> QED
    BY <1>1, <2>1, WhileDeleting
<1>5. CASE /\ bucket' = [bucket EXCEPT ![l] = NoOne] /\ owned' = [owned EXCEPT ![r] = @ \ {l}]
           /\ Goto(r, "buckets", [left EXCEPT !.created = @ \ {l}])
  <2> HIDE DEF left, l
  <2>1. pc'[r] = "buckets" /\ job'[r] = [left EXCEPT !.created = @ \ {l}] /\ owned'[r] = owned[r] \ {l}
    BY <1>5, OwnTypes DEF Goto
  <2>2. CreatedBy(r)' \subseteq CreatedBy(r) \ {l}
    <3>1. bucket'[l] # r /\ \A m \in AllLabs \ {l} : bucket'[m] = bucket[m]
      BY <1>2, <1>5, NamesAssumption, OwnTypes
    <3>2. \A m \in AllLabs \ {l} : <<"bucket", m>> \in orphans'[r] <=> <<"bucket", m>> \in orphans[r]
      BY <1>0, OwnTypes DEF Renew
    <3> QED
      BY <3>1, <3>2 DEF CreatedBy
  <2>3. /\ Attachable(r)' /\ (disk'[r].state # "created" \/ disk'[r].deploy)
        /\ collector'[r] = {} /\ CreatedBy(r)' \subseteq owned'[r]
        /\ disk'[r].state = "cleanup_failed" /\ disk'[r].listed => owned'[r] \subseteq disk'[r].pending
    BY <1>1, <2>1, <2>2, WhileDeleting
  <2>4. /\ owned'[r] \subseteq job'[r].created /\ (~job'[r].teardown => owned'[r] = job'[r].created)
        /\ job'[r].failed \/ owned'[r] \subseteq job'[r].todo
    BY <1>1, <1>3, <2>1, WhileDeleting
  <2> QED
    BY <1>4, <2>1, <2>3, <2>4, DeletingClean
<1>6. CASE /\ bucket' \in {bucket, [bucket EXCEPT ![l] = NoOne]} /\ UNCHANGED <<owned, orphans>>
           /\ Goto(r, "buckets", [left EXCEPT !.failed = TRUE])
  <2> HIDE DEF left, l
  <2>1. pc'[r] = "buckets" /\ job'[r] = [left EXCEPT !.failed = TRUE]
    BY <1>6, OwnTypes DEF Goto
  <2>2. CreatedBy(r)' \subseteq CreatedBy(r)
    BY <1>2, <1>6, NamesAssumption, OwnTypes DEF CreatedBy
  <2> QED
    BY <1>1, <1>3, <1>4, <1>6, <2>1, <2>2, WhileDeleting, DeletingClean
<1> QED
  BY <1>5, <1>6 DEF DeleteBucket

LEMMA EndBucketsClean ==
  ASSUME SubnetInv, NEW r \in Runtimes, CleanOf(r), EndBuckets(r)
  PROVE  CleanOf(r)'
<1>1. /\ pc[r] = "buckets" /\ job[r].todo = {} /\ DeployedBy(r)' = DeployedBy(r) /\ CreatedBy(r)' = CreatedBy(r)
      /\ UNCHANGED <<owned, collector>>
  BY SameLeft DEF EndBuckets, hostVars, ghostVars
<1>2. CASE CleanupFailed(r, job[r].created)
  <2>1. pc'[r] = "off" /\ disk'[r].state = "cleanup_failed" /\ disk'[r].pending = job[r].created
    BY <1>2, OwnTypes DEF CleanupFailed, Goto, Write, File, Job
  <2> QED
    BY <1>1, <2>1, WhileDeleting, RestingClean DEF Attachable
<1>3. CASE ~job[r].failed /\ Goto(r, "rmdir", job[r]) /\ disk' = disk
  <2>1. pc'[r] = "rmdir" /\ job'[r] = job[r]
    BY <1>3, OwnTypes DEF Goto
  <2>2. owned[r] = {} /\ CreatedBy(r) = {} /\ DeployedBy(r) = {} /\ collector[r] = {}
    BY <1>1, <1>3, WhileDeleting
  <2> QED
    BY <1>1, <1>3, <2>1, <2>2, WhileDeleting DEF CleanOf, Listed, OnDisk, InMemory, Undone, Nothing, Building, Attachable
<1> QED
  BY <1>2, <1>3 DEF EndBuckets

LEMMA RemoveDirectoryClean ==
  ASSUME SubnetInv, NEW r \in Runtimes, CleanOf(r), RemoveDirectory(r)
  PROVE  CleanOf(r)'
<1>1. /\ pc'[r] = "off" /\ DeployedBy(r)' = DeployedBy(r) /\ CreatedBy(r)' = CreatedBy(r)
      /\ UNCHANGED <<owned, collector>>
  BY OwnTypes, SameLeft DEF RemoveDirectory, Goto, hostVars, ghostVars
<1>2. Nothing(r)
  BY DEF RemoveDirectory, CleanOf, Undone
<1>3. \/ disk'[r] = NoFile \/ disk'[r] = Bare \/ disk'[r] = disk[r]
      \/ disk'[r] = [disk[r] EXCEPT !.state = "cleanup_failed", !.listed = FALSE, !.pending = {}]
  BY OwnTypes DEF RemoveDirectory, Write
<1>4. disk'[r].state = "absent" => disk'[r] = NoFile
  BY <1>3, OwnTypes DEF Bare, NoFile, File, CleanOf, OnDisk
<1>5. DeployedBy(r)' = {} /\ CreatedBy(r)' = {} /\ owned'[r] = {} /\ collector'[r] = {}
  BY <1>1, <1>2 DEF Nothing
<1> QED
  BY <1>1, <1>4, <1>5, RestingClean

LEMMA CrashClean ==
  ASSUME SubnetInv, NEW r \in Runtimes, CleanOf(r), Crash(r)
  PROVE  CleanOf(r)'
<1>1. /\ pc'[r] = "off" /\ UNCHANGED <<lab, bucket, owned, collector>>
      /\ \A item \in orphans'[r] : item \in orphans[r] \/ item \in Unrecorded(r)
      /\ \A item \in orphans[r] \cup Unrecorded(r) : item \in orphans'[r]
  BY OwnTypes DEF Crash, Goto, Lose, hostVars
<1>2. DeployedBy(r)' \subseteq DeployedBy(r) /\ CreatedBy(r)' \subseteq CreatedBy(r)
  BY <1>1 DEF DeployedBy, CreatedBy
<1>3. DeployedBy(r) \subseteq Labs[r] /\ collector[r] \subseteq Labs[r]
  BY DEF CleanOf, Listed
<1>4. CreatedBy(r)' \subseteq owned[r]
  <2>1. CASE pc[r] = "record"
    <3>1. <<"bucket", FirstOf(job[r].todo)>> \in orphans'[r]
      BY <1>1, <2>1 DEF Unrecorded
    <3>2. FirstOf(job[r].todo) \notin CreatedBy(r)'
      BY <3>1 DEF CreatedBy
    <3> QED
      BY <1>2, <2>1, <3>2 DEF CleanOf, Listed
  <2>2. CASE pc[r] # "record"
    BY <1>2, <2>2 DEF CleanOf, Listed
  <2> QED
    BY <2>1, <2>2
<1>5. pc[r] # "off" /\ pc[r] \in Stages
  BY OwnTypes DEF Crash
<1>6. CASE pc[r] = "deploy"
  <2>1. \A l \in AllLabs : lab[l].by = r => <<"lab", l>> \in orphans'[r]
    BY <1>1, <1>6 DEF Unrecorded
  <2>2. DeployedBy(r)' = {}
    BY <1>1, <2>1 DEF DeployedBy
  <2>3. CreatedBy(r) = {} /\ owned[r] = {} /\ collector[r] = {} /\ disk[r].state = "created" /\ disk'[r] = disk[r]
    BY <1>6, OwnTypes DEF CleanOf, Undone, OnDisk, Crash, Write
  <2> QED
    BY <1>1, <1>2, <2>2, <2>3, RestingClean
<1>7. CASE pc[r] = "rmdir"
  <2>1. Nothing(r)
    BY <1>7 DEF CleanOf, Undone
  <2>2. disk'[r] = Bare \/ disk'[r] = disk[r]
    BY <1>7, OwnTypes DEF Crash, Write
  <2>3. disk'[r].state = "absent" => disk'[r] = NoFile
    BY <2>2, OwnTypes DEF Bare, NoFile, File, CleanOf, OnDisk
  <2>4. DeployedBy(r)' = {} /\ CreatedBy(r)' = {} /\ owned'[r] = {} /\ collector'[r] = {}
    BY <1>1, <1>2, <2>1 DEF Nothing
  <2> QED
    BY <1>1, <2>3, <2>4, RestingClean
<1>8. CASE pc[r] \in {"describe", "lock", "allocate"}
  <2>1. Nothing(r)
    BY <1>8 DEF CleanOf, Undone
  <2>2. disk'[r] = disk[r] /\ disk[r].state \in {"bare", "created"}
    BY <1>8, OwnTypes DEF Crash, Write, CleanOf, OnDisk
  <2>3. DeployedBy(r)' = {} /\ CreatedBy(r)' = {} /\ owned'[r] = {} /\ collector'[r] = {}
    BY <1>1, <1>2, <2>1 DEF Nothing
  <2> QED
    BY <1>1, <2>2, <2>3, RestingClean
<1>9. CASE pc[r] \in Building \cup {"undo", "buckets"}
  <2>1. disk'[r] = disk[r] /\ Attachable(r) /\ (disk[r].state = "created" => disk[r].deploy)
    BY <1>9, OwnTypes DEF Crash, Write, CleanOf, OnDisk, Building, Attachable
  <2>2. disk[r].state = "cleanup_failed" /\ disk[r].listed => owned[r] \subseteq disk[r].pending
    BY DEF CleanOf, OnDisk
  <2>3. Attachable(r)' = Attachable(r)
    BY <2>1 DEF Attachable
  <2> QED
    BY <1>1, <1>2, <1>3, <1>4, <2>1, <2>2, <2>3, RestingClean DEF Attachable
<1> QED
  BY <1>5, <1>6, <1>7, <1>8, <1>9 DEF Stages, Building

----------------------------------------------------------------------------

LEMMA CleanInvInit == Init => CleanInv
<1> SUFFICES ASSUME Init, NEW r \in Runtimes PROVE CleanOf(r)
  BY DEF CleanInv
<1>1. pc[r] = "off" /\ disk[r] = NoFile /\ owned[r] = {} /\ collector[r] = {}
  BY DEF Init
<1>2. \A l \in AllLabs : lab[l].by \in {"other", NoOne} /\ bucket[l] = NoOne
  BY DEF Init, NoLab
<1>3. DeployedBy(r) = {} /\ CreatedBy(r) = {}
  BY <1>2, NamesAssumption DEF DeployedBy, CreatedBy
<1> QED
  BY <1>1, <1>3 DEF CleanOf, Listed, OnDisk, InMemory, Undone, Nothing, NoFile, Building

LEMMA OwnStepClean ==
  ASSUME SubnetInv, NEW r \in Runtimes, CleanOf(r),
         Provision(r) \/ Step(r) \/ Teardown(r) \/ Crash(r)
  PROVE  CleanOf(r)'
  BY StartClean, AllocateClean, DeployClean, EndDeployClean, ObserveClean, RecordClean, SidecarsClean, WritePidClean,
     TelegrafClean, TeardownClean, UndoLabClean, EndUndoClean, DeleteBucketClean, EndBucketsClean,
     RemoveDirectoryClean, CrashClean DEF Step

\* What a process does to what the other runtimes have: it may take away, it adds nothing.
LEMMA OthersHost ==
  ASSUME SubnetInv, NEW r \in Runtimes, NEW s \in Runtimes, s # r,
         Provision(r) \/ Step(r) \/ Teardown(r) \/ Crash(r)
  PROVE  \A m \in AllLabs : lab'[m].by \in {r, NoOne, lab[m].by} /\ bucket'[m] \in {r, NoOne, bucket[m]}
<1>1. CASE Provision(r) \/ Describe(r) \/ Lock(r) \/ Allocate(r) \/ EndDeploy(r) \/ Record(r) \/ Sidecars(r) \/ WritePid(r)
           \/ Telegraf(r) \/ Ready(r) \/ Teardown(r) \/ EndUndo(r) \/ EndBuckets(r) \/ RemoveDirectory(r) \/ Crash(r)
  BY <1>1 DEF Provision, Describe, Lock, Allocate, EndDeploy, Record, Sidecars, WritePid, Telegraf, Ready, Teardown,
     EndUndo, EndBuckets, RemoveDirectory, Crash, hostVars
<1>2. CASE Deploy(r)
  <2> DEFINE v(l, whole) == [by |-> r, subnet |-> job[r].plan[l], whole |-> whole]
  <2>1. PICK l \in job[r].todo :
          lab' \in {lab, [lab EXCEPT ![l] = NoLab], [lab EXCEPT ![l] = v(l, TRUE)], [lab EXCEPT ![l] = v(l, FALSE)]}
    BY <1>2 DEF Deploy
  <2>2. NoLab.by = NoOne /\ v(l, TRUE).by = r /\ v(l, FALSE).by = r
    BY DEF NoLab
  <2> HIDE DEF v
  <2>3. bucket' = bucket
    BY <1>2 DEF Deploy
  <2> QED
    BY <2>1, <2>2, <2>3, OwnTypes
<1>3. CASE Observe(r)
  BY <1>3, OwnTypes DEF Observe
<1>4. CASE UndoLab(r)
  <2>1. FirstOf(job[r].todo) \in AllLabs /\ bucket' = bucket
    BY <1>4, OwnLab DEF UndoLab
  <2>2. lab' \in {lab, [lab EXCEPT ![FirstOf(job[r].todo)].whole = FALSE], [lab EXCEPT ![FirstOf(job[r].todo)] = NoLab]}
    BY <1>4 DEF UndoLab
  <2> QED
    BY <2>1, <2>2, TakenApart, AttemptedLab
<1>5. CASE DeleteBucket(r)
  BY <1>5, OwnTypes DEF DeleteBucket
<1> QED
  BY <1>1, <1>2, <1>3, <1>4, <1>5 DEF Step

\* Nor does it touch their files and memories.
LEMMA OthersFiles ==
  ASSUME SubnetInv, NEW r \in Runtimes, NEW s \in Runtimes, s # r,
         Provision(r) \/ Step(r) \/ Teardown(r) \/ Crash(r)
  PROVE  /\ pc'[s] = pc[s] /\ job'[s] = job[s] /\ disk'[s] = disk[s] /\ owned'[s] = owned[s]
         /\ collector'[s] = collector[s] /\ orphans'[s] = orphans[s]
<1>1. CASE Provision(r) \/ Describe(r) \/ Lock(r) \/ Allocate(r) \/ EndDeploy(r) \/ Teardown(r)
           \/ RemoveDirectory(r) \/ Crash(r)
  BY <1>1, OwnTypes DEF Provision, Describe, Lock, Allocate, EndDeploy, Teardown, RemoveDirectory, Crash,
     FailDeploy, Goto, Write, Lose, hostVars, fileVars, ghostVars
<1>2. CASE EndUndo(r) \/ EndBuckets(r)
  BY <1>2, OwnTypes DEF EndUndo, EndBuckets, CleanupFailed, Goto, Write, hostVars, ghostVars
<1>3. CASE Deploy(r)
  BY <1>3, OwnTypes DEF Deploy, Goto, Renew, fileVars
<1>4. CASE Observe(r) \/ Record(r)
  BY <1>4, OwnTypes DEF Observe, Record, FailStage, Goto, Renew, Lose, fileVars, hostVars
<1>5. CASE Sidecars(r) \/ WritePid(r)
  BY <1>5, OwnTypes DEF Sidecars, WritePid, FailStage, Goto, Lose, fileVars, hostVars, ghostVars
<1>6. CASE Telegraf(r) \/ Ready(r)
  BY <1>6, OwnTypes DEF Telegraf, Ready, FailStage, Goto, Write, fileVars, hostVars, ghostVars
<1>7. CASE UndoLab(r)
  BY <1>7, OwnTypes DEF UndoLab, StopCollector, Goto, Renew, Lose, fileVars
<1>8. CASE DeleteBucket(r)
  BY <1>8, OwnTypes DEF DeleteBucket, Goto, Renew
<1> QED
  BY <1>1, <1>2, <1>3, <1>4, <1>5, <1>6, <1>7, <1>8 DEF Step

LEMMA CleanInvStep == SubnetInv /\ CleanInv /\ [Next]_vars => CleanInv'
<1> SUFFICES ASSUME SubnetInv, CleanInv, [Next]_vars, NEW s \in Runtimes PROVE CleanOf(s)'
  BY DEF CleanInv
<1>1. CASE UNCHANGED vars
  <2>1. DeployedBy(s)' = DeployedBy(s) /\ CreatedBy(s)' = CreatedBy(s)
    BY <1>1, SameLeft DEF vars, hostVars, ghostVars
  <2> QED
    BY <1>1, <2>1, OthersClean DEF CleanInv, vars, hostVars, fileVars
<1>2. ASSUME NEW r \in Runtimes, Provision(r) \/ Step(r) \/ Teardown(r) \/ Crash(r) PROVE CleanOf(s)'
  <2>1. CASE s = r
    BY <1>2, <2>1, OwnStepClean DEF CleanInv
  <2>2. CASE s # r
    <3>1. orphans'[s] = orphans[s]
      BY <1>2, <2>2, OthersFiles
    <3>2. \A m \in AllLabs : lab'[m].by \in {r, NoOne, lab[m].by} /\ bucket'[m] \in {r, NoOne, bucket[m]}
      BY <1>2, <2>2, OthersHost
    <3>3. DeployedBy(s)' \subseteq DeployedBy(s) /\ CreatedBy(s)' \subseteq CreatedBy(s)
      BY <2>2, <3>1, <3>2, NamesAssumption DEF DeployedBy, CreatedBy
    <3> QED
      BY <1>2, <2>2, <3>3, OthersFiles, OthersClean DEF CleanInv
  <2> QED
    BY <2>1, <2>2
<1> QED
  BY <1>1, <1>2 DEF Next

\* A runtime that cannot be attached any more has left no lab, bucket, record or collector on the
\* host but those its own processes died over or were not told of: every other way provision
\* and teardown fail, and every other moment a process dies at, the removal of the directory
\* included, leaves a trail to clean up by.
THEOREM GoneRuntimesAreClean == Spec => []GoneMeansClean
<1>1. CleanInv => GoneMeansClean
  <2> SUFFICES ASSUME CleanInv, NEW r \in Runtimes, ~Attachable(r)
               PROVE  /\ \A l \in AllLabs : /\ lab[l].by = r => <<"lab", l>> \in orphans[r]
                                            /\ bucket[l] = r => <<"bucket", l>> \in orphans[r]
                      /\ owned[r] = {} /\ collector[r] = {}
    BY DEF GoneMeansClean
  <2>1. disk[r].state \in {"absent", "bare"} /\ CleanOf(r)
    BY DEF Attachable, CleanInv
  <2>2. pc[r] \in {"off", "describe"}
    BY <2>1 DEF CleanOf, OnDisk
  <2>3. Nothing(r)
    BY <2>1, <2>2 DEF CleanOf, Undone
  <2> QED
    BY <2>3 DEF Nothing, DeployedBy, CreatedBy
<1>2. SubnetInv /\ CleanInv /\ [Next]_vars => SubnetInv' /\ CleanInv'
  BY SubnetInvStep, CleanInvStep
<1> QED
  BY <1>1, <1>2, SubnetInvInit, CleanInvInit, PTL DEF Spec

----------------------------------------------------------------------------
(* What a warm runtime has *)

Whole(r, l) == lab[l].by = r /\ lab[l].whole
Equipped(r, l) == l \in telegraf /\ l \in collector[r] /\ bucket[l] # NoOne

\* Provision has deployed and equipped the labs it is through with, and until it is
\* torn down the runtime is recorded as warm only when it is through with all.
BuiltOf(r) ==
  /\ pc[r] = "deploy" /\ ~job[r].failed => \A l \in Labs[r] \ job[r].todo : Whole(r, l)
  /\ pc[r] \in Building => \A l \in Labs[r] : Whole(r, l) /\ (l \in job[r].todo \/ Equipped(r, l))
  /\ pc[r] \in {"record", "sidecars", "pid", "telegraf"} => bucket[FirstOf(job[r].todo)] # NoOne
  /\ pc[r] = "telegraf" => FirstOf(job[r].todo) \in collector[r]
  /\ pc[r] = "ready" => job[r].todo = {}
  /\ pc[r] # "off" => disk[r].state # "warm"
  /\ pc[r] = "off" /\ disk[r].state = "warm" => \A l \in Labs[r] : Whole(r, l) /\ Equipped(r, l)
WarmOf(r) == r \notin torn => BuiltOf(r)

\* A runtime that is past its deployment, and not struck by others, keeps its names to itself:
\* who deploys found the slots free.
Past(s) == pc[s] \in Building \/ (pc[s] = "off" /\ disk[s].state = "warm")
ClearOf(r) == pc[r] = "deploy" => \A s \in Runtimes \ {r} : s \notin torn /\ Past(s) => Labs[s] \cap job[r].todo = {}

\* A process that has not begun to deploy has nothing to clean up.
BegunOf(r) ==
  /\ pc[r] \in Building \cup {"deploy"} => job[r].started
  /\ ~job[r].started /\ ~job[r].teardown => job[r].created = {} /\ (pc[r] \in {"undo", "buckets"} => job[r].todo = {})

WarmInv == \A r \in Runtimes : WarmOf(r) /\ ClearOf(r) /\ BegunOf(r)

\* A step that leaves provision, or has not come to the deployment yet, records nothing as warm.
LEMMA NotBuilding ==
  ASSUME NEW r \in Runtimes, pc'[r] \notin Building \cup {"deploy"}, disk'[r].state # "warm"
  PROVE  BuiltOf(r)'
  BY DEF BuiltOf, Building

\* A deployment adds one whole lab, or is known to have failed.
LEMMA DeployBuilt ==
  ASSUME SubnetInv, NEW r \in Runtimes, BuiltOf(r), Deploy(r)
  PROVE  BuiltOf(r)'
<1> DEFINE v(l) == [by |-> r, subnet |-> job[r].plan[l], whole |-> TRUE]
<1>1. PICK l \in job[r].todo :
        \/ /\ lab' = [lab EXCEPT ![l] = v(l)]
           /\ Goto(r, "deploy", [job[r] EXCEPT !.todo = @ \ {l}])
        \/ Goto(r, "deploy", [[job[r] EXCEPT !.todo = @ \ {l}] EXCEPT !.failed = TRUE])
  BY DEF Deploy
<1>2. pc[r] = "deploy" /\ pc'[r] = "deploy" /\ disk' = disk
  BY <1>1, OwnTypes DEF Deploy, Goto, fileVars
<1>3. CASE Goto(r, "deploy", [[job[r] EXCEPT !.todo = @ \ {l}] EXCEPT !.failed = TRUE])
  <2>1. job'[r].failed
    BY <1>3, OwnTypes DEF Goto, Job
  <2> QED
    BY <1>2, <2>1 DEF BuiltOf, Building
<1>4. CASE /\ lab' = [lab EXCEPT ![l] = v(l)]
           /\ Goto(r, "deploy", [job[r] EXCEPT !.todo = @ \ {l}])
  <2>1. job'[r].todo = job[r].todo \ {l} /\ job'[r].failed = job[r].failed
    BY <1>4, OwnTypes DEF Goto, Job
  <2>2. \A m \in Labs[r] : m \in AllLabs
    BY DEF AllLabs
  <2>3. Whole(r, l)' /\ \A m \in Labs[r] : Whole(r, m) => Whole(r, m)'
    BY <1>4, <2>2, OwnTypes DEF Whole
  <2> QED
    BY <1>2, <2>1, <2>3 DEF BuiltOf, Building
<1> QED
  BY <1>1, <1>3, <1>4

\* When no deployment failed, all labs are whole.
LEMMA EndDeployBuilt ==
  ASSUME SubnetInv, NEW r \in Runtimes, BuiltOf(r), EndDeploy(r)
  PROVE  BuiltOf(r)'
<1>1. CASE FailDeploy(r)
  <2>1. pc'[r] = "undo" /\ disk'[r].state = disk[r].state /\ pc[r] = "deploy"
    BY <1>1, OwnTypes DEF EndDeploy, FailDeploy, Goto, Write, File
  <2> QED
    BY <2>1, NotBuilding DEF BuiltOf, Building
<1>2. CASE ~job[r].failed
  <2>1. /\ pc[r] = "deploy" /\ job[r].todo = {} /\ UNCHANGED hostVars
        /\ Write(r, [disk[r] EXCEPT !.state = "deployed", !.deploy = TRUE])
        /\ Goto(r, "observe", [job[r] EXCEPT !.todo = Labs[r], !.plan = NoPlan])
    BY <1>2 DEF EndDeploy
  <2>2. pc'[r] = "observe" /\ job'[r].todo = Labs[r] /\ disk'[r].state = "deployed"
    BY <2>1, OwnTypes DEF Goto, Write, Job, File
  <2>3. \A l \in Labs[r] : Whole(r, l)'
    BY <1>2, <2>1 DEF BuiltOf, Whole, hostVars
  <2> QED
    BY <2>2, <2>3 DEF BuiltOf, Building
<1> QED
  BY <1>1, <1>2 DEF EndDeploy

\* A stage that failed leaves the host and the files as they are, and provision.
LEMMA FailStageBuilt ==
  ASSUME SubnetInv, NEW r \in Runtimes, BuiltOf(r), pc[r] # "off", FailStage(r)
  PROVE  BuiltOf(r)'
<1>1. pc'[r] = "undo" /\ disk' = disk
  BY OwnTypes DEF FailStage, Goto, fileVars
<1> QED
  BY <1>1, NotBuilding DEF BuiltOf, Building

\* One lab after the other gets its bucket, its collector and its sidecar.
LEMMA ObserveBuilt ==
  ASSUME SubnetInv, NEW r \in Runtimes, BuiltOf(r), Observe(r)
  PROVE  BuiltOf(r)'
<1> DEFINE l == FirstOf(job[r].todo)
<1>1. pc[r] = "observe" /\ pc[r] \in Building /\ l \in AllLabs /\ UNCHANGED <<lab, telegraf, collector>>
  BY OwnLab DEF Observe, Building
<1>2. CASE FailStage(r)
  BY <1>1, <1>2, FailStageBuilt
<1>3. CASE (Goto(r, "sidecars", job[r]) \/ Goto(r, "record", job[r])) /\ UNCHANGED fileVars /\ ~FailStage(r)
  <2>1. bucket'[l] # NoOne /\ \A m \in AllLabs : bucket[m] # NoOne => bucket'[m] # NoOne
    BY <1>1, <1>3, OwnTypes, NamesAssumption DEF Observe
  <2>2. pc'[r] \in {"sidecars", "record"} /\ job'[r] = job[r] /\ disk' = disk
    BY <1>3, OwnTypes DEF Goto, fileVars
  <2>3. \A m \in Labs[r] : (Whole(r, m) => Whole(r, m)') /\ (Equipped(r, m) => Equipped(r, m)')
    BY <1>1, <2>1, OwnTypes DEF Equipped, Whole
  <2> QED
    BY <1>1, <2>1, <2>2, <2>3 DEF BuiltOf, Building
<1> QED
  BY <1>2, <1>3 DEF Observe

LEMMA RecordBuilt ==
  ASSUME SubnetInv, NEW r \in Runtimes, BuiltOf(r), Record(r) \/ Sidecars(r)
  PROVE  BuiltOf(r)'
<1>1. /\ pc[r] \in {"record", "sidecars"} /\ UNCHANGED hostVars
      /\ \A m \in Labs[r] : (Whole(r, m) => Whole(r, m)') /\ (Equipped(r, m) => Equipped(r, m)')
  BY DEF Record, Sidecars, hostVars, Whole, Equipped
<1>2. CASE FailStage(r)
  BY <1>1, <1>2, FailStageBuilt
<1>3. CASE /\ Goto(r, "sidecars", [job[r] EXCEPT !.created = @ \cup {FirstOf(job[r].todo)}]) \/ Goto(r, "pid", job[r])
           /\ UNCHANGED disk
  <2>1. pc'[r] \in {"sidecars", "pid"} /\ job'[r].todo = job[r].todo /\ disk' = disk
    BY <1>3, OwnTypes DEF Goto, Job
  <2> QED
    BY <1>1, <2>1 DEF BuiltOf, Building, hostVars
<1> QED
  BY <1>2, <1>3 DEF Record, Sidecars, fileVars

LEMMA WritePidBuilt ==
  ASSUME SubnetInv, NEW r \in Runtimes, BuiltOf(r), WritePid(r)
  PROVE  BuiltOf(r)'
<1> DEFINE l == FirstOf(job[r].todo)
<1>1. pc[r] = "pid" /\ UNCHANGED <<lab, telegraf, bucket>>
  BY DEF WritePid
<1>2. CASE FailStage(r)
  BY <1>1, <1>2, FailStageBuilt
<1>3. CASE Goto(r, "telegraf", job[r]) /\ UNCHANGED fileVars /\ collector' = [collector EXCEPT ![r] = @ \cup {l}]
  <2>1. pc'[r] = "telegraf" /\ job'[r] = job[r] /\ disk' = disk /\ collector'[r] = collector[r] \cup {l}
    BY <1>3, OwnTypes DEF Goto, fileVars
  <2>2. \A m \in Labs[r] : (Whole(r, m) => Whole(r, m)') /\ (Equipped(r, m) => Equipped(r, m)')
    BY <1>1, <2>1 DEF Whole, Equipped
  <2> QED
    BY <1>1, <2>1, <2>2 DEF BuiltOf, Building
<1> QED
  BY <1>2, <1>3 DEF WritePid

LEMMA TelegrafBuilt ==
  ASSUME SubnetInv, NEW r \in Runtimes, BuiltOf(r), Telegraf(r)
  PROVE  BuiltOf(r)'
<1> DEFINE l == FirstOf(job[r].todo)
           left == [job[r] EXCEPT !.todo = @ \ {l}]
<1>1. pc[r] = "telegraf" /\ UNCHANGED <<lab, collector, bucket>>
  BY DEF Telegraf
<1>2. CASE FailStage(r)
  BY <1>1, <1>2, FailStageBuilt
<1>3. CASE /\ telegraf' = telegraf \cup {l} /\ UNCHANGED fileVars
           /\ Goto(r, IF left.todo = {} THEN "ready" ELSE "observe", left)
  <2>1. left.todo = job[r].todo \ {l}
    BY OwnTypes DEF Job
  <2> HIDE DEF left
  <2>2. job'[r] = left /\ pc'[r] = (IF left.todo = {} THEN "ready" ELSE "observe") /\ disk' = disk
    BY <1>3, OwnTypes DEF Goto, fileVars
  <2>3. l \in collector[r] /\ bucket[l] # NoOne
    BY <1>1 DEF BuiltOf
  <2>4. \A m \in Labs[r] : Whole(r, m) /\ (m \in job[r].todo \/ Equipped(r, m))
    BY <1>1 DEF BuiltOf, Building
  <2> HIDE DEF l
  <2>5. \A m \in Labs[r] : Whole(r, m)' /\ (m \in job'[r].todo \/ Equipped(r, m)')
    <3> SUFFICES ASSUME NEW m \in Labs[r] PROVE Whole(r, m)' /\ (m \in job'[r].todo \/ Equipped(r, m)')
      OBVIOUS
    <3>1. Whole(r, m)'
      BY <1>1, <2>4 DEF Whole
    <3>2. CASE m = l
      <4>1. l \in telegraf'
        BY <1>3
      <4> QED
        BY <1>1, <2>3, <3>1, <3>2, <4>1 DEF Equipped
    <3>3. CASE m # l /\ m \in job[r].todo
      BY <2>1, <2>2, <3>1, <3>3
    <3>4. CASE Equipped(r, m)
      BY <1>1, <1>3, <3>1, <3>4 DEF Equipped
    <3> QED
      BY <2>4, <3>2, <3>3, <3>4
  <2>6. /\ pc'[r] \in {"ready", "observe"} /\ (pc'[r] = "ready" => job'[r].todo = {})
    BY <2>2
  <2>7. disk'[r].state # "warm"
    BY <1>1, <2>2 DEF BuiltOf
  <2> QED
    BY <2>5, <2>6, <2>7 DEF BuiltOf, Building
<1> QED
  BY <1>2, <1>3 DEF Telegraf

\* Ready does not change the host: what is recorded as warm has been built.
LEMMA ReadyBuilt ==
  ASSUME SubnetInv, NEW r \in Runtimes, BuiltOf(r), Ready(r)
  PROVE  BuiltOf(r)'
<1>1. /\ pc[r] = "ready" /\ UNCHANGED hostVars /\ job[r].todo = {}
      /\ \A l \in Labs[r] : Whole(r, l) /\ Equipped(r, l)
  BY DEF Ready, BuiltOf, Building
<1>2. \A l \in Labs[r] : Whole(r, l)' /\ Equipped(r, l)'
  BY <1>1 DEF Whole, Equipped, hostVars
<1>3. CASE FailStage(r)
  BY <1>1, <1>3, FailStageBuilt
<1>4. CASE Goto(r, "off", Idle)
  <2>1. pc'[r] = "off"
    BY <1>4, OwnTypes DEF Goto
  <2> QED
    BY <1>2, <2>1 DEF BuiltOf, Building
<1> QED
  BY <1>3, <1>4 DEF Ready

\* Before the deployment, in a cleanup and after it nothing is recorded as warm.
Elsewhere(r) ==
  \/ Describe(r) \/ Lock(r) \/ UndoLab(r) \/ EndUndo(r) \/ DeleteBucket(r) \/ EndBuckets(r)
  \/ RemoveDirectory(r) \/ Crash(r)

LEMMA ElsewhereCold ==
  ASSUME SubnetInv, NEW r \in Runtimes, BuiltOf(r), Elsewhere(r)
  PROVE  pc'[r] \notin Building \cup {"deploy"} /\ disk'[r].state # "warm"
<1>1. pc'[r] \in {"lock", "allocate", "undo", "buckets", "rmdir", "off"} /\ pc[r] # "off"
  BY OwnTypes DEF Elsewhere, Describe, Lock, UndoLab, EndUndo, DeleteBucket, EndBuckets, RemoveDirectory, Crash, CleanupFailed, Goto
<1>2. disk'[r].state \in {disk[r].state, "cleanup_failed", "absent", "bare", "created"}
  <2>1. CASE Lock(r) \/ UndoLab(r) \/ DeleteBucket(r)
    BY <2>1 DEF Lock, UndoLab, DeleteBucket, fileVars
  <2>2. ASSUME NEW S, CleanupFailed(r, S) PROVE disk'[r].state = "cleanup_failed"
    BY <2>2, OwnTypes DEF CleanupFailed, Write, File
  <2>3. CASE EndUndo(r) \/ EndBuckets(r)
    BY <2>2, <2>3 DEF EndUndo, EndBuckets
  <2>4. CASE RemoveDirectory(r) \/ Describe(r) \/ Crash(r)
    <3>1. NoFile.state = "absent" /\ Bare.state = "bare" /\ [NoFile EXCEPT !.state = "created"].state = "created"
      BY DEF NoFile, Bare
    <3>2. [disk[r] EXCEPT !.state = "cleanup_failed", !.listed = FALSE, !.pending = {}].state = "cleanup_failed"
      BY OwnTypes DEF File
    <3>3. \/ disk'[r] \in {disk[r], NoFile, Bare, [NoFile EXCEPT !.state = "created"]}
          \/ disk'[r] = [disk[r] EXCEPT !.state = "cleanup_failed", !.listed = FALSE, !.pending = {}]
      BY <2>4, OwnTypes DEF RemoveDirectory, Describe, Crash, Write
    <3> QED
      BY <3>1, <3>2, <3>3
  <2> QED
    BY <2>1, <2>3, <2>4 DEF Elsewhere
<1> QED
  BY <1>1, <1>2 DEF BuiltOf, Building

LEMMA ElsewhereBuilt ==
  ASSUME SubnetInv, NEW r \in Runtimes, BuiltOf(r), Elsewhere(r)
  PROVE  BuiltOf(r)'
  BY ElsewhereCold, NotBuilding

\* A deployment begins with all labs listed.
LEMMA AllocateBuilt ==
  ASSUME SubnetInv, NEW r \in Runtimes, BuiltOf(r), Allocate(r)
  PROVE  BuiltOf(r)'
<1>1. pc[r] = "allocate"
  BY DEF Allocate
<1>2. CASE FailDeploy(r)
  <2>1. pc'[r] = "undo" /\ disk'[r].state = disk[r].state
    BY <1>2, OwnTypes DEF FailDeploy, Goto, Write, File
  <2> QED
    BY <1>1, <2>1, NotBuilding DEF BuiltOf, Building
<1>3. CASE Begins(r)
  <2>1. pc'[r] = "deploy" /\ job'[r].todo = Labs[r] /\ disk' = disk
    BY <1>3, OwnTypes DEF Begins, Goto, Job, fileVars
  <2> QED
    BY <1>1, <2>1 DEF BuiltOf, Building
<1> QED
  BY <1>2, <1>3, AllocateCases

\* Who is struck stays struck until it is provisioned anew.
LEMMA TornKept ==
  ASSUME NEW r \in Runtimes, NEW s \in Runtimes, Provision(r) \/ Step(r) \/ Teardown(r) \/ Crash(r),
         s \notin torn', s \in torn
  PROVE  s = r /\ Provision(r)
<1>1. CASE Describe(r) \/ Lock(r) \/ EndDeploy(r) \/ Observe(r) \/ Record(r) \/ Sidecars(r) \/ WritePid(r) \/ Ready(r)
           \/ EndUndo(r) \/ EndBuckets(r) \/ RemoveDirectory(r) \/ Crash(r) \/ Deploy(r)
  BY <1>1 DEF Describe, Lock, EndDeploy, Observe, Record, Sidecars, WritePid, Ready, EndUndo, EndBuckets,
     RemoveDirectory, Crash, Deploy, ghostVars
<1>2. CASE Teardown(r) \/ UndoLab(r) \/ DeleteBucket(r) \/ Telegraf(r) \/ Allocate(r)
  BY <1>2 DEF Teardown, UndoLab, DeleteBucket, Telegraf, Allocate, Strike
<1>3. CASE Provision(r)
  BY <1>3 DEF Provision
<1> QED
  BY <1>1, <1>2, <1>3 DEF Step

LEMMA OwnStepWarm ==
  ASSUME SubnetInv, NEW r \in Runtimes, WarmOf(r), Provision(r) \/ Step(r) \/ Teardown(r) \/ Crash(r)
  PROVE  WarmOf(r)'
<1> SUFFICES ASSUME r \notin torn' PROVE BuiltOf(r)'
  BY DEF WarmOf
<1>1. CASE Provision(r)
  <2>1. pc'[r] = "describe" /\ disk'[r].state = "bare"
    BY <1>1, OwnTypes DEF Provision, Goto, Write, NoFile, Bare
  <2> QED
    BY <2>1, NotBuilding DEF Building
<1>2. CASE ~Provision(r)
  <2>1. BuiltOf(r)
    BY <1>2, TornKept DEF WarmOf
  <2>2. ~Teardown(r)
    BY DEF Teardown
  <2> QED
    BY <1>2, <2>1, <2>2, AllocateBuilt, DeployBuilt, EndDeployBuilt, ObserveBuilt, RecordBuilt, WritePidBuilt,
       TelegrafBuilt, ReadyBuilt, ElsewhereBuilt DEF Step, Elsewhere
<1> QED
  BY <1>1, <1>2

\* A deployment takes one lab off the list.
DeployGoes(r) ==
  \E l \in job[r].todo :
    job'[r] \in {[job[r] EXCEPT !.todo = @ \ {l}], [[job[r] EXCEPT !.todo = @ \ {l}] EXCEPT !.failed = TRUE]}

LEMMA DeployJob ==
  ASSUME SubnetInv, NEW r \in Runtimes, Deploy(r)
  PROVE  DeployGoes(r) /\ job'[r].todo \subseteq job[r].todo
<1>1. PICK l \in job[r].todo :
        \/ Goto(r, "deploy", [job[r] EXCEPT !.todo = @ \ {l}])
        \/ Goto(r, "deploy", [[job[r] EXCEPT !.todo = @ \ {l}] EXCEPT !.failed = TRUE])
  BY DEF Deploy
<1>2. \/ job'[r] = [job[r] EXCEPT !.todo = @ \ {l}]
      \/ job'[r] = [[job[r] EXCEPT !.todo = @ \ {l}] EXCEPT !.failed = TRUE]
  BY <1>1, OwnTypes DEF Goto
<1>3. job'[r].todo \subseteq job[r].todo
  BY <1>2, OwnTypes DEF Job
<1> QED
  BY <1>2, <1>3 DEF DeployGoes

\* A process cleans up, records and equips only after it has deployed, or for a teardown.
LEMMA OwnStepBegun ==
  ASSUME SubnetInv, NEW r \in Runtimes, BegunOf(r), Provision(r) \/ Step(r) \/ Teardown(r) \/ Crash(r)
  PROVE  BegunOf(r)'
<1>1. ASSUME pc[r] \in Building, FailStage(r) PROVE BegunOf(r)'
  <2>1. job[r].started /\ job'[r].started
    BY <1>1, OwnTypes DEF BegunOf, FailStage, Goto, Job
  <2> QED
    BY <2>1 DEF BegunOf
<1>2. CASE Observe(r) \/ Record(r) \/ Sidecars(r) \/ WritePid(r) \/ Telegraf(r) \/ Ready(r)
  <2>1. pc[r] \in Building /\ job[r].started
    BY <1>2 DEF Observe, Record, Sidecars, WritePid, Telegraf, Ready, Building, BegunOf
  <2>2. CASE Goto(r, "off", Idle)
    <3>1. pc'[r] = "off" /\ job'[r] = Idle
      BY <2>2, OwnTypes DEF Goto
    <3> QED
      BY <3>1 DEF BegunOf, Building, Idle
  <2>3. CASE ~FailStage(r) /\ ~Goto(r, "off", Idle)
    <3> DEFINE l == FirstOf(job[r].todo)
    <3>1. \E stage \in Stages : \/ Goto(r, stage, job[r]) \/ Goto(r, stage, [job[r] EXCEPT !.created = @ \cup {l}])
                                \/ Goto(r, stage, [job[r] EXCEPT !.todo = @ \ {l}])
      BY <1>2, <2>3 DEF Observe, Record, Sidecars, WritePid, Telegraf, Ready, Stages
    <3>2. \/ job'[r] = job[r] \/ job'[r] = [job[r] EXCEPT !.created = @ \cup {l}]
          \/ job'[r] = [job[r] EXCEPT !.todo = @ \ {l}]
      BY <3>1, OwnTypes DEF Goto
    <3> HIDE DEF l
    <3>3. job'[r].started
      BY <2>1, <3>2, OwnTypes DEF Job
    <3> QED
      BY <3>3 DEF BegunOf
  <2> QED
    BY <1>1, <2>1, <2>2, <2>3
<1>3. CASE FailDeploy(r)
  <2>1. /\ pc'[r] = "undo" /\ job'[r].started = job[r].started /\ job'[r].teardown = job[r].teardown
        /\ job'[r].created = job[r].created /\ job'[r].todo = IF job[r].started THEN Labs[r] ELSE {}
    BY <1>3, OwnTypes DEF FailDeploy, Goto, Job
  <2> QED
    BY <2>1 DEF BegunOf, Building
<1>4. CASE (Allocate(r) \/ Deploy(r) \/ EndDeploy(r)) /\ ~FailDeploy(r)
  <2>1. CASE Deploy(r)
    <3>1. job[r].started /\ DeployGoes(r)
      BY <2>1, DeployJob DEF Deploy, BegunOf
    <3>2. job'[r].started
      BY <3>1, OwnTypes DEF DeployGoes, Job
    <3> QED
      BY <3>2 DEF BegunOf
  <2>2. CASE Begins(r)
    <3>1. job'[r].started
      BY <2>2, OwnTypes DEF Begins, Goto, Job
    <3> QED
      BY <3>1 DEF BegunOf
  <2>3. CASE EndDeploy(r)
    <3>1. job[r].started /\ job'[r] = [job[r] EXCEPT !.todo = Labs[r], !.plan = NoPlan]
      BY <1>4, <2>3, OwnTypes DEF EndDeploy, BegunOf, Goto
    <3>2. job'[r].started
      BY <3>1, OwnTypes DEF Job
    <3> QED
      BY <3>2 DEF BegunOf
  <2> QED
    BY <1>4, <2>1, <2>2, <2>3, AllocateCases
<1>5. CASE Provision(r) \/ Describe(r) \/ RemoveDirectory(r) \/ Crash(r) \/ \E S \in SUBSET AllLabs : CleanupFailed(r, S)
  <2>1. pc'[r] \in {"describe", "lock", "off"} /\ job'[r] = Idle
    BY <1>5, OwnTypes DEF Provision, Describe, RemoveDirectory, Crash, CleanupFailed, Goto
  <2> QED
    BY <2>1 DEF BegunOf, Building, Idle
<1>6. CASE Lock(r)
  <2>1. pc'[r] = "allocate" /\ job'[r] = job[r]
    BY <1>6, OwnTypes DEF Lock, Goto
  <2> QED
    BY <2>1 DEF BegunOf, Building
<1>7. CASE Teardown(r)
  <2>1. pc'[r] \in {"undo", "rmdir"} /\ job'[r].teardown
    BY <1>7, OwnTypes DEF Teardown, Goto, Idle
  <2> QED
    BY <2>1 DEF BegunOf, Building
<1>8. CASE UndoLab(r) \/ DeleteBucket(r)
  <2>1. pc'[r] \in {"undo", "buckets"} /\ pc[r] = pc'[r]
    BY <1>8, OwnTypes DEF UndoLab, DeleteBucket, Goto
  <2>2. /\ job'[r].started = job[r].started /\ job'[r].teardown = job[r].teardown
        /\ job'[r].created \subseteq job[r].created /\ job'[r].todo \subseteq job[r].todo
    <3> DEFINE l == FirstOf(job[r].todo)
               left == [job[r] EXCEPT !.todo = @ \ {l}]
    <3>1. \/ Goto(r, "undo", left) \/ Goto(r, "undo", [left EXCEPT !.failed = TRUE])
          \/ Goto(r, "buckets", [left EXCEPT !.created = @ \ {l}]) \/ Goto(r, "buckets", [left EXCEPT !.failed = TRUE])
      BY <1>8 DEF UndoLab, DeleteBucket
    <3>2. \/ job'[r] = left \/ job'[r] = [left EXCEPT !.failed = TRUE]
          \/ job'[r] = [left EXCEPT !.created = @ \ {l}]
      <4> HIDE DEF left
      <4> QED
        BY <3>1, OwnTypes DEF Goto
    <3> HIDE DEF l
    <3>3. /\ left.started = job[r].started /\ left.teardown = job[r].teardown
          /\ left.created = job[r].created /\ left.todo \subseteq job[r].todo /\ left \in Job
      BY OwnTypes DEF Job
    <3> HIDE DEF left
    <3> QED
      BY <3>2, <3>3 DEF Job
  <2> QED
    BY <2>1, <2>2 DEF BegunOf, Building
<1>9. CASE (EndUndo(r) \/ EndBuckets(r)) /\ ~\E S \in SUBSET AllLabs : CleanupFailed(r, S)
  <2>1. CASE EndUndo(r)
    <3>1. PICK S : /\ ~job[r].teardown => S = job[r].created
                   /\ Goto(r, "buckets", [job[r] EXCEPT !.todo = S, !.created = S])
      <4>1. job[r].created \in SUBSET AllLabs /\ owned[r] \in SUBSET AllLabs
        BY OwnTypes DEF Job
      <4> QED
        BY <1>9, <2>1, <4>1 DEF EndUndo
    <3>2. /\ pc'[r] = "buckets" /\ job'[r].started = job[r].started /\ job'[r].teardown = job[r].teardown
          /\ job'[r].created = S /\ job'[r].todo = S
      BY <3>1, OwnTypes DEF Goto, Job
    <3> QED
      BY <3>1, <3>2 DEF BegunOf, Building
  <2>2. CASE EndBuckets(r)
    <3>1. pc'[r] = "rmdir" /\ job'[r] = job[r]
      <4>1. job[r].created \in SUBSET AllLabs
        BY OwnTypes DEF Job
      <4> QED
        BY <1>9, <2>2, <4>1, OwnTypes DEF EndBuckets, Goto
    <3> QED
      BY <3>1 DEF BegunOf, Building
  <2> QED
    BY <1>9, <2>1, <2>2
<1> QED
  BY <1>2, <1>3, <1>4, <1>5, <1>6, <1>7, <1>8, <1>9 DEF Step

\* What a step of one runtime leaves another that has its labs and is not struck.
Kept(s) ==
  \A m \in Labs[s] : /\ Whole(s, m) => Whole(s, m)'
                     /\ bucket[m] # NoOne => bucket'[m] # NoOne
                     /\ Past(s) /\ Whole(s, m) /\ m \in telegraf => m \in telegraf'

LEMMA OthersKept ==
  ASSUME SubnetInv, NEW r \in Runtimes, NEW s \in Runtimes, s # r, WarmOf(r), ClearOf(r), BegunOf(r),
         Provision(r) \/ Step(r) \/ Teardown(r) \/ Crash(r),
         s \notin torn, s \notin torn', pc[s] = "deploy" \/ Past(s)
  PROVE  Kept(s)
<1> DEFINE l == FirstOf(job[r].todo)
<1>0. Labs[s] \subseteq AllLabs
  BY DEF AllLabs
<1>1. CASE Deploy(r)
  <2>1. Past(s)
    BY <1>1 DEF Deploy, SubnetInv, LockHeld
  <2>2. Labs[s] \cap job[r].todo = {}
    BY <1>1, <2>1 DEF ClearOf, Deploy
  <2>3. \A m \in Labs[s] : lab'[m] = lab[m]
    BY <1>0, <1>1, <2>2, OwnTypes DEF Deploy
  <2> QED
    BY <1>1, <2>3 DEF Deploy, Kept, Whole
<1>2. CASE Telegraf(r)
  <2>1. pc[r] = "telegraf" /\ UNCHANGED <<lab, bucket>> /\ \A m \in AllLabs \ {l} : m \in telegraf => m \in telegraf'
    BY <1>2 DEF Telegraf
  <2>2. l \in Labs[r]
    BY <2>1, OwnLab DEF SubnetInv, AtWork
  <2>3. ASSUME r \in torn PROVE l \notin Labs[s]
    BY <1>2, <2>3 DEF Telegraf, Namesakes
  <2>4. ASSUME r \notin torn PROVE ~Whole(s, l)
    BY <2>1, <2>2, <2>4 DEF WarmOf, BuiltOf, Building, Whole
  <2> HIDE DEF l
  <2> QED
    BY <1>0, <2>1, <2>3, <2>4 DEF Kept, Whole
<1>3. CASE UndoLab(r) \/ DeleteBucket(r)
  <2>1. l \in AllLabs /\ (job[r].started \/ job[r].teardown)
    BY <1>3, OwnLab DEF UndoLab, DeleteBucket, BegunOf
  <2>2. l \notin Labs[s]
    BY <1>3, <2>1 DEF UndoLab, DeleteBucket, Strike, Namesakes
  <2>3. \A m \in AllLabs \ {l} : lab'[m] = lab[m] /\ bucket'[m] = bucket[m] /\ (m \in telegraf => m \in telegraf')
    BY <1>3, <2>1, OwnTypes DEF UndoLab, DeleteBucket
  <2> HIDE DEF l
  <2> QED
    BY <1>0, <2>2, <2>3 DEF Kept, Whole
<1>4. CASE Observe(r)
  <2>1. UNCHANGED <<lab, telegraf>> /\ \A m \in AllLabs : bucket[m] # NoOne => bucket'[m] # NoOne
    BY <1>4, OwnTypes, NamesAssumption DEF Observe
  <2> QED
    BY <1>0, <2>1 DEF Kept, Whole
<1>5. CASE Provision(r) \/ Describe(r) \/ Lock(r) \/ Allocate(r) \/ EndDeploy(r) \/ Record(r) \/ Sidecars(r) \/ WritePid(r)
           \/ Ready(r) \/ Teardown(r) \/ EndUndo(r) \/ EndBuckets(r) \/ RemoveDirectory(r) \/ Crash(r)
  <2>1. UNCHANGED <<lab, telegraf, bucket>>
    BY <1>5 DEF Provision, Describe, Lock, Allocate, EndDeploy, Record, Sidecars, WritePid, Ready, Teardown,
       EndUndo, EndBuckets, RemoveDirectory, Crash, hostVars
  <2> QED
    BY <2>1 DEF Kept, Whole
<1> QED
  BY <1>1, <1>2, <1>3, <1>4, <1>5 DEF Step

LEMMA OthersStepWarm ==
  ASSUME SubnetInv, NEW r \in Runtimes, NEW s \in Runtimes, s # r, WarmOf(r), ClearOf(r), BegunOf(r), WarmOf(s),
         Provision(r) \/ Step(r) \/ Teardown(r) \/ Crash(r)
  PROVE  WarmOf(s)'
<1> SUFFICES ASSUME s \notin torn' PROVE BuiltOf(s)'
  BY DEF WarmOf
<1>1. s \notin torn /\ BuiltOf(s)
  BY TornKept DEF WarmOf
<1>2. pc'[s] = pc[s] /\ job'[s] = job[s] /\ disk'[s] = disk[s] /\ collector'[s] = collector[s]
  BY OthersFiles
<1>3. CASE ~(pc[s] = "deploy" \/ Past(s))
  BY <1>1, <1>2, <1>3 DEF BuiltOf, Past, Building
<1>4. CASE pc[s] = "deploy"
  <2>1. Kept(s)
    BY <1>1, <1>4, OthersKept
  <2> QED
    BY <1>1, <1>2, <1>4, <2>1 DEF BuiltOf, Building, Kept
<1>5. CASE Past(s)
  <2>1. Kept(s)
    BY <1>1, <1>5, OthersKept
  <2>2. \A m \in Labs[s] : (Whole(s, m) => Whole(s, m)') /\ (Whole(s, m) /\ Equipped(s, m) => Equipped(s, m)')
    BY <1>2, <1>5, <2>1 DEF Kept, Equipped
  <2>3. ASSUME pc[s] \in {"record", "sidecars", "pid", "telegraf"} PROVE FirstOf(job[s].todo) \in Labs[s]
    BY <2>3, OwnLab DEF SubnetInv, AtWork
  <2>4. \A m \in Labs[s] : bucket[m] # NoOne => bucket'[m] # NoOne
    BY <2>1 DEF Kept
  <2> QED
    BY <1>1, <1>2, <1>5, <2>2, <2>3, <2>4 DEF BuiltOf, Past, Building
<1> QED
  BY <1>3, <1>4, <1>5

\* Only a deployment that ends makes a runtime one that has its labs.
LEMMA PastFrom ==
  ASSUME SubnetInv, NEW r \in Runtimes, BuiltOf(r), Step(r) \/ Teardown(r) \/ Crash(r), Past(r)'
  PROVE  Past(r) \/ pc[r] = "deploy"
<1>1. CASE Elsewhere(r)
  BY <1>1, ElsewhereCold DEF Past
<1>2. CASE Allocate(r)
  <2>1. pc'[r] \in {"undo", "deploy"}
    BY <1>2, AllocateCases, OwnTypes DEF FailDeploy, Begins, Goto
  <2> QED
    BY <2>1 DEF Past, Building
<1>3. CASE Deploy(r) \/ EndDeploy(r)
  BY <1>3 DEF Deploy, EndDeploy
<1>4. CASE Observe(r) \/ Record(r) \/ Sidecars(r) \/ WritePid(r) \/ Telegraf(r) \/ Ready(r)
  BY <1>4 DEF Observe, Record, Sidecars, WritePid, Telegraf, Ready, Past, Building
<1>5. CASE Teardown(r)
  <2>1. pc'[r] \in {"undo", "rmdir"}
    BY <1>5, OwnTypes DEF Teardown, Goto
  <2> QED
    BY <2>1 DEF Past, Building
<1> QED
  BY <1>1, <1>2, <1>3, <1>4, <1>5 DEF Step, Elsewhere

\* Who begins to deploy found every slot free, or was not told and strikes its namesakes.
LEMMA AllocateClear ==
  ASSUME SubnetInv, NEW r \in Runtimes, NEW s \in Runtimes, s # r, Allocate(r), pc'[r] = "deploy",
         s \notin torn', Past(s), BuiltOf(s)
  PROVE  Labs[s] \cap Labs[r] = {}
<1> SUFFICES ASSUME NEW l \in Labs[s], l \in Labs[r] PROVE FALSE
  OBVIOUS
<1>1. Whole(s, l)
  BY DEF Past, BuiltOf
<1>2. lab[l] # NoLab
  BY <1>1, NamesAssumption DEF Whole, NoLab
<1>3. ~FailDeploy(r)
  BY OwnTypes DEF FailDeploy, Goto
<1>4. ~\A m \in Labs[r] : ~Occupied(m)
  BY <1>2 DEF Occupied
<1>5. torn' = torn \cup {r} \cup Namesakes(r, Labs[r])
  BY <1>3, <1>4 DEF Allocate
<1> QED
  BY <1>5 DEF Namesakes

LEMMA OwnStepClear ==
  ASSUME SubnetInv, WarmInv, NEW r \in Runtimes, Provision(r) \/ Step(r) \/ Teardown(r) \/ Crash(r)
  PROVE  ClearOf(r)'
<1> SUFFICES ASSUME pc'[r] = "deploy", NEW s \in Runtimes \ {r}, s \notin torn', Past(s)'
             PROVE  Labs[s] \cap job'[r].todo = {}
  BY DEF ClearOf
<1>1. s \notin torn
  BY TornKept
<1>2. Past(s)
  BY OthersFiles DEF Past
<1>3. CASE Allocate(r)
  <2>1. Labs[s] \cap Labs[r] = {}
    BY <1>1, <1>2, <1>3, AllocateClear DEF WarmInv, WarmOf
  <2>2. job'[r].todo \subseteq Labs[r]
    BY SubnetInvStep DEF SubnetInv, OwnNames, Next
  <2> QED
    BY <2>1, <2>2
<1>4. CASE Deploy(r)
  <2>1. pc[r] = "deploy" /\ job'[r].todo \subseteq job[r].todo
    BY <1>4, DeployJob DEF Deploy
  <2> QED
    BY <1>1, <1>2, <2>1 DEF WarmInv, ClearOf
<1>5. CASE Provision(r) \/ Describe(r) \/ Lock(r) \/ Teardown(r) \/ RemoveDirectory(r) \/ Crash(r)
  BY <1>5, OwnTypes DEF Provision, Describe, Lock, Teardown, RemoveDirectory, Crash, Goto
<1>6. CASE EndDeploy(r) \/ Observe(r) \/ Record(r) \/ Sidecars(r) \/ WritePid(r)
  BY <1>6, OwnTypes DEF EndDeploy, FailDeploy, Observe, Record, Sidecars, WritePid, FailStage, Goto
<1>7. CASE Telegraf(r) \/ Ready(r)
  BY <1>7, OwnTypes DEF Telegraf, Ready, FailStage, Goto
<1>8. CASE UndoLab(r) \/ EndUndo(r) \/ DeleteBucket(r) \/ EndBuckets(r)
  BY <1>8, OwnTypes DEF UndoLab, EndUndo, DeleteBucket, EndBuckets, CleanupFailed, Goto
<1> QED
  BY <1>3, <1>4, <1>5, <1>6, <1>7, <1>8 DEF Step

LEMMA OthersStepClear ==
  ASSUME SubnetInv, WarmInv, NEW r \in Runtimes, NEW q \in Runtimes, q # r,
         Provision(r) \/ Step(r) \/ Teardown(r) \/ Crash(r)
  PROVE  ClearOf(q)'
<1> SUFFICES ASSUME pc'[q] = "deploy", NEW s \in Runtimes \ {q}, s \notin torn', Past(s)'
             PROVE  Labs[s] \cap job'[q].todo = {}
  BY DEF ClearOf
<1>1. pc[q] = "deploy" /\ job'[q] = job[q]
  BY OthersFiles
<1>2. CASE s # r
  <2>1. s \notin torn /\ Past(s)
    BY <1>2, TornKept, OthersFiles DEF Past
  <2> QED
    BY <1>1, <2>1 DEF WarmInv, ClearOf
<1>3. CASE s = r
  <2>1. ~Provision(r)
    <3>1. ASSUME Provision(r) PROVE pc'[r] = "describe"
      BY <3>1, OwnTypes DEF Provision, Goto
    <3> QED
      BY <1>3, <3>1 DEF Past, Building
  <2>2. r \notin torn /\ BuiltOf(r)
    BY <1>3, <2>1, TornKept DEF WarmInv, WarmOf
  <2>3. pc[r] # "deploy"
    BY <1>1 DEF SubnetInv, LockHeld
  <2>4. Past(r)
    BY <1>3, <2>1, <2>2, <2>3, PastFrom
  <2> QED
    BY <1>1, <1>3, <2>2, <2>4 DEF WarmInv, ClearOf
<1> QED
  BY <1>2, <1>3

LEMMA WarmInvInit == Init => WarmInv
  BY DEF Init, WarmInv, WarmOf, ClearOf, BegunOf, BuiltOf, Building, Idle, NoFile

LEMMA WarmInvStep == SubnetInv /\ WarmInv /\ [Next]_vars => WarmInv'
<1> SUFFICES ASSUME SubnetInv, WarmInv, [Next]_vars, NEW s \in Runtimes PROVE WarmOf(s)' /\ ClearOf(s)' /\ BegunOf(s)'
  BY DEF WarmInv
<1>0. WarmOf(s) /\ ClearOf(s) /\ BegunOf(s)
  BY DEF WarmInv
<1>1. CASE UNCHANGED vars
  BY <1>0, <1>1 DEF vars, hostVars, fileVars, ghostVars, WarmOf, ClearOf, BegunOf, BuiltOf, Past, Whole, Equipped
<1>2. ASSUME NEW r \in Runtimes, Provision(r) \/ Step(r) \/ Teardown(r) \/ Crash(r)
      PROVE  WarmOf(s)' /\ ClearOf(s)' /\ BegunOf(s)'
  <2>1. CASE s = r
    BY <1>0, <1>2, <2>1, OwnStepWarm, OwnStepClear, OwnStepBegun
  <2>2. CASE s # r
    <3>1. WarmOf(r) /\ ClearOf(r) /\ BegunOf(r)
      BY DEF WarmInv
    <3>2. WarmOf(s)' /\ ClearOf(s)'
      BY <1>0, <1>2, <2>2, <3>1, OthersStepWarm, OthersStepClear
    <3>3. pc'[s] = pc[s] /\ job'[s] = job[s]
      BY <1>2, <2>2, OthersFiles
    <3>4. BegunOf(s)'
      BY <1>0, <3>3 DEF BegunOf
    <3> QED
      BY <3>2, <3>4
  <2> QED
    BY <2>1, <2>2
<1> QED
  BY <1>1, <1>2 DEF Next

\* What provision recorded as warm has its labs, sidecars, collectors and buckets until it is torn
\* down, for any number of runtimes with any names, namesakes included: the others of the host
\* may deploy, fail, die and clean up, and only a cleanup that takes the labs of those names, or
\* a deployment that was not told the slot is taken, is excepted.
THEOREM WarmRuntimesAreComplete == Spec => []WarmMeansComplete
<1>1. WarmInv => WarmMeansComplete
  <2> SUFFICES ASSUME WarmInv, NEW r \in Runtimes \ torn, disk[r].state = "warm", NEW l \in Labs[r]
               PROVE  lab[l].by = r /\ lab[l].whole /\ l \in telegraf /\ l \in collector[r] /\ bucket[l] # NoOne
    BY DEF WarmMeansComplete
  <2>1. BuiltOf(r)
    BY DEF WarmInv, WarmOf
  <2>2. Whole(r, l) /\ Equipped(r, l)
    BY <2>1 DEF BuiltOf
  <2> QED
    BY <2>2 DEF Whole, Equipped
<1>2. SubnetInv /\ WarmInv /\ [Next]_vars => SubnetInv' /\ WarmInv'
  BY SubnetInvStep, WarmInvStep
<1> QED
  BY <1>1, <1>2, SubnetInvInit, WarmInvInit, PTL DEF Spec

----------------------------------------------------------------------------
(* The bring-up of a worker *)

AllAddresses == UNION {Addresses[d] : d \in Devices}

Typed ==
  /\ WorkerTypeOK
  /\ kernel \in [Devices -> SUBSET AllAddresses] /\ missing \in [Devices -> SUBSET AllAddresses]
  /\ \A d \in Devices : task[d] \in {"queued", "wait"} => tries[d] < MaxTries
  /\ check.attempt < Retries

\* How far the activation of a device has come, and what it has established.
Activated ==
  \A d \in Devices :
    /\ task[d] \in {"activate", "inspect", "repair", "verify", "ok"} => boot[d] = "ready"
    /\ task[d] \in {"inspect", "repair", "verify", "ok"} => telemetry[d] = "activated"
    /\ task[d] = "ok" => kernel[d] = Addresses[d]

\* The worker goes on only with all its devices activated.
Applied ==
  /\ phase # "apply" => \A d \in Devices : task[d] \in Ended
  /\ phase \in {"check", "listing", "agents", "cleanup", "ready"} => \A d \in Devices : task[d] = "ok"

\* The devices of a first check that need not be asked any more have been seen converged.
Seen(d) == converged[d] \/ d \in flapped
Network ==
  /\ phase = "check" /\ ~check.final /\ check.stage = "network" => \A d \in Devices \ check.left : Seen(d)
  /\ phase = "check" /\ (check.final \/ check.stage \in {"ping", "agents", "observe"}) => \A d \in Devices : Seen(d)
  /\ phase \in {"listing", "agents", "ready"} => \A d \in Devices : Seen(d)

\* Where the start of the agents is in each phase, and what runs on the clients.
Gone(c) == agent[c] = "none" \/ c \in unstopped \cup late \/ (scheduled = {} /\ agent[c] = "previous")
Agents ==
  /\ phase # "agents" => \A c \in Clients : start[c] # "wait"
  /\ phase \in {"apply", "listing"} \/ (phase = "check" /\ ~check.final) => \A c \in Clients : start[c] = "queued"
  /\ phase = "ready" \/ (phase = "check" /\ check.final) => \A c \in Clients : start[c] = "ok"
  /\ phase \in {"apply", "listing"} \/ (phase = "check" /\ ~check.final) => \A c \in Clients : agent[c] # "new" /\ c \notin late
  /\ \A c \in Clients : phase \notin {"cleanup", "failed"} /\ start[c] \in {"wait", "ok"} => agent[c] = "new"
  /\ phase \in {"agents", "cleanup"} => \A c \in Clients \ scheduled : start[c] = "failed" /\ Gone(c)
  /\ phase = "cleanup" => \A c \in Clients \ check.left : Gone(c)
  /\ phase = "failed" /\ (\E c \in Clients : start[c] = "failed") => \A c \in Clients : Gone(c)

WorkerInv == Typed /\ Activated /\ Applied /\ Network /\ Agents

Checks == [stage : {"none", "containers", "network", "ping", "agents", "observe"},
           left : SUBSET (Devices \cup Clients), attempt : 0..Retries, final : BOOLEAN]

----------------------------------------------------------------------------

LEMMA WorkerInvInit == WorkerInit => WorkerInv
<1> SUFFICES ASSUME WorkerInit PROVE WorkerInv
  OBVIOUS
<1>1. Typed
  BY WorkerBoundsAssumption DEF WorkerInit, Typed, WorkerTypeOK, NoCheck, Boots, Ended
<1> QED
  BY <1>1 DEF WorkerInit, WorkerInv, Activated, Applied, Network, Agents, Ended, NoCheck

\* The devices on their own.
LEMMA DeviceKeeps ==
  ASSUME WorkerInv, NEW d \in Devices, Boot(d) \/ Converge(d) \/ Flap(d)
  PROVE  WorkerInv'
<1>1. Typed'
  <2>1. Addresses[d] \subseteq AllAddresses
    BY DEF AllAddresses
  <2> QED
    <3>1. CASE Boot(d)
      BY <2>1, <3>1 DEF WorkerInv, Typed, WorkerTypeOK, Boot, Boots, taskVars, agentVars
    <3>2. CASE Converge(d) \/ Flap(d)
      BY <3>2 DEF WorkerInv, Typed, WorkerTypeOK, Converge, Flap, taskVars, agentVars
    <3> QED
      BY <3>1, <3>2
<1>2. Activated'
  BY DEF WorkerInv, Typed, WorkerTypeOK, Activated, Boot, Converge, Flap, taskVars, agentVars
<1>3. Applied' /\ Agents'
  BY DEF WorkerInv, Applied, Agents, Gone, Boot, Converge, Flap, taskVars, agentVars
<1>4. Network'
  <2>1. ASSUME NEW e \in Devices, Seen(e), phase # "apply" PROVE Seen(e)'
    BY <2>1 DEF WorkerInv, Typed, WorkerTypeOK, Seen, Boot, Converge, Flap
  <2>2. phase' = phase /\ check' = check
    BY DEF Boot, Converge, Flap
  <2> QED
    BY <2>1, <2>2 DEF WorkerInv, Network
<1> QED
  BY <1>1, <1>2, <1>3, <1>4 DEF WorkerInv

\* The activation of one device.
LEMMA ActivationKeeps ==
  ASSUME WorkerInv, NEW d \in Devices, Activation(d)
  PROVE  WorkerInv'
<1>1. phase = "apply"
  <2>1. task[d] \notin Ended
    BY DEF Activation, StartActivation, WaitForSonic, Activate, Inspect, Repair, Verify, Ended
  <2> QED
    BY <2>1 DEF WorkerInv, Applied
<1>2. UNCHANGED <<boot, converged, flapped, agentVars, phase, check>>
  BY DEF Activation, StartActivation, WaitForSonic, Activate, Inspect, Repair, Verify, deviceVars
<1>3. Typed'
  <2>1. CASE StartActivation(d) \/ WaitForSonic(d)
    BY <2>1, WorkerBoundsAssumption DEF WorkerInv, Typed, WorkerTypeOK, StartActivation, WaitForSonic, Moved, Ended,
       deviceVars, agentVars
  <2>2. CASE Activate(d)
    BY <2>2 DEF WorkerInv, Typed, WorkerTypeOK, Activate, Moved, Ended, agentVars
  <2>3. CASE Inspect(d)
    <3>1. Addresses[d] \subseteq AllAddresses
      BY DEF AllAddresses
    <3> QED
      BY <2>3, <3>1 DEF WorkerInv, Typed, WorkerTypeOK, Inspect, Absent, Expected, Moved, Ended, deviceVars, agentVars
  <2>4. CASE Repair(d)
    BY <2>4 DEF WorkerInv, Typed, WorkerTypeOK, Repair, Moved, Ended, agentVars
  <2>5. CASE Verify(d)
    BY <2>5 DEF WorkerInv, Typed, WorkerTypeOK, Verify, Moved, Ended, deviceVars, agentVars
  <2> QED
    BY <2>1, <2>2, <2>3, <2>4, <2>5 DEF Activation
<1>4. Activated'
  <2>1. CASE StartActivation(d) \/ WaitForSonic(d)
    BY <2>1 DEF WorkerInv, Typed, WorkerTypeOK, Activated, StartActivation, WaitForSonic, SonicReady, Moved, deviceVars
  <2>2. CASE Activate(d)
    BY <2>2 DEF WorkerInv, Typed, WorkerTypeOK, Activated, Activate, Moved
  <2>3. CASE Inspect(d)
    <3>1. Expected(d) = {} => kernel[d] = Addresses[d]
      BY DEF WorkerInv, Typed, WorkerTypeOK, Expected
    <3>2. task'[d] = "ok" => Expected(d) = {}
      BY <2>3 DEF WorkerInv, Typed, WorkerTypeOK, Inspect, Moved
    <3>3. /\ UNCHANGED <<boot, telemetry, kernel>> /\ task[d] = "inspect"
          /\ \A e \in Devices \ {d} : task'[e] = task[e]
      BY <2>3 DEF WorkerInv, Typed, WorkerTypeOK, Inspect, Moved, deviceVars
    <3> QED
      BY <3>1, <3>2, <3>3 DEF WorkerInv, Activated
  <2>4. CASE Repair(d)
    BY <2>4 DEF WorkerInv, Typed, WorkerTypeOK, Activated, Repair, Moved
  <2>5. CASE Verify(d)
    <3>1. Absent(d) = {} => kernel[d] = Addresses[d]
      BY DEF WorkerInv, Typed, WorkerTypeOK, Absent, Expected
    <3>2. task'[d] = "ok" => Absent(d) = {}
      BY <2>5 DEF WorkerInv, Typed, WorkerTypeOK, Verify, Moved
    <3>3. /\ UNCHANGED <<boot, telemetry, kernel>> /\ task[d] = "verify"
          /\ \A e \in Devices \ {d} : task'[e] = task[e]
      BY <2>5 DEF WorkerInv, Typed, WorkerTypeOK, Verify, Moved, deviceVars
    <3> QED
      BY <3>1, <3>2, <3>3 DEF WorkerInv, Activated
  <2> QED
    BY <2>1, <2>2, <2>3, <2>4, <2>5 DEF Activation
<1>5. Applied' /\ Network' /\ Agents'
  BY <1>1, <1>2 DEF WorkerInv, Applied, Network, Agents, Gone, agentVars
<1> QED
  BY <1>3, <1>4, <1>5 DEF WorkerInv

\* The worker's thread between the activation, the checks and the agents.
LEMMA BringupKeeps ==
  ASSUME WorkerInv, EndApply \/ Health \/ EndAgents \/ EndCleanup
  PROVE  WorkerInv'
<1>1. UNCHANGED <<deviceVars, taskVars, agentVars>>
  BY DEF EndApply, Health, CheckContainers, PollNetwork, PingClient, PollAgents, PollTelemetry,
     EndAgents, EndCleanup, EndStage
<1>2. Typed'
  <2>1. phase' \in {"apply", "check", "listing", "agents", "cleanup", "ready", "failed"}
    BY DEF WorkerInv, Typed, WorkerTypeOK, EndApply, Health, CheckContainers, PollNetwork, PingClient,
       PollAgents, PollTelemetry, EndAgents, EndCleanup, StartCheck, StageFails, StageEnds, PollAgain
  <2>2. check' \in Checks /\ check'.attempt < Retries
    <3>1. check \in Checks /\ check.attempt < Retries /\ Retries \in Nat /\ Retries > 0
      BY WorkerBoundsAssumption DEF WorkerInv, Typed, WorkerTypeOK, Checks
    <3>2. \A new \in {NoCheck, [NoCheck EXCEPT !.left = scheduled], [NoCheck EXCEPT !.stage = "containers", !.final = TRUE],
                      [NoCheck EXCEPT !.stage = "containers", !.final = FALSE]} :
            new \in Checks /\ new.attempt = 0
      <4>1. NoCheck \in Checks /\ NoCheck.attempt = 0
        BY <3>1 DEF NoCheck, Checks
      <4>2. ASSUME NEW new, new \in {[NoCheck EXCEPT !.stage = "containers", !.final = f] : f \in BOOLEAN}
            PROVE  new \in Checks /\ new.attempt = 0
        BY <4>1, <4>2 DEF Checks
      <4>3. [NoCheck EXCEPT !.left = scheduled] \in Checks /\ [NoCheck EXCEPT !.left = scheduled].attempt = 0
        BY <4>1 DEF Checks, WorkerInv, Typed, WorkerTypeOK
      <4> QED
        BY <4>1, <4>2, <4>3
    <3>3. ASSUME NEW stage \in {"network", "ping", "agents", "observe"}, NEW left \in SUBSET (Devices \cup Clients),
                 StageEnds(stage, left)
          PROVE  check' \in Checks /\ check'.attempt < Retries
      <4>1. check' = [stage |-> stage, left |-> left, attempt |-> 0, final |-> check.final]
        BY <3>1, <3>3 DEF StageEnds, Checks
      <4>2. check.final \in BOOLEAN
        BY <3>1 DEF Checks
      <4> QED
        BY <3>1, <4>1, <4>2 DEF Checks
    <3>4. ASSUME NEW left \in SUBSET (Devices \cup Clients), PollAgain(left)
          PROVE  check' \in Checks /\ check'.attempt < Retries
      <4>1. CASE check.attempt + 1 = Retries
        BY <3>1, <3>2, <3>4, <4>1 DEF PollAgain, StageFails
      <4>2. CASE check.attempt + 1 # Retries
        <5>1. check' = [stage |-> check.stage, left |-> left, attempt |-> check.attempt + 1, final |-> check.final]
          BY <3>1, <3>4, <4>2 DEF PollAgain, Checks
        <5>2. /\ check.final \in BOOLEAN /\ check.attempt \in 0..Retries
              /\ check.stage \in {"none", "containers", "network", "ping", "agents", "observe"}
          BY <3>1 DEF Checks
        <5>3. check.attempt + 1 \in 0..Retries /\ check.attempt + 1 < Retries
          BY <3>1, <4>2, <5>2
        <5> QED
          BY <5>1, <5>2, <5>3 DEF Checks
      <4> QED
        BY <4>1, <4>2
    <3>5. CASE EndApply \/ EndAgents \/ EndCleanup
      BY <3>1, <3>2, <3>5 DEF EndApply, EndAgents, EndCleanup, StartCheck
    <3>6. CASE CheckContainers
      BY <3>1, <3>2, <3>3, <3>6, WorkerSetsAssumption DEF CheckContainers, StageFails
    <3>7. CASE PollNetwork
      <4>1. PICK left \in SUBSET check.left : IF left = {} THEN StageEnds("ping", {}) ELSE PollAgain(left)
        BY <3>7 DEF PollNetwork
      <4>2. left \in SUBSET (Devices \cup Clients)
        BY <3>1, <4>1 DEF Checks
      <4> QED
        BY <3>3, <3>4, <4>1, <4>2
    <3>8. CASE PingClient
      BY <3>3, <3>4, <3>8, WorkerSetsAssumption DEF PingClient
    <3>9. CASE PollAgents \/ PollTelemetry
      <4>1. check.left \in SUBSET (Devices \cup Clients)
        BY <3>1 DEF Checks
      <4> QED
        BY <3>1, <3>2, <3>3, <3>4, <3>9, <4>1 DEF PollAgents, PollTelemetry
    <3> QED
      BY <3>5, <3>6, <3>7, <3>8, <3>9 DEF Health
  <2> QED
    BY <1>1, <2>1, <2>2 DEF WorkerInv, Typed, WorkerTypeOK, Checks, deviceVars, taskVars, agentVars
<1>3. Activated'
  BY <1>1 DEF WorkerInv, Activated, deviceVars, taskVars
<1>4. Applied'
  BY <1>1 DEF WorkerInv, Applied, Ended, EndApply, Health, CheckContainers, PollNetwork, PingClient,
     PollAgents, PollTelemetry, EndAgents, EndCleanup, StartCheck, StageFails, StageEnds, PollAgain, At, taskVars
<1>5. \A d \in Devices : Seen(d)' <=> Seen(d)
  BY <1>1 DEF Seen, deviceVars
<1>6. check \in [stage : {"none", "containers", "network", "ping", "agents", "observe"},
                 left : SUBSET (Devices \cup Clients), attempt : 0..Retries, final : BOOLEAN]
  BY DEF WorkerInv, Typed, WorkerTypeOK, Checks
<1>7. Network'
  <2>1. CASE EndApply \/ EndAgents \/ EndCleanup
    BY <1>5, <2>1 DEF WorkerInv, Network, EndApply, EndAgents, EndCleanup, StartCheck, NoCheck
  <2>2. CASE CheckContainers
    BY <1>5, <1>6, <2>2 DEF WorkerInv, Network, CheckContainers, StageEnds, StageFails, NoCheck, At
  <2>3. CASE PollNetwork
    <3>1. PICK left \in SUBSET check.left :
            /\ \A d \in check.left \ left : converged[d]
            /\ IF left = {} THEN StageEnds("ping", {}) ELSE PollAgain(left)
      BY <2>3 DEF PollNetwork, NotConverged
    <3>2. \A d \in Devices \ left : Seen(d) \/ check.final
      BY <2>3, <3>1 DEF WorkerInv, Network, PollNetwork, At, Seen
    <3> QED
      BY <1>5, <1>6, <2>3, <3>1, <3>2 DEF WorkerInv, Network, PollNetwork, At, StageEnds, StageFails, PollAgain
  <2>4. CASE PingClient \/ PollAgents \/ PollTelemetry
    BY <1>5, <1>6, <2>4 DEF WorkerInv, Network, PingClient, PollAgents, PollTelemetry, StageEnds, StageFails,
       PollAgain, NoCheck, At
  <2> QED
    BY <2>1, <2>2, <2>3, <2>4 DEF Health
<1>8. Agents'
  <2>1. /\ \A c \in Clients : (Gone(c)' <=> Gone(c)) /\ start'[c] = start[c] /\ agent'[c] = agent[c]
        /\ scheduled' = scheduled /\ late' = late
    BY <1>1 DEF Gone, agentVars
  <2>2. CASE EndApply \/ EndCleanup
    BY <2>1, <2>2 DEF WorkerInv, Agents, EndApply, EndCleanup, StartCheck, NoCheck
  <2>3. CASE EndAgents
    BY <2>1, <2>3 DEF WorkerInv, Agents, EndAgents, StartCheck, NoCheck
  <2>4. CASE Health
    BY <1>6, <2>1, <2>4 DEF WorkerInv, Agents, Health, CheckContainers, PollNetwork, PingClient, PollAgents,
       PollTelemetry, StageEnds, StageFails, PollAgain, NoCheck, At
  <2> QED
    BY <2>2, <2>3, <2>4
<1> QED
  BY <1>2, <1>3, <1>4, <1>7, <1>8 DEF WorkerInv

\* Nothing runs in a container that is not listed; no start is tried there.
LEMMA ListKeeps ==
  ASSUME WorkerInv, ListContainers
  PROVE  WorkerInv'
<1>1. /\ phase = "listing" /\ phase' \in {"agents", "failed"} /\ UNCHANGED <<deviceVars, taskVars, late, unstopped, check>>
      /\ scheduled' \subseteq Clients
  BY DEF ListContainers
<1>2. \A c \in Clients :
        /\ start'[c] = IF c \in scheduled' THEN "queued" ELSE "failed"
        /\ agent'[c] \in {agent[c], "none"} /\ agent[c] \in {"none", "previous", "new"}
  <2>1. agent \in [Clients -> {"none", "previous", "new"}]
    BY DEF WorkerInv, Typed, WorkerTypeOK
  <2>2. agent' = agent \/ agent' = [c \in Clients |-> IF c \in scheduled' THEN agent[c] ELSE "none"]
    BY DEF ListContainers
  <2>3. start' = [c \in Clients |-> IF c \in scheduled' THEN "queued" ELSE "failed"]
    BY DEF ListContainers
  <2> QED
    BY <2>1, <2>2, <2>3
<1>3. start' \in [Clients -> {"queued", "wait", "ok", "failed"}] /\ agent' \in [Clients -> {"none", "previous", "new"}]
  <2>1. start' = [c \in Clients |-> IF c \in scheduled' THEN "queued" ELSE "failed"]
    BY DEF ListContainers
  <2>2. agent' = [c \in Clients |-> IF c \in scheduled' THEN agent[c] ELSE "none"] \/ agent' = agent
    BY DEF ListContainers
  <2> QED
    BY <2>1, <2>2 DEF WorkerInv, Typed, WorkerTypeOK
<1>4. Typed' /\ Activated' /\ Applied'
  BY <1>1, <1>3 DEF WorkerInv, Typed, WorkerTypeOK, Activated, Applied, deviceVars, taskVars
<1>5. Network'
  BY <1>1 DEF WorkerInv, Network, Seen, deviceVars
<1>6. \A c \in Clients \ scheduled' : Gone(c)'
  <2> SUFFICES ASSUME NEW c \in Clients \ scheduled' PROVE Gone(c)'
    OBVIOUS
  <2>1. CASE agent' = [d \in Clients |-> IF d \in scheduled' THEN agent[d] ELSE "none"]
    BY <2>1 DEF Gone
  <2>2. CASE scheduled' = {} /\ UNCHANGED agent
    <3>1. agent[c] # "new"
      BY <1>1 DEF WorkerInv, Agents
    <3> QED
      BY <1>2, <2>2, <3>1 DEF Gone
  <2> QED
    BY <2>1, <2>2 DEF ListContainers
<1>7. phase' = "failed" => scheduled' = {}
  BY DEF ListContainers
<1>8. Agents'
  <2>1. \A c \in Clients : start'[c] \in {"queued", "failed"} /\ (c \notin scheduled' => start'[c] = "failed")
    BY <1>2
  <2> QED
    BY <1>1, <1>6, <1>7, <2>1 DEF Agents
<1> QED
  BY <1>4, <1>5, <1>8 DEF WorkerInv

\* The agents are started, or stopped again, one by one, and a shell that timed out may go on.
LEMMA AgentKeeps ==
  ASSUME WorkerInv, NEW c \in Clients, AgentSteps(c) \/ LateStart(c)
  PROVE  WorkerInv'
<1>1. UNCHANGED <<deviceVars, taskVars, phase>>
  BY DEF AgentSteps, StartAgent, WaitUntilReady, StopAgent, LateStart
<1>2. Typed'
  <2>1. CASE StopAgent(c)
    BY <2>1 DEF WorkerInv, Typed, WorkerTypeOK, StopAgent, deviceVars, taskVars
  <2>2. CASE StartAgent(c) \/ WaitUntilReady(c) \/ LateStart(c)
    BY <2>2 DEF WorkerInv, Typed, WorkerTypeOK, StartAgent, WaitUntilReady, LateStart, Started, deviceVars, taskVars
  <2> QED
    BY <2>1, <2>2 DEF AgentSteps
<1>3. Activated' /\ Applied'
  BY <1>1 DEF WorkerInv, Activated, Applied, deviceVars, taskVars
<1>4. Network'
  <2>1. \A d \in Devices : Seen(d)' <=> Seen(d)
    BY <1>1 DEF Seen, deviceVars
  <2>2. check' = check \/ phase = "cleanup"
    BY DEF AgentSteps, StartAgent, WaitUntilReady, StopAgent, LateStart
  <2> QED
    BY <1>1, <2>1, <2>2 DEF WorkerInv, Network
<1>5. Agents'
  <2>0. agent \in [Clients -> {"none", "previous", "new"}] /\ start \in [Clients -> {"queued", "wait", "ok", "failed"}]
    BY DEF WorkerInv, Typed, WorkerTypeOK
  <2>1. CASE StartAgent(c)
    <3>1. phase = "agents" /\ start[c] = "queued" /\ c \in scheduled /\ UNCHANGED <<phase, check, scheduled, unstopped>>
      BY <2>1 DEF StartAgent, WorkerInv, Agents
    <3>2. \A d \in Clients \ {c} : agent'[d] = agent[d] /\ start'[d] = start[d]
      BY <2>0, <2>1 DEF StartAgent, Started
    <3>3. start'[c] = "failed" \/ (start'[c] = "wait" /\ agent'[c] = "new")
      BY <2>0, <2>1 DEF StartAgent, Started
    <3>4. late \subseteq late'
      BY <2>1 DEF StartAgent
    <3> QED
      BY <3>1, <3>2, <3>3, <3>4 DEF WorkerInv, Agents, Gone
  <2>2. CASE WaitUntilReady(c)
    <3>1. /\ UNCHANGED <<phase, check, scheduled, unstopped, agent, late>> /\ start[c] = "wait"
          /\ start'[c] \in {"ok", "failed"} /\ \A d \in Clients \ {c} : start'[d] = start[d]
      BY <2>0, <2>2 DEF WaitUntilReady, Started
    <3>2. phase = "agents" /\ c \in scheduled
      BY <3>1 DEF WorkerInv, Agents
    <3> QED
      BY <3>1, <3>2 DEF WorkerInv, Agents, Gone
  <2>3. CASE LateStart(c)
    BY <2>3 DEF WorkerInv, Typed, WorkerTypeOK, Agents, Gone, LateStart
  <2>4. CASE StopAgent(c)
    BY <2>4 DEF WorkerInv, Typed, WorkerTypeOK, Agents, Gone, StopAgent
  <2> QED
    BY <2>1, <2>2, <2>3, <2>4 DEF AgentSteps
<1> QED
  BY <1>2, <1>3, <1>4, <1>5 DEF WorkerInv

LEMMA WorkerInvStep == WorkerInv /\ [WorkerNext]_workerVars => WorkerInv'
<1> SUFFICES ASSUME WorkerInv, [WorkerNext]_workerVars PROVE WorkerInv'
  OBVIOUS
<1>1. CASE UNCHANGED workerVars
  BY <1>1 DEF WorkerInv, Typed, WorkerTypeOK, Activated, Applied, Network, Seen, Agents, Gone, workerVars, deviceVars,
     taskVars, agentVars
<1> QED
  BY <1>1, DeviceKeeps, ActivationKeeps, AgentKeeps, BringupKeeps, ListKeeps DEF WorkerNext, Bringup

\* Every variable of the bring-up keeps its type; readiness attempts and polls stay below their limits.
THEOREM WorkerTypeCorrect == WorkerSpec => []WorkerTypeOK
<1>1. WorkerInv => WorkerTypeOK
  BY DEF WorkerInv, Typed
<1> QED
  BY <1>1, WorkerInvInit, WorkerInvStep, PTL DEF WorkerSpec

\* A worker that deploy_worker_transactionally declares ready has all addresses in the kernel of all
\* its devices, the telemetry servers that activation started, and new agents on all clients.
THEOREM ReadyWorkersAreActivated == WorkerSpec => []ReadyMeansActivated
<1>1. WorkerInv => ReadyMeansActivated
  BY DEF WorkerInv, Activated, Applied, Agents, ReadyMeansActivated
<1> QED
  BY <1>1, WorkerInvInit, WorkerInvStep, PTL DEF WorkerSpec

\* No agent is started, and no worker is ready, before the first check has seen every device
\* converged: its network stage forgets a device only when it is.
THEOREM AgentsStartOnConvergedNetwork == WorkerSpec => []NetworkWasConverged
<1>1. WorkerInv => NetworkWasConverged
  BY DEF WorkerInv, Network, Seen, NetworkWasConverged
<1> QED
  BY <1>1, WorkerInvInit, WorkerInvStep, PTL DEF WorkerSpec

\* deploy_client_agents that raises leaves agents on no client, apart from those its cleanup
\* reports, those a timed-out shell starts behind its back, and, when docker listed no container
\* and so nothing was tried, those of before.
THEOREM AgentsStartTogether == WorkerSpec => []AgentsAllOrNone
<1>1. WorkerInv => AgentsAllOrNone
  BY DEF WorkerInv, Agents, Gone, AgentsAllOrNone
<1> QED
  BY <1>1, WorkerInvInit, WorkerInvStep, PTL DEF WorkerSpec

\* What a bring-up says when it ends, ready or failed, is true of its devices and its agents.
THEOREM BringUpsAreTruthful == WorkerSpec => []BringUpTruthful
BY ReadyWorkersAreActivated, AgentsStartTogether, PTL DEF BringUpTruthful

=============================================================================
