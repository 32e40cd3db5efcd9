----------------------------- MODULE SessionRun -----------------------------
(***************************************************************************)
(* A benchmark run from the call to the files it leaves.  The orchestrator *)
(* reserves a run directory, provisions a runtime (or is given one), lets  *)
(* one thread per worker diagnose its share of the suite, writes report    *)
(* and metadata, tears the runtime down and then writes both files again   *)
(* with how that went.  The threads share the trace index of the run.      *)
(* Several runs, started in the same second, share the artifacts           *)
(* directories.  Every write may fail and the process may die between any  *)
(* two steps.                                                              *)
(***************************************************************************)
EXTENDS Integers, Sequences, FiniteSets

CONSTANTS
  Runs,            \* the calls
  Roots,           \* per call, the directories its artifacts may go to
  Suite,           \* per call, the scenarios, by id; an id may occur twice
  Size,            \* per call, the number of workers
  Kinds,           \* per call, on which runtimes it may be made
  Traced,          \* the calls with trace=True
  MaxLost,         \* bound: traces and result rows that cannot be written
  MaxCrashes       \* bound: calls whose process dies

ASSUME SuiteAssumption ==
  \A r \in Runs : Suite[r] \in Seq({Suite[r][i] : i \in DOMAIN Suite[r]})
ASSUME SizeAssumption == Size \in [Runs -> Nat \ {0}]
ASSUME KindsAssumption == Kinds \in [Runs -> SUBSET {"own", "kept", "user"}]
ASSUME BoundsAssumption == MaxLost \in Nat /\ MaxCrashes \in Nat

VARIABLES
  pc,              \* where the call is
  mode,            \* "own" runtime, own and "kept", or the "user"'s
  dir,             \* the directory tried last: the artifacts directory and the run id
  dirs,            \* the run directories there are
  runtime,         \* the runtime of the call
  reports,         \* the report.json files
  metadata,        \* the metadata.json files
  executionFailed, \* execution_failure
  cleanupFailed,   \* cleanup_failure
  handle,          \* the status the returned RunHandle shows
  thread,          \* where a worker's thread is
  case,            \* the position in the suite of its current scenario
  index,           \* index.jsonl: the cases of the traces, in the order they were appended
  rows,            \* results.jsonl
  lost,            \* traces and result rows that could not be written
  summaries        \* per worker, its scenario_summaries

fileVars == <<dirs, reports, metadata>>
callVars == <<mode, dir, executionFailed, cleanupFailed, handle>>
traceVars == <<index, rows, lost>>
workerVars == <<thread, case, summaries>>
vars == <<pc, callVars, runtime, fileVars, workerVars, traceVars>>

Team(r) == 1..Size[r]
Cases(r) == 1..Len(Suite[r])
RunId(r) == dir[r][2]

PerRun(value) == [r \in Runs |-> value]
PerWorker(value) == [r \in Runs |-> [w \in Team(r) |-> value]]

Outcomes == [valid : BOOLEAN, success : BOOLEAN, clean : BOOLEAN]

Modes == {"own", "kept", "user"}
Labels == {"pending", "preserved", "skipped", "performed", "failed"}
Pcs == {"idle", "reserving", "provisioning", "preparing", "running", "reporting", "describing",
        "tearing", "finalising", "amending", "returned", "raised", "refused", "broken", "crashed"}
Over == {"returned", "raised", "refused", "broken", "crashed"}

TypeOK ==
  /\ pc \in [Runs -> Pcs] /\ mode \in [Runs -> Modes] /\ \A r \in Runs : RunId(r) \in Nat
  /\ runtime \in [Runs -> {"none", "warm", "quarantined", "cleanup_failed", "gone"}]
  /\ executionFailed \in [Runs -> BOOLEAN] /\ cleanupFailed \in [Runs -> BOOLEAN]
  /\ handle \in [Runs -> {"none", "completed", "failed"}]
  /\ \A p \in reports \cup metadata :
       p.run \in Runs /\ p.status \in {"completed", "failed"} /\ p.teardown \in Labels
  /\ lost \in 0..MaxLost
  /\ \A r \in Runs :
       /\ index[r] \in Seq(Cases(r))
       /\ \A row \in rows[r] : row.case \in Cases(r) /\ row.trace \in Cases(r) \cup {0}
       /\ \A w \in Team(r) : thread[r][w] \in {"running", "returning", "done", "raised"}

Init ==
  /\ pc = PerRun("idle") /\ mode = PerRun("own") /\ dir = PerRun(<<"nowhere", 1>>) /\ dirs = {}
  /\ runtime = PerRun("none") /\ reports = {} /\ metadata = {}
  /\ executionFailed = PerRun(FALSE) /\ cleanupFailed = PerRun(FALSE)
  /\ handle = PerRun("none")
  /\ thread = PerWorker("done") /\ case = PerWorker(0)
  /\ index = PerRun(<<>>) /\ rows = PerRun({}) /\ lost = 0
  /\ summaries = PerWorker(<<>>)

Set(f, r, value) == [f EXCEPT ![r] = value]
Goto(r, place) == pc' = Set(pc, r, place)
Put(f, r, w, value) == [f EXCEPT ![r][w] = value]

\* atomic_write_json: the old file or the new one, never a part of it.
Write(files, file) == {f \in files : f.dir # file.dir} \cup {file}

\* Once the threads were joined, or the process died, their memory is gone, and nobody
\* reads the trace files again.
CloseTraces(r) == index' = Set(index, r, <<>>) /\ rows' = Set(rows, r, {}) /\ UNCHANGED lost

Forget(r) ==
  /\ CloseTraces(r)
  /\ thread' = Set(thread, r, [w \in Team(r) |-> "done"])
  /\ case' = Set(case, r, [w \in Team(r) |-> 0])
  /\ summaries' = Set(summaries, r, [w \in Team(r) |-> <<>>])

Lose == lost < MaxLost /\ lost' = lost + 1
FilesOf(files, r) == {f \in files : f.dir = dir[r]}
----------------------------------------------------------------------------
(* The call: run_scenario, run_suite and their variants on a user's runtime *)

Call(r) ==
  /\ pc[r] = "idle" /\ Suite[r] # <<>>
  /\ \E m \in Kinds[r] :
       /\ mode' = Set(mode, r, m)
       /\ \/ m = "user" /\ \E s \in {"warm", "quarantined"} : runtime' = Set(runtime, r, s)
          \/ m # "user" /\ UNCHANGED runtime
  /\ \E root \in Roots[r] : dir' = Set(dir, r, <<root, 1>>)
  /\ Goto(r, "reserving")
  /\ UNCHANGED <<executionFailed, cleanupFailed, handle, fileVars, workerVars, traceVars>>

\* reserve_run_id: mkdir tells whether the directory was there; all runs start in
\* the same second, so that they try the same names.
NameTaken(r) ==
  /\ pc[r] = "reserving" /\ dir[r] \in dirs
  /\ dir' = Set(dir, r, <<dir[r][1], RunId(r) + 1>>)
  /\ UNCHANGED <<pc, mode, executionFailed, cleanupFailed, handle, runtime, fileVars,
                 workerVars, traceVars>>

ReserveRunId(r) ==
  /\ pc[r] = "reserving" /\ dir[r] \notin dirs
  /\ dirs' = dirs \cup {dir[r]}
  /\ Goto(r, IF mode[r] = "user" THEN "preparing" ELSE "provisioning")
  /\ UNCHANGED <<callVars, runtime, reports, metadata, workerVars, traceVars>>

\* No directory can be made.
ReserveFails(r) ==
  /\ pc[r] = "reserving"
  /\ Goto(r, "refused")
  /\ UNCHANGED <<callVars, runtime, fileVars, workerVars, traceVars>>

\* The runtime is named after the run id, which is unique in its artifacts
\* directory only: the runtime of a run with another one may have the name.
RuntimeNameTaken(r) ==
  \E q \in Runs \ {r} : /\ mode[q] # "user" /\ RunId(q) = RunId(r)
                        /\ runtime[q] \in {"warm", "quarantined", "cleanup_failed"}

Provision(r) ==
  /\ pc[r] = "provisioning" /\ ~RuntimeNameTaken(r)
  /\ runtime' = Set(runtime, r, "warm") /\ Goto(r, "preparing")
  /\ UNCHANGED <<callVars, fileVars, workerVars, traceVars>>

\* Provisioning raises, outside of the try: no report is written.
ProvisionFails(r) ==
  /\ pc[r] = "provisioning"
  /\ \/ UNCHANGED runtime
     \/ ~RuntimeNameTaken(r) /\ runtime' = Set(runtime, r, "cleanup_failed")
  /\ Goto(r, "refused")
  /\ UNCHANGED <<callVars, fileVars, workerVars, traceVars>>

\* An exception of _execute_on_runtime_pool.  A run on a user's runtime passes it on.
ExecutionFails(r) ==
  /\ executionFailed' = Set(executionFailed, r, TRUE)
  /\ Goto(r, CASE mode[r] = "own" -> "tearing" [] mode[r] = "kept" -> "finalising"
               [] OTHER -> "broken")
  /\ Forget(r)
  /\ UNCHANGED <<mode, dir, cleanupFailed, handle>>
----------------------------------------------------------------------------
(* execute_on_runtime_pool and _run_worker *)

\* assign_scenarios_to_workers deals the suite out in turn.
Share(r, w) == {i \in Cases(r) : (i - w) % Size[r] = 0}
Goes(r, w, i) == IF i \in Cases(r) THEN "running" ELSE "done"

Prepare(r) ==
  /\ pc[r] = "preparing" /\ runtime[r] = "warm"
  /\ case' = Set(case, r, [w \in Team(r) |-> w])
  /\ thread' = Set(thread, r, [w \in Team(r) |-> Goes(r, w, w)])
  /\ Goto(r, "running")
  /\ UNCHANGED <<mode, dir, executionFailed, cleanupFailed, handle, runtime, fileVars,
                 summaries, traceVars>>

\* The directories cannot be made, the runtime is not warm, or it has another
\* scale than the scenarios.
PrepareFails(r) ==
  /\ pc[r] = "preparing"
  /\ ExecutionFails(r)
  /\ UNCHANGED <<runtime, fileVars>>

\* The cases whose diagnosis carries the reference of its trace.
Referenced(r) == {index[r][k] : k \in DOMAIN index[r]}

\* The trajectory is written, then its row is appended under the writer's lock.
AppendIndex(r, i) == Append(index[r], i)
WriteCaseTrace(r, i) == index' = Set(index, r, AppendIndex(r, i))

\* The diagnosis callback; the diagnosis carries the reference.
Diagnose(r, w) ==
  /\ thread[r][w] = "running" /\ r \in Traced
  /\ WriteCaseTrace(r, case[r][w])
  /\ thread' = Put(thread, r, w, "returning")
  /\ UNCHANGED <<pc, callVars, runtime, fileVars, case, summaries, rows, lost>>

\* There is no writer, or the trace cannot be written, which is logged only.
DiagnoseUntraced(r, w) ==
  /\ thread[r][w] = "running"
  /\ IF r \in Traced THEN Lose ELSE UNCHANGED lost
  /\ thread' = Put(thread, r, w, "returning")
  /\ UNCHANGED <<pc, callVars, runtime, fileVars, case, summaries, index, rows>>

\* _trace_refs_by_episode, else the last row of the index with the scenario's id.
ByEpisode(r, i) == IF i \in Referenced(r) THEN {i} ELSE {}
ByScenario(r, i) ==
  LET same == {k \in DOMAIN index[r] : Suite[r][index[r][k]] = Suite[r][i]}
  IN {index[r][k] : k \in {n \in same : \A l \in same : l <= n}}
Best(first, second) ==
  LET found == IF first # {} THEN first ELSE second
  IN IF found = {} THEN 0 ELSE CHOOSE j \in found : TRUE

\* Mutant: the scenario's row comes before the reference.
ScenarioFirst(r, i) == Best(ByScenario(r, i), ByEpisode(r, i))

TraceOf(r, i) == Best(ByEpisode(r, i), ByScenario(r, i))

\* write_evaluation_results and write_failure_result; a failure is logged only.
AddRow(r, i) ==
  \/ /\ r \in Traced
     /\ rows' = Set(rows, r, rows[r] \cup {[case |-> i, trace |-> TraceOf(r, i)]})
     /\ UNCHANGED lost
  \/ UNCHANGED rows /\ IF r \in Traced THEN Lose ELSE UNCHANGED lost

Summary(r, w, o) ==
  [case |-> case[r][w],
   status |-> IF ~o.valid THEN "invalid"
              ELSE IF o.success /\ o.clean THEN "completed" ELSE "failed",
   cleanupFailed |-> ~o.clean]

\* Mutant: the scenarios that are skipped are not listed.
NoneListed(r, w) == <<>>

\* After a cleanup that failed the worker's other scenarios are skipped.
Skipped(r, w) ==
  LET left == Cardinality({i \in Share(r, w) : i > case[r][w]})
  IN [k \in 1..left |-> [case |-> case[r][w] + k * Size[r],
                         status |-> "skipped_infrastructure_failure", cleanupFailed |-> FALSE]]

Advance(r, w, o) ==
  LET next == case[r][w] + Size[r]
      listed == Append(summaries[r][w], Summary(r, w, o))
  IN /\ case' = Put(case, r, w, next)
     /\ IF o.clean
          THEN /\ summaries' = Put(summaries, r, w, listed)
               /\ thread' = Put(thread, r, w, Goes(r, w, next))
          ELSE /\ summaries' = Put(summaries, r, w, listed \o Skipped(r, w))
               /\ thread' = Put(thread, r, w, "done")

\* run_scenario returns, its result is persisted, scored and joined with the trace.
\* Whether a scenario whose cleanup failed was a success otherwise makes no difference.
Score(r, w) ==
  /\ thread[r][w] = "returning"
  /\ AddRow(r, case[r][w])
  /\ \E o \in Outcomes : o.valid /\ (o.success => o.clean) /\ Advance(r, w, o)
  /\ UNCHANGED <<pc, callVars, runtime, fileVars, index>>

\* The incident is broken or the preparation raised: there was no diagnosis, and
\* nothing is scored.
NotDiagnosed(r, w) ==
  /\ thread[r][w] = "running"
  /\ \E o \in Outcomes : ~o.valid /\ ~o.success /\ Advance(r, w, o)
  /\ UNCHANGED <<pc, callVars, runtime, fileVars, traceVars>>

\* An exception leaves _run_worker, and its lists are lost.
Raise(r, w) ==
  /\ thread' = Put(thread, r, w, "raised")
  /\ case' = Put(case, r, w, 0) /\ summaries' = Put(summaries, r, w, <<>>)

\* The worker's topology does not fit, the executor cannot be built, run_scenario
\* raises, its result cannot be persisted, or the executor cannot be closed.
WorkerFails(r, w) ==
  /\ thread[r][w] # "raised"
  /\ Raise(r, w)
  /\ UNCHANGED <<pc, callVars, runtime, fileVars, traceVars>>

\* The evaluator raises: the row says so.
ScoreFails(r, w) ==
  /\ thread[r][w] = "returning"
  /\ AddRow(r, case[r][w])
  /\ Raise(r, w)
  /\ UNCHANGED <<pc, callVars, runtime, fileVars, index>>

Entries(lists) == UNION {{lists[w][k] : k \in DOMAIN lists[w]} : w \in DOMAIN lists}
Joined(r) == pc[r] = "running" /\ \A w \in Team(r) : thread[r][w] \in {"done", "raised"}

\* _dispatch_workers waits for every worker, also when one has raised.
DispatchFails(r) ==
  /\ Joined(r) /\ \E w \in Team(r) : thread[r][w] = "raised"
  /\ ExecutionFails(r)
  /\ UNCHANGED <<runtime, fileVars>>

DispatchReturns(r) ==
  /\ Joined(r) /\ \A w \in Team(r) : thread[r][w] = "done"
  /\ runtime' = IF \E e \in Entries(summaries[r]) : e.cleanupFailed
                  THEN Set(runtime, r, "quarantined") ELSE runtime
  /\ CloseTraces(r) /\ Goto(r, "reporting")
  /\ UNCHANGED <<callVars, fileVars, workerVars>>
----------------------------------------------------------------------------
(* The first report and metadata *)

\* worker_success; create_run_report asks every worker.
WorkerSucceeded(r, w) == \A k \in DOMAIN summaries[r][w] : summaries[r][w][k].status = "completed"
Status(r) == IF \A w \in Team(r) : WorkerSucceeded(r, w) THEN "completed" ELSE "failed"
FirstLabel(r) ==
  CASE mode[r] = "own" -> "pending" [] mode[r] = "kept" -> "preserved" [] OTHER -> "skipped"

\* create_run_report, and the metadata with the same status.
FirstReport(r) ==
  [dir |-> dir[r], run |-> r, status |-> Status(r), teardown |-> FirstLabel(r),
   failed |-> FALSE, listed |-> TRUE, scenarios |-> summaries[r]]
FirstMetadata(r) ==
  [dir |-> dir[r], run |-> r, status |-> Status(r), teardown |-> FirstLabel(r)]

SaveReport(r) ==
  /\ pc[r] = "reporting"
  /\ reports' = Write(reports, FirstReport(r))
  /\ Goto(r, "describing")
  /\ UNCHANGED <<callVars, runtime, dirs, metadata, workerVars, traceVars>>

\* A handle is built from the same status.
SaveMetadata(r) ==
  /\ pc[r] = "describing"
  /\ metadata' = Write(metadata, FirstMetadata(r))
  /\ handle' = Set(handle, r, Status(r))
  /\ Goto(r, CASE mode[r] = "own" -> "tearing" [] mode[r] = "kept" -> "finalising"
               [] OTHER -> "returned")
  /\ Forget(r)
  /\ UNCHANGED <<mode, dir, executionFailed, cleanupFailed, runtime, dirs, reports>>

\* The quarantine cannot be recorded, the report cannot be made, or a file cannot be
\* written.
SaveFails(r) ==
  /\ pc[r] \in {"reporting", "describing"}
  /\ ExecutionFails(r)
  /\ UNCHANGED <<runtime, fileVars>>
----------------------------------------------------------------------------
(* The end of a run on a runtime of its own *)

TearDown(r) ==
  /\ pc[r] = "tearing"
  /\ runtime' = Set(runtime, r, "gone") /\ Goto(r, "finalising")
  /\ UNCHANGED <<callVars, fileVars, workerVars, traceVars>>

TearDownFails(r) ==
  /\ pc[r] = "tearing"
  /\ runtime' = Set(runtime, r, "cleanup_failed") /\ Goto(r, "finalising")
  /\ cleanupFailed' = Set(cleanupFailed, r, TRUE)
  /\ UNCHANGED <<mode, dir, executionFailed, handle, fileVars, workerVars, traceVars>>

\* _finalize_lifecycle_report
Failed(r) == executionFailed[r] \/ cleanupFailed[r]

\* Mutant: the label does not depend on how the teardown went.
PerformedAnyway(r) == IF mode[r] = "kept" THEN "preserved" ELSE "performed"

LastLabel(r) ==
  IF mode[r] = "kept" THEN "preserved" ELSE IF cleanupFailed[r] THEN "failed" ELSE "performed"

Amended(r, report) ==
  [report EXCEPT !.teardown = LastLabel(r), !.failed = Failed(r),
                 !.status = IF Failed(r) THEN "failed" ELSE @]

\* Built when the report is missing or cannot be read.
FailureReport(r) ==
  [dir |-> dir[r], run |-> r, status |-> "failed", teardown |-> LastLabel(r),
   failed |-> Failed(r), listed |-> FALSE, scenarios |-> [w \in Team(r) |-> <<>>]]

FinalizeReport(r) ==
  /\ pc[r] = "finalising"
  /\ \/ \E report \in FilesOf(reports, r) : reports' = Write(reports, Amended(r, report))
     \/ reports' = Write(reports, FailureReport(r))
  /\ Goto(r, "amending")
  /\ UNCHANGED <<callVars, runtime, dirs, metadata, workerVars, traceVars>>

LastStatus(r, report) == IF Failed(r) THEN "failed" ELSE report.status

\* RunHandle.refresh, from the report file.
Refreshed(report) == report.status

\* The failure is raised again, or the handle is refreshed; the report cannot be read
\* for that any more.
FinalizeMetadata(r) ==
  /\ pc[r] = "amending"
  /\ \E report \in FilesOf(reports, r) :
       /\ metadata' = Write(metadata, [dir |-> dir[r], run |-> r, status |-> LastStatus(r, report),
                                       teardown |-> LastLabel(r)])
       /\ \/ Failed(r) /\ Goto(r, "raised") /\ UNCHANGED handle
          \/ ~Failed(r) /\ Goto(r, "returned") /\ handle' = Set(handle, r, Refreshed(report))
          \/ ~Failed(r) /\ Goto(r, "broken") /\ UNCHANGED handle
  /\ UNCHANGED <<mode, dir, executionFailed, cleanupFailed, runtime, dirs, reports,
                 workerVars, traceVars>>

\* A write fails: its exception hides the one the run had.
FinalizeFails(r) ==
  /\ pc[r] \in {"finalising", "amending"}
  /\ Goto(r, "broken")
  /\ UNCHANGED <<callVars, runtime, fileVars, workerVars, traceVars>>

\* The process dies, or is interrupted: only Exception is caught.
Crash(r) ==
  /\ pc[r] \notin Over \cup {"idle"}
  /\ Cardinality({q \in Runs : pc[q] = "crashed"}) < MaxCrashes
  /\ Goto(r, "crashed")
  /\ Forget(r)
  /\ UNCHANGED <<callVars, runtime, fileVars>>
----------------------------------------------------------------------------
Starting(r) == \/ Call(r) \/ NameTaken(r) \/ ReserveRunId(r) \/ ReserveFails(r)
               \/ Provision(r) \/ ProvisionFails(r) \/ Prepare(r) \/ PrepareFails(r)

\* The threads of the workers live as long as the pool they run in.
Working(r, w) ==
  /\ pc[r] = "running"
  /\ \/ Diagnose(r, w) \/ DiagnoseUntraced(r, w) \/ NotDiagnosed(r, w)
     \/ WorkerFails(r, w) \/ Score(r, w) \/ ScoreFails(r, w)

Ending(r) ==
  \/ DispatchFails(r) \/ DispatchReturns(r) \/ SaveReport(r) \/ SaveMetadata(r) \/ SaveFails(r)
  \/ TearDown(r) \/ TearDownFails(r) \/ FinalizeReport(r) \/ FinalizeMetadata(r) \/ FinalizeFails(r)

Next == \E r \in Runs : \/ Starting(r) \/ Ending(r) \/ Crash(r)
                        \/ \E w \in Team(r) : Working(r, w)

Spec == Init /\ [][Next]_vars
----------------------------------------------------------------------------
(* Properties *)

\* A file that says the runtime is gone, kept or left behind is right, at any time
\* and whatever failed or crashed since: nobody looks for a runtime that is recorded
\* as torn down ("writes performed only after successful teardown").
TeardownTruthful ==
  \A f \in reports \cup metadata :
    /\ f.teardown = "performed" => runtime[f.run] = "gone"
    /\ f.teardown = "failed" => runtime[f.run] = "cleanup_failed"
    /\ f.teardown = "preserved" => runtime[f.run] \in {"warm", "quarantined"}

\* What is written in two files at two times agrees once both are written: a call that
\* returned shows the same status in its handle, report and metadata, and one that
\* raises what failed in it, or in its teardown, is failed in both.  Where the last of
\* the writes itself fails nothing is said: the report can be "failed" and the metadata
\* still "completed", and the call raises that write's exception.
RecordsAgree ==
  \A r \in Runs : pc[r] \in {"returned", "raised"} =>
    \E f \in FilesOf(reports, r), g \in FilesOf(metadata, r) :
      /\ f.run = r /\ g.run = r
      /\ f.status = g.status /\ f.teardown = g.teardown /\ f.teardown # "pending"
      /\ f.status = IF pc[r] = "raised" THEN "failed" ELSE handle[r]

RecordsTruthful == TeardownTruthful /\ RecordsAgree

\* A report of a dispatch that came to its end has every scenario of the suite once,
\* although workers stop early; it says "completed" exactly when all of them were
\* completed, until a failure of the run itself makes it "failed".
Places(lists, i) ==
  {x \in UNION {{w} \X DOMAIN lists[w] : w \in DOMAIN lists} : lists[x[1]][x[2]].case = i}

ReportAccounts ==
  \A f \in reports : f.listed =>
    /\ \A i \in Cases(f.run) : Cardinality(Places(f.scenarios, i)) = 1
    /\ f.status = "completed" <=> /\ ~f.failed
                                  /\ \A e \in Entries(f.scenarios) : e.status = "completed"
    /\ runtime[f.run] = "warm" => \A e \in Entries(f.scenarios) : ~e.cleanupFailed

\* A result row points to the trace of its own diagnosis where the diagnosis has one,
\* and never to the trace of another scenario, in whatever order the workers append.
RowsOwnTrace ==
  \A r \in Runs : \A row \in rows[r] :
    /\ row.trace # 0 => Suite[r][row.trace] = Suite[r][row.case]
    /\ row.case \in Referenced(r) => row.trace = row.case
=============================================================================
