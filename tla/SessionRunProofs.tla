-------------------------- MODULE SessionRunProofs --------------------------
(***************************************************************************)
(* What a run leaves in report.json and metadata.json is true and agrees,  *)
(* for any number of runs, workers, scenarios, failures and crashes.       *)
(***************************************************************************)
EXTENDS SessionRun, FiniteSetTheorems, FunctionTheorems, TLAPS

Files == reports \cup metadata

\* The places of a call that has written nothing yet, of one that has said how its
\* runtime ended, of one whose directory is its own, and of one that is not yet torn down.
Unrecorded == {"idle", "reserving", "provisioning", "preparing", "running"}
Labelled == {"amending", "returned", "raised", "broken", "crashed"}
Holding == {"provisioning", "preparing", "running", "reporting", "describing", "tearing",
            "finalising", "amending", "returned", "raised"}
Before == Unrecorded \cup {"reporting", "describing", "tearing"}

Functions ==
  /\ DOMAIN pc = Runs /\ DOMAIN mode = Runs /\ DOMAIN dir = Runs /\ DOMAIN runtime = Runs
  /\ DOMAIN executionFailed = Runs /\ DOMAIN cleanupFailed = Runs /\ DOMAIN handle = Runs
  /\ DOMAIN summaries = Runs

\* What is known of the runtime where the call is.
RunInv(r) ==
  /\ pc[r] \in Before => ~cleanupFailed[r]
  /\ pc[r] = "reserving" /\ mode[r] = "user" => runtime[r] \in {"warm", "quarantined"}
  /\ pc[r] \in {"preparing", "running", "reporting", "describing"} =>
       runtime[r] \in {"warm", "quarantined"}
  /\ pc[r] = "tearing" => mode[r] = "own"
  /\ pc[r] \in {"finalising", "amending"} =>
       \/ mode[r] = "kept" /\ ~cleanupFailed[r] /\ runtime[r] \in {"warm", "quarantined"}
       \/ mode[r] = "own" /\ cleanupFailed[r] /\ runtime[r] = "cleanup_failed"
       \/ mode[r] = "own" /\ ~cleanupFailed[r] /\ runtime[r] = "gone"

\* Nobody else has the directory of a run or a file in it.
DirInv(r) ==
  pc[r] \in Holding =>
    /\ dir[r] \in dirs
    /\ \A q \in Runs : pc[q] \in Holding /\ dir[q] = dir[r] => q = r
    /\ \A f \in Files : f.dir = dir[r] => f.run = r

\* What a file says of the runtime, and where the call that wrote it can be.
FileInv(f) ==
  /\ f.run \in Runs /\ f.dir \in dirs /\ pc[f.run] \notin Unrecorded
  /\ f.teardown \in {"performed", "failed"} => pc[f.run] \in Labelled
  /\ f.teardown = "performed" => runtime[f.run] = "gone"
  /\ f.teardown = "failed" => runtime[f.run] = "cleanup_failed"
  /\ f.teardown = "preserved" => mode[f.run] = "kept" /\ runtime[f.run] \in {"warm", "quarantined"}

Fields == {"dir", "run", "status", "teardown", "failed", "listed", "scenarios"}
ReportFields == \A f \in reports : Fields \subseteq DOMAIN f

\* How far the two files agree where the call is.
Agree(r) ==
  \E f \in FilesOf(reports, r), g \in FilesOf(metadata, r) :
    /\ f.run = r /\ g.run = r
    /\ f.status = g.status /\ f.teardown = g.teardown /\ f.teardown # "pending"
    /\ f.status = IF pc[r] = "raised" THEN "failed" ELSE handle[r]

AgreeInv(r) ==
  /\ pc[r] = "describing" =>
       \E f \in FilesOf(reports, r) :
         f.run = r /\ f.status = Status(r) /\ f.teardown = FirstLabel(r)
  /\ pc[r] = "amending" =>
       \A f \in FilesOf(reports, r) :
         f.run = r /\ f.teardown = LastLabel(r) /\ (Failed(r) => f.status = "failed")
  /\ pc[r] \in {"returned", "raised"} => Agree(r)

SessionInv ==
  /\ Functions /\ ReportFields
  /\ \A r \in Runs : RunInv(r)
  /\ \A r \in Runs : DirInv(r)
  /\ \A f \in Files : FileInv(f)
  /\ \A r \in Runs : AgreeInv(r)
----------------------------------------------------------------------------
(* A step is one call's, and the others notice only files and directories. *)

Step(r) == Starting(r) \/ Ending(r) \/ Crash(r) \/ \E w \in Team(r) : Working(r, w)

OthersKept(r) ==
  \A q \in Runs : q # r =>
    /\ pc'[q] = pc[q] /\ mode'[q] = mode[q] /\ dir'[q] = dir[q] /\ runtime'[q] = runtime[q]
    /\ executionFailed'[q] = executionFailed[q] /\ cleanupFailed'[q] = cleanupFailed[q]
    /\ handle'[q] = handle[q] /\ summaries'[q] = summaries[q]

Calls == <<pc, mode, dir, runtime, executionFailed, cleanupFailed, handle, summaries>>

LEMMA OneMoves ==
  ASSUME Functions, NEW r \in Runs, Step(r)
  PROVE  OthersKept(r) /\ Functions'
<1>1. CASE Starting(r)
  <2>1. CASE Call(r) \/ NameTaken(r) \/ ReserveRunId(r) \/ ReserveFails(r)
    BY <2>1 DEF Call, NameTaken, ReserveRunId, ReserveFails, Goto, Set, Functions, OthersKept,
                callVars, fileVars, workerVars, traceVars
  <2>2. CASE Provision(r) \/ ProvisionFails(r) \/ Prepare(r)
    BY <2>2 DEF Provision, ProvisionFails, Prepare, Goto, Set, Functions, OthersKept, callVars,
                fileVars, workerVars, traceVars
  <2>3. CASE PrepareFails(r)
    BY <2>3 DEF PrepareFails, ExecutionFails, Forget, CloseTraces, Goto, Set, Functions, OthersKept,
                fileVars
  <2> QED  BY <1>1, <2>1, <2>2, <2>3 DEF Starting
<1>2. CASE Ending(r)
  <2>1. CASE DispatchFails(r) \/ SaveFails(r)
    BY <2>1 DEF DispatchFails, SaveFails, ExecutionFails, Forget, CloseTraces, Goto, Set, Functions,
                OthersKept, fileVars
  <2>2. CASE DispatchReturns(r)
    BY <2>2 DEF DispatchReturns, CloseTraces, Goto, Set, Functions, OthersKept, callVars, fileVars,
                workerVars
  <2>3. CASE SaveReport(r) \/ SaveMetadata(r)
    BY <2>3 DEF SaveReport, SaveMetadata, Forget, CloseTraces, Goto, Set, Functions, OthersKept,
                callVars, workerVars, traceVars
  <2>4. CASE TearDown(r) \/ TearDownFails(r) \/ FinalizeFails(r)
    BY <2>4 DEF TearDown, TearDownFails, FinalizeFails, Goto, Set, Functions, OthersKept, callVars,
                fileVars, workerVars, traceVars
  <2>5. CASE FinalizeReport(r) \/ FinalizeMetadata(r)
    BY <2>5 DEF FinalizeReport, FinalizeMetadata, Goto, Set, Functions, OthersKept, callVars,
                fileVars, workerVars, traceVars
  <2> QED  BY <1>2, <2>1, <2>2, <2>3, <2>4, <2>5 DEF Ending
<1>3. CASE Crash(r)
  BY <1>3 DEF Crash, Forget, CloseTraces, Goto, Set, Functions, OthersKept, callVars, fileVars
<1>4. ASSUME NEW w \in Team(r), Working(r, w)
      PROVE  OthersKept(r) /\ Functions'
  <2>1. CASE Diagnose(r, w) \/ DiagnoseUntraced(r, w)
    BY <2>1 DEF Diagnose, DiagnoseUntraced, Put, Functions, OthersKept, callVars, fileVars
  <2>2. CASE NotDiagnosed(r, w) \/ Score(r, w)
    BY <2>2 DEF NotDiagnosed, Score, Advance, Put, Functions, OthersKept, callVars, fileVars, traceVars
  <2>3. CASE WorkerFails(r, w) \/ ScoreFails(r, w)
    BY <2>3 DEF WorkerFails, ScoreFails, Raise, Put, Functions, OthersKept, callVars, fileVars, traceVars
  <2> QED  BY <1>4, <2>1, <2>2, <2>3 DEF Working
<1> QED  BY <1>1, <1>2, <1>3, <1>4 DEF Step

----------------------------------------------------------------------------
(* The invariant *)

\* A step that writes no file and does not end the call with an answer.
Quiet(r) ==
  /\ UNCHANGED <<reports, metadata, dirs>>
  /\ dir'[r] = dir[r] /\ mode'[r] = mode[r] /\ handle'[r] = handle[r]
  /\ pc'[r] \notin {"describing", "amending", "returned", "raised"}
  /\ pc'[r] \in Holding => pc[r] \in Holding
  /\ pc[r] \notin Unrecorded => pc'[r] \notin Unrecorded
  /\ pc[r] \in Labelled => pc'[r] \in Labelled
  /\ pc[r] \notin Unrecorded /\ runtime'[r] # runtime[r] => pc[r] = "tearing"

LEMMA FilesStayAgreed ==
  ASSUME SessionInv, NEW r \in Runs, OthersKept(r), Functions', NEW q \in Runs, q # r,
         FilesOf(reports, q)' = FilesOf(reports, q),
         FilesOf(metadata, q)' = FilesOf(metadata, q)
  PROVE  AgreeInv(q)'
<1>1. /\ pc'[q] = pc[q] /\ mode'[q] = mode[q] /\ handle'[q] = handle[q]
      /\ summaries'[q] = summaries[q]
      /\ executionFailed'[q] = executionFailed[q] /\ cleanupFailed'[q] = cleanupFailed[q]
  BY DEF OthersKept
<1>2. AgreeInv(q)
  BY DEF SessionInv
<1>3. Status(q)' = Status(q)
  BY <1>1 DEF Status, WorkerSucceeded, Team
<1>4. FirstLabel(q)' = FirstLabel(q) /\ LastLabel(q)' = LastLabel(q) /\ (Failed(q)' <=> Failed(q))
  BY <1>1 DEF FirstLabel, LastLabel, Failed
<1> QED
  BY <1>1, <1>2, <1>3, <1>4 DEF AgreeInv, Agree

LEMMA QuietSteps ==
  ASSUME SessionInv, NEW r \in Runs, OthersKept(r), Functions', Quiet(r), RunInv(r)'
  PROVE  SessionInv'
<1>1. \A q \in Runs : RunInv(q)'
  BY DEF OthersKept, RunInv, SessionInv
<1>2. \A q \in Runs : DirInv(q)'
  BY DEF OthersKept, Quiet, DirInv, SessionInv, Files
<1>3. ASSUME NEW f \in Files'
      PROVE  FileInv(f)'
  <2>1. f \in Files /\ FileInv(f) /\ f.run \in Runs /\ RunInv(f.run)
    BY <1>3 DEF Quiet, Files, SessionInv, FileInv
  <2>2. CASE f.run # r
    BY <2>1, <2>2 DEF OthersKept, FileInv, Quiet
  <2>3. CASE f.run = r
    BY <2>1, <2>3 DEF FileInv, Quiet, RunInv, Labelled
  <2> QED  BY <2>2, <2>3
<1>4. ASSUME NEW q \in Runs
      PROVE  AgreeInv(q)'
  <2>1. CASE q = r
    BY <2>1 DEF Quiet, AgreeInv
  <2>2. CASE q # r
    BY <2>2, FilesStayAgreed DEF Quiet, OthersKept, FilesOf
  <2> QED  BY <2>1, <2>2
<1>5. ReportFields'
  BY DEF Quiet, ReportFields, SessionInv
<1> QED  BY <1>1, <1>2, <1>3, <1>4, <1>5 DEF SessionInv

LEMMA QuietOnes ==
  ASSUME SessionInv, NEW r \in Runs,
         \/ ReserveFails(r) \/ Provision(r) \/ ProvisionFails(r) \/ Prepare(r) \/ PrepareFails(r)
         \/ DispatchFails(r) \/ DispatchReturns(r) \/ SaveFails(r)
         \/ TearDown(r) \/ TearDownFails(r) \/ FinalizeFails(r) \/ Crash(r)
         \/ \E w \in Team(r) : Working(r, w)
  PROVE  Quiet(r) /\ RunInv(r)'
<1> USE DEF Quiet, RunInv, Holding, Unrecorded, Labelled, Before
<1>1. Functions /\ RunInv(r)
  BY DEF SessionInv
<1>2. CASE ReserveFails(r) \/ Provision(r) \/ ProvisionFails(r) \/ Prepare(r)
  BY <1>1, <1>2 DEF ReserveFails, Provision, ProvisionFails, Prepare, Goto, Set, Functions, callVars,
                    fileVars
<1>3. CASE PrepareFails(r) \/ DispatchFails(r) \/ SaveFails(r)
  <2>1. /\ pc[r] \in {"preparing", "running", "reporting", "describing"}
        /\ ExecutionFails(r) /\ UNCHANGED <<runtime, fileVars>>
    BY <1>3 DEF PrepareFails, DispatchFails, Joined, SaveFails
  <2>2. /\ pc' = Set(pc, r, CASE mode[r] = "own" -> "tearing" [] mode[r] = "kept" -> "finalising"
                              [] OTHER -> "broken")
        /\ UNCHANGED <<mode, dir, cleanupFailed, handle>>
    BY <2>1 DEF ExecutionFails, Goto
  <2>3. CASE mode[r] = "own"
    BY <1>1, <2>1, <2>2, <2>3 DEF Functions, Set, fileVars
  <2>4. CASE mode[r] = "kept"
    BY <1>1, <2>1, <2>2, <2>4 DEF Functions, Set, fileVars
  <2>5. CASE mode[r] \notin {"own", "kept"}
    BY <1>1, <2>1, <2>2, <2>5 DEF Functions, Set, fileVars
  <2> QED  BY <2>3, <2>4, <2>5
<1>4. CASE DispatchReturns(r)
  BY <1>1, <1>4 DEF DispatchReturns, Joined, Goto, Set, Functions, callVars, fileVars
<1>5. CASE TearDown(r) \/ TearDownFails(r) \/ FinalizeFails(r)
  BY <1>1, <1>5 DEF TearDown, TearDownFails, FinalizeFails, Goto, Set, Functions, callVars, fileVars
<1>6. CASE Crash(r)
  BY <1>1, <1>6 DEF Crash, Over, Goto, Set, Functions, callVars, fileVars
<1>7. ASSUME NEW w \in Team(r), Working(r, w)
      PROVE  Quiet(r) /\ RunInv(r)'
  <2>1. pc[r] = "running" /\ UNCHANGED <<pc, callVars, runtime, fileVars>>
    BY <1>7 DEF Working, Diagnose, DiagnoseUntraced, NotDiagnosed, WorkerFails, Score, ScoreFails
  <2> QED  BY <1>1, <2>1 DEF callVars, fileVars
<1> QED  BY <1>2, <1>3, <1>4, <1>5, <1>6, <1>7

\* Before it has a directory a call has no file.
LEMMA StartKeepsInv ==
  ASSUME SessionInv, NEW r \in Runs, OthersKept(r), Functions', Call(r) \/ NameTaken(r)
  PROVE  SessionInv'
<1>1. /\ pc[r] \in {"idle", "reserving"} /\ pc'[r] = "reserving"
      /\ UNCHANGED <<reports, metadata, dirs>> /\ cleanupFailed'[r] = cleanupFailed[r]
      /\ mode'[r] = "user" => runtime'[r] \in {"warm", "quarantined"}
  <2>1. CASE Call(r)
    BY <2>1 DEF Call, Goto, Set, fileVars, SessionInv, Functions
  <2>2. CASE NameTaken(r)
    BY <2>2 DEF NameTaken, fileVars, SessionInv, Functions, RunInv
  <2> QED  BY <2>1, <2>2
<1>2. \A q \in Runs : RunInv(q)'
  BY <1>1 DEF OthersKept, RunInv, SessionInv, Before, Unrecorded
<1>3. \A q \in Runs : DirInv(q)'
  BY <1>1 DEF OthersKept, DirInv, SessionInv, Files, Holding
<1>4. ASSUME NEW f \in Files'
      PROVE  FileInv(f)'
  <2>1. f \in Files /\ FileInv(f) /\ f.run \in Runs /\ f.run # r
    BY <1>1, <1>4 DEF Files, SessionInv, FileInv, Unrecorded
  <2> QED  BY <1>1, <2>1 DEF OthersKept, FileInv
<1>5. ASSUME NEW q \in Runs
      PROVE  AgreeInv(q)'
  <2>1. CASE q = r
    BY <1>1, <2>1 DEF AgreeInv
  <2>2. CASE q # r
    BY <1>1, <2>2, FilesStayAgreed DEF OthersKept, FilesOf
  <2> QED  BY <2>1, <2>2
<1>6. ReportFields'
  BY <1>1 DEF ReportFields, SessionInv
<1> QED  BY <1>2, <1>3, <1>4, <1>5, <1>6 DEF SessionInv

\* The directory is new, so nobody has a file in it.
LEMMA ReserveKeepsInv ==
  ASSUME SessionInv, NEW r \in Runs, OthersKept(r), Functions', ReserveRunId(r)
  PROVE  SessionInv'
<1>1. /\ pc[r] = "reserving" /\ dir[r] \notin dirs /\ dirs' = dirs \cup {dir[r]}
      /\ pc'[r] \in {"provisioning", "preparing"} /\ dir'[r] = dir[r]
      /\ UNCHANGED <<reports, metadata>> /\ cleanupFailed'[r] = cleanupFailed[r]
  BY DEF ReserveRunId, Goto, Set, callVars, SessionInv, Functions
<1>2. \A q \in Runs : RunInv(q)'
  <2>1. RunInv(r)'
    BY DEF ReserveRunId, Goto, Set, callVars, SessionInv, Functions, RunInv, Before, Unrecorded
  <2>2. \A q \in Runs : q # r => RunInv(q)'
    BY DEF OthersKept, RunInv, SessionInv
  <2> QED  BY <2>1, <2>2
<1>3. \A f \in Files : f.dir # dir[r]
  BY <1>1 DEF SessionInv, FileInv
<1>4. \A q \in Runs : pc[q] \in Holding => dir[q] # dir[r]
  BY <1>1 DEF SessionInv, DirInv
<1>5. ASSUME NEW q \in Runs
      PROVE  DirInv(q)'
  <2>1. CASE q = r
    BY <1>1, <1>3, <1>4, <2>1 DEF OthersKept, DirInv, Files, Holding
  <2>2. CASE q # r
    BY <1>1, <1>4, <2>2 DEF OthersKept, DirInv, Files, Holding, SessionInv
  <2> QED  BY <2>1, <2>2
<1>6. ASSUME NEW f \in Files'
      PROVE  FileInv(f)'
  <2>1. f \in Files /\ FileInv(f) /\ f.run \in Runs /\ f.run # r
    BY <1>1, <1>6 DEF Files, SessionInv, FileInv, Unrecorded
  <2> QED  BY <1>1, <2>1 DEF OthersKept, FileInv
<1>7. ASSUME NEW q \in Runs
      PROVE  AgreeInv(q)'
  <2>1. CASE q = r
    BY <1>1, <2>1 DEF AgreeInv
  <2>2. CASE q # r
    BY <1>1, <2>2, FilesStayAgreed DEF OthersKept, FilesOf
  <2> QED  BY <2>1, <2>2
<1>8. ReportFields'
  BY <1>1 DEF ReportFields, SessionInv
<1> QED  BY <1>2, <1>5, <1>6, <1>7, <1>8 DEF SessionInv

(* The steps that write a file *)

\* The new file takes the place of the old one in the writer's own directory.
LEMMA WriteKeepsOthers ==
  ASSUME SessionInv, NEW r \in Runs, OthersKept(r), Functions',
         pc[r] \in Holding, pc'[r] \in Holding \cup {"broken"}, dir'[r] = dir[r], mode'[r] = mode[r],
         runtime'[r] = runtime[r], dirs' = dirs,
         pc[r] \notin Unrecorded, pc'[r] \notin Unrecorded, pc[r] \in Labelled => pc'[r] \in Labelled,
         NEW file, file.dir = dir[r], file.run = r, FileInv(file)',
         \/ /\ reports' = Write(reports, file) /\ metadata' = metadata
            /\ Fields \subseteq DOMAIN file
         \/ metadata' = Write(metadata, file) /\ reports' = reports,
         RunInv(r)', AgreeInv(r)'
  PROVE  SessionInv'
<1>1. \A f \in Files' : f \in Files \/ f = file
  BY DEF Files, Write
<1>2. \A q \in Runs : RunInv(q)'
  BY DEF OthersKept, RunInv, SessionInv
<1>3. ASSUME NEW q \in Runs
      PROVE  DirInv(q)'
  <2>1. CASE q = r
    BY <1>1, <2>1 DEF OthersKept, DirInv, SessionInv
  <2>2. CASE q # r
    BY <1>1, <2>2 DEF OthersKept, DirInv, SessionInv
  <2> QED  BY <2>1, <2>2
<1>4. ASSUME NEW f \in Files'
      PROVE  FileInv(f)'
  <2>1. CASE f = file
    BY <2>1
  <2>2. CASE f \in Files
    BY <2>2 DEF OthersKept, FileInv, SessionInv
  <2> QED  BY <1>1, <2>1, <2>2
<1>5. ASSUME NEW q \in Runs
      PROVE  AgreeInv(q)'
  <2>1. CASE q = r
    BY <2>1
  <2>2. CASE q # r /\ dir[q] # dir[r]
    <3>1. FilesOf(reports, q)' = FilesOf(reports, q) /\ FilesOf(metadata, q)' = FilesOf(metadata, q)
      BY <2>2 DEF FilesOf, Write, OthersKept
    <3> QED  BY <2>2, <3>1, FilesStayAgreed
  <2>3. CASE q # r /\ dir[q] = dir[r]
    <3>1. pc[q] \notin Holding
      BY <2>3 DEF SessionInv, DirInv
    <3> QED  BY <2>3, <3>1 DEF AgreeInv, OthersKept, Holding
  <2> QED  BY <2>1, <2>2, <2>3
<1>6. ReportFields'
  BY DEF ReportFields, SessionInv, Write
<1> QED  BY <1>2, <1>3, <1>4, <1>5, <1>6 DEF SessionInv

LEMMA SaveReportKeepsInv ==
  ASSUME SessionInv, NEW r \in Runs, OthersKept(r), Functions', SaveReport(r)
  PROVE  SessionInv'
<1>1. /\ pc[r] = "reporting" /\ pc'[r] = "describing"
      /\ reports' = Write(reports, FirstReport(r))
      /\ UNCHANGED <<callVars, runtime, dirs, metadata, workerVars, traceVars>>
  BY DEF SaveReport, Goto, Set, SessionInv, Functions
<1>2. PICK file : /\ reports' = Write(reports, file)
                  /\ file.dir = dir[r] /\ file.run = r /\ file.status = Status(r)
                  /\ file.teardown = FirstLabel(r) /\ Fields \subseteq DOMAIN file
  <2>1. /\ FirstReport(r).dir = dir[r] /\ FirstReport(r).run = r
        /\ FirstReport(r).status = Status(r) /\ FirstReport(r).teardown = FirstLabel(r)
        /\ Fields \subseteq DOMAIN FirstReport(r)
    BY DEF FirstReport, Fields
  <2> QED  BY <1>1, <2>1
<1>3. RunInv(r) /\ DirInv(r)
  BY DEF SessionInv
<1>4. RunInv(r)'
  BY <1>1, <1>3 DEF RunInv, callVars, Before, Unrecorded
<1>5. FileInv(file)'
  <2>1. /\ FirstLabel(r) \in {"pending", "preserved", "skipped"}
        /\ FirstLabel(r) = "preserved" => mode[r] = "kept"
    BY DEF FirstLabel
  <2> QED  BY <1>1, <1>2, <1>3, <2>1 DEF FileInv, RunInv, DirInv, callVars, Unrecorded, Holding
<1>6. AgreeInv(r)'
  <2>1. file \in FilesOf(reports, r)'
    BY <1>1, <1>2 DEF FilesOf, Write, callVars
  <2>2. Status(r)' = Status(r) /\ FirstLabel(r)' = FirstLabel(r)
    BY <1>1 DEF Status, WorkerSucceeded, FirstLabel, workerVars, callVars
  <2> QED  BY <1>1, <1>2, <2>1, <2>2 DEF AgreeInv
<1> QED
  BY <1>1, <1>2, <1>4, <1>5, <1>6, WriteKeepsOthers DEF callVars, Holding, Unrecorded, Labelled

\* The metadata says what the report said, and so does the handle.
LEMMA SaveMetadataKeepsInv ==
  ASSUME SessionInv, NEW r \in Runs, OthersKept(r), Functions', SaveMetadata(r)
  PROVE  SessionInv'
<1>1. /\ pc[r] = "describing"
      /\ metadata' = Write(metadata, FirstMetadata(r))
      /\ handle'[r] = Status(r)
      /\ UNCHANGED <<mode, dir, executionFailed, cleanupFailed, runtime, dirs, reports>>
  BY DEF SaveMetadata, Set, SessionInv, Functions
<1>2. /\ mode[r] = "own" => pc'[r] = "tearing"
      /\ mode[r] = "kept" => pc'[r] = "finalising"
      /\ mode[r] \notin {"own", "kept"} => pc'[r] = "returned"
  BY DEF SaveMetadata, Goto, Set, SessionInv, Functions
<1>3. PICK file : /\ metadata' = Write(metadata, file)
                  /\ file.dir = dir[r] /\ file.run = r /\ file.status = Status(r)
                  /\ file.teardown = FirstLabel(r)
  <2>1. /\ FirstMetadata(r).dir = dir[r] /\ FirstMetadata(r).run = r
        /\ FirstMetadata(r).status = Status(r) /\ FirstMetadata(r).teardown = FirstLabel(r)
    BY DEF FirstMetadata
  <2> QED  BY <1>1, <2>1
<1>4. RunInv(r) /\ DirInv(r) /\ AgreeInv(r)
  BY DEF SessionInv
<1>5. RunInv(r)'
  BY <1>1, <1>2, <1>4 DEF RunInv, Before, Unrecorded
<1>6. FileInv(file)'
  <2>1. /\ FirstLabel(r) \in {"pending", "preserved", "skipped"}
        /\ FirstLabel(r) = "preserved" => mode[r] = "kept"
    BY DEF FirstLabel
  <2> QED  BY <1>1, <1>2, <1>3, <1>4, <2>1 DEF FileInv, RunInv, DirInv, Unrecorded, Holding
<1>7. AgreeInv(r)'
  <2>1. file \in FilesOf(metadata, r)'
    BY <1>1, <1>3 DEF FilesOf, Write
  <2>2. PICK f \in FilesOf(reports, r) :
          f.run = r /\ f.status = Status(r) /\ f.teardown = FirstLabel(r)
    BY <1>1, <1>4 DEF AgreeInv
  <2>3. f \in FilesOf(reports, r)'
    BY <1>1, <2>2 DEF FilesOf
  <2>4. CASE pc'[r] = "returned"
    <3>1. FirstLabel(r) = "skipped"
      BY <1>2, <2>4 DEF FirstLabel
    <3> QED  BY <1>1, <1>3, <2>1, <2>2, <2>3, <2>4, <3>1 DEF AgreeInv, Agree
  <2>5. CASE pc'[r] \in {"tearing", "finalising"}
    BY <2>5 DEF AgreeInv
  <2> QED  BY <1>2, <2>4, <2>5
<1> QED
  BY <1>1, <1>2, <1>3, <1>5, <1>6, <1>7, WriteKeepsOthers DEF Holding, Unrecorded, Labelled

LastReport(r, file) ==
  /\ file.dir = dir[r] /\ file.run = r /\ Fields \subseteq DOMAIN file
  /\ file.teardown = LastLabel(r) /\ (Failed(r) => file.status = "failed")

\* The report is amended or made anew: what it says of the runtime is how the teardown went.
LEMMA FinalizeReportKeepsInv ==
  ASSUME SessionInv, NEW r \in Runs, OthersKept(r), Functions', FinalizeReport(r)
  PROVE  SessionInv'
<1>1. /\ pc[r] = "finalising" /\ pc'[r] = "amending"
      /\ UNCHANGED <<callVars, runtime, dirs, metadata>>
  BY DEF FinalizeReport, Goto, Set, SessionInv, Functions
<1>2. RunInv(r) /\ DirInv(r)
  BY DEF SessionInv
<1>3. PICK file : LastReport(r, file) /\ reports' = Write(reports, file)
  <2>1. LastReport(r, FailureReport(r))
    BY DEF FailureReport, LastReport, Fields
  <2>2. ASSUME NEW report \in FilesOf(reports, r)
        PROVE  LastReport(r, Amended(r, report))
    <3>1. report \in reports /\ report.dir = dir[r]
      BY DEF FilesOf
    <3>2. report.run = r /\ Fields \subseteq DOMAIN report
      BY <1>1, <1>2, <3>1 DEF SessionInv, DirInv, Holding, Files, ReportFields
    <3> QED  BY <3>1, <3>2 DEF Amended, LastReport, Fields
  <2> QED  BY <2>1, <2>2 DEF FinalizeReport
<1>4. RunInv(r)'
  BY <1>1, <1>2 DEF RunInv, callVars, Before, Unrecorded
<1>5. FileInv(file)'
  BY <1>1, <1>2, <1>3 DEF LastReport, LastLabel, FileInv, RunInv, DirInv, callVars, Unrecorded, Holding, Labelled
<1>6. AgreeInv(r)'
  <2>1. FilesOf(reports, r)' = {file}
    BY <1>1, <1>3 DEF LastReport, FilesOf, Write, callVars
  <2>2. LastLabel(r)' = LastLabel(r) /\ (Failed(r)' <=> Failed(r))
    BY <1>1 DEF LastLabel, Failed, callVars
  <2> QED  BY <1>1, <1>3, <2>1, <2>2 DEF LastReport, AgreeInv
<1> QED
  BY <1>1, <1>3, <1>4, <1>5, <1>6, WriteKeepsOthers DEF LastReport, callVars, Holding, Unrecorded, Labelled

\* The metadata and the handle take the status of the last report.
LEMMA FinalizeMetadataKeepsInv ==
  ASSUME SessionInv, NEW r \in Runs, OthersKept(r), Functions', FinalizeMetadata(r)
  PROVE  SessionInv'
<1>1. PICK report \in FilesOf(reports, r) :
        /\ metadata' = Write(metadata, [dir |-> dir[r], run |-> r, status |-> LastStatus(r, report),
                                        teardown |-> LastLabel(r)])
        /\ \/ Failed(r) /\ Goto(r, "raised") /\ UNCHANGED handle
           \/ ~Failed(r) /\ Goto(r, "returned") /\ handle' = Set(handle, r, Refreshed(report))
           \/ ~Failed(r) /\ Goto(r, "broken") /\ UNCHANGED handle
  BY DEF FinalizeMetadata
<1> DEFINE new == [dir |-> dir[r], run |-> r, status |-> LastStatus(r, report),
                   teardown |-> LastLabel(r)]
<1>2. /\ pc[r] = "amending" /\ metadata' = Write(metadata, new)
      /\ UNCHANGED <<mode, dir, executionFailed, cleanupFailed, runtime, dirs, reports>>
  BY <1>1 DEF FinalizeMetadata
<1>3. /\ Failed(r) => pc'[r] = "raised"
      /\ ~Failed(r) => \/ pc'[r] = "broken"
                       \/ pc'[r] = "returned" /\ handle'[r] = report.status
  BY <1>1 DEF Goto, Set, Refreshed, SessionInv, Functions
<1>4. PICK file : /\ metadata' = Write(metadata, file)
                  /\ file.dir = dir[r] /\ file.run = r /\ file.status = LastStatus(r, report)
                  /\ file.teardown = LastLabel(r)
  <2>1. /\ new.dir = dir[r] /\ new.run = r /\ new.status = LastStatus(r, report)
        /\ new.teardown = LastLabel(r)
    OBVIOUS
  <2> HIDE DEF new
  <2> QED  BY <1>2, <2>1
<1>5. RunInv(r) /\ DirInv(r) /\ AgreeInv(r)
  BY DEF SessionInv
<1>6. report.run = r /\ report.teardown = LastLabel(r) /\ (Failed(r) => report.status = "failed")
  BY <1>2, <1>5 DEF AgreeInv
<1>7. RunInv(r)'
  BY <1>3, <1>5 DEF RunInv, Before, Unrecorded
<1>8. FileInv(file)'
  BY <1>2, <1>3, <1>4, <1>5 DEF LastLabel, FileInv, RunInv, DirInv, Unrecorded, Holding, Labelled
<1>9. AgreeInv(r)'
  <2>1. file \in FilesOf(metadata, r)' /\ report \in FilesOf(reports, r)'
    BY <1>2, <1>4 DEF FilesOf, Write
  <2>2. LastLabel(r) # "pending"
    BY DEF LastLabel
  <2> QED  BY <1>3, <1>4, <1>6, <2>1, <2>2 DEF AgreeInv, Agree, LastStatus
<1> QED
  BY <1>2, <1>3, <1>4, <1>7, <1>8, <1>9, WriteKeepsOthers DEF Holding, Unrecorded, Labelled

----------------------------------------------------------------------------
(* The theorems *)

LEMMA SessionStarts == Init => SessionInv
BY DEF Init, PerRun, PerWorker, SessionInv, Functions, ReportFields, RunInv, DirInv, FileInv, AgreeInv,
       Files, Holding, Before, Unrecorded

LEMMA SessionSteps == SessionInv /\ [Next]_vars => SessionInv'
<1> SUFFICES ASSUME SessionInv, [Next]_vars
             PROVE  SessionInv'
  OBVIOUS
<1>1. CASE UNCHANGED vars
  BY <1>1 DEF vars, callVars, fileVars, workerVars, traceVars, SessionInv, Functions, ReportFields,
              RunInv, DirInv, FileInv, AgreeInv, Agree, Files, FilesOf, Status, WorkerSucceeded,
              FirstLabel, LastLabel, Failed
<1>2. ASSUME NEW r \in Runs, Step(r)
      PROVE  SessionInv'
  <2>1. OthersKept(r) /\ Functions'
    BY <1>2, OneMoves DEF SessionInv
  <2>2. CASE Call(r) \/ NameTaken(r)
    BY <2>1, <2>2, StartKeepsInv
  <2>3. CASE ReserveRunId(r)
    BY <2>1, <2>3, ReserveKeepsInv
  <2>4. CASE SaveReport(r)
    BY <2>1, <2>4, SaveReportKeepsInv
  <2>5. CASE SaveMetadata(r)
    BY <2>1, <2>5, SaveMetadataKeepsInv
  <2>6. CASE FinalizeReport(r)
    BY <2>1, <2>6, FinalizeReportKeepsInv
  <2>7. CASE FinalizeMetadata(r)
    BY <2>1, <2>7, FinalizeMetadataKeepsInv
  <2>8. CASE \/ ReserveFails(r) \/ Provision(r) \/ ProvisionFails(r) \/ Prepare(r) \/ PrepareFails(r)
             \/ DispatchFails(r) \/ DispatchReturns(r) \/ SaveFails(r)
             \/ TearDown(r) \/ TearDownFails(r) \/ FinalizeFails(r) \/ Crash(r)
             \/ \E w \in Team(r) : Working(r, w)
    <3>1. Quiet(r) /\ RunInv(r)'
      BY <2>8, QuietOnes
    <3> QED  BY <2>1, <3>1, QuietSteps
  <2> QED
    BY <1>2, <2>2, <2>3, <2>4, <2>5, <2>6, <2>7, <2>8 DEF Step, Starting, Ending
<1> QED  BY <1>1, <1>2 DEF Next, Step

\* In every reachable state the invariant holds: who has which directory, what every file
\* says of its runtime, and how far the two files of a call agree.
THEOREM SessionInvariant == Spec => []SessionInv
BY SessionStarts, SessionSteps, PTL DEF Spec

\* A report or metadata file that calls the runtime torn down, kept or left behind is right, and
\* a call that is over left two files that agree with each other and with its answer.
THEOREM RecordsAreTruthful == Spec => []RecordsTruthful
<1>1. SessionInv => RecordsTruthful
  <2> SUFFICES ASSUME SessionInv
               PROVE  RecordsTruthful
    OBVIOUS
  <2>1. TeardownTruthful
    BY DEF SessionInv, FileInv, Files, TeardownTruthful
  <2>2. RecordsAgree
    BY DEF SessionInv, AgreeInv, Agree, RecordsAgree
  <2> QED  BY <2>1, <2>2 DEF RecordsTruthful
<1> QED  BY <1>1, SessionInvariant, PTL
----------------------------------------------------------------------------
(* What the workers list and trace *)

Listing == {"running", "reporting", "describing"}
Busy == {"running", "returning"}
Statuses == {"completed", "failed", "invalid", "skipped_infrastructure_failure"}
Entry(r) == [case : Cases(r), status : Statuses, cleanupFailed : BOOLEAN]

\* A worker's k-th scenario, and the one its next summary will be of.
Nth(r, w, k) == w + (k - 1) * Size[r]
Coming(r, w) == Nth(r, w, Len(summaries[r][w]) + 1)

\* A list of a worker's first scenarios, in turn, and one of all of them.
InTurn(r, w, list) ==
  /\ list \in Seq(Entry(r))
  /\ \A k \in DOMAIN list : list[k].case = Nth(r, w, k)
Whole(r, w, list) == InTurn(r, w, list) /\ Nth(r, w, Len(list) + 1) \notin Cases(r)

\* A worker that is at work is at the scenario that its list lacks first; one that is
\* done has listed its whole share.
ListInv(r, w) ==
  /\ InTurn(r, w, summaries[r][w])
  /\ pc[r] = "running" /\ thread[r][w] \in Busy =>
       case[r][w] = Coming(r, w) /\ case[r][w] \in Cases(r)
  /\ (pc[r] = "running" /\ thread[r][w] = "done") \/ pc[r] \in {"reporting", "describing"} =>
       Whole(r, w, summaries[r][w])
  /\ pc[r] \notin Listing => summaries[r][w] = <<>>

\* The trace of a scenario is appended once, by its worker, and before its row is added.
AheadInv(r, w) ==
  thread[r][w] \in Busy =>
    \A i \in Share(r, w) :
      /\ i >= case[r][w] => \A row \in rows[r] : row.case # i
      /\ i > case[r][w] \/ (i = case[r][w] /\ thread[r][w] = "running") => i \notin Referenced(r)

RowInv(r, row) ==
  /\ row.case \in Cases(r) /\ row.trace \in Cases(r) \cup {0}
  /\ row.trace # 0 => Suite[r][row.trace] = Suite[r][row.case]
  /\ row.case \in Referenced(r) => row.trace = row.case

WorkTypes(r) ==
  /\ DOMAIN thread[r] = Team(r) /\ DOMAIN case[r] = Team(r) /\ DOMAIN summaries[r] = Team(r)
  /\ thread[r] \in [Team(r) -> {"running", "returning", "done", "raised"}]
  /\ index[r] \in Seq(Cases(r))

WorkInv(r) ==
  /\ WorkTypes(r)
  /\ pc[r] # "running" => index[r] = <<>> /\ rows[r] = {}
  /\ \A w \in Team(r) : ListInv(r, w) /\ AheadInv(r, w)
  /\ \A row \in rows[r] : RowInv(r, row)

WorkFunctions == DOMAIN thread = Runs /\ DOMAIN case = Runs /\ DOMAIN index = Runs /\ DOMAIN rows = Runs

WorkersInv == WorkFunctions /\ \A r \in Runs : WorkInv(r)

\* Which scenarios are a worker's: every Size-th one, and of nobody else.
LEMMA Multiples ==
  ASSUME NEW x \in Int, NEW s \in Nat \ {0}
  PROVE  /\ x % s \in 0..(s - 1) /\ x \div s \in Int /\ x = s * (x \div s) + (x % s)
         /\ (x * s) % s = 0
<1>1. (x * s) % s = 0
  BY SMTT(20)
<1>2. x % s \in 0..(s - 1) /\ x \div s \in Int
  BY SMTT(20)
<1>3. x = s * (x \div s) + (x % s)
  BY SMTT(20)
<1> QED  BY <1>1, <1>2, <1>3

LEMMA SuitesAndSizes ==
  ASSUME NEW r \in Runs
  PROVE  Len(Suite[r]) \in Nat /\ Size[r] \in Nat \ {0} /\ Team(r) \subseteq Nat \ {0} /\ Cases(r) \subseteq Nat \ {0}
<1>1. Len(Suite[r]) \in Nat
  BY SuiteAssumption
<1> QED  BY <1>1, SizeAssumption DEF Team, Cases

LEMMA NthInShare ==
  ASSUME NEW r \in Runs, NEW w \in Team(r), NEW k \in Nat \ {0}
  PROVE  /\ Nth(r, w, k) \in Nat \ {0} /\ Nth(r, w, k + 1) = Nth(r, w, k) + Size[r]
         /\ Nth(r, w, k) \in Cases(r) => Nth(r, w, k) \in Share(r, w)
<1> DEFINE S == Size[r]
           n == (k - 1) * S
<1>1. S \in Nat \ {0} /\ w \in Nat \ {0}
  BY SuitesAndSizes
<1>2. n \in Nat /\ n = (k - 1) * S /\ k - 1 \in Int
  BY <1>1
<1>3. k * S = n + S
  BY <1>1
<1>5. Nth(r, w, k) = w + n /\ Nth(r, w, k + 1) = w + k * S
  BY <1>1 DEF Nth
<1> HIDE DEF n, S
<1>4. n % S = 0
  <2>1. ((k - 1) * S) % S = 0
    BY <1>1, <1>2, Multiples
  <2> QED  BY <1>2, <2>1
<1>6. (w + n) - w = n
  BY <1>1, <1>2
<1> QED  BY <1>1, <1>2, <1>3, <1>4, <1>5, <1>6 DEF Share, S

LEMMA SharesApart ==
  ASSUME NEW r \in Runs, NEW v \in Team(r), NEW w \in Team(r), NEW i \in Share(r, v) \cap Share(r, w)
  PROVE  v = w
<1> DEFINE S == Size[r]
           a == (i - v) \div S
           b == (i - w) \div S
<1>1. S \in Nat \ {0} /\ v \in 1..S /\ w \in 1..S /\ i \in Nat
  BY SuitesAndSizes DEF Share, Team
<1>2. a \in Int /\ b \in Int /\ i - v = S * a /\ i - w = S * b
  <2>1. i - v \in Int /\ i - w \in Int
    BY <1>1
  <2>2. (i - v) % S = 0 /\ (i - w) % S = 0
    BY DEF Share
  <2> HIDE DEF S
  <2>3. a \in Int /\ i - v = S * a + ((i - v) % S)
    BY <1>1, <2>1, Multiples
  <2>4. b \in Int /\ i - w = S * b + ((i - w) % S)
    BY <1>1, <2>1, Multiples
  <2> HIDE DEF a, b
  <2> QED  BY <1>1, <2>1, <2>2, <2>3, <2>4
<1> HIDE DEF a, b, S
<1>3. a * S - b * S < S /\ b * S - a * S < S
  BY <1>1, <1>2
<1>4. a = b
  BY <1>1, <1>2, <1>3, SMTT(20)
<1> QED  BY <1>1, <1>2, <1>4

\* What a worker has left is what comes after in turn.
LEMMA ShareInTurn ==
  ASSUME NEW r \in Runs, NEW w \in Team(r), NEW i \in Share(r, w)
  PROVE  \E k \in Nat \ {0} : i = Nth(r, w, k)
<1> DEFINE S == Size[r]
           a == (i - w) \div S
<1>1. S \in Nat \ {0} /\ w \in 1..S /\ i \in Nat \ {0}
  BY SuitesAndSizes DEF Share, Team
<1>2. a \in Int /\ i - w = S * a
  <2>1. i - w \in Int /\ (i - w) % S = 0
    BY <1>1 DEF Share
  <2> HIDE DEF S
  <2>2. a \in Int /\ i - w = S * a + ((i - w) % S)
    BY <1>1, <2>1, Multiples
  <2> HIDE DEF a
  <2> QED  BY <1>1, <2>1, <2>2
<1> HIDE DEF a
<1>3. a \in Nat
  BY <1>1, <1>2, SMTT(20)
<1>4. i = Nth(r, w, a + 1) /\ a + 1 \in Nat \ {0}
  BY <1>1, <1>2, <1>3 DEF Nth
<1> QED  BY <1>4

\* Further scenarios of a worker are so many sizes away.
LEMMA NthFrom ==
  ASSUME NEW r \in Runs, NEW w \in Team(r), NEW k \in Nat \ {0}
  PROVE  /\ \A j \in Nat : Nth(r, w, k + j) = Nth(r, w, k) + j * Size[r]
         /\ \A n \in Nat \ {0} : Nth(r, w, n) > Nth(r, w, k) => n > k
         /\ \A n \in Nat \ {0} : Nth(r, w, n) = Nth(r, w, k) => n = k
<1> DEFINE S == Size[r]
<1>1. S \in Nat \ {0} /\ w \in Nat \ {0}
  BY SuitesAndSizes
<1>2. \A n \in Nat \ {0} : Nth(r, w, n) = w + (n - 1) * S
  BY DEF Nth
<1> HIDE DEF S
<1>3. ASSUME NEW j \in Nat
      PROVE  Nth(r, w, k + j) = Nth(r, w, k) + j * S
  <2>1. ((k + j) - 1) * S = (k - 1) * S + j * S
    BY <1>1, SMTT(20)
  <2>2. (k - 1) * S \in Int /\ j * S \in Int
    BY <1>1
  <2> QED  BY <1>1, <1>2, <2>1, <2>2
<1>4. ASSUME NEW n \in Nat \ {0}, Nth(r, w, n) > Nth(r, w, k)
      PROVE  n > k
  <2>1. (n - 1) * S > (k - 1) * S
    BY <1>1, <1>2, <1>4
  <2> QED  BY <1>1, <2>1, SMTT(20)
<1>5. ASSUME NEW n \in Nat \ {0}, Nth(r, w, n) = Nth(r, w, k)
      PROVE  n = k
  <2>1. (n - 1) * S = (k - 1) * S
    BY <1>1, <1>2, <1>5
  <2> QED  BY <1>1, <2>1, SMTT(20)
<1> QED  BY <1>3, <1>4, <1>5 DEF S

\* The scenarios that are skipped are the rest of the share, in turn.
LEMMA SkippedIsTheRest ==
  ASSUME NEW r \in Runs, NEW w \in Team(r), NEW k \in Nat \ {0},
         case[r][w] = Nth(r, w, k), case[r][w] \in Cases(r)
  PROVE  /\ Skipped(r, w) \in Seq(Entry(r))
         /\ \A j \in DOMAIN Skipped(r, w) : Skipped(r, w)[j].case = Nth(r, w, k + j)
         /\ Nth(r, w, k + Len(Skipped(r, w)) + 1) \notin Cases(r)
<1> DEFINE S == Size[r]
           N == Len(Suite[r])
           c == case[r][w]
           m == (N - c) \div S
           T == {i \in Share(r, w) : i > c}
           g == [j \in 1..m |-> Nth(r, w, k + j)]
<1>1. S \in Nat \ {0} /\ N \in Nat /\ c \in 1..N
  BY SuitesAndSizes DEF Cases
<1>2. m \in Int /\ N - c = S * m + ((N - c) % S) /\ (N - c) % S \in 0..(S - 1)
  <2>1. N - c \in Int
    BY <1>1
  <2> HIDE DEF S, N, c
  <2> QED  BY <1>1, <2>1, Multiples DEF m
<1>3. m \in Nat /\ c + m * S <= N /\ N < c + (m + 1) * S
  <2> HIDE DEF S, N, c, m
  <2> DEFINE rest == (N - c) % S
  <2>1. rest \in 0..(S - 1) /\ N - c = S * m + rest
    BY <1>2
  <2> HIDE DEF rest
  <2> QED  BY <1>1, <1>2, <2>1, SMTT(20)
<1>4. \A j \in Nat : Nth(r, w, k + j) = c + j * S
  BY NthFrom
<1>5. \A i \in Cases(r) : i \in 1..N
  BY DEF Cases
<1>6. ASSUME NEW j \in 1..m
      PROVE  /\ Nth(r, w, k + j) \in T /\ Nth(r, w, k + j) \in Cases(r)
  <2>1. j * S <= m * S /\ j * S \in Nat \ {0}
    <3> HIDE DEF S, N, c, m
    <3> QED  BY <1>1, <1>3, SMTT(20)
  <2>2. c + j * S \in 1..N /\ c + j * S > c
    <3> HIDE DEF S, N, c, m
    <3> QED  BY <1>1, <1>3, <2>1
  <2>3. Nth(r, w, k + j) \in Cases(r) /\ Nth(r, w, k + j) > c
    BY <1>4, <2>2 DEF Cases
  <2>4. Nth(r, w, k + j) \in Share(r, w)
    <3>1. k + j \in Nat \ {0}
      BY <1>3
    <3> QED  BY <2>3, <3>1, NthInShare
  <2> QED  BY <2>3, <2>4
<1>7. ASSUME NEW i \in T
      PROVE  \E j \in 1..m : i = Nth(r, w, k + j)
  <2>1. PICK n \in Nat \ {0} : i = Nth(r, w, n)
    BY ShareInTurn
  <2>2. n > k
    BY <2>1, NthFrom
  <2>3. n - k \in Nat \ {0} /\ k + (n - k) = n
    BY <2>2
  <2>4. i = c + (n - k) * S /\ i \in 1..N
    BY <1>4, <2>1, <2>3 DEF Share, Cases
  <2>5. n - k <= m
    <3> DEFINE d == n - k
    <3>1. d \in Nat /\ c + d * S <= N
      BY <2>3, <2>4
    <3> HIDE DEF S, N, c, m, d
    <3>2. d <= m
      BY <1>1, <1>3, <3>1, SMTT(20)
    <3> QED  BY <3>2 DEF d
  <2> QED  BY <2>1, <2>3, <2>5
<1>8. Cardinality(T) = m
  <2>1. g \in [1..m -> T]
    BY <1>6
  <2>2. \A a, b \in 1..m : g[a] = g[b] => a = b
    <3> SUFFICES ASSUME NEW a \in 1..m, NEW b \in 1..m, g[a] = g[b]
                 PROVE  a = b
      OBVIOUS
    <3>1. k + a \in Nat \ {0} /\ k + b \in Nat \ {0} /\ Nth(r, w, k + a) = Nth(r, w, k + b)
      BY <1>3
    <3>2. k + b = k + a
      BY <3>1, NthFrom
    <3> QED  BY <1>3, <3>2
  <2>3. \A t \in T : \E j \in 1..m : g[j] = t
    BY <1>7
  <2> HIDE DEF g, T, m
  <2>4. g \in Bijection(1..m, T)
    BY <2>1, <2>2, <2>3, Fun_IsBij
  <2>5. ExistsBijection(1..m, T)
    BY <2>4 DEF ExistsBijection
  <2>6. IsFiniteSet(1..m) /\ Cardinality(1..m) = m
    <3>1. /\ IsFiniteSet(1..m)
          /\ Cardinality(1..m) = IF 1 > m THEN 0 ELSE m - 1 + 1
      BY <1>3, FS_Interval
    <3> QED  BY <1>3, <3>1
  <2> QED  BY <2>5, <2>6, FS_Bijection
<1>9. Skipped(r, w) = [j \in 1..m |-> [case |-> c + j * S, status |-> "skipped_infrastructure_failure",
                                       cleanupFailed |-> FALSE]]
  <2>1. Cardinality({i \in Share(r, w) : i > case[r][w]}) = m
    BY <1>8
  <2> HIDE DEF m
  <2> QED  BY <2>1 DEF Skipped
<1>10. \A j \in 1..m : c + j * S = Nth(r, w, k + j) /\ c + j * S \in Cases(r)
  <2> SUFFICES ASSUME NEW j \in 1..m
               PROVE  c + j * S = Nth(r, w, k + j) /\ c + j * S \in Cases(r)
    OBVIOUS
  <2>1. Nth(r, w, k + j) \in Cases(r)
    BY <1>6
  <2>2. Nth(r, w, k + j) = c + j * S
    <3> HIDE DEF m, c, S
    <3> QED  BY <1>3, <1>4
  <2> QED  BY <2>1, <2>2
<1>11. Skipped(r, w) \in Seq(Entry(r)) /\ Len(Skipped(r, w)) = m /\ DOMAIN Skipped(r, w) = 1..m
  <2> HIDE DEF m, c, S
  <2>1. \A j \in 1..m : [case |-> c + j * S, status |-> "skipped_infrastructure_failure",
                         cleanupFailed |-> FALSE] \in Entry(r)
    BY <1>10 DEF Entry, Statuses
  <2> QED  BY <1>3, <1>9, <2>1
<1>12. Nth(r, w, k + m + 1) \notin Cases(r)
  <2>1. Nth(r, w, k + (m + 1)) = c + (m + 1) * S /\ k + (m + 1) = k + m + 1
    <3> HIDE DEF m, c, S
    <3>1. m + 1 \in Nat /\ k + (m + 1) = k + m + 1
      BY <1>3
    <3> QED  BY <1>4, <3>1
  <2>2. c + (m + 1) * S > N
    <3> HIDE DEF m, c, S, N
    <3> QED  BY <1>1, <1>3
  <2> QED  BY <1>5, <2>1, <2>2
<1>13. \A j \in 1..m : Skipped(r, w)[j].case = c + j * S
  <2> HIDE DEF m, c, S
  <2> QED  BY <1>9
<1> QED
  <2> HIDE DEF m, c, S
  <2> QED  BY <1>10, <1>11, <1>12, <1>13

(* A step is one call's. *)

OthersWork(r) ==
  \A q \in Runs : q # r =>
    /\ pc'[q] = pc[q] /\ thread'[q] = thread[q] /\ case'[q] = case[q] /\ index'[q] = index[q]
    /\ rows'[q] = rows[q] /\ summaries'[q] = summaries[q]

LEMMA OthersStayAtWork ==
  ASSUME WorkersInv, NEW r \in Runs, OthersWork(r), NEW q \in Runs, q # r
  PROVE  WorkInv(q)'
<1>1. /\ pc'[q] = pc[q] /\ thread'[q] = thread[q] /\ case'[q] = case[q] /\ index'[q] = index[q]
      /\ rows'[q] = rows[q] /\ summaries'[q] = summaries[q] /\ WorkInv(q)
  BY DEF WorkersInv, OthersWork
<1>2. WorkTypes(q)' /\ Referenced(q)' = Referenced(q)
  BY <1>1 DEF WorkInv, WorkTypes, Referenced
<1>3. ASSUME NEW w \in Team(q)
      PROVE  ListInv(q, w)' /\ AheadInv(q, w)'
  <2>1. ListInv(q, w) /\ AheadInv(q, w)
    BY <1>1 DEF WorkInv
  <2> QED  BY <1>1, <1>2, <2>1 DEF ListInv, Coming, AheadInv
<1>4. ASSUME NEW row \in rows'[q]
      PROVE  RowInv(q, row)'
  BY <1>1, <1>2 DEF WorkInv, RowInv
<1> QED  BY <1>1, <1>2, <1>3, <1>4 DEF WorkInv

(* The steps of a worker *)

\* A row points to the trace of its case, or else of a case of the same scenario.
LEMMA TraceOfTheSame ==
  ASSUME NEW r \in Runs, NEW i \in Cases(r), index[r] \in Seq(Cases(r))
  PROVE  RowInv(r, [case |-> i, trace |-> TraceOf(r, i)])
<1>1. Referenced(r) \subseteq Cases(r)
  BY DEF Referenced
<1>2. \A j \in ByEpisode(r, i) : j = i
  BY DEF ByEpisode
<1>3. \A j \in ByScenario(r, i) : j \in Cases(r) /\ Suite[r][j] = Suite[r][i]
  BY DEF ByScenario
<1>4. i \in Referenced(r) => TraceOf(r, i) = i
  BY DEF TraceOf, Best, ByEpisode
<1>5. \/ TraceOf(r, i) = 0
      \/ TraceOf(r, i) \in ByEpisode(r, i) \cup ByScenario(r, i)
  BY DEF TraceOf, Best
<1>6. TraceOf(r, i) \in Cases(r) \cup {0} /\ (TraceOf(r, i) # 0 => Suite[r][TraceOf(r, i)] = Suite[r][i])
  BY <1>2, <1>3, <1>5
<1> QED  BY <1>4, <1>6 DEF RowInv

\* What a worker's step does to its list, its scenario and the run's traces.
Turn(r, w) ==
  /\ pc' = pc /\ WorkTypes(r)' /\ ListInv(r, w)'
  /\ \A v \in Team(r) \ {w} : /\ thread'[r][v] = thread[r][v] /\ case'[r][v] = case[r][v]
                              /\ summaries'[r][v] = summaries[r][v]
  /\ \/ thread'[r][w] \notin Busy
     \/ /\ thread[r][w] = "running" /\ thread'[r][w] = "returning"
        /\ case'[r][w] = case[r][w] /\ rows'[r] = rows[r]
     \/ thread[r][w] \in Busy /\ case'[r][w] > case[r][w]
  /\ \/ index'[r] = index[r]
     \/ /\ thread[r][w] = "running" /\ rows'[r] = rows[r]
        /\ thread'[r][w] = "returning" /\ case'[r][w] = case[r][w]
        /\ index'[r] = Append(index[r], case[r][w])
  /\ \/ rows'[r] = rows[r]
     \/ /\ thread[r][w] = "returning" /\ index'[r] = index[r]
        /\ \E row : /\ rows'[r] = rows[r] \cup {row}
                    /\ row.case = case[r][w] /\ RowInv(r, row)

LEMMA TurnKeepsWork ==
  ASSUME NEW r \in Runs, WorkInv(r), pc[r] = "running", NEW w \in Team(r), Turn(r, w)
  PROVE  WorkInv(r)'
<1> DEFINE c == case[r][w]
<1>1. WorkTypes(r) /\ WorkTypes(r)' /\ pc' = pc
  BY DEF Turn, WorkInv
<1>2. thread[r][w] \in Busy => c \in Cases(r) /\ c \in Share(r, w)
  <2> SUFFICES ASSUME thread[r][w] \in Busy
               PROVE  c \in Cases(r) /\ c \in Share(r, w)
    OBVIOUS
  <2>1. c = Nth(r, w, Len(summaries[r][w]) + 1) /\ c \in Cases(r) /\ summaries[r][w] \in Seq(Entry(r))
    BY DEF WorkInv, ListInv, Coming, InTurn
  <2>2. Len(summaries[r][w]) + 1 \in Nat \ {0}
    BY <2>1
  <2> QED  BY <2>1, <2>2, NthInShare
<1>3. \/ Referenced(r)' = Referenced(r)
      \/ /\ thread[r][w] = "running" /\ rows'[r] = rows[r]
         /\ thread'[r][w] = "returning" /\ case'[r][w] = case[r][w]
         /\ Referenced(r)' = Referenced(r) \cup {c}
  <2>1. CASE index'[r] = index[r]
    BY <2>1 DEF Referenced
  <2>2. CASE /\ thread[r][w] = "running" /\ rows'[r] = rows[r]
             /\ thread'[r][w] = "returning" /\ case'[r][w] = case[r][w]
             /\ index'[r] = Append(index[r], c)
    <3>1. index[r] \in Seq(Cases(r))
      BY <1>1 DEF WorkTypes
    <3>2. {index'[r][k] : k \in DOMAIN index'[r]} = {index[r][k] : k \in DOMAIN index[r]} \cup {c}
      <4> DEFINE s == index[r]
                 n == Len(index[r])
      <4>1. /\ s \in Seq(Cases(r)) /\ n \in Nat /\ c \in Cases(r)
            /\ DOMAIN s = 1..n /\ DOMAIN Append(s, c) = 1..(n + 1)
        BY <1>2, <2>2, <3>1 DEF Busy
      <4>2. \A k \in 1..n : Append(s, c)[k] = s[k]
        BY <4>1
      <4>3. Append(s, c)[n + 1] = c
        BY <4>1
      <4> HIDE DEF s, n
      <4>4. {Append(s, c)[k] : k \in 1..(n + 1)} = {s[k] : k \in 1..n} \cup {c}
        BY <4>1, <4>2, <4>3
      <4> QED  BY <2>2, <4>1, <4>4 DEF s
    <3> QED  BY <2>2, <3>2 DEF Referenced
  <2> QED  BY <2>1, <2>2 DEF Turn
<1>4. \/ rows'[r] = rows[r]
      \/ /\ thread[r][w] = "returning" /\ Referenced(r)' = Referenced(r)
         /\ \E row : rows'[r] = rows[r] \cup {row} /\ row.case = c /\ RowInv(r, row)
  BY DEF Turn, Referenced
<1>5. ASSUME NEW v \in Team(r), v # w
      PROVE  ListInv(r, v)' /\ AheadInv(r, v)'
  <2>1. /\ ListInv(r, v) /\ AheadInv(r, v)
        /\ thread'[r][v] = thread[r][v] /\ case'[r][v] = case[r][v]
        /\ summaries'[r][v] = summaries[r][v]
    BY <1>5 DEF WorkInv, Turn
  <2>2. ListInv(r, v)'
    BY <1>1, <2>1 DEF ListInv, Coming
  <2>3. c \in Share(r, w) => c \notin Share(r, v)
    BY <1>5, SharesApart
  <2>4. AheadInv(r, v)'
    BY <1>2, <1>3, <1>4, <2>1, <2>3 DEF AheadInv, Busy
  <2> QED  BY <2>2, <2>4
<1>6. ListInv(r, w)' /\ AheadInv(r, w)'
  <2>1. AheadInv(r, w) /\ ListInv(r, w)'
    BY DEF WorkInv, Turn
  <2>2. CASE thread'[r][w] \notin Busy
    BY <2>1, <2>2 DEF AheadInv
  <2>3. CASE /\ thread[r][w] = "running" /\ thread'[r][w] = "returning"
             /\ case'[r][w] = case[r][w] /\ rows'[r] = rows[r]
    <3>1. \A i \in Share(r, w) : i > c => i # c
      BY <1>2, <2>3 DEF Share, Cases, Busy
    <3> QED  BY <1>3, <2>1, <2>3, <3>1 DEF AheadInv, Busy
  <2>4. CASE thread[r][w] \in Busy /\ case'[r][w] > case[r][w] /\ thread'[r][w] \in Busy
    <3>1. /\ \A row \in rows'[r] : row \in rows[r] \/ row.case = c
          /\ \A i \in Referenced(r)' : i \in Referenced(r) \/ i = c
      BY <1>3, <1>4
    <3>2. case'[r][w] \in Cases(r)
      BY <1>1, <2>4 DEF Turn, ListInv
    <3>3. \A i \in Share(r, w) : i >= case'[r][w] => i > c /\ i # c /\ i >= c
      BY <1>2, <2>4, <3>2 DEF Share, Cases
    <3>4. \A i \in Share(r, w) : i > case'[r][w] => i >= case'[r][w]
      BY <3>2 DEF Share, Cases
    <3>5. \A i \in Share(r, w) : i = case'[r][w] => i >= case'[r][w]
      BY <3>2 DEF Share, Cases
    <3> QED  BY <2>1, <2>4, <3>1, <3>3, <3>4, <3>5 DEF AheadInv
  <2> QED  BY <2>2, <2>3, <2>4 DEF Turn
<1>7. ASSUME NEW row \in rows'[r]
      PROVE  RowInv(r, row)'
  <2>1. CASE row \in rows[r]
    <3>1. RowInv(r, row)
      BY <2>1 DEF WorkInv
    <3>2. thread[r][w] = "running" => row.case # c
      BY <1>2, <2>1 DEF WorkInv, AheadInv, Busy, Share, Cases
    <3> QED  BY <1>3, <3>1, <3>2 DEF RowInv
  <2>2. CASE row \notin rows[r]
    BY <1>4, <1>7, <2>2 DEF RowInv
  <2> QED  BY <2>1, <2>2
<1> QED  BY <1>1, <1>5, <1>6, <1>7 DEF WorkInv

\* A worker that has dealt with a scenario lists it, and with a cleanup that failed its
\* whole rest.
LEMMA AdvanceLists ==
  ASSUME NEW r \in Runs, WorkInv(r), DOMAIN thread = Runs, DOMAIN case = Runs, DOMAIN summaries = Runs,
         pc[r] = "running", pc' = pc, NEW w \in Team(r), thread[r][w] \in Busy,
         NEW o \in Outcomes, Advance(r, w, o)
  PROVE  /\ ListInv(r, w)' /\ case'[r][w] > case[r][w]
         /\ DOMAIN thread'[r] = Team(r) /\ DOMAIN case'[r] = Team(r) /\ DOMAIN summaries'[r] = Team(r)
         /\ thread'[r] \in [Team(r) -> {"running", "returning", "done", "raised"}]
         /\ \A v \in Team(r) \ {w} : /\ thread'[r][v] = thread[r][v] /\ case'[r][v] = case[r][v]
                                     /\ summaries'[r][v] = summaries[r][v]
<1> DEFINE L == summaries[r][w]
           n == Len(L)
           c == case[r][w]
           next == c + Size[r]
           listed == Append(L, Summary(r, w, o))
<1>1. /\ DOMAIN thread[r] = Team(r) /\ DOMAIN case[r] = Team(r) /\ DOMAIN summaries[r] = Team(r)
      /\ thread[r] \in [Team(r) -> {"running", "returning", "done", "raised"}]
      /\ L \in Seq(Entry(r)) /\ n \in Nat /\ \A k \in DOMAIN L : L[k].case = Nth(r, w, k)
      /\ c = Nth(r, w, n + 1) /\ c \in Cases(r)
  BY DEF WorkInv, WorkTypes, ListInv, InTurn, Coming
<1>2. Summary(r, w, o) \in Entry(r) /\ Summary(r, w, o).case = c
  BY <1>1 DEF Summary, Entry, Outcomes, Statuses
<1>3. next = Nth(r, w, n + 2) /\ next > c
  <2>1. n + 1 \in Nat \ {0} /\ (n + 1) + 1 = n + 2
    BY <1>1
  <2>2. Nth(r, w, (n + 1) + 1) = Nth(r, w, n + 1) + Size[r]
    BY <2>1, NthInShare
  <2> QED  BY <1>1, <2>1, <2>2, SuitesAndSizes DEF Cases
<1>4. /\ listed \in Seq(Entry(r)) /\ Len(listed) = n + 1 /\ DOMAIN listed = 1..(n + 1)
      /\ InTurn(r, w, listed)
  <2>1. listed \in Seq(Entry(r)) /\ Len(listed) = n + 1 /\ DOMAIN listed = 1..(n + 1)
    BY <1>1, <1>2
  <2>2. \A k \in 1..n : listed[k] = L[k] /\ k \in DOMAIN L
    BY <1>1, <1>2
  <2>3. listed[n + 1] = Summary(r, w, o)
    BY <1>1, <1>2
  <2>4. \A k \in 1..(n + 1) : listed[k].case = Nth(r, w, k)
    <3> HIDE DEF listed, L, n, c
    <3> QED  BY <1>1, <1>2, <2>2, <2>3
  <2> QED  BY <2>1, <2>4 DEF InTurn
<1>5. case' = Put(case, r, w, next)
  BY DEF Advance
<1>6. CASE o.clean
  <2>1. summaries' = Put(summaries, r, w, listed) /\ thread' = Put(thread, r, w, Goes(r, w, next))
    BY <1>6 DEF Advance
  <2> HIDE DEF listed, next, L, n, c
  <2>2. /\ summaries'[r][w] = listed /\ thread'[r][w] = Goes(r, w, next) /\ case'[r][w] = next
        /\ DOMAIN thread'[r] = Team(r) /\ DOMAIN case'[r] = Team(r) /\ DOMAIN summaries'[r] = Team(r)
        /\ thread'[r] \in [Team(r) -> {"running", "returning", "done", "raised"}]
        /\ \A v \in Team(r) \ {w} : /\ thread'[r][v] = thread[r][v] /\ case'[r][v] = case[r][v]
                                    /\ summaries'[r][v] = summaries[r][v]
    BY <1>1, <1>5, <2>1 DEF Put, Goes
  <2>3. Nth(r, w, Len(listed) + 1) = next
    BY <1>1, <1>3, <1>4
  <2>4. ListInv(r, w)'
    BY <1>4, <2>2, <2>3 DEF ListInv, Coming, Whole, Goes, Busy, Listing
  <2> QED  BY <1>3, <2>2, <2>4 DEF c
<1>7. CASE ~o.clean
  <2>1. summaries' = Put(summaries, r, w, listed \o Skipped(r, w)) /\ thread' = Put(thread, r, w, "done")
    BY <1>7 DEF Advance
  <2> DEFINE rest == Skipped(r, w)
             all == listed \o rest
  <2>2. /\ rest \in Seq(Entry(r)) /\ \A j \in DOMAIN rest : rest[j].case = Nth(r, w, (n + 1) + j)
        /\ Nth(r, w, (n + 1) + Len(rest) + 1) \notin Cases(r)
    <3>1. n + 1 \in Nat \ {0} /\ case[r][w] = Nth(r, w, n + 1) /\ case[r][w] \in Cases(r)
      BY <1>1
    <3> HIDE DEF n
    <3> QED  BY <3>1, SkippedIsTheRest
  <2> HIDE DEF rest, listed, next, L, n, c
  <2>3. /\ all \in Seq(Entry(r)) /\ Len(all) = (n + 1) + Len(rest) /\ DOMAIN all = 1..((n + 1) + Len(rest))
        /\ Len(rest) \in Nat /\ DOMAIN rest = 1..Len(rest)
    <3>1. listed \in Seq(Entry(r)) /\ rest \in Seq(Entry(r)) /\ Len(listed) = n + 1
      BY <1>4, <2>2
    <3>2. all \in Seq(Entry(r)) /\ Len(all) = Len(listed) + Len(rest)
      BY <3>1
    <3>3. Len(rest) \in Nat /\ DOMAIN rest = 1..Len(rest) /\ DOMAIN all = 1..Len(all)
      BY <3>1, <3>2
    <3> QED  BY <3>1, <3>2, <3>3
  <2>4. ASSUME NEW k \in DOMAIN all
        PROVE  all[k].case = Nth(r, w, k)
    <3>1. CASE k \in 1..(n + 1)
      <4>1. all[k] = listed[k]
        BY <1>1, <1>4, <2>2, <2>3, <3>1
      <4> QED  BY <1>4, <3>1, <4>1 DEF InTurn
    <3>2. CASE k > n + 1
      <4>1. k - (n + 1) \in 1..Len(rest) /\ (n + 1) + (k - (n + 1)) = k
        BY <1>1, <2>3, <3>2
      <4>2. all[k] = rest[k - (n + 1)]
        BY <1>1, <1>4, <2>2, <2>3, <3>2, <4>1
      <4> QED  BY <2>2, <2>3, <4>1, <4>2
    <3> QED  BY <1>1, <2>3, <3>1, <3>2
  <2>5. Whole(r, w, all)
    BY <2>2, <2>3, <2>4 DEF Whole, InTurn
  <2> HIDE DEF all
  <2>6. /\ summaries'[r][w] = all /\ thread'[r][w] = "done" /\ case'[r][w] = next
        /\ DOMAIN thread'[r] = Team(r) /\ DOMAIN case'[r] = Team(r) /\ DOMAIN summaries'[r] = Team(r)
        /\ thread'[r] \in [Team(r) -> {"running", "returning", "done", "raised"}]
        /\ \A v \in Team(r) \ {w} : /\ thread'[r][v] = thread[r][v] /\ case'[r][v] = case[r][v]
                                    /\ summaries'[r][v] = summaries[r][v]
    BY <1>1, <1>5, <2>1 DEF Put, all, rest
  <2>7. ListInv(r, w)'
    BY <2>5, <2>6 DEF ListInv, Whole, Busy, Listing
  <2> QED  BY <1>3, <2>6, <2>7 DEF c
<1> QED  BY <1>6, <1>7

LEMMA RaiseLeavesTheRest ==
  ASSUME NEW r \in Runs, WorkInv(r), DOMAIN thread = Runs, DOMAIN case = Runs, DOMAIN summaries = Runs,
         pc[r] = "running", pc' = pc, NEW w \in Team(r), Raise(r, w)
  PROVE  /\ ListInv(r, w)' /\ thread'[r][w] = "raised"
         /\ DOMAIN thread'[r] = Team(r) /\ DOMAIN case'[r] = Team(r) /\ DOMAIN summaries'[r] = Team(r)
         /\ thread'[r] \in [Team(r) -> {"running", "returning", "done", "raised"}]
         /\ \A v \in Team(r) \ {w} : /\ thread'[r][v] = thread[r][v] /\ case'[r][v] = case[r][v]
                                     /\ summaries'[r][v] = summaries[r][v]
<1>1. /\ DOMAIN thread[r] = Team(r) /\ DOMAIN case[r] = Team(r) /\ DOMAIN summaries[r] = Team(r)
      /\ thread[r] \in [Team(r) -> {"running", "returning", "done", "raised"}]
  BY DEF WorkInv, WorkTypes
<1>2. /\ thread'[r][w] = "raised" /\ summaries'[r][w] = <<>>
      /\ DOMAIN thread'[r] = Team(r) /\ DOMAIN case'[r] = Team(r) /\ DOMAIN summaries'[r] = Team(r)
      /\ thread'[r] \in [Team(r) -> {"running", "returning", "done", "raised"}]
      /\ \A v \in Team(r) \ {w} : /\ thread'[r][v] = thread[r][v] /\ case'[r][v] = case[r][v]
                                  /\ summaries'[r][v] = summaries[r][v]
  BY <1>1 DEF Raise, Put
<1>3. ListInv(r, w)'
  BY <1>2 DEF ListInv, InTurn, Busy, Listing
<1> QED  BY <1>2, <1>3

LEMMA WorkingTurns ==
  ASSUME NEW r \in Runs, WorkFunctions, Functions, WorkInv(r), NEW w \in Team(r), Working(r, w)
  PROVE  pc[r] = "running" /\ Turn(r, w)
<1>1. /\ DOMAIN thread = Runs /\ DOMAIN case = Runs /\ DOMAIN index = Runs /\ DOMAIN rows = Runs
      /\ DOMAIN summaries = Runs /\ pc[r] = "running"
      /\ DOMAIN thread[r] = Team(r) /\ DOMAIN case[r] = Team(r) /\ DOMAIN summaries[r] = Team(r)
      /\ thread[r] \in [Team(r) -> {"running", "returning", "done", "raised"}]
      /\ index[r] \in Seq(Cases(r))
  BY DEF WorkFunctions, Functions, WorkInv, WorkTypes, Working
<1>2. thread[r][w] \in Busy => case[r][w] \in Cases(r)
  BY <1>1 DEF WorkInv, ListInv
<1>3. ListInv(r, w)
  BY DEF WorkInv
<1>4. ASSUME AddRow(r, case[r][w]), thread[r][w] = "returning", index' = index
      PROVE  \/ rows'[r] = rows[r]
             \/ /\ thread[r][w] = "returning" /\ index'[r] = index[r]
                /\ \E row : /\ rows'[r] = rows[r] \cup {row}
                            /\ row.case = case[r][w] /\ RowInv(r, row)
  <2>1. RowInv(r, [case |-> case[r][w], trace |-> TraceOf(r, case[r][w])])
    BY <1>1, <1>2, <1>4, TraceOfTheSame DEF Busy
  <2> DEFINE row == [case |-> case[r][w], trace |-> TraceOf(r, case[r][w])]
  <2>2. rows'[r] = rows[r] \/ rows'[r] = rows[r] \cup {row}
    BY <1>1, <1>4 DEF AddRow, Set
  <2>3. row.case = case[r][w]
    OBVIOUS
  <2> HIDE DEF row
  <2> QED  BY <1>4, <2>1, <2>2, <2>3 DEF row
<1>5. CASE Diagnose(r, w) \/ DiagnoseUntraced(r, w)
  <2>1. /\ thread[r][w] = "running" /\ UNCHANGED <<pc, case, summaries, rows>>
        /\ thread' = Put(thread, r, w, "returning")
        /\ index' = index \/ index' = Set(index, r, Append(index[r], case[r][w]))
    BY <1>5 DEF Diagnose, DiagnoseUntraced, WriteCaseTrace, AppendIndex
  <2>2. /\ thread'[r][w] = "returning" /\ \A v \in Team(r) \ {w} : thread'[r][v] = thread[r][v]
        /\ DOMAIN thread'[r] = Team(r)
        /\ thread'[r] \in [Team(r) -> {"running", "returning", "done", "raised"}]
    BY <1>1, <2>1 DEF Put
  <2>3. index'[r] = index[r] \/ index'[r] = Append(index[r], case[r][w])
    BY <1>1, <2>1 DEF Set
  <2>4. index'[r] \in Seq(Cases(r))
    BY <1>1, <1>2, <2>1, <2>3 DEF Busy
  <2>5. WorkTypes(r)'
    BY <1>1, <2>1, <2>2, <2>4 DEF WorkTypes
  <2>6. ListInv(r, w)'
    BY <1>3, <1>1, <2>1, <2>2 DEF ListInv, Coming, Busy
  <2> QED  BY <1>1, <2>1, <2>2, <2>3, <2>5, <2>6 DEF Turn, Busy
<1>6. CASE NotDiagnosed(r, w)
  <2>1. PICK o \in Outcomes : Advance(r, w, o)
    BY <1>6 DEF NotDiagnosed
  <2>2. UNCHANGED <<pc, index, rows>> /\ thread[r][w] = "running"
    BY <1>6 DEF NotDiagnosed, traceVars
  <2>3. thread[r][w] \in Busy /\ pc' = pc
    BY <2>2 DEF Busy
  <2> QED  BY <1>1, <2>1, <2>2, <2>3, AdvanceLists DEF Turn, WorkTypes
<1>7. CASE Score(r, w)
  <2>1. PICK o \in Outcomes : Advance(r, w, o)
    BY <1>7 DEF Score
  <2>2. UNCHANGED <<pc, index>> /\ thread[r][w] = "returning" /\ AddRow(r, case[r][w])
    BY <1>7 DEF Score
  <2>3. thread[r][w] \in Busy /\ pc' = pc
    BY <2>2 DEF Busy
  <2> QED  BY <1>1, <1>4, <2>1, <2>2, <2>3, AdvanceLists DEF Turn, WorkTypes
<1>8. CASE WorkerFails(r, w)
  <2>1. UNCHANGED <<pc, index, rows>> /\ Raise(r, w)
    BY <1>8 DEF WorkerFails, traceVars
  <2> QED  BY <1>1, <2>1, RaiseLeavesTheRest DEF Turn, WorkTypes, Busy
<1>9. CASE ScoreFails(r, w)
  <2>1. UNCHANGED <<pc, index>> /\ Raise(r, w) /\ thread[r][w] = "returning" /\ AddRow(r, case[r][w])
    BY <1>9 DEF ScoreFails
  <2> QED  BY <1>1, <1>4, <2>1, RaiseLeavesTheRest DEF Turn, WorkTypes, Busy
<1> QED  BY <1>1, <1>5, <1>6, <1>7, <1>8, <1>9 DEF Working

(* The other steps of a run *)

\* The threads and what they wrote are gone.
LEMMA ForgetKeepsWork ==
  ASSUME NEW r \in Runs, WorkFunctions, Functions, Forget(r), pc'[r] \notin Listing
  PROVE  WorkInv(r)'
<1>1. /\ thread'[r] = [w \in Team(r) |-> "done"] /\ case'[r] = [w \in Team(r) |-> 0]
      /\ summaries'[r] = [w \in Team(r) |-> <<>>] /\ index'[r] = <<>> /\ rows'[r] = {}
  BY DEF Forget, CloseTraces, Set, WorkFunctions, Functions
<1> QED
  BY <1>1 DEF WorkInv, WorkTypes, ListInv, InTurn, AheadInv, Listing, Busy

\* Steps of a run that its workers have no part in.
LEMMA AsideKeepsWork ==
  ASSUME NEW r \in Runs, WorkInv(r), UNCHANGED <<workerVars, traceVars>>,
         \/ pc[r] \notin Listing /\ pc'[r] \notin Listing
         \/ pc[r] = "reporting" /\ pc'[r] = "describing"
  PROVE  WorkInv(r)'
<1> USE DEF workerVars, traceVars
<1>1. ASSUME NEW w \in Team(r)
      PROVE  ListInv(r, w)' /\ AheadInv(r, w)'
  <2>1. ListInv(r, w) /\ AheadInv(r, w)
    BY DEF WorkInv
  <2> QED  BY <2>1 DEF ListInv, Coming, Whole, AheadInv, Listing, Referenced
<1>2. WorkTypes(r)'
  BY DEF WorkInv, WorkTypes
<1>3. pc[r] # "running" /\ pc'[r] # "running"
  BY DEF Listing
<1> QED  BY <1>1, <1>2, <1>3 DEF WorkInv

\* The pool starts: every worker is at its first scenario, if it has one.
LEMMA PrepareKeepsWork ==
  ASSUME NEW r \in Runs, WorkFunctions, Functions, WorkInv(r), Prepare(r)
  PROVE  WorkInv(r)'
<1>1. /\ case'[r] = [w \in Team(r) |-> w] /\ thread'[r] = [w \in Team(r) |-> Goes(r, w, w)]
      /\ pc'[r] = "running" /\ UNCHANGED <<summaries, index, rows>> /\ pc[r] \notin Listing
  BY DEF Prepare, Goto, Set, traceVars, WorkFunctions, Functions, Listing
<1>2. index[r] = <<>> /\ rows[r] = {} /\ DOMAIN summaries[r] = Team(r)
      /\ \A w \in Team(r) : summaries[r][w] = <<>>
  BY <1>1 DEF WorkInv, WorkTypes, ListInv, Listing
<1>3. ASSUME NEW w \in Team(r)
      PROVE  ListInv(r, w)' /\ AheadInv(r, w)'
  <2>1. /\ summaries'[r][w] = <<>> /\ case'[r][w] = w /\ thread'[r][w] = Goes(r, w, w)
        /\ Referenced(r)' = {} /\ rows'[r] = {}
    BY <1>1, <1>2 DEF Referenced
  <2>2. Nth(r, w, Len(<<>>) + 1) = w
    <3>1. (Len(<<>>) + 1) - 1 = 0
      OBVIOUS
    <3> QED  BY <3>1, SuitesAndSizes DEF Nth
  <2>3. AheadInv(r, w)'
    BY <2>1 DEF AheadInv
  <2>4. ListInv(r, w)'
    BY <1>1, <2>1, <2>2 DEF ListInv, Coming, Whole, InTurn, Goes, Busy, Listing
  <2> QED  BY <2>3, <2>4
<1>4. WorkTypes(r)'
  BY <1>1, <1>2 DEF WorkTypes, Goes
<1> QED  BY <1>1, <1>2, <1>3, <1>4 DEF WorkInv

\* Every worker is done, so that every share has been listed.
LEMMA ReturnKeepsWork ==
  ASSUME NEW r \in Runs, WorkFunctions, Functions, WorkInv(r), DispatchReturns(r)
  PROVE  WorkInv(r)'
<1>1. /\ index'[r] = <<>> /\ rows'[r] = {} /\ pc'[r] = "reporting" /\ UNCHANGED <<thread, case, summaries>>
      /\ pc[r] = "running" /\ \A w \in Team(r) : thread[r][w] = "done"
  BY DEF DispatchReturns, Joined, CloseTraces, Goto, Set, workerVars, WorkFunctions, Functions
<1>2. ASSUME NEW w \in Team(r)
      PROVE  ListInv(r, w)' /\ AheadInv(r, w)'
  <2>1. ListInv(r, w) /\ thread[r][w] = "done"
    BY <1>1 DEF WorkInv
  <2> QED  BY <1>1, <2>1 DEF ListInv, Coming, Whole, AheadInv, Listing, Busy
<1>3. WorkTypes(r)'
  BY <1>1 DEF WorkInv, WorkTypes
<1> QED  BY <1>1, <1>2, <1>3 DEF WorkInv

LEMMA OneWorks ==
  ASSUME Functions, WorkFunctions, NEW r \in Runs, Step(r)
  PROVE  OthersWork(r) /\ WorkFunctions'
<1>0. OthersKept(r)
  BY OneMoves
<1> USE DEF OthersWork, OthersKept, Functions, WorkFunctions
<1>1. CASE Starting(r)
  <2>1. CASE Call(r) \/ NameTaken(r) \/ ReserveRunId(r) \/ ReserveFails(r)
    BY <1>0, <2>1 DEF Call, NameTaken, ReserveRunId, ReserveFails, workerVars, traceVars
  <2>2. CASE Provision(r) \/ ProvisionFails(r) \/ Prepare(r)
    BY <1>0, <2>2 DEF Provision, ProvisionFails, Prepare, Set, workerVars, traceVars
  <2>3. CASE PrepareFails(r)
    BY <1>0, <2>3 DEF PrepareFails, ExecutionFails, Forget, CloseTraces, Set
  <2> QED  BY <1>1, <2>1, <2>2, <2>3 DEF Starting
<1>2. CASE Ending(r)
  <2>1. CASE DispatchFails(r) \/ SaveFails(r)
    BY <1>0, <2>1 DEF DispatchFails, SaveFails, ExecutionFails, Forget, CloseTraces, Set
  <2>2. CASE DispatchReturns(r)
    BY <1>0, <2>2 DEF DispatchReturns, CloseTraces, Set, workerVars
  <2>3. CASE SaveReport(r) \/ SaveMetadata(r)
    BY <1>0, <2>3 DEF SaveReport, SaveMetadata, Forget, CloseTraces, Set, workerVars, traceVars
  <2>4. CASE TearDown(r) \/ TearDownFails(r) \/ FinalizeFails(r) \/ FinalizeReport(r) \/ FinalizeMetadata(r)
    BY <1>0, <2>4 DEF TearDown, TearDownFails, FinalizeFails, FinalizeReport, FinalizeMetadata,
                      workerVars, traceVars
  <2> QED  BY <1>2, <2>1, <2>2, <2>3, <2>4 DEF Ending
<1>3. CASE Crash(r)
  BY <1>0, <1>3 DEF Crash, Forget, CloseTraces, Set
<1>4. ASSUME NEW w \in Team(r), Working(r, w)
      PROVE  OthersWork(r) /\ WorkFunctions'
  <2>1. CASE Diagnose(r, w) \/ DiagnoseUntraced(r, w)
    BY <1>0, <2>1 DEF Diagnose, DiagnoseUntraced, WriteCaseTrace, Put, Set
  <2>2. CASE NotDiagnosed(r, w) \/ Score(r, w)
    BY <1>0, <2>2 DEF NotDiagnosed, Score, AddRow, Advance, Put, Set, traceVars
  <2>3. CASE WorkerFails(r, w) \/ ScoreFails(r, w)
    BY <1>0, <2>3 DEF WorkerFails, ScoreFails, AddRow, Raise, Put, Set, traceVars
  <2> QED  BY <1>4, <2>1, <2>2, <2>3 DEF Working
<1> QED  BY <1>1, <1>2, <1>3, <1>4 DEF Step

LEMMA WorkSteps ==
  ASSUME SessionInv, WorkersInv, NEW r \in Runs, Step(r)
  PROVE  WorkersInv'
<1>1. Functions /\ WorkFunctions /\ WorkInv(r) /\ OthersWork(r) /\ WorkFunctions'
  BY OneWorks DEF SessionInv, WorkersInv
<1> SUFFICES WorkInv(r)'
  BY <1>1, OthersStayAtWork DEF WorkersInv
<1>2. CASE Call(r) \/ NameTaken(r) \/ ReserveRunId(r) \/ ReserveFails(r)
  <2>1. pc[r] \notin Listing /\ pc'[r] \notin Listing /\ UNCHANGED <<workerVars, traceVars>>
    BY <1>1, <1>2 DEF Call, NameTaken, ReserveRunId, ReserveFails, Functions, Goto, Set, Listing
  <2> QED  BY <1>1, <2>1, AsideKeepsWork
<1>3. CASE Provision(r) \/ ProvisionFails(r)
  <2>1. \/ pc[r] = "provisioning" /\ pc' = Set(pc, r, "preparing") /\ UNCHANGED <<workerVars, traceVars>>
        \/ pc[r] = "provisioning" /\ pc' = Set(pc, r, "refused") /\ UNCHANGED <<workerVars, traceVars>>
    BY <1>3 DEF Provision, ProvisionFails, Goto
  <2>2. pc[r] \notin Listing /\ pc'[r] \notin Listing /\ UNCHANGED <<workerVars, traceVars>>
    BY <1>1, <2>1 DEF Functions, Set, Listing
  <2> QED  BY <1>1, <2>2, AsideKeepsWork
<1>4. CASE TearDown(r) \/ TearDownFails(r) \/ FinalizeReport(r) \/ FinalizeMetadata(r) \/ FinalizeFails(r)
  <2>1. /\ pc[r] \in {"tearing", "finalising", "amending"}
        /\ \E place \in {"finalising", "amending", "raised", "returned", "broken"} : pc' = Set(pc, r, place)
        /\ UNCHANGED <<workerVars, traceVars>>
    BY <1>4 DEF TearDown, TearDownFails, FinalizeReport, FinalizeMetadata, FinalizeFails, Goto
  <2>2. pc[r] \notin Listing /\ pc'[r] \notin Listing
    BY <1>1, <2>1 DEF Functions, Set, Listing
  <2> QED  BY <1>1, <2>1, <2>2, AsideKeepsWork
<1>5. CASE SaveReport(r)
  <2>1. /\ pc[r] = "reporting" /\ pc'[r] = "describing" /\ UNCHANGED <<workerVars, traceVars>>
    BY <1>1, <1>5 DEF SaveReport, Functions, Goto, Set
  <2> QED  BY <1>1, <2>1, AsideKeepsWork
<1>6. CASE PrepareFails(r) \/ DispatchFails(r) \/ SaveFails(r) \/ SaveMetadata(r) \/ Crash(r)
  <2>1. Forget(r) /\ \E place \in Pcs \ Listing : Goto(r, place)
    <3>1. CASE SaveMetadata(r) \/ Crash(r)
      BY <3>1 DEF SaveMetadata, Crash, Pcs, Listing
    <3>2. CASE PrepareFails(r) \/ DispatchFails(r) \/ SaveFails(r)
      BY <3>2 DEF PrepareFails, DispatchFails, SaveFails, ExecutionFails, Pcs, Listing
    <3> QED  BY <1>6, <3>1, <3>2
  <2>2. pc'[r] \notin Listing
    BY <1>1, <2>1 DEF Functions, Goto, Set
  <2> QED  BY <1>1, <2>1, <2>2, ForgetKeepsWork
<1>7. CASE Prepare(r)
  BY <1>1, <1>7, PrepareKeepsWork
<1>8. CASE DispatchReturns(r)
  BY <1>1, <1>8, ReturnKeepsWork
<1>9. CASE \E w \in Team(r) : Working(r, w)
  BY <1>1, <1>9, WorkingTurns, TurnKeepsWork
<1> QED  BY <1>2, <1>3, <1>4, <1>5, <1>6, <1>7, <1>8, <1>9 DEF Step, Starting, Ending

LEMMA WorkersStart == Init => WorkersInv
BY DEF Init, PerRun, PerWorker, WorkersInv, WorkFunctions, WorkInv, WorkTypes, ListInv, InTurn,
       AheadInv, Listing, Busy

\* In every reachable state a worker's list is of its own scenarios, in turn, and whole once
\* it is done, and a trace and a row of a scenario come from nobody but its worker.
THEOREM WorkersInvariant == Spec => []WorkersInv
<1>1. SessionInv /\ WorkersInv /\ [Next]_vars => WorkersInv'
  <2> SUFFICES ASSUME SessionInv, WorkersInv, [Next]_vars
               PROVE  WorkersInv'
    OBVIOUS
  <2>1. CASE UNCHANGED vars
    BY <2>1 DEF vars, workerVars, traceVars, WorkersInv, WorkFunctions, WorkInv, WorkTypes, ListInv,
                InTurn, Whole, Coming, AheadInv, RowInv, Referenced
  <2>2. ASSUME NEW r \in Runs, Step(r)
        PROVE  WorkersInv'
    BY <2>2, WorkSteps
  <2> QED  BY <2>1, <2>2 DEF Next, Step
<1> QED  BY <1>1, WorkersStart, SessionInvariant, PTL DEF Spec

\* A result row points to the trace of its own diagnosis where there is one and never to
\* another scenario's, however the threads of the pool interleave.
THEOREM RowsPointToTheirTraces == Spec => []RowsOwnTrace
<1>1. WorkersInv => RowsOwnTrace
  BY DEF WorkersInv, WorkInv, RowInv, RowsOwnTrace
<1> QED  BY <1>1, WorkersInvariant, PTL
----------------------------------------------------------------------------
(* What a report accounts for *)

\* A report of a dispatch that came to its end, as ReportAccounts has it, and the label of
\* a failure, which only the last report bears.
AccountInv(f) ==
  /\ f.status \in {"completed", "failed"} /\ f.teardown \in Labels
  /\ pc[f.run] \notin Labelled => ~f.failed
  /\ f.listed =>
       /\ \A i \in Cases(f.run) : Cardinality(Places(f.scenarios, i)) = 1
       /\ f.status = "completed" <=> /\ ~f.failed
                                     /\ \A e \in Entries(f.scenarios) : e.status = "completed"
       /\ runtime[f.run] = "warm" => \A e \in Entries(f.scenarios) : ~e.cleanupFailed

\* A runtime that a scenario has left dirty is quarantined before the first report.
CleanInv(r) ==
  pc[r] \in {"reporting", "describing"} /\ runtime[r] = "warm" =>
    \A e \in Entries(summaries[r]) : ~e.cleanupFailed

ReportsInv == (\A f \in reports : AccountInv(f)) /\ (\A r \in Runs : CleanInv(r))

\* Workers that list their shares whole have listed every scenario once.
LEMMA WholeSharesAreTheSuite ==
  ASSUME NEW r \in Runs, NEW lists, DOMAIN lists = Team(r),
         \A w \in Team(r) : Whole(r, w, lists[w]), NEW i \in Cases(r)
  PROVE  Cardinality(Places(lists, i)) = 1
<1> DEFINE S == Size[r]
<1>1. S \in Nat \ {0} /\ i \in Nat \ {0} /\ i <= Len(Suite[r]) /\ Len(Suite[r]) \in Nat
  BY SuitesAndSizes DEF Cases
<1>2. PICK v \in Team(r) : i \in Share(r, v)
  <2> DEFINE a == (i - 1) \div S
             b == (i - 1) % S
  <2>1. i - 1 \in Int
    BY <1>1
  <2>2. a \in Int /\ b \in 0..(S - 1) /\ i - 1 = S * a + b
    <3> HIDE DEF S
    <3> QED  BY <1>1, <2>1, Multiples
  <2> HIDE DEF a, b
  <2>3. b + 1 \in Team(r)
    BY <1>1, <2>2 DEF Team
  <2>4. i - (b + 1) = a * S
    BY <1>1, <2>2
  <2>5. (a * S) % S = 0
    <3> HIDE DEF S
    <3> QED  BY <1>1, <2>2, Multiples
  <2>6. (i - (b + 1)) % S = 0
    BY <2>4, <2>5
  <2> QED  BY <2>3, <2>6 DEF Share
<1>3. PICK k \in Nat \ {0} : i = Nth(r, v, k)
  BY <1>2, ShareInTurn
<1>4. k \in DOMAIN lists[v] /\ lists[v][k].case = i
  <2> DEFINE n == Len(lists[v])
  <2>1. /\ n \in Nat /\ DOMAIN lists[v] = 1..n /\ Nth(r, v, n + 1) \notin Cases(r)
        /\ \A j \in 1..n : lists[v][j].case = Nth(r, v, j)
    BY DEF Whole, InTurn
  <2>2. n + 1 \in Nat \ {0}
    BY <2>1
  <2> HIDE DEF n
  <2>3. Nth(r, v, n + 1) \in Nat /\ Nth(r, v, n + 1) > Len(Suite[r])
    <3>1. Nth(r, v, n + 1) \in Nat \ {0}
      BY <2>2, NthInShare
    <3> QED  BY <1>1, <2>1, <3>1 DEF Cases
  <2>4. Nth(r, v, n + 1) > Nth(r, v, k)
    BY <1>1, <1>3, <2>3
  <2>5. n + 1 > k
    BY <2>2, <2>4, NthFrom
  <2> QED  BY <1>3, <2>1, <2>5
<1>5. <<v, k>> \in Places(lists, i)
  BY <1>4 DEF Places
<1>6. ASSUME NEW x \in Places(lists, i)
      PROVE  x = <<v, k>>
  <2>0. PICK w \in Team(r) : x \in {w} \X DOMAIN lists[w] /\ lists[x[1]][x[2]].case = i
    BY DEF Places
  <2>1. PICK l \in DOMAIN lists[w] : x = <<w, l>> /\ lists[w][l].case = i
    BY <2>0
  <2>2. l \in Nat \ {0} /\ Nth(r, w, l) = i
    BY <2>1 DEF Whole, InTurn
  <2>3. i \in Share(r, w)
    BY <2>2, NthInShare
  <2>4. w = v
    BY <1>2, <2>3, SharesApart
  <2>5. l = k
    BY <1>3, <2>2, <2>4, NthFrom
  <2> QED  BY <2>1, <2>4, <2>5
<1>7. Places(lists, i) = {<<v, k>>}
  BY <1>5, <1>6
<1> QED  BY <1>7, FS_Singleton

\* A step neither takes a label away nor warms up the runtime of a run that has a report.
LEMMA LabelsStay ==
  ASSUME Functions, NEW r \in Runs, Step(r)
  PROVE  /\ pc[r] \in Labelled => pc'[r] \in Labelled
         /\ pc[r] \notin Unrecorded /\ runtime'[r] = "warm" => runtime[r] = "warm"
<1> USE DEF Functions, Labelled, Unrecorded, Goto, Set
<1>1. CASE Starting(r)
  <2>1. pc[r] \in Unrecorded
    BY <1>1 DEF Starting, Call, NameTaken, ReserveRunId, ReserveFails, Provision, ProvisionFails,
                Prepare, PrepareFails
  <2> QED  BY <2>1
<1>2. CASE DispatchFails(r) \/ DispatchReturns(r) \/ SaveReport(r) \/ SaveMetadata(r) \/ SaveFails(r)
  <2>1. \/ pc[r] = "running"
        \/ pc[r] \in {"reporting", "describing"} /\ UNCHANGED runtime
    BY <1>2 DEF DispatchFails, DispatchReturns, Joined, SaveReport, SaveMetadata, SaveFails
  <2> QED  BY <2>1
<1>3. CASE TearDown(r) \/ TearDownFails(r) \/ FinalizeReport(r) \/ FinalizeMetadata(r) \/ FinalizeFails(r)
  BY <1>3 DEF TearDown, TearDownFails, FinalizeReport, FinalizeMetadata, FinalizeFails
<1>4. CASE Crash(r)
  BY <1>4 DEF Crash, Over
<1>5. CASE \E w \in Team(r) : Working(r, w)
  BY <1>5 DEF Working
<1> QED  BY <1>1, <1>2, <1>3, <1>4, <1>5 DEF Step, Ending

\* A report that is not rewritten stays right.
LEMMA AccountsStay ==
  ASSUME SessionInv, ReportsInv, NEW r \in Runs, Step(r), NEW f \in reports
  PROVE  AccountInv(f)'
<1>1. f.run \in Runs /\ pc[f.run] \notin Unrecorded /\ AccountInv(f)
  BY DEF SessionInv, FileInv, Files, ReportsInv
<1>2. /\ pc[f.run] \in Labelled => pc'[f.run] \in Labelled
      /\ runtime'[f.run] = "warm" => runtime[f.run] = "warm"
  <2>1. Functions /\ OthersKept(r)
    BY OneMoves DEF SessionInv
  <2> QED  BY <1>1, <2>1, LabelsStay DEF OthersKept
<1> QED  BY <1>1, <1>2 DEF AccountInv

\* The first report has the whole lists of all workers and the status they come to.
LEMMA FirstReportAccounts ==
  ASSUME SessionInv, WorkersInv, ReportsInv, NEW r \in Runs, SaveReport(r),
         NEW file, file = FirstReport(r)
  PROVE  AccountInv(file)'
<1>1. pc[r] = "reporting" /\ pc'[r] = "describing" /\ UNCHANGED runtime
  BY DEF SaveReport, Goto, Set, SessionInv, Functions
<1>2. /\ file.run = r /\ file.status = Status(r) /\ file.failed = FALSE
      /\ file.teardown = FirstLabel(r) /\ file.scenarios = summaries[r]
  BY DEF FirstReport
<1>3. DOMAIN summaries[r] = Team(r) /\ \A w \in Team(r) : Whole(r, w, summaries[r][w])
  BY <1>1 DEF WorkersInv, WorkInv, WorkTypes, ListInv
<1>4. \A i \in Cases(r) : Cardinality(Places(file.scenarios, i)) = 1
  BY <1>2, <1>3, WholeSharesAreTheSuite
<1>5. file.status = "completed" <=> \A e \in Entries(file.scenarios) : e.status = "completed"
  BY <1>2, <1>3 DEF Status, WorkerSucceeded, Entries
<1>6. runtime'[r] = "warm" => \A e \in Entries(file.scenarios) : ~e.cleanupFailed
  BY <1>1, <1>2 DEF ReportsInv, CleanInv
<1>7. file.status \in {"completed", "failed"} /\ file.teardown \in Labels
  BY <1>2 DEF Status, FirstLabel, Labels
<1>8. file.run = r /\ ~file.failed
  BY <1>2
<1> QED  BY <1>4, <1>5, <1>6, <1>7, <1>8 DEF AccountInv

\* The last report keeps what the first one lists, and a failure of the run makes it failed.
LEMMA LastReportAccounts ==
  ASSUME SessionInv, ReportsInv, NEW r \in Runs, FinalizeReport(r), OthersKept(r), Functions'
  PROVE  \E file : reports' = Write(reports, file) /\ AccountInv(file)'
<1>1. /\ pc[r] = "finalising" /\ pc'[r] = "amending"
      /\ UNCHANGED <<executionFailed, cleanupFailed, mode, runtime>>
  BY DEF FinalizeReport, Goto, Set, callVars, SessionInv, Functions
<1>2. LastLabel(r) \in Labels
  BY DEF LastLabel, Labels
<1>3. CASE reports' = Write(reports, FailureReport(r))
  <2>1. PICK file : file = FailureReport(r)
    OBVIOUS
  <2>2. /\ file.run = r /\ file.status = "failed" /\ file.teardown = LastLabel(r)
        /\ file.listed = FALSE
    BY <2>1 DEF FailureReport
  <2>3. AccountInv(file)'
    BY <1>1, <1>2, <2>2 DEF AccountInv, Labelled
  <2> QED  BY <1>3, <2>1, <2>3
<1>4. ASSUME NEW report \in FilesOf(reports, r), reports' = Write(reports, Amended(r, report))
      PROVE  \E file : reports' = Write(reports, file) /\ AccountInv(file)'
  <2>1. /\ report \in reports /\ report.dir = dir[r]
    BY DEF FilesOf
  <2>2. report.run = r /\ Fields \subseteq DOMAIN report /\ AccountInv(report)
    BY <1>1, <2>1 DEF SessionInv, DirInv, Holding, Files, ReportFields, ReportsInv
  <2>3. PICK file : file = Amended(r, report)
    OBVIOUS
  <2>4. /\ file.run = r /\ file.teardown = LastLabel(r) /\ file.failed = Failed(r)
        /\ file.status = IF Failed(r) THEN "failed" ELSE report.status
        /\ file.listed = report.listed /\ file.scenarios = report.scenarios
    BY <2>2, <2>3 DEF Amended, Fields
  <2>5. ~report.failed
    BY <1>1, <2>2 DEF AccountInv, Labelled
  <2>6. runtime'[r] = runtime[r] /\ pc'[r] \in Labelled
    BY <1>1 DEF Labelled
  <2>7. file.status \in {"completed", "failed"} /\ file.teardown \in Labels
    BY <1>2, <2>2, <2>4 DEF AccountInv
  <2>8. ASSUME file.listed
        PROVE  /\ \A i \in Cases(r) : Cardinality(Places(file.scenarios, i)) = 1
               /\ file.status = "completed" <=> /\ ~file.failed
                                                /\ \A e \in Entries(file.scenarios) : e.status = "completed"
               /\ runtime[r] = "warm" => \A e \in Entries(file.scenarios) : ~e.cleanupFailed
    BY <2>2, <2>4, <2>5, <2>8 DEF AccountInv
  <2>9. AccountInv(file)'
    BY <2>4, <2>6, <2>7, <2>8 DEF AccountInv
  <2> QED  BY <1>4, <2>3, <2>9
<1> QED  BY <1>3, <1>4 DEF FinalizeReport

\* Every other step leaves the reports alone, and a dispatch that returns after a cleanup
\* had failed quarantines the runtime.
LEMMA OtherStepsReports ==
  ASSUME Functions, NEW r \in Runs, Step(r), ReportsInv
  PROVE  /\ SaveReport(r) \/ FinalizeReport(r) \/ reports' = reports
         /\ CleanInv(r)'
<1> USE DEF Functions, Goto, Set, fileVars
<1>1. CASE Starting(r)
  <2>1. CASE PrepareFails(r)
    BY <2>1 DEF PrepareFails, ExecutionFails, CleanInv
  <2>2. CASE Starting(r) /\ ~PrepareFails(r)
    BY <2>2 DEF Starting, Call, NameTaken, ReserveRunId, ReserveFails, Provision, ProvisionFails,
                Prepare, CleanInv
  <2> QED  BY <1>1, <2>1, <2>2
<1>2. CASE DispatchFails(r) \/ SaveFails(r)
  BY <1>2 DEF DispatchFails, SaveFails, ExecutionFails, CleanInv
<1>3. CASE DispatchReturns(r)
  <2>1. /\ UNCHANGED <<reports, summaries>>
        /\ runtime' = IF \E e \in Entries(summaries[r]) : e.cleanupFailed
                        THEN Set(runtime, r, "quarantined") ELSE runtime
    BY <1>3 DEF DispatchReturns, workerVars
  <2> QED  BY <2>1 DEF CleanInv
<1>4. CASE SaveReport(r)
  BY <1>4 DEF SaveReport, workerVars, ReportsInv, CleanInv
<1>5. CASE SaveMetadata(r) \/ TearDown(r) \/ TearDownFails(r) \/ FinalizeReport(r) \/ FinalizeMetadata(r) \/ FinalizeFails(r)
  BY <1>5 DEF SaveMetadata, TearDown, TearDownFails, FinalizeReport, FinalizeMetadata, FinalizeFails, CleanInv
<1>6. CASE Crash(r)
  BY <1>6 DEF Crash, CleanInv
<1>7. ASSUME NEW w \in Team(r), Working(r, w)
      PROVE  reports' = reports /\ CleanInv(r)'
  <2>1. pc[r] = "running" /\ UNCHANGED <<pc, fileVars>>
    BY <1>7 DEF Working, Diagnose, DiagnoseUntraced, NotDiagnosed, WorkerFails, Score, ScoreFails
  <2> QED  BY <2>1 DEF CleanInv
<1> QED  BY <1>1, <1>2, <1>3, <1>4, <1>5, <1>6, <1>7 DEF Step, Ending

LEMMA ReportsSteps ==
  ASSUME SessionInv, WorkersInv, ReportsInv, NEW r \in Runs, Step(r)
  PROVE  ReportsInv'
<1>1. Functions /\ OthersKept(r) /\ Functions'
  BY OneMoves DEF SessionInv
<1>2. \A q \in Runs : CleanInv(q)'
  <2>1. CleanInv(r)'
    BY <1>1, OtherStepsReports
  <2>2. ASSUME NEW q \in Runs, q # r
        PROVE  CleanInv(q)'
    BY <1>1, <2>2 DEF OthersKept, ReportsInv, CleanInv
  <2> QED  BY <2>1, <2>2
<1>3. \A f \in reports : AccountInv(f)'
  BY AccountsStay
<1>4. CASE SaveReport(r)
  <2>1. PICK file : file = FirstReport(r)
    OBVIOUS
  <2>2. AccountInv(file)'
    BY <1>4, <2>1, FirstReportAccounts
  <2>3. reports' = Write(reports, file)
    BY <1>4, <2>1 DEF SaveReport
  <2> QED  BY <1>2, <1>3, <2>2, <2>3 DEF ReportsInv, Write
<1>5. CASE FinalizeReport(r)
  <2>1. PICK file : reports' = Write(reports, file) /\ AccountInv(file)'
    BY <1>1, <1>5, LastReportAccounts
  <2> QED  BY <1>2, <1>3, <2>1 DEF ReportsInv, Write
<1>6. CASE reports' = reports
  BY <1>2, <1>3, <1>6 DEF ReportsInv
<1> QED  BY <1>1, <1>4, <1>5, <1>6, OtherStepsReports

\* In every reachable state a report has every scenario of the suite once, says "completed"
\* exactly of a run of which nothing failed, and of a runtime still warm no failed cleanup.
THEOREM ReportsInvariant == Spec => []ReportsInv
<1>1. Init => ReportsInv
  BY DEF Init, PerRun, ReportsInv, CleanInv
<1>2. SessionInv /\ WorkersInv /\ ReportsInv /\ [Next]_vars => ReportsInv'
  <2> SUFFICES ASSUME SessionInv, WorkersInv, ReportsInv, [Next]_vars
               PROVE  ReportsInv'
    OBVIOUS
  <2>1. CASE UNCHANGED vars
    BY <2>1 DEF vars, fileVars, workerVars, ReportsInv, AccountInv, CleanInv
  <2>2. ASSUME NEW r \in Runs, Step(r)
        PROVE  ReportsInv'
    BY <2>2, ReportsSteps
  <2> QED  BY <2>1, <2>2 DEF Next, Step
<1> QED  BY <1>1, <1>2, SessionInvariant, WorkersInvariant, PTL DEF Spec

\* A report of a dispatch that came to its end accounts for every scenario, although workers
\* stop early, and its status is that of all of them.
THEOREM ReportsAccount == Spec => []ReportAccounts
<1>1. ReportsInv => ReportAccounts
  BY DEF ReportsInv, AccountInv, ReportAccounts
<1> QED  BY <1>1, ReportsInvariant, PTL
----------------------------------------------------------------------------
(* Types *)

StateTypes ==
  /\ pc \in [Runs -> Pcs] /\ mode \in [Runs -> Modes] /\ \A r \in Runs : RunId(r) \in Nat
  /\ runtime \in [Runs -> {"none", "warm", "quarantined", "cleanup_failed", "gone"}]
  /\ executionFailed \in [Runs -> BOOLEAN] /\ cleanupFailed \in [Runs -> BOOLEAN]
  /\ handle \in [Runs -> {"none", "completed", "failed"}]
  /\ lost \in 0..MaxLost

FileTypes(p) == p.run \in Runs /\ p.status \in {"completed", "failed"} /\ p.teardown \in Labels
TypesInv == DOMAIN dir = Runs /\ StateTypes /\ \A p \in metadata : FileTypes(p)

LEMMA StateTypesStep ==
  ASSUME SessionInv, ReportsInv, TypesInv, NEW r \in Runs, Step(r)
  PROVE  DOMAIN dir' = Runs /\ StateTypes'
<1> USE BoundsAssumption DEF TypesInv, StateTypes, RunId, Goto, Set, Pcs, Modes, callVars, traceVars
<1>1. CASE Starting(r)
  <2>1. CASE Call(r)
    <3>1. PICK m \in Kinds[r] :
            /\ mode' = [mode EXCEPT ![r] = m]
            /\ \/ \E s \in {"warm", "quarantined"} : runtime' = [runtime EXCEPT ![r] = s]
               \/ UNCHANGED runtime
      BY <2>1 DEF Call
    <3>2. m \in Modes
      BY KindsAssumption
    <3>3. PICK root \in Roots[r] : dir' = [dir EXCEPT ![r] = <<root, 1>>]
      BY <2>1 DEF Call
    <3>4. /\ pc' = [pc EXCEPT ![r] = "reserving"]
          /\ UNCHANGED <<executionFailed, cleanupFailed, handle, lost>>
      BY <2>1 DEF Call
    <3>5. DOMAIN dir' = Runs /\ \A q \in Runs : dir'[q][2] \in Nat
      BY <3>3
    <3> QED  BY <3>1, <3>2, <3>4, <3>5
  <2>2. CASE NameTaken(r) \/ ReserveRunId(r) \/ ReserveFails(r)
    BY <2>2 DEF NameTaken, ReserveRunId, ReserveFails
  <2>3. CASE Provision(r) \/ ProvisionFails(r) \/ Prepare(r)
    BY <2>3 DEF Provision, ProvisionFails, Prepare
  <2>4. CASE PrepareFails(r)
    BY <2>4 DEF PrepareFails, ExecutionFails, Forget, CloseTraces
  <2> QED  BY <1>1, <2>1, <2>2, <2>3, <2>4 DEF Starting
<1>2. CASE DispatchFails(r) \/ SaveFails(r)
  <2>1. ExecutionFails(r) /\ UNCHANGED runtime
    BY <1>2 DEF DispatchFails, SaveFails
  <2>2. \E place \in {"tearing", "finalising", "broken"} : pc' = [pc EXCEPT ![r] = place]
    BY <2>1 DEF ExecutionFails
  <2> QED  BY <2>1, <2>2 DEF ExecutionFails, Forget, CloseTraces
<1>3. CASE DispatchReturns(r)
  BY <1>3 DEF DispatchReturns, CloseTraces
<1>4. CASE SaveReport(r) \/ SaveMetadata(r)
  BY <1>4 DEF SaveReport, SaveMetadata, Status, Forget, CloseTraces
<1>5. CASE TearDown(r) \/ TearDownFails(r) \/ FinalizeReport(r) \/ FinalizeFails(r)
  <2>1. CASE TearDown(r) \/ TearDownFails(r)
    <3>1. /\ pc' = [pc EXCEPT ![r] = "finalising"]
          /\ \E s \in {"gone", "cleanup_failed"} : runtime' = [runtime EXCEPT ![r] = s]
          /\ cleanupFailed' = cleanupFailed \/ cleanupFailed' = [cleanupFailed EXCEPT ![r] = TRUE]
          /\ UNCHANGED <<mode, dir, executionFailed, handle, lost>>
      BY <2>1 DEF TearDown, TearDownFails
    <3>2. cleanupFailed' \in [Runs -> BOOLEAN]
      BY <3>1
    <3>3. runtime' \in [Runs -> {"none", "warm", "quarantined", "cleanup_failed", "gone"}]
      BY <3>1
    <3>4. pc' \in [Runs -> Pcs]
      BY <3>1
    <3>5. /\ DOMAIN dir' = Runs /\ \A q \in Runs : dir'[q][2] \in Nat
          /\ mode' \in [Runs -> Modes] /\ executionFailed' \in [Runs -> BOOLEAN]
          /\ handle' \in [Runs -> {"none", "completed", "failed"}] /\ lost' \in 0..MaxLost
      BY <3>1
    <3> QED  BY <3>2, <3>3, <3>4, <3>5
  <2>2. CASE FinalizeReport(r) \/ FinalizeFails(r)
    <3>1. /\ \E place \in {"amending", "broken"} : pc' = [pc EXCEPT ![r] = place]
          /\ UNCHANGED <<mode, dir, executionFailed, cleanupFailed, handle, runtime, lost>>
      BY <2>2 DEF FinalizeReport, FinalizeFails
    <3> QED  BY <3>1
  <2> QED  BY <1>5, <2>1, <2>2
<1>6. CASE FinalizeMetadata(r)
  <2>1. \A f \in reports : f.status \in {"completed", "failed"}
    BY DEF ReportsInv, AccountInv
  <2> QED  BY <1>6, <2>1 DEF FinalizeMetadata, FilesOf, Refreshed
<1>7. CASE Crash(r)
  BY <1>7 DEF Crash, Forget, CloseTraces
<1>8. ASSUME NEW w \in Team(r), Working(r, w)
      PROVE  DOMAIN dir' = Runs /\ StateTypes'
  <2>1. UNCHANGED <<pc, callVars, runtime>>
    BY <1>8 DEF Working, Diagnose, DiagnoseUntraced, NotDiagnosed, WorkerFails, Score, ScoreFails
  <2>2. lost' = lost \/ Lose
    BY <1>8 DEF Working, Diagnose, DiagnoseUntraced, NotDiagnosed, WorkerFails, Score, ScoreFails, AddRow
  <2> QED  BY <2>1, <2>2 DEF Lose
<1> QED  BY <1>1, <1>2, <1>3, <1>4, <1>5, <1>6, <1>7, <1>8 DEF Step, Ending

LEMMA MetadataTypesStep ==
  ASSUME SessionInv, ReportsInv, TypesInv, NEW r \in Runs, Step(r)
  PROVE  \A p \in metadata' : FileTypes(p)
<1> USE DEF TypesInv, FileTypes, fileVars
<1>1. CASE Starting(r)
  BY <1>1 DEF Starting, Call, NameTaken, ReserveRunId, ReserveFails, Provision, ProvisionFails,
              Prepare, PrepareFails
<1>2. CASE SaveMetadata(r)
  <2>1. FileTypes(FirstMetadata(r))
    BY DEF FirstMetadata, Status, FirstLabel, Labels
  <2> QED  BY <1>2, <2>1 DEF SaveMetadata, Write
<1>3. CASE FinalizeMetadata(r)
  <2>1. \A f \in reports : f.status \in {"completed", "failed"}
    BY DEF ReportsInv, AccountInv
  <2> QED  BY <1>3, <2>1 DEF FinalizeMetadata, FilesOf, LastStatus, LastLabel, Labels, Write
<1>4. CASE Ending(r) /\ ~SaveMetadata(r) /\ ~FinalizeMetadata(r)
  BY <1>4 DEF Ending, DispatchFails, DispatchReturns, SaveReport, SaveFails, TearDown, TearDownFails,
              FinalizeReport, FinalizeFails
<1>5. CASE Crash(r)
  BY <1>5 DEF Crash
<1>6. CASE \E w \in Team(r) : Working(r, w)
  BY <1>6 DEF Working, Diagnose, DiagnoseUntraced, NotDiagnosed, WorkerFails, Score, ScoreFails
<1> QED  BY <1>1, <1>2, <1>3, <1>4, <1>5, <1>6 DEF Step

\* Every variable keeps its type, the files and rows of all runs included.
THEOREM SessionTyped == Spec => []TypeOK
<1>1. Init => TypesInv
  BY BoundsAssumption DEF Init, PerRun, TypesInv, StateTypes, RunId, Pcs, Modes
<1>2. SessionInv /\ ReportsInv /\ TypesInv /\ [Next]_vars => TypesInv'
  <2> SUFFICES ASSUME SessionInv, ReportsInv, TypesInv, [Next]_vars
               PROVE  TypesInv'
    OBVIOUS
  <2>1. CASE UNCHANGED vars
    BY <2>1 DEF vars, callVars, fileVars, traceVars, TypesInv, StateTypes, RunId, FileTypes
  <2>2. ASSUME NEW r \in Runs, Step(r)
        PROVE  TypesInv'
    BY <2>2, StateTypesStep, MetadataTypesStep DEF TypesInv
  <2> QED  BY <2>1, <2>2 DEF Next, Step
<1>3. SessionInv /\ WorkersInv /\ ReportsInv /\ TypesInv => TypeOK
  <2> SUFFICES ASSUME SessionInv, WorkersInv, ReportsInv, TypesInv
               PROVE  TypeOK
    OBVIOUS
  <2>1. \A p \in reports \cup metadata : FileTypes(p)
    BY DEF SessionInv, FileInv, Files, ReportsInv, AccountInv, TypesInv, FileTypes
  <2>2. ASSUME NEW r \in Runs
        PROVE  /\ index[r] \in Seq(Cases(r))
               /\ \A row \in rows[r] : row.case \in Cases(r) /\ row.trace \in Cases(r) \cup {0}
               /\ \A w \in Team(r) : thread[r][w] \in {"running", "returning", "done", "raised"}
    BY DEF WorkersInv, WorkInv, WorkTypes, RowInv
  <2> QED  BY <2>1, <2>2 DEF TypesInv, StateTypes, FileTypes, TypeOK
<1> QED  BY <1>1, <1>2, <1>3, SessionInvariant, WorkersInvariant, ReportsInvariant, PTL DEF Spec
=============================================================================
