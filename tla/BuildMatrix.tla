---------------------------- MODULE BuildMatrix ----------------------------
(***************************************************************************)
(* tools/build_matrix.py on top of tools/job_queue.py: a run plans its      *)
(* targets, skips what --resume may skip, builds the rest with one scratch  *)
(* checkout per worker, and publishes every result under _STATE_LOCK to     *)
(* report.json, to the run's build-status.yml and, on request, to the       *)
(* tracked bundle-catalog/build-status.yml. A run may be killed anywhere.   *)
(*                                                                          *)
(* A catalog folder is known by a version number: the working tree's is     *)
(* what the plan takes the checksum of, HEAD's is what a scratch worktree   *)
(* holds. Every status of run_one other than success ("invalid", "host",    *)
(* "build_failed", "failed", "timeout", a caught "error") is "failed" here; *)
(* Crash is the record job_queue writes itself, which has an id and a       *)
(* status and none of the other keys.                                       *)
(***************************************************************************)
EXTENDS JobQueue, SequencesExt

CONSTANTS
  Catalog,    \* the targets of kind "catalog"; the others are core targets
  MaxRuns,    \* bound: runs of main
  MaxEdits    \* bound: edits of the catalog folders

ASSUME CatalogAssumption == Catalog \subseteq Targets
ASSUME OutcomesAre == Outcomes = {"success", "failed"}

NoWorker == "no worker"
ASSUME NoWorkerAssumption == NoWorker \notin Workers
NoVersion == 0
Absent == "absent"

VARIABLES
  working,     \* version of each target's files in the working tree
  head,        \* version of each target's files in HEAD
  phase,       \* "idle" or "run": is main executing
  runs,        \* how many runs were started
  selected,    \* the targets of this run (--only, --kind, --base, --suite)
  planned,     \* Target.checksum of this run's plan
  update,      \* --update-catalog-status-file
  toRun,       \* targets_to_run
  report,      \* main's report["targets"]
  reportFile,  \* report.json
  statusFile,  \* --output/build-status.yml
  catalogFile, \* bundle-catalog/build-status.yml
  merged,      \* what write_build_status is about to write to it
  scratch,     \* version of HEAD each worker's scratch checkout was made from
  built,       \* version each worker's last build was made from
  lock,        \* who holds _STATE_LOCK
  pubpc,       \* the next step of the lock holder in _on_result
  exitCode,    \* how the last run ended
  stranded,    \* history: did every worker of the last run die while publishing
  unsaved      \* history: results that _write_report failed to write and no later call wrote

treeVars == <<working, head>>
runVars == <<phase, runs, selected, planned, update, toRun, exitCode, stranded>>
diskVars == <<reportFile, statusFile, catalogFile>>
pubVars == <<report, merged, lock, pubpc, unsaved>>
buildVars == <<scratch, built>>
matrixVars == <<jobVars, treeVars, runVars, diskVars, pubVars, buildVars>>

NoRecord == [status |-> Absent, checksum |-> NoVersion, built |-> NoVersion]
PendingRecord(t, sum) == [status |-> "pending", checksum |-> sum[t], built |-> NoVersion]
EmptyReport == [t \in Targets |-> NoRecord]
EmptyStatus == [t \in Targets |-> Absent]
NoCheckout == [t \in Targets |-> NoVersion]

\* A record run_one made has every key; the one _worker makes after the last
\* raise has neither "engine" nor "checksum".
RecordOf(w) ==
  LET t == witem[w] IN
  IF wresult[w] = Crash
  THEN [status |-> Crash, checksum |-> NoVersion, built |-> NoVersion]
  ELSE [status |-> wresult[w], checksum |-> planned[t], built |-> built[w]]

-----------------------------------------------------------------------------
\* Between runs the operator edits a catalog folder and commits what is edited.
Edit(t) ==
  /\ phase = "idle"
  /\ t \in Catalog
  /\ working[t] <= MaxEdits
  /\ working' = [working EXCEPT ![t] = @ + 1]
  /\ UNCHANGED <<head, jobVars, runVars, diskVars, pubVars, buildVars>>

Commit ==
  /\ phase = "idle"
  /\ head # working
  /\ head' = working
  /\ UNCHANGED <<working, jobVars, runVars, diskVars, pubVars, buildVars>>

\* Mutant: --resume looks at the status only.
SkipsWhateverSucceeded(previous, t, sum) == previous[t].status = "success"
\* targets_to_run with --resume: success at the checksum being planned now.
Skips(previous, t, sum) ==
  previous[t].status = "success" /\ previous[t].checksum = sum[t]

\* main up to run_targets_in_parallel: plan, load the report, write the
\* pending records, start the workers.
StartRun(sel, resume, upd) ==
  LET previous == IF resume THEN reportFile ELSE EmptyReport
      todo == {t \in sel : ~(resume /\ Skips(previous, t, working))}
      initial == [t \in Targets |-> IF t \in todo THEN PendingRecord(t, working) ELSE previous[t]]
  IN /\ phase = "idle"
     /\ runs < MaxRuns
     /\ phase' = "run"
     /\ runs' = runs + 1
     /\ selected' = sel
     /\ planned' = working
     /\ update' = upd
     /\ toRun' = todo
     /\ exitCode' = "none"
     /\ report' = initial
     /\ reportFile' = initial
     /\ \E jobs \in Jobs : Start(SetToSeq(todo), jobs)
     /\ scratch' = [w \in Workers |-> NoCheckout]
     /\ built' = [w \in Workers |-> NoVersion]
     /\ merged' = EmptyStatus
     /\ lock' = NoWorker
     /\ pubpc' = "none"
     /\ stranded' = FALSE
     /\ unsaved' = {}
     /\ UNCHANGED <<treeVars, statusFile, catalogFile>>

Running == phase = "run"

MatrixTake(w) == Running /\ Take(w) /\ UNCHANGED <<treeVars, runVars, diskVars, pubVars, buildVars>>
MatrixTakeNone(w) == Running /\ TakeNone(w) /\ UNCHANGED <<treeVars, runVars, diskVars, pubVars, buildVars>>

\* build_one: the worker's checkout is made from HEAD by its first target and
\* kept for the rest of the run.
CreateScratch(w) ==
  /\ Running
  /\ wstate[w] = "building"
  /\ scratch[w] = NoCheckout
  /\ scratch' = [scratch EXCEPT ![w] = head]
  /\ UNCHANGED <<jobVars, treeVars, runVars, diskVars, pubVars, built>>

\* run_one builds the source _materialize_source points it at: the checkout's
\* own copy of a catalog folder, but this run's own file for a core target.
RunOne(w, outcome) ==
  /\ Running
  /\ scratch[w] # NoCheckout
  /\ BuildReturns(w, outcome)
  /\ built' = [built EXCEPT ![w] =
                 IF witem[w] \in Catalog THEN scratch[w][witem[w]] ELSE planned[witem[w]]]
  /\ UNCHANGED <<treeVars, runVars, diskVars, pubVars, scratch>>

\* scratch_checkout.create, or run_one outside its own try (the target
\* directory, the ISO's checksum, the smoke test), raises.
BuildOneRaises(w) ==
  /\ Running
  /\ BuildRaises(w)
  /\ UNCHANGED <<treeVars, runVars, diskVars, pubVars, buildVars>>

MatrixRecord(w) == Running /\ RecordResult(w) /\ UNCHANGED <<treeVars, runVars, diskVars, pubVars, buildVars>>

-----------------------------------------------------------------------------
\* _on_result, one step per effect another process or a kill can see.
OnResultLock(w) ==
  /\ Running
  /\ wstate[w] = "publish"
  /\ lock = NoWorker
  /\ lock' = w
  /\ report' = [report EXCEPT ![witem[w]] = RecordOf(w)]
  /\ pubpc' = "report"
  /\ UNCHANGED <<jobVars, treeVars, runVars, diskVars, merged, unsaved, buildVars>>

\* Mutant: the report is written only at the end of the run.
WriteReportLater == UNCHANGED reportFile
\* _write_report: a temporary file and os.replace.
WriteReport == reportFile' = report

OnResultReport(w) ==
  /\ lock = w
  /\ pubpc = "report"
  /\ WriteReport
  /\ unsaved' = {}
  /\ pubpc' = "status"
  /\ UNCHANGED <<jobVars, treeVars, runVars, statusFile, catalogFile, report, merged, lock, buildVars>>

\* build_status_data reads record["engine"] of every catalog target planned.
StatusDataRaises == \E t \in selected \cap Catalog : report[t].status = Crash

BuildStatusData(t) == t \in selected \cap Catalog /\ report[t].status \notin {Absent, "running"}
RunStatus == [t \in Targets |-> IF BuildStatusData(t) THEN report[t].status ELSE Absent]

\* What the file beside report.json holds when _on_result raises in between: a
\* KeyError comes before the file is opened, a full disk when it was emptied, and
\* the tracked file may turn out unreadable after it was written.
StatusAfterRaise ==
  IF StatusDataRaises THEN {statusFile}
  ELSE {statusFile, EmptyStatus} \cup (IF update THEN {RunStatus} ELSE {})

\* Mutant: the lock is not released when the body raises.
KeepLock == UNCHANGED lock
ReleaseLock == lock' = NoWorker

\* A write, the KeyError or the tracked file's contents raise: the exception
\* leaves the with block and _worker, and the thread is gone. A report that could
\* not be written is replaced as a whole or not at all.
OnResultRaises(w) ==
  /\ lock = w
  /\ \/ pubpc = "report" /\ unsaved' = unsaved \cup {witem[w]} /\ UNCHANGED statusFile
     \/ pubpc = "status" /\ statusFile' \in StatusAfterRaise /\ UNCHANGED unsaved
     \/ pubpc = "catalog" /\ UNCHANGED <<statusFile, unsaved>>
  /\ PublishRaises(w)
  /\ ReleaseLock
  /\ pubpc' = "none"
  /\ UNCHANGED <<treeVars, runVars, reportFile, catalogFile, report, merged, buildVars>>

\* After the with block a line is printed, into a pipe that may be broken.
PublishEnds(w) ==
  /\ PublishReturns(w) \/ PublishRaises(w)
  /\ lock' = NoWorker
  /\ pubpc' = "none"

\* write_build_status to --output, and done unless the tracked file is asked
\* for; for that one read what it holds and open it for writing, empty.
OnResultStatus(w) ==
  /\ lock = w
  /\ pubpc = "status"
  /\ ~StatusDataRaises
  /\ statusFile' = RunStatus
  /\ \/ /\ ~update
        /\ PublishEnds(w)
        /\ UNCHANGED <<catalogFile, merged>>
     \/ /\ update
        /\ merged' = [t \in Targets |-> IF BuildStatusData(t) THEN report[t].status ELSE catalogFile[t]]
        /\ catalogFile' = EmptyStatus
        /\ pubpc' = "catalog"
        /\ UNCHANGED <<jobVars, lock>>
  /\ UNCHANGED <<treeVars, runVars, reportFile, report, unsaved, buildVars>>

OnResultCatalog(w) ==
  /\ lock = w
  /\ pubpc = "catalog"
  /\ catalogFile' = merged
  /\ PublishEnds(w)
  /\ UNCHANGED <<treeVars, runVars, reportFile, statusFile, report, merged, unsaved, buildVars>>

-----------------------------------------------------------------------------
Failed == {t \in toRun : report[t].status \notin {"success", "pending"}}

\* The process is gone and with it everything it kept in memory.
ProcessGone ==
  /\ phase' = "idle"
  /\ items' = {} /\ pending' = <<>> /\ inFlight' = 0
  /\ attempts' = [t \in Targets |-> 0]
  /\ results' = [t \in Targets |-> NoResult]
  /\ wstate' = [w \in Workers |-> "done"]
  /\ witem' = [w \in Workers |-> NoTarget]
  /\ wresult' = [w \in Workers |-> NoResult]
  /\ report' = EmptyReport
  /\ merged' = EmptyStatus
  /\ scratch' = [w \in Workers |-> NoCheckout]
  /\ built' = [w \in Workers |-> NoVersion]
  /\ lock' = NoWorker
  /\ pubpc' = "none"
  /\ unsaved' = {}
  /\ UNCHANGED <<treeVars, runs, selected, planned, update, toRun>>

\* run_parallel returned: write the report once more and exit. main counts as
\* failed what is neither a success nor still pending.
Finish ==
  /\ Running
  /\ Joined
  /\ reportFile' = report
  /\ exitCode' = IF Failed = {} THEN "ok" ELSE "failures"
  /\ stranded' = NobodyDrained
  /\ ProcessGone
  /\ UNCHANGED <<statusFile, catalogFile>>

\* Also a last _write_report that raises.
Kill ==
  /\ Running
  /\ exitCode' = "killed"
  /\ ProcessGone
  /\ UNCHANGED <<diskVars, stranded>>

-----------------------------------------------------------------------------
MatrixInit ==
  /\ items = {} /\ pending = <<>> /\ inFlight = 0
  /\ attempts = [t \in Targets |-> 0]
  /\ results = [t \in Targets |-> NoResult]
  /\ wstate = [w \in Workers |-> "done"]
  /\ witem = [w \in Workers |-> NoTarget]
  /\ wresult = [w \in Workers |-> NoResult]
  /\ working = [t \in Targets |-> 1] /\ head = working
  /\ phase = "idle" /\ runs = 0 /\ selected = {} /\ toRun = {}
  /\ planned = working /\ update = FALSE /\ exitCode = "none"
  /\ report = EmptyReport /\ reportFile = EmptyReport
  /\ statusFile = EmptyStatus /\ merged = EmptyStatus
  /\ catalogFile = EmptyStatus
  /\ scratch = [w \in Workers |-> NoCheckout]
  /\ built = [w \in Workers |-> NoVersion]
  /\ lock = NoWorker /\ pubpc = "none" /\ stranded = FALSE /\ unsaved = {}

MatrixWorker(w) ==
  \/ MatrixTake(w) \/ MatrixTakeNone(w)
  \/ CreateScratch(w)
  \/ \E outcome \in Outcomes : RunOne(w, outcome)
  \/ BuildOneRaises(w)
  \/ MatrixRecord(w)
  \/ OnResultLock(w) \/ OnResultReport(w) \/ OnResultRaises(w)
  \/ OnResultStatus(w) \/ OnResultCatalog(w)

MatrixNext ==
  \/ \E t \in Targets : Edit(t)
  \/ Commit
  \/ \E sel \in SUBSET Targets \ {{}}, resume, upd \in BOOLEAN : StartRun(sel, resume, upd)
  \/ \E w \in Workers : MatrixWorker(w)
  \/ Finish
  \/ Kill

\* Threads run, main joins them; nobody is obliged to edit, start or kill.
MatrixSpec ==
  /\ MatrixInit /\ [][MatrixNext]_matrixVars
  /\ \A w \in Workers : WF_matrixVars(MatrixWorker(w))
  /\ WF_matrixVars(Finish)

-----------------------------------------------------------------------------

\* "killing this run loses at most the target that was in flight, never the
\* ones already recorded": once its worker moved on or died, a result is in
\* report.json, whatever the other workers do to the same file meanwhile. Only
\* a result whose own write raised waits for the next write.
RecordedSurvivesKill ==
  Running =>
    \A t \in items :
      \/ results[t] = NoResult
      \/ \E w \in Workers : wstate[w] = "publish" /\ witem[w] = t
      \/ t \in unsaved
      \/ reportFile[t].status = results[t]

\* "0 when every target this run attempted succeeded": with exit code 0 every
\* selected target, built or skipped, is recorded as a success at the checksum
\* this run planned. The exit code does not count what is still pending, and one
\* worker that sees the queue drained is enough for nothing to be pending; only
\* if every worker died while publishing is a target left, and then it says so.
ExitOkMeansProven ==
  exitCode = "ok" =>
    \A t \in selected :
      \/ reportFile[t].status = "success" /\ reportFile[t].checksum = planned[t]
      \/ stranded /\ reportFile[t].status = "pending"

\* Every run ends, whichever workers die on the way.
MatrixTerminates == Running ~> ~Running
=============================================================================
