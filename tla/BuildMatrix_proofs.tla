------------------------- MODULE BuildMatrix_proofs -------------------------
(***************************************************************************)
(* What report.json and the exit code of build_matrix.py promise, for any  *)
(* number of targets, workers, edits and runs.                             *)
(*                                                                         *)
(* The queue is sound whatever main does around it (JobQueue_proofs).  On   *)
(* top of that: only the holder of _STATE_LOCK changes report and file, so *)
(* between two publications they agree but for what a failed write left;   *)
(* and a result whose worker moved on or died is in the report.            *)
(***************************************************************************)
EXTENDS BuildMatrix, JobQueue_proofs

Statuses == {Absent, "pending"} \cup Results
Records == [status : Statuses, checksum : Nat, built : Nat]

MatrixTypeOK ==
  /\ working \in [Targets -> Nat] /\ head \in [Targets -> Nat]
  /\ planned \in [Targets -> Nat]
  /\ phase \in {"idle", "run"}
  /\ toRun \subseteq selected /\ selected \subseteq Targets
  /\ report \in [Targets -> Records] /\ reportFile \in [Targets -> Records]
  /\ scratch \in [Workers -> [Targets -> Nat]] /\ built \in [Workers -> Nat]
  /\ lock \in Workers \cup {NoWorker}
  /\ unsaved \subseteq Targets

Publishing(w) == wstate[w] = "publish"

\* A worker that recorded a result is the only one to publish it.
PublishersInv ==
  /\ \A w \in Workers : Publishing(w) =>
       witem[w] \in items /\ results[witem[w]] = wresult[w] /\ wresult[w] \in Results
  /\ \A v, w \in Workers : Publishing(v) /\ Publishing(w) /\ witem[v] = witem[w] => v = w

\* Who holds _STATE_LOCK publishes, and how far the holder is tells how the
\* report and its file differ.
LockInv ==
  /\ lock = NoWorker => \A t \in Targets \ unsaved : reportFile[t] = report[t]
  /\ lock # NoWorker =>
       /\ Publishing(lock)
       /\ report[witem[lock]].status = wresult[lock]
       /\ pubpc = "report" => \A t \in Targets \ unsaved : t # witem[lock] => reportFile[t] = report[t]
       /\ pubpc # "report" => reportFile = report

\* The report of a run: what was skipped is a success at the checksum of this
\* plan, what is built is pending or has its result, and a result whose worker
\* moved on is there.
ReportInv ==
  /\ items = toRun
  /\ \A t \in selected \ toRun : report[t].status = "success" /\ report[t].checksum = planned[t]
  /\ \A t \in toRun :
       /\ \/ report[t].status = "pending"
          \/ results[t] # NoResult /\ report[t].status = results[t]
       /\ report[t].status = "success" => report[t].checksum = planned[t]
       /\ \/ results[t] = NoResult
          \/ report[t].status = results[t]
          \/ \E w \in Workers : Publishing(w) /\ witem[w] = t

MatrixInv ==
  /\ IInv
  /\ MatrixTypeOK
  /\ phase = "idle" => lock = NoWorker /\ items = {} /\ \A w \in Workers : wstate[w] = "done"
  /\ Running => PublishersInv /\ LockInv /\ ReportInv /\ exitCode = "none"
  /\ ExitOkMeansProven

-----------------------------------------------------------------------------
\* The parts of the invariant while a run is under way.
LEMMA RunningParts ==
  ASSUME MatrixInv, Running
  PROVE  /\ IInv /\ TypeOK /\ MatrixTypeOK /\ PublishersInv /\ LockInv /\ ReportInv
         /\ exitCode = "none" /\ phase = "run"
         /\ \A w \in Workers : w # NoWorker
BY NoWorkerAssumption DEF MatrixInv, Running, IInv, QueueIsSound

\* A step of a run that goes on has only to keep the parts of the invariant.
LEMMA RunGoesOn ==
  ASSUME IInv', MatrixTypeOK', phase' = "run", exitCode' = "none",
         PublishersInv', LockInv', ReportInv'
  PROVE  MatrixInv'
BY DEF MatrixInv, ExitOkMeansProven, Running

\* The step of a worker that neither records nor publishes: what the others
\* publish, the report and the results stay.
LEMMA BuildingStep ==
  ASSUME MatrixInv, Running, IInv', NEW w \in Workers, NEW s \in {"take", "building", "record", "done"},
         wstate[w] \in {"take", "building"}, wstate' = [wstate EXCEPT ![w] = s],
         \A v \in Workers : v # w => witem'[v] = witem[v] /\ wresult'[v] = wresult[v],
         UNCHANGED <<items, results, treeVars, runVars, diskVars, pubVars>>,
         scratch' \in [Workers -> [Targets -> Nat]], built' \in [Workers -> Nat]
  PROVE  MatrixInv'
<1>1. /\ TypeOK /\ MatrixTypeOK /\ PublishersInv /\ LockInv /\ ReportInv
      /\ exitCode = "none" /\ phase = "run" /\ \A v \in Workers : v # NoWorker
  BY RunningParts
<1>2. UNCHANGED <<items, results, working, head, phase, selected, planned, toRun, exitCode,
                  report, reportFile, lock, pubpc, unsaved>>
  BY DEF treeVars, runVars, diskVars, pubVars
<1>3. \A v \in Workers : /\ Publishing(v)' <=> Publishing(v)
                         /\ Publishing(v) => v # w
  BY <1>1 DEF TypeOK, Publishing
<1>4. MatrixTypeOK'
  BY <1>1, <1>2 DEF MatrixTypeOK
<1>5. PublishersInv'
  BY <1>1, <1>2, <1>3 DEF PublishersInv
<1>6. LockInv'
  <2>1. lock # NoWorker => lock \in Workers
    BY <1>1 DEF MatrixTypeOK
  <2>. QED  BY <1>1, <1>2, <1>3, <2>1 DEF LockInv
<1>7. ReportInv'
  <2>1. \A t \in toRun : (\E v \in Workers : Publishing(v) /\ witem[v] = t)
                         => \E v \in Workers : Publishing(v)' /\ witem'[v] = t
    BY <1>3
  <2>. QED  BY <1>1, <1>2, <2>1 DEF ReportInv
<1>. QED  BY <1>1, <1>2, <1>4, <1>5, <1>6, <1>7, RunGoesOn

\* take, with or without an item.
LEMMA MatrixTakeKeeps ==
  ASSUME MatrixInv, NEW w \in Workers, MatrixTake(w) \/ MatrixTakeNone(w)
  PROVE  MatrixInv'
<1>1. Running /\ IInv /\ MatrixTypeOK /\ TypeOK
  BY RunningParts DEF MatrixTake, MatrixTakeNone
<1>2. IInv'
  BY <1>1, TakeSound, TakeNoneSound DEF MatrixTake, MatrixTakeNone
<1>3. /\ wstate[w] = "take"
      /\ \E s \in {"building", "done"} : wstate' = [wstate EXCEPT ![w] = s]
      /\ \A v \in Workers : v # w => witem'[v] = witem[v] /\ wresult'[v] = wresult[v]
      /\ UNCHANGED <<items, results, treeVars, runVars, diskVars, pubVars, scratch, built>>
  BY <1>1 DEF MatrixTake, MatrixTakeNone, Take, TakeNone, queueVars, buildVars, TypeOK
<1>. QED  BY <1>1, <1>2, <1>3, BuildingStep DEF MatrixTypeOK

\* A scratch checkout, a build that returns and one that raises.
LEMMA MatrixBuildKeeps ==
  ASSUME MatrixInv, NEW w \in Workers,
         \/ CreateScratch(w)
         \/ \E outcome \in Outcomes : RunOne(w, outcome)
         \/ BuildOneRaises(w)
  PROVE  MatrixInv'
<1>1. Running /\ IInv /\ MatrixTypeOK /\ TypeOK
  BY RunningParts DEF CreateScratch, RunOne, BuildOneRaises
<1>2. CASE CreateScratch(w)
  <2>1. IInv'
    BY <1>1, <1>2, QueueStutters DEF CreateScratch
  <2>2. /\ wstate[w] = "building" /\ wstate' = [wstate EXCEPT ![w] = "building"]
        /\ UNCHANGED <<items, results, witem, wresult, treeVars, runVars, diskVars, pubVars, built>>
    BY <1>1, <1>2 DEF CreateScratch, jobVars, queueVars, workerVars, TypeOK
  <2>3. scratch' \in [Workers -> [Targets -> Nat]]
    BY <1>1, <1>2 DEF CreateScratch, MatrixTypeOK
  <2>. QED  BY <1>1, <2>1, <2>2, <2>3, BuildingStep DEF MatrixTypeOK
<1>3. ASSUME NEW outcome \in Outcomes, RunOne(w, outcome) PROVE MatrixInv'
  <2>1. IInv'
    BY <1>1, <1>3, ReturnsSound DEF RunOne
  <2>2. /\ wstate[w] = "building" /\ wstate' = [wstate EXCEPT ![w] = "record"]
        /\ \A v \in Workers : v # w => witem'[v] = witem[v] /\ wresult'[v] = wresult[v]
        /\ UNCHANGED <<items, results, treeVars, runVars, diskVars, pubVars, scratch>>
    BY <1>1, <1>3 DEF RunOne, BuildReturns, queueVars, TypeOK
  <2>3. witem[w] \in Targets
    BY <1>1, <2>2 DEF IInv, OwnInv, TypeOK, Holders, Holding
  <2>4. built' \in [Workers -> Nat]
    BY <1>1, <1>3, <2>3 DEF RunOne, MatrixTypeOK
  <2>. QED  BY <1>1, <2>1, <2>2, <2>4, BuildingStep DEF MatrixTypeOK
<1>4. CASE BuildOneRaises(w)
  <2>1. IInv'
    BY <1>1, <1>4, RaisesSound DEF BuildOneRaises
  <2>2. /\ wstate[w] = "building"
        /\ \E s \in {"take", "record"} : wstate' = [wstate EXCEPT ![w] = s]
        /\ \A v \in Workers : v # w => witem'[v] = witem[v] /\ wresult'[v] = wresult[v]
        /\ UNCHANGED <<items, results>>
    BY <1>1, <1>4 DEF BuildOneRaises, BuildRaises, Requeue, queueVars, TypeOK
  <2>3. UNCHANGED <<treeVars, runVars, diskVars, pubVars, scratch, built>>
    BY <1>4 DEF BuildOneRaises, buildVars
  <2>. QED  BY <1>1, <2>1, <2>2, <2>3, BuildingStep DEF MatrixTypeOK
<1>. QED  BY <1>2, <1>3, <1>4

\* record_result: the worker is now the one that publishes this result.
LEMMA MatrixRecordKeeps ==
  ASSUME MatrixInv, NEW w \in Workers, MatrixRecord(w)
  PROVE  MatrixInv'
<1>. DEFINE e == witem[w]
<1>1. /\ IInv /\ TypeOK /\ MatrixTypeOK /\ PublishersInv /\ LockInv /\ ReportInv
      /\ exitCode = "none" /\ phase = "run" /\ \A v \in Workers : v # NoWorker
  BY RunningParts DEF MatrixRecord
<1>2. IInv'
  BY <1>1, RecordResultSound DEF MatrixRecord
<1>3. /\ wstate[w] = "record" /\ wstate' = [wstate EXCEPT ![w] = "publish"]
      /\ results' = [results EXCEPT ![e] = wresult[w]]
      /\ UNCHANGED <<items, witem, wresult, working, head, phase, selected, planned, toRun, exitCode,
                     report, reportFile, lock, pubpc, unsaved, scratch, built>>
  BY DEF MatrixRecord, RecordResult, treeVars, runVars, diskVars, pubVars, buildVars
<1>4. e \in items /\ e \in Targets /\ results[e] = NoResult /\ wresult[w] \in Results
  BY <1>1, <1>3 DEF IInv, QueueIsSound, OwnInv, TargetsConserved, TypeOK, Holders, Holding
<1>5. wresult[w] # NoResult
  BY <1>4, OutcomesAssumption DEF Results, Crash, NoResult
<1>6. /\ results'[e] = wresult[w] /\ \A t \in Targets : t # e => results'[t] = results[t]
      /\ Publishing(w)'
      /\ \A v \in Workers : v # w => (Publishing(v)' <=> Publishing(v))
  BY <1>1, <1>3, <1>4 DEF TypeOK, Publishing
<1>7. \A v \in Workers : Publishing(v) => v # w /\ witem[v] # e /\ witem[v] \in Targets
  <2>. SUFFICES ASSUME NEW v \in Workers, Publishing(v)
                PROVE  v # w /\ witem[v] # e /\ witem[v] \in Targets
    OBVIOUS
  <2>1. results[witem[v]] \in Results /\ witem[v] \in items
    BY <1>1 DEF PublishersInv
  <2>2. results[witem[v]] # NoResult
    BY <2>1, OutcomesAssumption DEF Results, Crash, NoResult
  <2>. QED  BY <1>1, <1>3, <1>4, <2>1, <2>2 DEF Publishing, TypeOK
<1>8. MatrixTypeOK'
  BY <1>1, <1>3 DEF MatrixTypeOK
<1>9. PublishersInv'
  BY <1>1, <1>3, <1>4, <1>6, <1>7 DEF PublishersInv
<1>10. LockInv'
  <2>1. lock # NoWorker => lock \in Workers
    BY <1>1 DEF MatrixTypeOK
  <2>. QED  BY <1>1, <1>3, <1>6, <1>7, <2>1 DEF LockInv
<1>11. ReportInv'
  <2>1. ASSUME NEW t \in toRun
        PROVE  /\ \/ report[t].status = "pending"
                  \/ results'[t] # NoResult /\ report[t].status = results'[t]
               /\ \/ results'[t] = NoResult
                  \/ report[t].status = results'[t]
                  \/ \E v \in Workers : Publishing(v)' /\ witem'[v] = t
    <3>1. CASE t = e
      BY <1>1, <1>3, <1>4, <1>6, <3>1 DEF ReportInv
    <3>2. CASE t # e
      <4>1. results'[t] = results[t]
        BY <1>1, <1>6, <3>2 DEF MatrixTypeOK
      <4>2. ASSUME NEW v \in Workers, Publishing(v), witem[v] = t
            PROVE  Publishing(v)' /\ witem'[v] = t
        BY <1>3, <1>6, <1>7, <4>2
      <4>. QED  BY <1>1, <4>1, <4>2 DEF ReportInv
    <3>. QED  BY <3>1, <3>2
  <2>. QED  BY <1>1, <1>3, <2>1 DEF ReportInv
<1>. QED  BY <1>1, <1>2, <1>3, <1>8, <1>9, <1>10, <1>11, RunGoesOn

\* The record of a result is a record.
LEMMA RecordOfType ==
  ASSUME MatrixTypeOK, NEW w \in Workers, witem[w] \in Targets, wresult[w] \in Results
  PROVE  /\ RecordOf(w) \in Records /\ RecordOf(w).status = wresult[w]
         /\ wresult[w] # Crash => RecordOf(w).checksum = planned[witem[w]]
BY DEF MatrixTypeOK, RecordOf, Records, Statuses, Crash, NoVersion, Results

\* _on_result takes the lock and puts the record into the report.
LEMMA OnResultLockKeeps ==
  ASSUME MatrixInv, NEW w \in Workers, OnResultLock(w)
  PROVE  MatrixInv'
<1>. DEFINE e == witem[w]
<1>1. /\ IInv /\ TypeOK /\ MatrixTypeOK /\ PublishersInv /\ LockInv /\ ReportInv
      /\ exitCode = "none" /\ phase = "run" /\ \A v \in Workers : v # NoWorker
  BY RunningParts DEF OnResultLock
<1>2. IInv'
  BY <1>1, QueueStutters DEF OnResultLock
<1>3. /\ Publishing(w) /\ lock = NoWorker /\ lock' = w
      /\ report' = [report EXCEPT ![e] = RecordOf(w)] /\ pubpc' = "report"
      /\ UNCHANGED <<items, results, wstate, witem, wresult, working, head, phase, selected, planned,
                     toRun, exitCode, reportFile, unsaved, scratch, built>>
  BY DEF OnResultLock, Publishing, jobVars, queueVars, workerVars, treeVars, runVars, diskVars, buildVars
<1>4. /\ e \in items /\ e \in toRun /\ e \in Targets
      /\ results[e] = wresult[w] /\ wresult[w] \in Results /\ wresult[w] # NoResult
  BY <1>1, <1>3, OutcomesAssumption DEF PublishersInv, ReportInv, TypeOK, Results, Crash, NoResult
<1>5. /\ RecordOf(w) \in Records /\ RecordOf(w).status = wresult[w]
      /\ wresult[w] # Crash => RecordOf(w).checksum = planned[e]
  BY <1>1, <1>4, RecordOfType
<1>6. report'[e] = RecordOf(w) /\ \A t \in Targets : t # e => report'[t] = report[t]
  BY <1>1, <1>3, <1>4 DEF MatrixTypeOK
<1>7. MatrixTypeOK'
  BY <1>1, <1>3, <1>4, <1>5 DEF MatrixTypeOK
<1>8. PublishersInv'
  BY <1>1, <1>3 DEF PublishersInv, Publishing
<1>9. LockInv'
  BY <1>1, <1>3, <1>5, <1>6 DEF LockInv, Publishing
<1>10. ReportInv'
  <2>1. \A t \in selected \ toRun : report'[t] = report[t]
    BY <1>1, <1>4, <1>6 DEF MatrixTypeOK
  <2>2. ASSUME NEW t \in toRun
        PROVE  /\ \/ report'[t].status = "pending"
                  \/ results[t] # NoResult /\ report'[t].status = results[t]
               /\ report'[t].status = "success" => report'[t].checksum = planned[t]
               /\ \/ results[t] = NoResult
                  \/ report'[t].status = results[t]
                  \/ \E v \in Workers : Publishing(v)' /\ witem'[v] = t
    <3>1. CASE t = e
      BY <1>4, <1>5, <1>6, <3>1 DEF Crash
    <3>2. CASE t # e
      <4>1. report'[t] = report[t]
        BY <1>1, <1>6, <3>2 DEF MatrixTypeOK
      <4>. QED  BY <1>1, <1>3, <4>1 DEF ReportInv, Publishing
    <3>. QED  BY <3>1, <3>2
  <2>. QED  BY <1>1, <1>3, <2>1, <2>2 DEF ReportInv
<1>. QED  BY <1>1, <1>2, <1>3, <1>7, <1>8, <1>9, <1>10, RunGoesOn

\* Whoever holds the lock does so in a run.
LEMMA LockHeldWhileRunning ==
  ASSUME MatrixInv, NEW w \in Workers, lock = w
  PROVE  Running
BY NoWorkerAssumption DEF MatrixInv, MatrixTypeOK, Running

\* _write_report.
LEMMA OnResultReportKeeps ==
  ASSUME MatrixInv, NEW w \in Workers, OnResultReport(w)
  PROVE  MatrixInv'
<1>1. /\ IInv /\ TypeOK /\ MatrixTypeOK /\ PublishersInv /\ LockInv /\ ReportInv
      /\ exitCode = "none" /\ phase = "run" /\ \A v \in Workers : v # NoWorker
  BY RunningParts, LockHeldWhileRunning DEF OnResultReport
<1>2. IInv'
  BY <1>1, QueueStutters DEF OnResultReport
<1>3. /\ lock = w /\ reportFile' = report /\ pubpc' = "status" /\ unsaved' = {}
      /\ UNCHANGED <<items, results, wstate, witem, wresult, working, head, phase, selected, planned,
                     toRun, exitCode, report, lock, scratch, built>>
  BY DEF OnResultReport, WriteReport, jobVars, queueVars, workerVars, treeVars, runVars, buildVars
<1>4. MatrixTypeOK' /\ PublishersInv' /\ ReportInv'
  BY <1>1, <1>3 DEF MatrixTypeOK, PublishersInv, ReportInv, Publishing
<1>5. LockInv'
  BY <1>1, <1>3 DEF LockInv, Publishing
<1>. QED  BY <1>1, <1>2, <1>3, <1>4, <1>5, RunGoesOn

\* The publication ends, and perhaps the worker with it.
LEMMA PublicationEnds ==
  ASSUME MatrixInv, NEW w \in Workers, lock = w, PublishReturns(w) \/ PublishRaises(w),
         \/ pubpc # "report" /\ UNCHANGED unsaved
         \/ pubpc = "report" /\ unsaved' = unsaved \cup {witem[w]},
         lock' = NoWorker,
         UNCHANGED <<treeVars, runVars, reportFile, report, buildVars>>
  PROVE  MatrixInv'
<1>1. /\ IInv /\ TypeOK /\ MatrixTypeOK /\ PublishersInv /\ LockInv /\ ReportInv
      /\ exitCode = "none" /\ phase = "run" /\ \A v \in Workers : v # NoWorker
  BY RunningParts, LockHeldWhileRunning
<1>2. IInv'
  BY <1>1, PublishSound
<1>3. UNCHANGED <<items, results, wresult, working, head, phase, selected, planned,
                  toRun, exitCode, reportFile, report, scratch, built>>
  BY DEF PublishReturns, PublishRaises, queueVars, treeVars, runVars, buildVars
<1>4. /\ Publishing(w)
      /\ \A v \in Workers : Publishing(v)' <=> Publishing(v) /\ v # w
      /\ \A v \in Workers : v # w => witem'[v] = witem[v]
  BY <1>1 DEF PublishReturns, PublishRaises, Publishing, TypeOK
<1>5. witem[w] \in Targets
  BY <1>1, <1>4 DEF PublishersInv, TypeOK
<1>6. MatrixTypeOK'
  BY <1>1, <1>3, <1>5 DEF MatrixTypeOK
<1>7. PublishersInv'
  BY <1>1, <1>3, <1>4 DEF PublishersInv
<1>8. LockInv'
  BY <1>1, <1>3 DEF LockInv
<1>9. ReportInv'
  <2>1. report[witem[w]].status = wresult[w] /\ results[witem[w]] = wresult[w]
    BY <1>1, <1>4 DEF LockInv, PublishersInv
  <2>2. ASSUME NEW t \in toRun
        PROVE  \/ results[t] = NoResult
               \/ report[t].status = results[t]
               \/ \E v \in Workers : Publishing(v)' /\ witem'[v] = t
    <3>1. CASE t = witem[w]
      BY <2>1, <3>1
    <3>2. ASSUME t # witem[w], NEW v \in Workers, Publishing(v), witem[v] = t
          PROVE  Publishing(v)' /\ witem'[v] = t
      BY <1>4, <3>2
    <3>. QED  BY <1>1, <3>1, <3>2 DEF ReportInv
  <2>. QED  BY <1>1, <1>3, <2>2 DEF ReportInv
<1>. QED  BY <1>1, <1>2, <1>3, <1>6, <1>7, <1>8, <1>9, RunGoesOn

\* The rest of _on_result: the two status files, and the end of it.
LEMMA OnResultStatusKeeps ==
  ASSUME MatrixInv, NEW w \in Workers, OnResultRaises(w) \/ OnResultStatus(w) \/ OnResultCatalog(w)
  PROVE  MatrixInv'
<1>1. CASE OnResultRaises(w)
  BY <1>1, PublicationEnds DEF OnResultRaises, ReleaseLock
<1>2. CASE OnResultCatalog(w)
  BY <1>2, PublicationEnds DEF OnResultCatalog, PublishEnds
<1>3. CASE OnResultStatus(w) /\ ~update
  BY <1>3, PublicationEnds DEF OnResultStatus, PublishEnds
<1>4. CASE OnResultStatus(w) /\ update
  <2>1. /\ IInv /\ TypeOK /\ MatrixTypeOK /\ PublishersInv /\ LockInv /\ ReportInv
        /\ exitCode = "none" /\ phase = "run" /\ \A v \in Workers : v # NoWorker
    BY <1>4, RunningParts, LockHeldWhileRunning DEF OnResultStatus
  <2>2. IInv'
    BY <1>4, <2>1, QueueStutters DEF OnResultStatus
  <2>3. /\ lock = w /\ pubpc = "status" /\ pubpc' = "catalog"
        /\ UNCHANGED <<items, results, wstate, witem, wresult, working, head, phase, selected, planned,
                       toRun, exitCode, reportFile, report, lock, unsaved, scratch, built>>
    BY <1>4 DEF OnResultStatus, jobVars, queueVars, workerVars, treeVars, runVars, buildVars
  <2>4. MatrixTypeOK' /\ PublishersInv' /\ ReportInv'
    BY <2>1, <2>3 DEF MatrixTypeOK, PublishersInv, ReportInv, Publishing
  <2>5. LockInv'
    BY <2>1, <2>3 DEF LockInv, Publishing
  <2>. QED  BY <2>1, <2>2, <2>3, <2>4, <2>5, RunGoesOn
<1>. QED  BY <1>1, <1>2, <1>3, <1>4

-----------------------------------------------------------------------------
\* Edits and commits between two runs.
LEMMA TreeStepKeeps ==
  ASSUME MatrixInv, (\E t \in Targets : Edit(t)) \/ Commit
  PROVE  MatrixInv'
<1>1. /\ IInv /\ MatrixTypeOK /\ phase = "idle" /\ phase' = "idle" /\ ExitOkMeansProven
      /\ lock = NoWorker /\ items = {} /\ \A w \in Workers : wstate[w] = "done"
  BY DEF MatrixInv, Edit, Commit, runVars
<1>2. UNCHANGED <<jobVars, runVars, diskVars, pubVars, buildVars>>
  BY DEF Edit, Commit
<1>3. IInv'
  BY <1>1, <1>2, QueueStutters
<1>4. working' \in [Targets -> Nat] /\ head' \in [Targets -> Nat]
  BY <1>1 DEF MatrixTypeOK, Edit, Commit
<1>5. UNCHANGED <<items, wstate, selected, planned, toRun, exitCode, stranded, report, reportFile, lock, unsaved, scratch, built>>
  BY <1>2 DEF jobVars, queueVars, workerVars, runVars, diskVars, pubVars, buildVars
<1>6. MatrixTypeOK'
  BY <1>1, <1>4, <1>5 DEF MatrixTypeOK
<1>. QED  BY <1>1, <1>3, <1>5, <1>6 DEF MatrixInv, Running, ExitOkMeansProven

\* main up to the start of the workers: what --resume skips is a success at
\* the checksum of this plan.
LEMMA StartRunKeeps ==
  ASSUME MatrixInv, NEW sel \in SUBSET Targets, NEW resume \in BOOLEAN, NEW upd \in BOOLEAN,
         StartRun(sel, resume, upd)
  PROVE  MatrixInv'
<1>. DEFINE previous == IF resume THEN reportFile ELSE EmptyReport
            todo == {t \in sel : ~(resume /\ Skips(previous, t, working))}
            initial == [t \in Targets |-> IF t \in todo THEN PendingRecord(t, working) ELSE previous[t]]
<1>1. IInv /\ MatrixTypeOK
  BY DEF MatrixInv
<1>2. /\ phase' = "run" /\ selected' = sel /\ planned' = working /\ toRun' = todo /\ exitCode' = "none"
      /\ report' = initial /\ reportFile' = initial /\ \E jobs \in Jobs : Start(SetToSeq(todo), jobs)
      /\ scratch' = [w \in Workers |-> NoCheckout] /\ built' = [w \in Workers |-> NoVersion]
      /\ lock' = NoWorker /\ unsaved' = {} /\ UNCHANGED <<working, head>>
  BY DEF StartRun, treeVars
<1>3. IsFiniteSet(todo) /\ todo \subseteq Targets
  BY TargetsAssumption, FS_Subset
<1>4. /\ SetToSeq(todo) \in Seq(todo) /\ Distinct(SetToSeq(todo)) /\ Elements(SetToSeq(todo)) = todo
  BY <1>3, ListedOnce
<1>5. SetToSeq(todo) \in Seq(Targets)
  <2>. HIDE DEF todo
  <2>. QED  BY <1>3, <1>4
<1>6. IInv'
  <2>1. PICK queue : queue = SetToSeq(todo)
    OBVIOUS
  <2>2. Fresh(queue, {"idle", "take"})'
    BY <1>2, <2>1 DEF Start, Fresh, Threads
  <2>. QED  BY <1>4, <1>5, <2>1, <2>2, FreshSoundNext
<1>7. previous \in [Targets -> Records]
  BY <1>1 DEF MatrixTypeOK, EmptyReport, NoRecord, Records, Statuses, NoVersion
<1>8. \A t \in Targets : PendingRecord(t, working) \in Records /\ PendingRecord(t, working).status = "pending"
  BY <1>1 DEF MatrixTypeOK, PendingRecord, Records, Statuses, NoVersion
<1>9. MatrixTypeOK'
  <2>1. initial \in [Targets -> Records]
    BY <1>3, <1>7, <1>8
  <2>2. scratch' \in [Workers -> [Targets -> Nat]] /\ built' \in [Workers -> Nat]
    BY <1>2 DEF NoCheckout, NoVersion
  <2>3. todo \subseteq sel /\ sel \subseteq Targets
    OBVIOUS
  <2>. HIDE DEF initial, todo
  <2>. QED  BY <1>1, <1>2, <2>1, <2>2, <2>3 DEF MatrixTypeOK
<1>10. items' = todo /\ (\A t \in Targets : results'[t] = NoResult) /\ \A w \in Workers : wstate'[w] \in {"idle", "take"}
  BY <1>2, <1>4 DEF Start, Threads
<1>11. PublishersInv' /\ LockInv'
  BY <1>2, <1>10 DEF PublishersInv, LockInv, Publishing
<1>12. ReportInv'
  <2>1. \A t \in sel \ todo : initial[t].status = "success" /\ initial[t].checksum = working[t]
    BY DEF Skips
  <2>2. \A t \in todo : initial[t].status = "pending"
    BY <1>3, <1>8
  <2>. HIDE DEF initial, todo
  <2>. QED  BY <1>2, <1>3, <1>10, <2>1, <2>2 DEF ReportInv
<1>. QED  BY <1>2, <1>6, <1>9, <1>11, <1>12, RunGoesOn

\* A process that is gone leaves the empty queue of MatrixInit.
LEMMA ProcessGoneKeeps ==
  ASSUME MatrixInv, Running, ProcessGone, reportFile' \in [Targets -> Records], ExitOkMeansProven'
  PROVE  MatrixInv'
<1>1. MatrixTypeOK
  BY DEF MatrixInv
<1>2. IInv'
  <2>1. Fresh(<<>>, {"done"})'
    BY DEF ProcessGone, Fresh, Elements
  <2>2. <<>> \in Seq(Targets) /\ Distinct(<<>>)
    BY DEF Distinct
  <2>. QED  BY <2>1, <2>2, FreshSoundNext
<1>3. MatrixTypeOK'
  <2>1. report' \in [Targets -> Records]
    BY DEF ProcessGone, EmptyReport, NoRecord, Records, Statuses, NoVersion
  <2>2. scratch' \in [Workers -> [Targets -> Nat]] /\ built' \in [Workers -> Nat]
    BY DEF ProcessGone, NoCheckout, NoVersion
  <2>. QED  BY <1>1, <2>1, <2>2 DEF MatrixTypeOK, ProcessGone, treeVars
<1>. QED  BY <1>2, <1>3 DEF MatrixInv, ProcessGone, Running

\* A killed run proves nothing.
LEMMA KillKeeps ==
  ASSUME MatrixInv, Kill
  PROVE  MatrixInv'
<1>1. reportFile' \in [Targets -> Records]
  BY DEF MatrixInv, MatrixTypeOK, Kill, diskVars
<1>2. ExitOkMeansProven'
  BY DEF Kill, ExitOkMeansProven
<1>. QED  BY <1>1, <1>2, ProcessGoneKeeps DEF Kill

\* The end of a run.  A worker that left its loop saw the queue drained, so that
\* every target has its result; nobody publishes any more, so every result is in
\* the report.  Without such a worker all have died.
LEMMA FinishKeeps ==
  ASSUME MatrixInv, Finish
  PROVE  MatrixInv'
<1>1. /\ IInv /\ TypeOK /\ MatrixTypeOK /\ ReportInv /\ LeavesOnlyWhenDrained
  BY RunningParts DEF Finish, IInv, QueueIsSound
<1>2. /\ Joined /\ reportFile' = report /\ exitCode' = (IF Failed = {} THEN "ok" ELSE "failures")
      /\ stranded' = NobodyDrained
      /\ UNCHANGED <<selected, planned>> /\ ProcessGone /\ Running
  BY DEF Finish, ProcessGone
<1>3. ASSUME Failed = {}, NEW t \in selected
      PROVE  \/ report[t].status = "success" /\ report[t].checksum = planned[t]
             \/ NobodyDrained /\ report[t].status = "pending"
  <2>1. CASE t \notin toRun
    BY <1>1, <2>1 DEF ReportInv
  <2>2. CASE t \in toRun /\ report[t].status = "success"
    BY <1>1, <2>2 DEF ReportInv
  <2>3. CASE t \in toRun /\ report[t].status # "success"
    <3>1. report[t].status = "pending"
      BY <1>3, <2>3 DEF Failed
    <3>2. \A w \in Workers : ~Publishing(w)
      BY <1>2 DEF Joined, Publishing
    <3>3. results[t] # NoResult => report[t].status = results[t] /\ results[t] \in Results
      BY <1>1, <2>3, <3>2 DEF ReportInv, MatrixTypeOK, TypeOK
    <3>4. results[t] = NoResult
      BY <3>1, <3>3, OutcomesAre DEF Results, Crash
    <3>5. NobodyDrained
      BY <1>1, <2>3, <3>4 DEF LeavesOnlyWhenDrained, ReportInv, NobodyDrained
    <3>. QED  BY <3>1, <3>5
  <2>. QED  BY <2>1, <2>2, <2>3
<1>4. ExitOkMeansProven'
  BY <1>2, <1>3 DEF ExitOkMeansProven
<1>5. reportFile' \in [Targets -> Records]
  BY <1>1, <1>2 DEF MatrixTypeOK
<1>. QED  BY <1>2, <1>4, <1>5, ProcessGoneKeeps

\* Before the first run.
LEMMA MatrixInitHolds == MatrixInit => MatrixInv
<1>. SUFFICES ASSUME MatrixInit PROVE MatrixInv
  OBVIOUS
<1>1. IInv
  <2>1. Fresh(<<>>, {"done"})
    BY DEF MatrixInit, Fresh, Elements
  <2>2. <<>> \in Seq(Targets) /\ Distinct(<<>>)
    BY DEF Distinct
  <2>. QED  BY <2>1, <2>2, FreshSound DEF SoundWhenFresh
<1>2. MatrixTypeOK
  BY DEF MatrixInit, MatrixTypeOK, EmptyReport, NoRecord, Records, Statuses, NoVersion, NoCheckout
<1>. QED  BY <1>1, <1>2 DEF MatrixInit, MatrixInv, Running, ExitOkMeansProven

\* Every step of build_matrix keeps the invariant.
LEMMA MatrixStep == MatrixInv /\ [MatrixNext]_matrixVars => MatrixInv'
<1>. SUFFICES ASSUME MatrixInv, [MatrixNext]_matrixVars PROVE MatrixInv'
  OBVIOUS
<1>1. CASE UNCHANGED matrixVars
  <2>1. UNCHANGED jobVars
    BY <1>1 DEF matrixVars
  <2>2. IInv'
    BY <2>1, QueueStutters DEF MatrixInv
  <2>. QED  BY <1>1, <2>2 DEF MatrixInv, matrixVars, jobVars, queueVars, workerVars, treeVars, runVars,
              diskVars, pubVars, buildVars, MatrixTypeOK, PublishersInv, LockInv, ReportInv, Publishing,
              Running, ExitOkMeansProven
<1>2. CASE (\E t \in Targets : Edit(t)) \/ Commit
  BY <1>2, TreeStepKeeps
<1>3. ASSUME NEW sel \in SUBSET Targets \ {{}}, NEW resume \in BOOLEAN, NEW upd \in BOOLEAN,
             StartRun(sel, resume, upd)
      PROVE  MatrixInv'
  BY <1>3, StartRunKeeps
<1>4. ASSUME NEW w \in Workers, MatrixWorker(w) PROVE MatrixInv'
  BY <1>4, MatrixTakeKeeps, MatrixBuildKeeps, MatrixRecordKeeps, OnResultLockKeeps, OnResultReportKeeps,
     OnResultStatusKeeps DEF MatrixWorker
<1>5. CASE Finish
  BY <1>5, FinishKeeps
<1>6. CASE Kill
  BY <1>6, KillKeeps
<1>. QED  BY <1>1, <1>2, <1>3, <1>4, <1>5, <1>6 DEF MatrixNext

\* Under build_matrix, whose runs start, end and are killed around it, the
\* queue of job_queue.py stays sound.
THEOREM MatrixQueueSound == MatrixSpec => []QueueIsSound
<1>1. MatrixInv => QueueIsSound
  BY DEF MatrixInv, IInv
<1>. QED  BY <1>1, MatrixInitHolds, MatrixStep, PTL DEF MatrixSpec

\* build_matrix.py: a kill loses at most what was in flight.  A result whose
\* worker moved on or died is in report.json, whoever writes that file meanwhile,
\* unless its own write raised and none has succeeded since.
THEOREM RecordedAlwaysSurvives == MatrixSpec => []RecordedSurvivesKill
<1>1. MatrixInv => RecordedSurvivesKill
  <2>. SUFFICES ASSUME MatrixInv, Running, NEW t \in items, results[t] # NoResult,
                       \A w \in Workers : ~(wstate[w] = "publish" /\ witem[w] = t),
                       t \notin unsaved
                PROVE  reportFile[t].status = results[t]
    BY DEF RecordedSurvivesKill
  <2>1. MatrixTypeOK /\ LockInv /\ ReportInv /\ \A w \in Workers : w # NoWorker
    BY RunningParts
  <2>2. report[t].status = results[t] /\ t \in Targets
    BY <2>1 DEF ReportInv, Publishing, MatrixTypeOK
  <2>3. reportFile[t] = report[t]
    BY <2>1, <2>2 DEF LockInv, MatrixTypeOK, Publishing
  <2>. QED  BY <2>2, <2>3
<1>. QED  BY <1>1, MatrixInitHolds, MatrixStep, PTL DEF MatrixSpec

\* main's exit code 0, whichever writes of _on_result fail: every selected
\* target, built now or skipped by --resume, is recorded as a success at the
\* checksum of this run's plan.  A target may be left pending only when every
\* worker died while publishing, and none that failed is overlooked.
THEOREM ExitOkIsProven == MatrixSpec => []ExitOkMeansProven
<1>1. MatrixInv => ExitOkMeansProven
  BY DEF MatrixInv
<1>. QED  BY <1>1, MatrixInitHolds, MatrixStep, PTL DEF MatrixSpec
=============================================================================
