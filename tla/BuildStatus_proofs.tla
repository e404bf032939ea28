------------------------- MODULE BuildStatus_proofs -------------------------
(***************************************************************************)
(* What build-status.json, its published copies and the exit code of        *)
(* "catalog_conformance build" promise, for any catalogue, bases, workers,  *)
(* destinations and number of runs.                                         *)
(***************************************************************************)
EXTENDS BuildStatus, JobQueue_proofs

Finals == {"success", "failed", "skipped"}
States == Finals \cup {"never tested", "queued", "testing"}
Events == [date : Nat, state : Finals]
StatusRecords == [state : States, since : Nat, history : Seq(Events)]
MainPlaces == {"idle", "resolve", "queue", "work", "exit"}

StatusTypeOK ==
  /\ file \in [Keys -> StatusRecords]
  /\ lock \in Workers \cup {Main, NoWorker}
  /\ observed \in [Keys -> Finals \cup {"none", "interrupted"}]
  /\ run \in Nat
  /\ mainpc \in MainPlaces
  /\ toQueue \in Seq(Targets)
  /\ wbase \in [Workers -> Bases \cup {NoBase}]
  /\ workDir \in [Targets -> {"none", "cleaned", "full"}]

\* The base a build is recorded under once the manifest has been read.
BuildBase(t) == IF t.base = NoBase THEN OwnBase[t.entry] ELSE t.base

HasResult(w) == wstate[w] \in {"record", "publish"}

\* What a worker has to publish is the result of its item, built on the base
\* of that item.
WorkersInv ==
  \A w \in Workers :
    /\ HasResult(w) => wbase[w] \in {NoBase, BuildBase(witem[w])}
    /\ wstate[w] = "publish" => /\ witem[w] \in Targets /\ wresult[w] \in Results
                                /\ results[witem[w]] = wresult[w]

\* The plan of run_build: no worker before run_parallel, nobody in the updater
\* outside the loops that call it, no test before the first worker, and after
\* the last upload every destination that took the file holds it.
MainInv ==
  /\ mainpc \in {"idle", "resolve", "queue"} => \A w \in Workers : wstate[w] \in {"idle", "take"}
  /\ mainpc \in {"idle", "resolve", "exit"} => lock = NoWorker
  /\ mainpc = "queue" => \A k \in Keys : file[k].state # "testing"
  /\ mainpc = "exit" /\ finalOk => \A d \in Destinations : published[d] = file
  /\ exitCode = "ok" => mainpc = "idle"

\* run_parallel was given the whole plan, and returns when its threads ended.
PlanInv ==
  /\ mainpc \in {"work", "exit"} => items = Plan
  /\ mainpc = "exit" => Joined

ConfInv ==
  /\ IInv /\ StatusTypeOK /\ WorkersInv /\ MainInv /\ PlanInv
  /\ HistoryTellsOutcome /\ NeverClaimsUnobservedSuccess /\ FailuresKeepEvidence
  /\ TestingIsInProgress
  /\ ExitOkMeansPublished

-----------------------------------------------------------------------------
\* A history that takes one more event stays within its limit and ends with it.
LEMMA BoundedAppend ==
  ASSUME NEW h \in Seq(Events), Len(h) <= HISTORY_LIMIT, NEW e \in Events
  PROVE  /\ Bounded(Append(h, e)) \in Seq(Events)
         /\ Len(Bounded(Append(h, e))) <= HISTORY_LIMIT
         /\ LastState(Bounded(Append(h, e))) = e.state
<1>. DEFINE a == Append(h, e)
<1>1. /\ a \in Seq(Events) /\ Len(a) = Len(h) + 1 /\ Len(h) \in Nat /\ a[Len(a)] = e
      /\ HISTORY_LIMIT \in Nat /\ HISTORY_LIMIT > 0
  BY HistoryAssumption
<1>. HIDE DEF a
<1>2. CASE Len(a) > HISTORY_LIMIT
  <2>1. /\ Bounded(a) = Tail(a) /\ Tail(a) \in Seq(Events) /\ Len(Tail(a)) = Len(h)
        /\ Len(h) = HISTORY_LIMIT
    BY <1>1, <1>2 DEF Bounded
  <2>2. \A i \in 1 .. (Len(a) - 1) : Tail(a)[i] = a[i + 1]
    BY <1>1
  <2>3. Tail(a)[Len(Tail(a))] = a[Len(a)] /\ Tail(a) # <<>>
    BY <1>1, <2>1, <2>2
  <2>. QED  BY <1>1, <2>1, <2>3 DEF LastState, Last, a
<1>3. CASE ~(Len(a) > HISTORY_LIMIT)
  <2>1. Bounded(a) = a /\ a # <<>>
    BY <1>1, <1>3 DEF Bounded
  <2>. QED  BY <1>1, <1>3, <2>1 DEF LastState, Last, a
<1>. QED  BY <1>2, <1>3 DEF a

\* Every target of the plan has its key.
LEMMA KeysOfTargets ==
  ASSUME NEW t \in Targets
  PROVE  t.entry \in Entries /\ IntendedKey(t) \in Keys /\ BuildBase(t) \in Bases
<1>1. PICK e \in Entries, b \in Bases \cup {NoBase} : t = [entry |-> e, base |-> b]
  BY PlanAssumption, BasesAssumption DEF Plan
<1>2. t.entry = e /\ t.base = b
  BY <1>1
<1>3. IntendedBase(t) \in Bases /\ BuildBase(t) \in Bases
  BY <1>2, BasesAssumption DEF IntendedBase, BuildBase
<1>. QED  BY <1>2, <1>3 DEF IntendedKey, Keys

\* What the file says of one key when the history of every key is in order.
RecordSound(record) ==
  /\ record \in StatusRecords
  /\ Len(record.history) <= HISTORY_LIMIT
  /\ record.state \in Finals => LastState(record.history) = record.state

\* A record moved to a live state stays sound: it claims nothing.
LEMMA LiveSound ==
  ASSUME NEW record, RecordSound(record), run \in Nat, NEW s \in {"queued", "testing"}
  PROVE  RecordSound(Live(record, s)) /\ Live(record, s).state = s
BY DEF RecordSound, Live, StatusRecords, States, Finals

\* A record that takes an outcome ends its history with it.
LEMMA OutcomeSound ==
  ASSUME NEW record, RecordSound(record), run \in Nat, NEW s \in Finals, NEW since \in Nat
  PROVE  RecordSound([state |-> s, since |-> since,
                      history |-> Bounded(Append(record.history, [date |-> run, state |-> s]))])
<1>1. [date |-> run, state |-> s] \in Events /\ record.history \in Seq(Events)
  BY DEF Events, RecordSound, StatusRecords
<1>2. PICK h : h = Bounded(Append(record.history, [date |-> run, state |-> s]))
  OBVIOUS
<1>3. h \in Seq(Events) /\ Len(h) <= HISTORY_LIMIT /\ LastState(h) = s
  BY <1>1, <1>2, BoundedAppend DEF RecordSound
<1>4. RecordSound([state |-> s, since |-> since, history |-> h])
  BY <1>3 DEF RecordSound, StatusRecords, States
<1>. QED  BY <1>2, <1>4

\* The file is a function to sound records: its type and its histories.
LEMMA FileSound ==
  ASSUME ConfInv
  PROVE  file \in [Keys -> StatusRecords] /\ run \in Nat /\ \A k \in Keys : RecordSound(file[k])
BY DEF ConfInv, StatusTypeOK, HistoryTellsOutcome, RecordSound, Finals

\* The same of the file a step leaves.
LEMMA FileSoundNext ==
  ASSUME NEW f \in [Keys -> StatusRecords], \A k \in Keys : RecordSound(f[k]), file' = f
  PROVE  HistoryTellsOutcome' /\ file' \in [Keys -> StatusRecords]
BY DEF HistoryTellsOutcome, RecordSound, Finals

\* Marking a key queued or testing.
Marked(f, k, s) == f = [file EXCEPT ![k] = Live(file[k], s)]

LEMMA MarkSound ==
  ASSUME ConfInv, NEW k \in Keys, NEW s \in {"queued", "testing"}, NEW f, Marked(f, k, s)
  PROVE  /\ f \in [Keys -> StatusRecords] /\ \A j \in Keys : RecordSound(f[j])
         /\ f[k].state = s /\ \A j \in Keys : j # k => f[j] = file[j]
<1>1. file \in [Keys -> StatusRecords] /\ run \in Nat /\ \A j \in Keys : RecordSound(file[j])
  BY FileSound
<1>2. RecordSound(Live(file[k], s)) /\ Live(file[k], s).state = s
  BY <1>1, LiveSound
<1>3. /\ f = [file EXCEPT ![k] = Live(file[k], s)]
      /\ f[k] = Live(file[k], s) /\ \A j \in Keys : j # k => f[j] = file[j]
  BY <1>1 DEF Marked
<1>4. Live(file[k], s) \in StatusRecords
  BY <1>2 DEF RecordSound
<1>. QED  BY <1>1, <1>2, <1>3, <1>4

-----------------------------------------------------------------------------
\* While the workers run, exit code and end are still to come.
LEMMA WorkParts ==
  ASSUME ConfInv, mainpc = "work"
  PROVE  /\ IInv /\ TypeOK /\ StatusTypeOK /\ WorkersInv /\ HistoryTellsOutcome
         /\ NeverClaimsUnobservedSuccess /\ FailuresKeepEvidence /\ exitCode # "ok"
         /\ TestingIsInProgress /\ items = Plan
BY DEF ConfInv, IInv, QueueIsSound, MainInv, PlanInv

\* A step of a worker has only to keep what concerns the workers, and the file.
LEMMA WorkGoesOn ==
  ASSUME ConfInv, mainpc = "work", UNCHANGED <<mainVars, items>>,
         IInv', StatusTypeOK', WorkersInv', FailuresKeepEvidence',
         HistoryTellsOutcome', NeverClaimsUnobservedSuccess', TestingIsInProgress'
  PROVE  ConfInv'
<1>1. mainpc' = "work" /\ exitCode' # "ok" /\ items' = Plan
  BY WorkParts DEF mainVars
<1>2. MainInv' /\ PlanInv' /\ ExitOkMeansPublished'
  BY <1>1 DEF MainInv, PlanInv, ExitOkMeansPublished
<1>. QED  BY <1>2 DEF ConfInv

\* A step of a worker that neither records nor publishes.
LEMMA BuildingStep ==
  ASSUME ConfInv, mainpc = "work", UNCHANGED <<mainVars, statusVars, items, results>>, IInv',
         NEW w \in Workers, NEW s \in {"take", "building", "record", "done"},
         wstate[w] \in {"take", "building"}, wstate' = [wstate EXCEPT ![w] = s],
         \A v \in Workers : v # w => /\ witem'[v] = witem[v] /\ wresult'[v] = wresult[v]
                                    /\ wbase'[v] = wbase[v],
         wbase' \in [Workers -> Bases \cup {NoBase}],
         workDir' \in [Targets -> {"none", "cleaned", "full"}],
         \A t \in Targets : (\E v \in Workers : HasResult(v) /\ witem[v] = t) => workDir'[t] = workDir[t],
         s = "record" => /\ wbase'[w] \in {NoBase, BuildBase(witem'[w])}
                         /\ wresult'[w] = "failed" /\ wbase'[w] # NoBase => workDir'[witem'[w]] = "full"
  PROVE  ConfInv'
<1>1. /\ IInv /\ TypeOK /\ StatusTypeOK /\ WorkersInv /\ HistoryTellsOutcome
      /\ NeverClaimsUnobservedSuccess /\ FailuresKeepEvidence /\ exitCode # "ok"
      /\ TestingIsInProgress
  BY WorkParts
<1>2. UNCHANGED <<file, lock, observed, run, mainpc, toQueue, results>>
  BY DEF mainVars, statusVars
<1>3. /\ \A v \in Workers : wstate'[v] = "publish" <=> wstate[v] = "publish"
      /\ \A v \in Workers : wstate'[v] = "dead" <=> wstate[v] = "dead"
      /\ \A v \in Workers : v # w => wstate'[v] = wstate[v]
      /\ wstate'[w] = s /\ wstate[w] \notin {"publish", "dead"} /\ ~HasResult(w)
  BY <1>1 DEF TypeOK, HasResult
<1>4. StatusTypeOK'
  BY <1>1, <1>2 DEF StatusTypeOK
<1>5. \A v \in Workers : HasResult(v) => witem[v] \in Targets
  BY <1>1 DEF WorkersInv, HasResult, IInv, OwnInv, TypeOK, Holders, Holding
<1>6. WorkersInv'
  <2>. SUFFICES ASSUME NEW v \in Workers
                PROVE  /\ HasResult(v)' => wbase'[v] \in {NoBase, BuildBase(witem'[v])}
                       /\ wstate'[v] = "publish" => /\ witem'[v] \in Targets /\ wresult'[v] \in Results
                                                    /\ results'[witem'[v]] = wresult'[v]
    BY DEF WorkersInv, BuildBase
  <2>1. CASE v = w
    BY <1>3, <2>1 DEF HasResult
  <2>2. CASE v # w
    BY <1>1, <1>2, <1>3, <2>2 DEF WorkersInv, HasResult
  <2>. QED  BY <2>1, <2>2
<1>7. FailuresKeepEvidence'
  <2>. SUFFICES ASSUME NEW v \in Workers, HasResult(v)', wresult'[v] = "failed", wbase'[v] # NoBase
                PROVE  workDir'[witem'[v]] = "full"
    BY DEF FailuresKeepEvidence, HasResult
  <2>1. CASE v = w
    BY <1>3, <2>1 DEF HasResult
  <2>2. CASE v # w
    <3>1. /\ HasResult(v) /\ wresult[v] = "failed" /\ wbase[v] # NoBase /\ witem'[v] = witem[v]
          /\ witem[v] \in Targets
      BY <1>3, <1>5, <2>2 DEF HasResult
    <3>2. workDir[witem[v]] = "full"
      BY <1>1, <3>1 DEF FailuresKeepEvidence, HasResult
    <3>. QED  BY <3>1, <3>2
  <2>. QED  BY <2>1, <2>2
<1>8. HistoryTellsOutcome' /\ NeverClaimsUnobservedSuccess'
  BY <1>1, <1>2 DEF HistoryTellsOutcome, NeverClaimsUnobservedSuccess
<1>9. TestingIsInProgress'
  <2>1. \A t \in Plan : (\E v \in Workers : wstate[v] \in {"publish", "dead"} /\ witem[v] = t)
                        => \E v \in Workers : wstate'[v] \in {"publish", "dead"} /\ witem'[v] = t
    BY <1>3
  <2>2. \A t \in Plan : Unresolved(t) => Unresolved(t)'
    BY <1>2, <2>1 DEF Unresolved, RecordedElsewhere
  <2>. QED  BY <1>1, <1>2, <2>2 DEF TestingIsInProgress, IntendedKey, IntendedBase
<1>. QED  BY <1>4, <1>6, <1>7, <1>8, <1>9, WorkGoesOn

\* take.
LEMMA ConfTakeKeeps ==
  ASSUME ConfInv, NEW w \in Workers, ConfTake(w) \/ ConfTakeNone(w)
  PROVE  ConfInv'
<1>1. mainpc = "work" /\ IInv /\ TypeOK /\ StatusTypeOK
  BY WorkParts DEF ConfTake, ConfTakeNone, Free
<1>2. IInv'
  BY <1>1, TakeSound, TakeNoneSound DEF ConfTake, ConfTakeNone
<1>3. /\ wstate[w] = "take"
      /\ \E s \in {"building", "done"} : wstate' = [wstate EXCEPT ![w] = s]
      /\ \A v \in Workers : v # w => witem'[v] = witem[v] /\ wresult'[v] = wresult[v]
      /\ UNCHANGED <<mainVars, statusVars, items, results, wbase, workDir>>
  BY <1>1 DEF ConfTake, ConfTakeNone, Take, TakeNone, queueVars, confWorkerVars, TypeOK
<1>. QED  BY <1>1, <1>2, <1>3, BuildingStep DEF StatusTypeOK

\* A build that returns leaves a full folder if it failed after the manifest.
LEMMA BuildOneKeeps ==
  ASSUME ConfInv, NEW w \in Workers, NEW outcome \in Outcomes, NEW known \in BOOLEAN, BuildOne(w, outcome, known)
  PROVE  ConfInv'
<1>. DEFINE t == witem[w]
<1>1. mainpc = "work" /\ IInv /\ TypeOK /\ StatusTypeOK /\ WorkersInv
  BY WorkParts DEF BuildOne, Free
<1>2. IInv'
  BY <1>1, ReturnsSound DEF BuildOne
<1>3. /\ wstate[w] = "building" /\ wstate' = [wstate EXCEPT ![w] = "record"]
      /\ wresult' = [wresult EXCEPT ![w] = outcome] /\ witem' = witem
      /\ UNCHANGED <<mainVars, statusVars, items, results>>
      /\ wbase' = [wbase EXCEPT ![w] = IF known THEN BuildBase(t) ELSE NoBase]
      /\ workDir' = [workDir EXCEPT ![t] = Leftover(outcome, known)]
  BY DEF BuildOne, BuildReturns, queueVars, BuildBase
<1>4. t \in Targets /\ results[t] = NoResult /\ BuildBase(t) \in Bases
  BY <1>1, <1>3, KeysOfTargets DEF IInv, QueueIsSound, OwnInv, TargetsConserved, TypeOK, Holders, Holding
<1>5. /\ wbase' \in [Workers -> Bases \cup {NoBase}] /\ wbase'[w] \in {NoBase, BuildBase(t)}
      /\ \A v \in Workers : v # w => wbase'[v] = wbase[v]
  BY <1>1, <1>3, <1>4 DEF StatusTypeOK
<1>6. workDir' \in [Targets -> {"none", "cleaned", "full"}]
  BY <1>1, <1>3, <1>4 DEF StatusTypeOK, Leftover
<1>7. ASSUME NEW v \in Workers, HasResult(v) PROVE witem[v] # t
  <2>1. CASE wstate[v] = "record"
    BY <1>1, <1>3, <2>1 DEF IInv, QueueIsSound, TargetsConserved, Holders, Holding
  <2>2. CASE wstate[v] = "publish"
    <3>1. results[witem[v]] \in Results
      BY <1>1, <2>2 DEF WorkersInv
    <3>. QED  BY <1>4, <3>1, OutcomesAssumption DEF Results, Crash, NoResult
  <2>. QED  BY <1>7, <2>1, <2>2 DEF HasResult
<1>8. \A u \in Targets : (\E v \in Workers : HasResult(v) /\ witem[v] = u) => workDir'[u] = workDir[u]
  BY <1>1, <1>3, <1>7 DEF StatusTypeOK
<1>9. wresult'[w] = "failed" /\ wbase'[w] # NoBase => workDir'[witem'[w]] = "full"
  BY <1>1, <1>3, <1>4 DEF StatusTypeOK, TypeOK, Leftover
<1>10. \A v \in Workers : v # w => witem'[v] = witem[v] /\ wresult'[v] = wresult[v]
  BY <1>1, <1>3 DEF TypeOK
<1>11. BuildBase(t) = BuildBase(witem'[w])
  BY <1>3
<1>. HIDE DEF t
<1>. QED  BY <1>1, <1>2, <1>3, <1>5, <1>6, <1>8, <1>9, <1>10, <1>11, BuildingStep

\* A worker that cannot write forgets the base.
LEMMA ConfRaisesKeeps ==
  ASSUME ConfInv, NEW w \in Workers, ConfRaises(w)
  PROVE  ConfInv'
<1>1. mainpc = "work" /\ IInv /\ TypeOK /\ StatusTypeOK
  BY WorkParts DEF ConfRaises, Free
<1>2. IInv'
  BY <1>1, RaisesSound DEF ConfRaises
<1>3. /\ wstate[w] = "building"
      /\ \E s \in {"take", "record"} : wstate' = [wstate EXCEPT ![w] = s]
      /\ \A v \in Workers : v # w => witem'[v] = witem[v] /\ wresult'[v] = wresult[v]
      /\ UNCHANGED <<items, results>>
  BY <1>1 DEF ConfRaises, BuildRaises, Requeue, queueVars, TypeOK
<1>4. /\ UNCHANGED <<mainVars, statusVars, workDir>> /\ wbase' = [wbase EXCEPT ![w] = NoBase]
      /\ wbase' \in [Workers -> Bases \cup {NoBase}] /\ wbase'[w] = NoBase
      /\ \A v \in Workers : v # w => wbase'[v] = wbase[v]
  BY <1>1 DEF ConfRaises, StatusTypeOK
<1>. QED  BY <1>1, <1>2, <1>3, <1>4, BuildingStep DEF StatusTypeOK

\* record_result.
LEMMA ConfRecordKeeps ==
  ASSUME ConfInv, NEW w \in Workers, ConfRecordResult(w)
  PROVE  ConfInv'
<1>. DEFINE e == witem[w]
<1>1. /\ mainpc = "work" /\ IInv /\ TypeOK /\ StatusTypeOK /\ WorkersInv /\ HistoryTellsOutcome
      /\ NeverClaimsUnobservedSuccess /\ FailuresKeepEvidence /\ TestingIsInProgress
  BY WorkParts DEF ConfRecordResult, Free
<1>2. IInv'
  BY <1>1, RecordResultSound DEF ConfRecordResult
<1>3. /\ wstate[w] = "record" /\ wstate' = [wstate EXCEPT ![w] = "publish"]
      /\ results' = [results EXCEPT ![e] = wresult[w]]
      /\ UNCHANGED <<items, witem, wresult, file, lock, observed, mainVars, wbase, workDir>>
  BY DEF ConfRecordResult, RecordResult, statusVars, confWorkerVars
<1>4. e \in Targets /\ results[e] = NoResult /\ wresult[w] \in Results
  BY <1>1, <1>3 DEF IInv, QueueIsSound, OwnInv, TargetsConserved, TypeOK, Holders, Holding
<1>5. /\ results'[e] = wresult[w] /\ \A t \in Targets : t # e => results'[t] = results[t]
      /\ wstate'[w] = "publish" /\ \A v \in Workers : v # w => wstate'[v] = wstate[v]
      /\ \A v \in Workers : HasResult(v)' <=> HasResult(v)
  BY <1>1, <1>3, <1>4 DEF TypeOK, HasResult
<1>6. \A v \in Workers : wstate[v] = "publish" => witem[v] # e
  <2>1. \A v \in Workers : wstate[v] = "publish" => results[witem[v]] \in Results
    BY <1>1 DEF WorkersInv
  <2>. QED  BY <1>4, <2>1, OutcomesAssumption DEF Results, Crash, NoResult
<1>7. StatusTypeOK'
  BY <1>1, <1>3 DEF StatusTypeOK, mainVars
<1>8. WorkersInv'
  <2>1. \A v \in Workers : HasResult(v)' => wbase'[v] \in {NoBase, BuildBase(witem'[v])}
    BY <1>1, <1>3, <1>5 DEF WorkersInv, BuildBase
  <2>2. \A v \in Workers : wstate'[v] = "publish" => /\ witem'[v] \in Targets /\ wresult'[v] \in Results
                                                   /\ results'[witem'[v]] = wresult'[v]
    BY <1>1, <1>3, <1>4, <1>5, <1>6 DEF WorkersInv
  <2>. QED  BY <2>1, <2>2 DEF WorkersInv, BuildBase, HasResult
<1>9. FailuresKeepEvidence'
  BY <1>1, <1>3, <1>5 DEF FailuresKeepEvidence, HasResult
<1>10. HistoryTellsOutcome' /\ NeverClaimsUnobservedSuccess'
  BY <1>1, <1>3 DEF HistoryTellsOutcome, NeverClaimsUnobservedSuccess
<1>11. TestingIsInProgress'
  <2>1. ASSUME NEW t \in Plan, Unresolved(t) PROVE Unresolved(t)'
    <3>1. CASE t = e
      BY <1>3, <1>5, <3>1 DEF Unresolved
    <3>2. CASE t # e /\ results[t] = NoResult
      BY <1>5, <3>2, PlanAssumption DEF Unresolved
    <3>3. CASE \E v \in Workers : wstate[v] \in {"publish", "dead"} /\ witem[v] = t
      <4>1. PICK v \in Workers : wstate[v] \in {"publish", "dead"} /\ witem[v] = t
        BY <3>3
      <4>2. wstate'[v] \in {"publish", "dead"} /\ witem'[v] = t
        BY <1>3, <1>5, <4>1
      <4>. QED  BY <4>2 DEF Unresolved
    <3>4. CASE RecordedElsewhere(t)
      BY <3>4 DEF Unresolved, RecordedElsewhere
    <3>. QED  BY <2>1, <3>1, <3>2, <3>3, <3>4 DEF Unresolved
  <2>. QED  BY <1>1, <1>3, <2>1 DEF TestingIsInProgress, IntendedKey, IntendedBase, mainVars
<1>. QED  BY <1>1, <1>2, <1>3, <1>7, <1>8, <1>9, <1>10, <1>11, WorkGoesOn

\* status_updater.start: the entry of a worker's item is being tested.
LEMMA ConfStartKeeps ==
  ASSUME ConfInv, NEW w \in Workers, ConfStart(w)
  PROVE  ConfInv'
<1>. DEFINE t == witem[w]
            k == IntendedKey(t)
            f == [file EXCEPT ![k] = Live(file[k], "testing")]
<1>1. /\ mainpc = "work" /\ IInv /\ TypeOK /\ StatusTypeOK /\ WorkersInv
      /\ NeverClaimsUnobservedSuccess /\ FailuresKeepEvidence /\ TestingIsInProgress
  BY WorkParts DEF ConfStart, Free
<1>2. /\ wstate[w] = "building" /\ file' = f /\ lock' \in {w, NoWorker}
      /\ UNCHANGED <<jobVars, mainVars, observed, wbase, workDir>>
  BY DEF ConfStart, Apply, MarkTesting
<1>3. UNCHANGED <<items, results, wstate, witem, wresult, run, mainpc, toQueue>>
  BY <1>2 DEF jobVars, queueVars, workerVars, mainVars
<1>4. t \in Targets /\ t \in Plan /\ results[t] = NoResult /\ k \in Keys
  BY <1>1, <1>2, KeysOfTargets, PlanAssumption DEF IInv, QueueIsSound, OwnInv, TargetsConserved, TypeOK, Holders, Holding
<1>5. /\ f \in [Keys -> StatusRecords] /\ \A j \in Keys : RecordSound(f[j])
      /\ f[k].state = "testing" /\ \A j \in Keys : j # k => f[j] = file[j]
  <2>. HIDE DEF k, f
  <2>1. Marked(f, k, "testing")
    BY DEF f, Marked
  <2>. QED  BY <1>4, <2>1, MarkSound
<1>. HIDE DEF f
<1>6. HistoryTellsOutcome' /\ file' \in [Keys -> StatusRecords]
  BY <1>2, <1>5, FileSoundNext
<1>7. IInv'
  BY <1>1, <1>2, QueueStutters
<1>8. StatusTypeOK' /\ WorkersInv' /\ FailuresKeepEvidence'
  BY <1>1, <1>2, <1>3, <1>6 DEF StatusTypeOK, WorkersInv, FailuresKeepEvidence, HasResult, BuildBase
<1>9. NeverClaimsUnobservedSuccess'
  BY <1>1, <1>2, <1>5 DEF NeverClaimsUnobservedSuccess
<1>10. TestingIsInProgress'
  <2>1. \A u \in Plan : Unresolved(u) => Unresolved(u)'
    BY <1>3 DEF Unresolved, RecordedElsewhere
  <2>2. Unresolved(t)'
    BY <1>3, <1>4 DEF Unresolved
  <2>. QED  BY <1>1, <1>2, <1>3, <1>4, <1>5, <2>1, <2>2 DEF TestingIsInProgress, IntendedKey, IntendedBase
<1>. QED  BY <1>1, <1>2, <1>3, <1>6, <1>7, <1>8, <1>9, <1>10, WorkGoesOn

\* status_updater.record: the file takes the outcome, under the base it was
\* tested under if that was known.
LEMMA ConfOnResultKeeps ==
  ASSUME ConfInv, NEW w \in Workers, ConfOnResult(w)
  PROVE  ConfInv'
<1>. DEFINE t == witem[w]
            k == RecordKey(w)
            new == MapState(wresult[w])
            f == ApplyResult(file, k, wresult[w])
<1>1. /\ mainpc = "work" /\ IInv /\ TypeOK /\ StatusTypeOK /\ WorkersInv
      /\ NeverClaimsUnobservedSuccess /\ FailuresKeepEvidence /\ TestingIsInProgress
  BY WorkParts DEF ConfOnResult, Free
<1>2. /\ wstate[w] = "publish" /\ wstate' = [wstate EXCEPT ![w] = "take"]
      /\ witem' = [witem EXCEPT ![w] = NoTarget] /\ UNCHANGED <<items, results, wresult>>
      /\ file' = f /\ lock' \in {w, NoWorker} /\ observed' = [observed EXCEPT ![k] = new]
      /\ UNCHANGED <<mainVars, run, mainpc, toQueue, wbase, workDir>>
  BY DEF ConfOnResult, PublishReturns, Apply, queueVars, mainVars
<1>3. t \in Targets /\ wbase[w] \in {NoBase, BuildBase(t)}
  BY <1>1, <1>2 DEF WorkersInv, HasResult
<1>4. k \in Keys
  BY <1>1, <1>3, KeysOfTargets DEF RecordKey, StatusTypeOK, Keys
<1>5. k = IntendedKey(t) \/ RecordedElsewhere(t)
  BY <1>3, PlanAssumption DEF RecordedElsewhere, RecordKey, IntendedKey, IntendedBase, BuildBase
<1>6. new \in Finals
  BY DEF MapState, Finals
<1>. HIDE DEF k, new
<1>7. /\ f \in [Keys -> StatusRecords] /\ (\A j \in Keys : RecordSound(f[j]))
      /\ f[k].state = new /\ \A j \in Keys : j # k => f[j] = file[j]
  <2>. DEFINE since == IF LastState(file[k].history) = new THEN file[k].since ELSE run
              record == [state |-> new, since |-> since,
                         history |-> Bounded(Append(file[k].history, [date |-> run, state |-> new]))]
  <2>1. file \in [Keys -> StatusRecords] /\ run \in Nat /\ \A j \in Keys : RecordSound(file[j])
    BY FileSound
  <2>2. f = [file EXCEPT ![k] = record]
    BY DEF ApplyResult, new
  <2>3. since \in Nat
    BY <1>4, <2>1 DEF StatusRecords
  <2>. HIDE DEF since
  <2>4. RecordSound(record)
    BY <1>4, <1>6, <2>1, <2>3, OutcomeSound
  <2>5. record.state = new
    OBVIOUS
  <2>6. record \in StatusRecords
    BY <2>4 DEF RecordSound
  <2>. HIDE DEF record, f
  <2>. QED  BY <1>4, <2>1, <2>2, <2>4, <2>5, <2>6
<1>. HIDE DEF f
<1>8. HistoryTellsOutcome' /\ file' \in [Keys -> StatusRecords]
  BY <1>2, <1>7, FileSoundNext
<1>9. IInv'
  BY <1>1, PublishSound DEF ConfOnResult
<1>10. /\ \A v \in Workers : v # w => wstate'[v] = wstate[v] /\ witem'[v] = witem[v]
       /\ wstate'[w] = "take"
  BY <1>1, <1>2 DEF TypeOK
<1>11. observed' \in [Keys -> Finals \cup {"none", "interrupted"}] /\ observed'[k] = new
       /\ \A j \in Keys : j # k => observed'[j] = observed[j]
  BY <1>1, <1>2, <1>4, <1>6 DEF StatusTypeOK
<1>12. StatusTypeOK'
  BY <1>1, <1>2, <1>8, <1>11 DEF StatusTypeOK
<1>13. WorkersInv'
  BY <1>1, <1>2, <1>10 DEF WorkersInv, HasResult, BuildBase
<1>14. FailuresKeepEvidence'
  BY <1>1, <1>2, <1>10 DEF FailuresKeepEvidence
<1>15. NeverClaimsUnobservedSuccess'
  BY <1>1, <1>2, <1>4, <1>7, <1>11 DEF NeverClaimsUnobservedSuccess
<1>16. TestingIsInProgress'
  <2>. SUFFICES ASSUME NEW j \in Keys, f[j].state = "testing"
                PROVE  \E u \in Plan : IntendedKey(u) = j /\ Unresolved(u)'
    BY <1>2 DEF TestingIsInProgress, IntendedKey, IntendedBase
  <2>1. j # k /\ file[j].state = "testing"
    BY <1>6, <1>7 DEF Finals
  <2>2. PICK u \in Plan : IntendedKey(u) = j /\ Unresolved(u)
    BY <1>1, <2>1 DEF TestingIsInProgress
  <2>3. u # t \/ RecordedElsewhere(u)
    BY <1>5, <2>1, <2>2
  <2>4. ASSUME NEW v \in Workers, wstate[v] \in {"publish", "dead"}, witem[v] = u, u # t
        PROVE  wstate'[v] \in {"publish", "dead"} /\ witem'[v] = u
    BY <1>10, <2>4
  <2>5. Unresolved(u)'
    BY <1>2, <2>2, <2>3, <2>4 DEF Unresolved, RecordedElsewhere
  <2>. QED  BY <2>2, <2>5
<1>. QED  BY <1>1, <1>2, <1>8, <1>9, <1>12, <1>13, <1>14, <1>15, <1>16, WorkGoesOn

\* A record that raises changes nothing but the worker, which keeps its item.
LEMMA ConfOnResultRaisesKeeps ==
  ASSUME ConfInv, NEW w \in Workers, ConfOnResultRaises(w)
  PROVE  ConfInv'
<1>1. /\ mainpc = "work" /\ IInv /\ TypeOK /\ StatusTypeOK /\ WorkersInv /\ HistoryTellsOutcome
      /\ NeverClaimsUnobservedSuccess /\ FailuresKeepEvidence /\ TestingIsInProgress
  BY WorkParts DEF ConfOnResultRaises, Free
<1>2. /\ wstate[w] = "publish" /\ wstate' = [wstate EXCEPT ![w] = "dead"]
      /\ UNCHANGED <<items, results, witem, wresult, file, lock, observed, mainVars, wbase, workDir>>
  BY DEF ConfOnResultRaises, PublishRaises, statusVars, confWorkerVars, queueVars
<1>3. IInv'
  BY <1>1, PublishSound DEF ConfOnResultRaises
<1>4. wstate'[w] = "dead" /\ \A v \in Workers : v # w => wstate'[v] = wstate[v]
  BY <1>1, <1>2 DEF TypeOK
<1>5. StatusTypeOK'
  BY <1>1, <1>2 DEF StatusTypeOK, mainVars
<1>6. WorkersInv' /\ FailuresKeepEvidence'
  BY <1>1, <1>2, <1>4 DEF WorkersInv, HasResult, BuildBase, FailuresKeepEvidence
<1>7. HistoryTellsOutcome' /\ NeverClaimsUnobservedSuccess'
  BY <1>1, <1>2 DEF HistoryTellsOutcome, NeverClaimsUnobservedSuccess
<1>8. TestingIsInProgress'
  <2>1. ASSUME NEW v \in Workers, wstate[v] \in {"publish", "dead"}
        PROVE  wstate'[v] \in {"publish", "dead"}
    BY <1>4, <2>1
  <2>2. \A t \in Plan : Unresolved(t) => Unresolved(t)'
    BY <1>2, <2>1 DEF Unresolved, RecordedElsewhere
  <2>. QED  BY <1>1, <1>2, <2>2 DEF TestingIsInProgress, IntendedKey, IntendedBase, mainVars
<1>. QED  BY <1>1, <1>2, <1>3, <1>5, <1>6, <1>7, <1>8, WorkGoesOn

-----------------------------------------------------------------------------
\* A step outside the loop of the workers has to keep the workers at their
\* start and what concerns the file.
LEMMA MainGoesOn ==
  ASSUME ConfInv, IInv', StatusTypeOK', MainInv', PlanInv', HistoryTellsOutcome',
         NeverClaimsUnobservedSuccess', TestingIsInProgress', ExitOkMeansPublished',
         \A w \in Workers : wstate'[w] \in {"idle", "take"}
  PROVE  ConfInv'
<1>1. WorkersInv' /\ FailuresKeepEvidence'
  BY DEF WorkersInv, HasResult, FailuresKeepEvidence
<1>. QED  BY <1>1 DEF ConfInv

\* run_build starts: the folders are wiped, nothing is claimed.
LEMMA ConfStartRunKeeps ==
  ASSUME ConfInv, StartRun
  PROVE  ConfInv'
<1>1. /\ mainpc = "idle" /\ mainpc' = "resolve" /\ run' = run + 1 /\ exitCode' = "none"
      /\ workDir' = [t \in Targets |-> "none"] /\ UNCHANGED <<jobVars, statusVars, toQueue, wbase>>
  BY DEF StartRun
<1>2. UNCHANGED <<file, lock, observed, wstate>>
  BY <1>1 DEF statusVars, jobVars, workerVars
<1>3. IInv'
  BY <1>1, QueueStutters DEF ConfInv
<1>4. StatusTypeOK'
  BY <1>1, <1>2 DEF ConfInv, StatusTypeOK, MainPlaces
<1>5. MainInv' /\ PlanInv' /\ ExitOkMeansPublished' /\ TestingIsInProgress' /\ \A w \in Workers : wstate'[w] \in {"idle", "take"}
  BY <1>1, <1>2 DEF ConfInv, MainInv, PlanInv, ExitOkMeansPublished, TestingIsInProgress
<1>6. HistoryTellsOutcome' /\ NeverClaimsUnobservedSuccess'
  BY <1>1, <1>2 DEF ConfInv, HistoryTellsOutcome, NeverClaimsUnobservedSuccess
<1>. QED  BY <1>3, <1>4, <1>5, <1>6, MainGoesOn

\* status_updater.resolve_interrupted: no test is left in the file, and what
\* was interrupted claims no success.
LEMMA ResolveKeeps ==
  ASSUME ConfInv, ResolveInterrupted
  PROVE  ConfInv'
<1>. DEFINE f == ResolveStuckTesting(file)
<1>1. /\ mainpc = "resolve" /\ mainpc' = "queue" /\ file' = f /\ lock' \in {Main, NoWorker}
      /\ toQueue' = SetToSeq(Plan) /\ UNCHANGED <<jobVars, run, exitCode, observed, wbase, workDir>>
  BY DEF ResolveInterrupted, Apply, confWorkerVars
<1>2. file \in [Keys -> StatusRecords] /\ run \in Nat /\ \A k \in Keys : RecordSound(file[k])
  BY FileSound
<1>3. ASSUME NEW k \in Keys
      PROVE  RecordSound(f[k]) /\ f[k].state # "testing" /\ (f[k].state = "success" => f[k] = file[k])
  <2>1. CASE file[k].state # "testing"
    BY <1>2, <2>1 DEF ResolveStuckTesting
  <2>2. CASE file[k].state = "testing"
    <3>1. PICK r : r = [state |-> "failed", since |-> run,
                        history |-> Bounded(Append(file[k].history, [date |-> run, state |-> "failed"]))]
      OBVIOUS
    <3>2. f[k] = r /\ r.state = "failed"
      BY <2>2, <3>1 DEF ResolveStuckTesting
    <3>3. RecordSound(r)
      BY <1>2, <3>1, OutcomeSound DEF Finals
    <3>. QED  BY <3>2, <3>3
  <2>. QED  BY <2>1, <2>2
<1>4. f \in [Keys -> StatusRecords]
  <2>1. \A k \in Keys : f[k] \in StatusRecords
    BY <1>3 DEF RecordSound
  <2>2. f = [k \in Keys |-> f[k]]
    BY DEF ResolveStuckTesting
  <2>. HIDE DEF f
  <2>. QED  BY <2>1, <2>2
<1>. HIDE DEF f
<1>5. HistoryTellsOutcome' /\ file' \in [Keys -> StatusRecords]
  BY <1>1, <1>3, <1>4, FileSoundNext
<1>6. IInv'
  BY <1>1, QueueStutters DEF ConfInv
<1>7. toQueue' \in Seq(Targets)
  BY <1>1, ListedOnce, PlanAssumption, TargetsAssumption
<1>8. StatusTypeOK'
  BY <1>1, <1>5, <1>7 DEF ConfInv, StatusTypeOK, MainPlaces
<1>9. wstate' = wstate
  BY <1>1 DEF jobVars, workerVars
<1>10. MainInv' /\ PlanInv' /\ ExitOkMeansPublished' /\ TestingIsInProgress' /\ \A w \in Workers : wstate'[w] \in {"idle", "take"}
  BY <1>1, <1>3, <1>9 DEF ConfInv, MainInv, PlanInv, ExitOkMeansPublished, TestingIsInProgress
<1>11. NeverClaimsUnobservedSuccess'
  BY <1>1, <1>3 DEF ConfInv, NeverClaimsUnobservedSuccess
<1>. QED  BY <1>5, <1>6, <1>8, <1>10, <1>11, MainGoesOn

\* status_updater.queue for one ref.
LEMMA QueueKeeps ==
  ASSUME ConfInv, Queue
  PROVE  ConfInv'
<1>. DEFINE k == IntendedKey(Head(toQueue))
            f == [file EXCEPT ![k] = Live(file[k], "queued")]
<1>1. /\ mainpc = "queue" /\ mainpc' = "queue" /\ toQueue # <<>> /\ file' = f /\ lock' \in {Main, NoWorker}
      /\ toQueue' = Tail(toQueue) /\ UNCHANGED <<jobVars, run, exitCode, observed, wbase, workDir>>
  BY DEF Queue, Apply, MarkQueued, confWorkerVars
<1>2. Head(toQueue) \in Targets /\ toQueue' \in Seq(Targets)
  BY <1>1 DEF ConfInv, StatusTypeOK
<1>3. k \in Keys
  BY <1>2, KeysOfTargets
<1>4. /\ f \in [Keys -> StatusRecords] /\ (\A j \in Keys : RecordSound(f[j]))
      /\ f[k].state = "queued" /\ \A j \in Keys : j # k => f[j] = file[j]
  <2>. HIDE DEF k, f
  <2>1. Marked(f, k, "queued")
    BY DEF f, Marked
  <2>. QED  BY <1>3, <2>1, MarkSound
<1>. HIDE DEF k, f
<1>5. HistoryTellsOutcome' /\ file' \in [Keys -> StatusRecords]
  BY <1>1, <1>4, FileSoundNext
<1>6. IInv'
  BY <1>1, QueueStutters DEF ConfInv
<1>7. StatusTypeOK'
  BY <1>1, <1>2, <1>5 DEF ConfInv, StatusTypeOK, MainPlaces
<1>8. wstate' = wstate
  BY <1>1 DEF jobVars, workerVars
<1>9. \A j \in Keys : f[j].state # "testing" /\ (f[j].state = "success" => f[j] = file[j])
  BY <1>1, <1>4 DEF ConfInv, MainInv
<1>10. MainInv' /\ PlanInv' /\ ExitOkMeansPublished' /\ TestingIsInProgress' /\ \A w \in Workers : wstate'[w] \in {"idle", "take"}
  BY <1>1, <1>8, <1>9 DEF ConfInv, MainInv, PlanInv, ExitOkMeansPublished, TestingIsInProgress
<1>11. NeverClaimsUnobservedSuccess'
  BY <1>1, <1>9 DEF ConfInv, NeverClaimsUnobservedSuccess
<1>. QED  BY <1>5, <1>6, <1>7, <1>10, <1>11, MainGoesOn

\* run_parallel builds its queue from the whole plan.
LEMMA RunParallelKeeps ==
  ASSUME ConfInv, RunParallel
  PROVE  ConfInv'
<1>1. /\ mainpc = "queue" /\ mainpc' = "work" /\ (\E jobs \in Jobs : Start(SetToSeq(Plan), jobs)) /\ wbase' = [w \in Workers |-> NoBase]
      /\ UNCHANGED <<file, lock, observed, run, toQueue, exitCode, workDir>>
  BY DEF RunParallel, statusVars
<1>2. SetToSeq(Plan) \in Seq(Targets) /\ Distinct(SetToSeq(Plan))
  BY ListedOnce, PlanAssumption, TargetsAssumption
<1>3. IInv'
  <2>1. PICK queue : queue = SetToSeq(Plan)
    OBVIOUS
  <2>2. Fresh(queue, {"idle", "take"})'
    BY <1>1, <2>1 DEF Start, Fresh, Threads
  <2>. QED  BY <1>2, <2>1, <2>2, FreshSoundNext
<1>4. StatusTypeOK'
  BY <1>1 DEF ConfInv, StatusTypeOK, MainPlaces
<1>5. /\ MainInv' /\ PlanInv' /\ ExitOkMeansPublished' /\ TestingIsInProgress'
      /\ \A w \in Workers : wstate'[w] \in {"idle", "take"}
  <2>1. Elements(SetToSeq(Plan)) = Plan
    BY ListedOnce, PlanAssumption, TargetsAssumption
  <2>. QED  BY <1>1, <2>1 DEF ConfInv, MainInv, PlanInv, ExitOkMeansPublished, TestingIsInProgress, Start, Threads
<1>6. HistoryTellsOutcome' /\ NeverClaimsUnobservedSuccess'
  BY <1>1 DEF ConfInv, HistoryTellsOutcome, NeverClaimsUnobservedSuccess
<1>. QED  BY <1>3, <1>4, <1>5, <1>6, MainGoesOn

\* Whatever else an upload does, an upload without a fault leaves the file at
\* every destination.
LEMMA UploadComplete ==
  ASSUME MaybeUpload, finalOk'
  PROVE  \A d \in Destinations : published'[d] = file
<1>1. PICK localOk \in SUBSET Local, prodOk \in SUBSET Production, verified \in BOOLEAN :
        RunOnce(localOk, verified, prodOk)
  BY DEF MaybeUpload
<1>. QED  BY <1>1 DEF RunOnce

\* A change was uploaded while its writer held the lock.
LEMMA OnChangeKeeps ==
  ASSUME ConfInv, OnChange
  PROVE  ConfInv'
<1>1. /\ lock # NoWorker /\ lock' = NoWorker
      /\ UNCHANGED <<jobVars, file, observed, run, mainpc, toQueue, reportFile, exitCode, stranded, wbase, workDir>>
  BY DEF OnChange, mainVars, confWorkerVars
<1>2. UNCHANGED <<items, results, wstate, witem, wresult>>
  BY <1>1 DEF jobVars, queueVars, workerVars
<1>3. IInv'
  BY <1>1, QueueStutters DEF ConfInv
<1>4. mainpc \notin {"idle", "exit"} /\ exitCode # "ok"
  BY <1>1 DEF ConfInv, MainInv
<1>5. StatusTypeOK' /\ WorkersInv'
  BY <1>1, <1>2 DEF ConfInv, StatusTypeOK, WorkersInv, HasResult, BuildBase
<1>6. MainInv' /\ PlanInv' /\ ExitOkMeansPublished'
  BY <1>1, <1>2, <1>4 DEF ConfInv, MainInv, PlanInv, Joined, ExitOkMeansPublished, EndOfBuild
<1>7. HistoryTellsOutcome' /\ NeverClaimsUnobservedSuccess' /\ FailuresKeepEvidence'
  BY <1>1, <1>2 DEF ConfInv, HistoryTellsOutcome, NeverClaimsUnobservedSuccess, FailuresKeepEvidence
<1>8. TestingIsInProgress'
  BY <1>1, <1>2 DEF ConfInv, TestingIsInProgress, Unresolved, RecordedElsewhere, IntendedKey, IntendedBase
<1>. QED  BY <1>3, <1>5, <1>6, <1>7, <1>8 DEF ConfInv

\* The end of the build: the last upload.
LEMMA EndOfBuildKeeps ==
  ASSUME ConfInv, EndOfBuild
  PROVE  ConfInv'
<1>1. /\ mainpc = "work" /\ mainpc' = "exit" /\ lock = NoWorker
      /\ UNCHANGED <<jobVars, file, lock, observed, run, toQueue, reportFile, exitCode, wbase, workDir>>
  BY DEF EndOfBuild, statusVars, confWorkerVars
<1>2. UNCHANGED <<items, results, wstate, witem, wresult>>
  BY <1>1 DEF jobVars, queueVars, workerVars
<1>3. IInv'
  BY <1>1, QueueStutters DEF ConfInv
<1>4. finalOk' => \A d \in Destinations : published'[d] = file
  BY UploadComplete DEF EndOfBuild, FinalUpload
<1>5. StatusTypeOK' /\ WorkersInv'
  BY <1>1, <1>2 DEF ConfInv, StatusTypeOK, WorkersInv, HasResult, BuildBase, MainPlaces
<1>6. MainInv' /\ PlanInv' /\ ExitOkMeansPublished'
  BY <1>1, <1>2, <1>4 DEF ConfInv, MainInv, PlanInv, Joined, ExitOkMeansPublished, EndOfBuild
<1>7. HistoryTellsOutcome' /\ NeverClaimsUnobservedSuccess' /\ FailuresKeepEvidence'
  BY <1>1, <1>2 DEF ConfInv, HistoryTellsOutcome, NeverClaimsUnobservedSuccess, FailuresKeepEvidence
<1>8. TestingIsInProgress'
  BY <1>1, <1>2 DEF ConfInv, TestingIsInProgress, Unresolved, RecordedElsewhere, IntendedKey, IntendedBase
<1>. QED  BY <1>3, <1>5, <1>6, <1>7, <1>8 DEF ConfInv

\* The process ends: what it kept in memory is gone.
LEMMA ConfGoneKeeps ==
  ASSUME ConfInv, ProcessGone, observed' \in [Keys -> Finals \cup {"none", "interrupted"}],
         NeverClaimsUnobservedSuccess', ExitOkMeansPublished'
  PROVE  ConfInv'
<1>1. /\ mainpc' = "idle" /\ Start(<<>>, Workers) /\ lock' = NoWorker /\ toQueue' = <<>>
      /\ wbase' = [w \in Workers |-> NoBase] /\ UNCHANGED <<file, run, workDir>>
  BY DEF ProcessGone
<1>2. IInv'
  <2>1. Fresh(<<>>, {"idle", "take"})'
    BY <1>1 DEF Start, Fresh, Threads
  <2>2. <<>> \in Seq(Targets) /\ Distinct(<<>>)
    BY DEF Distinct
  <2>. QED  BY <2>1, <2>2, FreshSoundNext
<1>3. StatusTypeOK'
  BY <1>1 DEF ConfInv, StatusTypeOK, MainPlaces
<1>4. MainInv' /\ PlanInv' /\ TestingIsInProgress' /\ \A w \in Workers : wstate'[w] \in {"idle", "take"}
  BY <1>1 DEF MainInv, PlanInv, TestingIsInProgress, Start, Threads
<1>5. HistoryTellsOutcome'
  BY <1>1 DEF ConfInv, HistoryTellsOutcome
<1>. QED  BY <1>2, <1>3, <1>4, <1>5, MainGoesOn

\* A kill interrupts what was being tested, and its exit code is not 0.
LEMMA ConfKillKeeps ==
  ASSUME ConfInv, Kill
  PROVE  ConfInv'
<1>1. /\ observed' = [k \in Keys |-> IF file[k].state = "testing" THEN "interrupted" ELSE observed[k]]
      /\ exitCode' = "killed" /\ ProcessGone /\ file' = file
  BY DEF Kill, ProcessGone
<1>2. observed' \in [Keys -> Finals \cup {"none", "interrupted"}]
  BY <1>1 DEF ConfInv, StatusTypeOK
<1>3. NeverClaimsUnobservedSuccess' /\ ExitOkMeansPublished'
  BY <1>1 DEF ConfInv, NeverClaimsUnobservedSuccess, ExitOkMeansPublished
<1>. QED  BY <1>1, <1>2, <1>3, ConfGoneKeeps

\* The exit code: with no reported entry failed or skipped every result is a
\* success; a worker that left because the queue was drained saw a result of
\* every entry; and the last upload put the file everywhere.
LEMMA ExitRunKeeps ==
  ASSUME ConfInv, ExitRun
  PROVE  ConfInv'
<1>1. /\ mainpc = "exit" /\ reportFile' = results /\ exitCode' = ExitCode /\ ProcessGone
      /\ stranded' = NobodyDrained
      /\ UNCHANGED <<observed, file, published>>
  BY DEF ExitRun, ProcessGone, uploadVars
<1>2. ASSUME ExitCode = "ok"
      PROVE  /\ \A t \in Plan : results[t] = "success" \/ (stranded' /\ results[t] = NoResult)
             /\ \A d \in Destinations : published[d] = file
  <2>1. /\ \A t \in Plan : results[t] # NoResult => MapState(results[t]) # "failed" /\ results[t] # "skipped"
        /\ Destinations = {} \/ finalOk
    BY <1>2 DEF ExitCode
  <2>2. \A t \in Plan : results[t] # NoResult => results[t] = "success"
    BY <2>1 DEF MapState
  <2>3. ASSUME ~stranded', NEW t \in Plan PROVE results[t] # NoResult
    <3>1. \E w \in Workers : wstate[w] = "done"
      BY <1>1, <2>3 DEF NobodyDrained
    <3>. QED  BY <1>1, <3>1 DEF ConfInv, PlanInv, IInv, QueueIsSound, LeavesOnlyWhenDrained
  <2>4. \A d \in Destinations : published[d] = file
    BY <1>1, <2>1 DEF ConfInv, MainInv
  <2>5. stranded' \in BOOLEAN
    BY <1>1 DEF NobodyDrained
  <2>. QED  BY <2>2, <2>3, <2>4, <2>5
<1>3. ExitOkMeansPublished'
  BY <1>1, <1>2 DEF ExitOkMeansPublished
<1>4. NeverClaimsUnobservedSuccess' /\ observed' \in [Keys -> Finals \cup {"none", "interrupted"}]
  BY <1>1 DEF ConfInv, NeverClaimsUnobservedSuccess, StatusTypeOK
<1>. QED  BY <1>1, <1>3, <1>4, ConfGoneKeeps

\* Before the first run.
LEMMA ConfInitHolds == ConfInit => ConfInv
<1>. SUFFICES ASSUME ConfInit PROVE ConfInv
  OBVIOUS
<1>1. IInv
  <2>1. Fresh(<<>>, {"idle", "take"})
    BY DEF ConfInit, Fresh, Elements
  <2>2. <<>> \in Seq(Targets) /\ Distinct(<<>>)
    BY DEF Distinct
  <2>. QED  BY <2>1, <2>2, FreshSound DEF SoundWhenFresh
<1>2. NoRecord \in StatusRecords /\ NoRecord.history = <<>> /\ NoRecord.state = "never tested"
  BY DEF NoRecord, StatusRecords, States
<1>3. file \in [Keys -> StatusRecords] /\ \A k \in Keys : file[k] = NoRecord
  BY <1>2 DEF ConfInit, EmptyFile
<1>4. StatusTypeOK
  BY <1>3 DEF ConfInit, StatusTypeOK, MainPlaces
<1>5. HistoryTellsOutcome /\ NeverClaimsUnobservedSuccess
  <2>1. Len(<<>>) <= HISTORY_LIMIT
    BY HistoryAssumption
  <2>. QED  BY <1>2, <1>3, <2>1 DEF HistoryTellsOutcome, NeverClaimsUnobservedSuccess
<1>6. WorkersInv /\ MainInv /\ PlanInv /\ FailuresKeepEvidence /\ TestingIsInProgress /\ ExitOkMeansPublished
  BY DEF ConfInit, WorkersInv, HasResult, MainInv, PlanInv, FailuresKeepEvidence, TestingIsInProgress, ExitOkMeansPublished
<1>. QED  BY <1>1, <1>4, <1>5, <1>6 DEF ConfInv

\* Every step of "catalog_conformance build" keeps the invariant.
LEMMA ConfStep == ConfInv /\ [ConfNext]_confVars => ConfInv'
<1>. SUFFICES ASSUME ConfInv, [ConfNext]_confVars PROVE ConfInv'
  OBVIOUS
<1>1. CASE UNCHANGED confVars
  <2>1. /\ UNCHANGED <<file, lock, observed, run, mainpc, toQueue, reportFile, exitCode, stranded, wbase, workDir>>
        /\ UNCHANGED <<published, finalOk, jobVars>>
    BY <1>1 DEF confVars, statusVars, uploadVars, mainVars, confWorkerVars
  <2>2. UNCHANGED <<items, results, wstate, witem, wresult>>
    BY <2>1 DEF jobVars, queueVars, workerVars
  <2>3. IInv'
    BY <2>1, QueueStutters DEF ConfInv
  <2>. QED  BY <2>1, <2>2, <2>3 DEF ConfInv, StatusTypeOK, WorkersInv, HasResult, BuildBase, MainInv,
              HistoryTellsOutcome, NeverClaimsUnobservedSuccess, FailuresKeepEvidence, TestingIsInProgress,
              Unresolved, RecordedElsewhere, IntendedKey, IntendedBase, PlanInv, Joined, ExitOkMeansPublished
<1>2. CASE StartRun
  BY <1>2, ConfStartRunKeeps
<1>3. CASE ConfMain
  BY <1>3, ResolveKeeps, QueueKeeps, RunParallelKeeps, EndOfBuildKeeps, ExitRunKeeps DEF ConfMain
<1>4. ASSUME NEW w \in Workers, ConfWorker(w) PROVE ConfInv'
  BY <1>4, ConfTakeKeeps, ConfStartKeeps, BuildOneKeeps, ConfRaisesKeeps, ConfRecordKeeps, ConfOnResultKeeps,
     ConfOnResultRaisesKeeps DEF ConfWorker
<1>5. CASE OnChange
  BY <1>5, OnChangeKeeps
<1>6. CASE Kill
  BY <1>6, ConfKillKeeps
<1>. QED  BY <1>1, <1>2, <1>3, <1>4, <1>5, <1>6 DEF ConfNext

\* The badges of build-status.json, over any number of runs, kills and workers
\* and whatever base a manifest pins: a final state is the one its history ends
\* with, success is claimed only of what was last recorded as a success that was
\* seen, nothing has been recorded under a badge that says "testing", and a
\* failure keeps its folder.
THEOREM BadgeAlwaysHonest == ConfSpec => []BadgeIsHonest
<1>1. ConfInv => BadgeIsHonest
  BY DEF ConfInv, BadgeIsHonest
<1>. QED  BY <1>1, ConfInitHolds, ConfStep, PTL DEF ConfSpec

\* Exit code 0 of a run: every entry was built clean, or every worker died while
\* recording and the entry is missing from the report; and every destination
\* holds the very file the run ended with, whichever uploads failed on the way.
THEOREM ExitOkIsPublished == ConfSpec => []ExitOkMeansPublished
<1>1. ConfInv => ExitOkMeansPublished
  BY DEF ConfInv
<1>. QED  BY <1>1, ConfInitHolds, ConfStep, PTL DEF ConfSpec

\* What the queue of job_queue.py promises holds under this caller too.
THEOREM ConfQueueSound == ConfSpec => []QueueIsSound
<1>1. ConfInv => QueueIsSound
  BY DEF ConfInv, IInv
<1>. QED  BY <1>1, ConfInitHolds, ConfStep, PTL DEF ConfSpec

\* FanOutUploader: one pass reaches a production destination only with the
\* file that every local destination just took and served back intact.
LEMMA PassIsRehearsed ==
  ASSUME MaybeUpload, NEW d \in Production, published'[d] # published[d]
  PROVE  rehearsal' /\ \A l \in Local : published'[l] = published'[d]
<1>1. PICK localOk \in SUBSET Local, prodOk \in SUBSET Production, verified \in BOOLEAN :
        RunOnce(localOk, verified, prodOk)
  BY DEF MaybeUpload
<1>2. d \in Destinations /\ d \notin Local /\ Local \subseteq Destinations
  BY DestinationsAssumption DEF Destinations
<1>3. MayReachProduction(localOk, verified) /\ published'[d] = file
  BY <1>1, <1>2 DEF RunOnce
<1>. QED  BY <1>1, <1>2, <1>3 DEF RunOnce, MayReachProduction

\* docs and status_uploader.py: production is touched only after the rehearsal
\* of the same pass, on every step of every run.
THEOREM ProductionAlwaysRehearsed == ConfSpec => ProductionWasRehearsed
<1>1. ASSUME [ConfNext]_confVars, NEW d \in Production, published'[d] # published[d]
      PROVE  rehearsal' /\ \A l \in Local : published'[l] = published'[d]
  <2>1. MaybeUpload \/ UNCHANGED published
    <3>1. CASE UNCHANGED confVars \/ StartRun \/ ConfMain \/ OnChange \/ Kill
      BY <3>1 DEF confVars, uploadVars, StartRun, ConfMain, ResolveInterrupted, Queue, RunParallel, EndOfBuild,
         FinalUpload, ExitRun, ProcessGone, OnChange, Kill
    <3>2. ASSUME NEW w \in Workers, ConfWorker(w) PROVE UNCHANGED published
      BY <3>2 DEF uploadVars, ConfWorker, ConfTake, ConfTakeNone, ConfStart, BuildOne, ConfRaises,
         ConfRecordResult, ConfOnResult, ConfOnResultRaises
    <3>. QED  BY <1>1, <3>1, <3>2 DEF ConfNext
  <2>. QED  BY <1>1, <2>1, PassIsRehearsed
<1>2. [ConfNext]_confVars =>
        [\A d \in Production : published'[d] # published[d] =>
           rehearsal' /\ \A l \in Local : published'[l] = published'[d]]_confVars
  BY <1>1
<1>. QED  BY <1>2, PTL DEF ConfSpec, ProductionWasRehearsed
=============================================================================
