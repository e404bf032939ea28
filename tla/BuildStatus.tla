---------------------------- MODULE BuildStatus ----------------------------
(***************************************************************************)
(* "catalog_conformance build": tools/catalog_conformance.py run_build and   *)
(* _run over tools/job_queue.py, with the live build-status.json of          *)
(* tools/build_status.py and its publication by tools/status_uploader.py.    *)
(*                                                                           *)
(* A target is an attempt at one entry on one base (or on the base of the    *)
(* entry's own manifest). Dates are run numbers. Every final status other    *)
(* than success and skipped is "failed". The run keeps one folder per entry  *)
(* (not --shared-workdir) and uses the job queue for any number of workers.  *)
(***************************************************************************)
EXTENDS JobQueue, SequencesExt

CONSTANTS
  Entries,        \* catalogue entries
  Bases,          \* the bases an entry can be built against
  OwnBase,        \* the base each entry's manifest pins
  DefaultBase,    \* catalog.defaults.base
  CoverBases,     \* config.cover_bases, {} when not set
  Local,          \* upload destinations of protocol "local" (the rehearsal)
  Production,     \* the other upload destinations
  HISTORY_LIMIT,
  MaxRuns,        \* bound: runs of the tool; one more begins and resolves what they left
  MaxUploadFaults \* bound: upload_file or verify_published calls that fail

\* One _EntryRef per entry and covered base; no base when none is covered.
NoBase == "no base"
Plan == {[entry |-> e, base |-> b] :
           e \in Entries, b \in (IF CoverBases = {} THEN {NoBase} ELSE CoverBases)}

ASSUME PlanAssumption == Targets = Plan
ASSUME StatusOutcomes == Outcomes = {"success", "failed", "skipped"}

Main == "main"
NoWorker == "no worker"
Destinations == Local \cup Production

ASSUME ThreadsAssumption == NoWorker \notin Workers
ASSUME BasesAssumption == /\ DefaultBase \in Bases /\ CoverBases \subseteq Bases
                          /\ OwnBase \in [Entries -> Bases] /\ NoBase \notin Bases
ASSUME HistoryAssumption == HISTORY_LIMIT \in Nat \ {0}
ASSUME DestinationsAssumption == Local \cap Production = {}

VARIABLES
  file,        \* build-status.json: (entry, base) -> record
  published,   \* what each destination holds
  rehearsal,   \* did the last rehearsal publish everywhere and come back intact
  faults,      \* upload faults so far
  run,         \* number of the run in progress or of the last one
  mainpc,      \* where run_build is
  toQueue,     \* refs still to be marked queued
  lock,        \* who is inside StatusUpdater._apply, uploading
  started,     \* workers whose status_updater.start was made
  wbase,       \* result["base"] of each worker's result
  workDir,     \* what is left in workdir/work/<ref>
  reportFile,  \* build-report.json: the last complete run's statuses
  finalOk,     \* were all outcomes of the last maybe_upload ok
  exitCode,    \* exit code of the last run
  stranded,    \* history: every worker of the last complete run died while recording
  observed     \* history: last outcome that could be recorded for (entry, base)

statusVars == <<file, lock, observed>>
uploadVars == <<published, rehearsal, faults, finalOk>>
mainVars == <<run, mainpc, toQueue, reportFile, exitCode, stranded>>
confWorkerVars == <<started, wbase, workDir>>
confVars == <<jobVars, statusVars, uploadVars, mainVars, confWorkerVars>>

Keys == Entries \X Bases
NoRecord == [state |-> "never tested", since |-> 0, history |-> <<>>]
EmptyFile == [k \in Keys |-> NoRecord]

LastState(history) == IF history = <<>> THEN "none" ELSE Last(history).state
Bounded(history) == IF Len(history) > HISTORY_LIMIT THEN Tail(history) ELSE history

-----------------------------------------------------------------------------
\* build_status.py: a record moved to a live state keeps since and history.
Live(record, state) ==
  [record EXCEPT !.state = state, !.since = IF record.since = 0 THEN run ELSE record.since]
MarkQueued(f, k) == [f EXCEPT ![k] = Live(f[k], "queued")]
MarkTesting(f, k) == [f EXCEPT ![k] = Live(f[k], "testing")]

MapState(status) == IF status \in {"success", "skipped"} THEN status ELSE "failed"

ApplyResult(f, k, status) ==
  LET new == MapState(status)
      since == IF LastState(f[k].history) = new THEN f[k].since ELSE run
  IN [f EXCEPT ![k] =
        [state |-> new, since |-> since,
         history |-> Bounded(Append(f[k].history, [date |-> run, state |-> new]))]]
ResultChanges(f, k, status) == LastState(f[k].history) # MapState(status)

\* Mutant: an interrupted test falls back to the last outcome recorded.
ResolveToLastOutcome(f) ==
  [k \in Keys |->
     IF f[k].state = "testing" /\ f[k].history # <<>> THEN [f[k] EXCEPT !.state = LastState(f[k].history)]
     ELSE f[k]]
ResolveStuckTesting(f) ==
  [k \in Keys |->
     IF f[k].state # "testing" THEN f[k]
     ELSE [state |-> "failed", since |-> run,
           history |-> Bounded(Append(f[k].history, [date |-> run, state |-> "failed"]))]]

\* The base under which a ref is queued and started, and recorded when the
\* result carries none.
IntendedBase(t) == IF t.base = NoBase THEN DefaultBase ELSE t.base
IntendedKey(t) == <<t.entry, IntendedBase(t)>>
RecordKey(w) == IF wbase[w] = NoBase THEN IntendedKey(witem[w]) ELSE <<witem[w].entry, wbase[w]>>

-----------------------------------------------------------------------------
\* StatusUpdater._apply: write, and keep the lock for on_change if something
\* changed and a destination is configured.
Apply(who, f, changed) ==
  /\ lock = NoWorker
  /\ file' = f
  /\ lock' = IF changed /\ Destinations # {} THEN who ELSE NoWorker

\* FanOutUploader._run_once with some calls failing: all local destinations
\* are tried, the served copy is fetched back and compared, and only then is
\* any other destination touched.
\* Mutant: production is tried whatever became of the rehearsal.
MayReachProductionAnyway(localOk, verified) == TRUE
MayReachProduction(localOk, verified) == localOk = Local /\ verified

RunOnce(localOk, verified, prodOk) ==
  LET prodTried == IF MayReachProduction(localOk, verified) THEN Production ELSE {}
      done == localOk \cup (prodOk \cap prodTried)
  IN \* Only what every local destination took is fetched back.
     /\ ~verified => localOk = Local /\ Local # {}
     /\ localOk # Local \/ ~verified \/ prodOk # Production => faults < MaxUploadFaults
     /\ faults' = IF localOk # Local \/ ~verified \/ prodOk # Production THEN faults + 1 ELSE faults
     /\ published' = [d \in Destinations |-> IF d \in done THEN file ELSE published[d]]
     /\ rehearsal' = (localOk = Local /\ verified)
     /\ finalOk' = (done = Destinations /\ verified)

MaybeUpload ==
  \E localOk \in SUBSET Local, prodOk \in SUBSET Production, verified \in BOOLEAN :
    RunOnce(localOk, verified, prodOk)

OnChange ==
  /\ lock # NoWorker
  /\ MaybeUpload
  /\ lock' = NoWorker
  /\ UNCHANGED <<jobVars, file, observed, mainVars, confWorkerVars>>

-----------------------------------------------------------------------------
\* run_build up to resolve_interrupted: the folders of the plan are wiped.
StartRun ==
  /\ mainpc = "idle"
  /\ run <= MaxRuns
  /\ run' = run + 1
  /\ mainpc' = "resolve"
  /\ exitCode' = "none"
  /\ stranded' = FALSE
  /\ workDir' = [t \in Targets |-> "none"]
  /\ UNCHANGED <<jobVars, statusVars, uploadVars, toQueue, reportFile, started, wbase>>

ResolveInterrupted ==
  /\ mainpc = "resolve"
  /\ Apply(Main, ResolveStuckTesting(file), file # ResolveStuckTesting(file))
  /\ mainpc' = "queue"
  /\ toQueue' = SetToSeq(Plan)
  /\ UNCHANGED <<jobVars, uploadVars, run, reportFile, exitCode, stranded, confWorkerVars, observed>>

Queue ==
  LET k == IntendedKey(Head(toQueue)) IN
  /\ mainpc = "queue"
  /\ run <= MaxRuns
  /\ toQueue # <<>>
  /\ Apply(Main, MarkQueued(file, k), file[k].state # "queued")
  /\ toQueue' = Tail(toQueue)
  /\ UNCHANGED <<jobVars, uploadVars, run, mainpc, reportFile, exitCode, stranded, confWorkerVars, observed>>

RunParallel ==
  /\ mainpc = "queue"
  /\ toQueue = <<>>
  /\ lock = NoWorker
  /\ \E jobs \in Jobs : Start(SetToSeq(Plan), jobs)
  /\ mainpc' = "work"
  /\ started' = {}
  /\ wbase' = [w \in Workers |-> NoBase]
  /\ UNCHANGED <<statusVars, uploadVars, run, toQueue, reportFile, exitCode, stranded, workDir>>

Free(w) == mainpc = "work" /\ lock # w

ConfTake(w) == Free(w) /\ Take(w) /\ UNCHANGED <<statusVars, uploadVars, mainVars, confWorkerVars>>
ConfTakeNone(w) == Free(w) /\ TakeNone(w) /\ UNCHANGED <<statusVars, uploadVars, mainVars, confWorkerVars>>

\* build_one_for_worker: the build is announced, then made.
ConfStart(w) ==
  LET k == IntendedKey(witem[w]) IN
  /\ Free(w)
  /\ wstate[w] = "building"
  /\ w \notin started
  /\ Apply(w, MarkTesting(file, k), file[k].state # "testing")
  /\ started' = started \cup {w}
  /\ UNCHANGED <<jobVars, uploadVars, mainVars, observed, wbase, workDir>>

\* cleanup_one frees the bundle and the ISO of a success; a failure keeps the
\* unpacked bundle, if it got that far.
Leftover(outcome, known) ==
  IF ~known THEN "none" ELSE IF outcome = "success" THEN "cleaned" ELSE "full"

\* build_one: skipped or failed before the manifest is read (the result has
\* no base), failed later, or succeeded.
BuildOne(w, outcome, known) ==
  LET t == witem[w]
      base == IF t.base = NoBase THEN OwnBase[t.entry] ELSE t.base
  IN /\ Free(w)
     /\ w \in started
     /\ outcome = "skipped" => ~known
     /\ outcome = "success" => known
     /\ BuildReturns(w, outcome)
     /\ wbase' = [wbase EXCEPT ![w] = IF known THEN base ELSE NoBase]
     /\ workDir' = [workDir EXCEPT ![t] = Leftover(outcome, known)]
     /\ UNCHANGED <<statusVars, uploadVars, mainVars, started>>

\* The worker's storage root, or the status file, could not be written.
ConfRaises(w) ==
  /\ Free(w)
  /\ BuildRaises(w)
  /\ started' = started \ {w}
  /\ wbase' = [wbase EXCEPT ![w] = NoBase]
  /\ UNCHANGED <<statusVars, uploadVars, mainVars, workDir>>

ConfRecordResult(w) == Free(w) /\ RecordResult(w) /\ UNCHANGED <<statusVars, uploadVars, mainVars, confWorkerVars>>

\* on_result: status_updater.record.
ConfOnResult(w) ==
  LET k == RecordKey(w) IN
  /\ Free(w)
  /\ PublishReturns(w)
  /\ Apply(w, ApplyResult(file, k, wresult[w]), ResultChanges(file, k, wresult[w]))
  /\ observed' = [observed EXCEPT ![k] = MapState(wresult[w])]
  /\ started' = started \ {w}
  /\ UNCHANGED <<uploadVars, mainVars, wbase, workDir>>

\* load_status or write_status_atomic raised: the file keeps what it held, and
\* the exception leaves record, on_result and with them the worker.
ConfOnResultRaises(w) ==
  /\ Free(w)
  /\ lock = NoWorker
  /\ PublishRaises(w)
  /\ UNCHANGED <<statusVars, uploadVars, mainVars, confWorkerVars>>

-----------------------------------------------------------------------------
\* The rest of run_build and _run: the unconditional upload at the end, then
\* the report and the exit code.
\* Mutant: no upload at the end, the last change was uploaded already.
FinalUploadSkipped == UNCHANGED uploadVars
FinalUpload ==
  \/ Destinations = {} /\ UNCHANGED uploadVars
  \/ Destinations # {} /\ MaybeUpload

EndOfBuild ==
  /\ mainpc = "work"
  /\ Joined
  /\ lock = NoWorker
  /\ FinalUpload
  /\ mainpc' = "exit"
  /\ UNCHANGED <<jobVars, statusVars, run, toQueue, reportFile, exitCode, stranded, confWorkerVars>>

\* report["targets"] has only the entries that have a result.
ExitCode ==
  LET reported == {t \in Plan : results[t] # NoResult} IN
  IF \E t \in reported : MapState(results[t]) = "failed" THEN "entries_failed"
  ELSE IF Destinations # {} /\ ~finalOk THEN "publish_failed"
  ELSE IF \E t \in reported : results[t] = "skipped" THEN "entries_skipped"
  ELSE "ok"

\* The process is gone and with it everything it kept in memory.
ProcessGone ==
  /\ mainpc' = "idle"
  /\ Start(<<>>, Workers)
  /\ lock' = NoWorker
  /\ toQueue' = <<>>
  /\ started' = {}
  /\ wbase' = [w \in Workers |-> NoBase]
  /\ UNCHANGED <<file, uploadVars, run, workDir>>

ExitRun ==
  /\ mainpc = "exit"
  /\ reportFile' = results
  /\ exitCode' = ExitCode
  /\ stranded' = NobodyDrained
  /\ ProcessGone
  /\ UNCHANGED observed

\* A kill, or an update of the main thread that raises: it ends run_build.
Kill ==
  /\ mainpc # "idle"
  /\ exitCode' = "killed"
  /\ observed' = [k \in Keys |-> IF file[k].state = "testing" THEN "interrupted" ELSE observed[k]]
  /\ ProcessGone
  /\ UNCHANGED <<reportFile, stranded>>

-----------------------------------------------------------------------------
ConfInit ==
  /\ items = {} /\ pending = <<>> /\ inFlight = 0
  /\ attempts = [t \in Targets |-> 0]
  /\ results = [t \in Targets |-> NoResult]
  /\ wstate = [w \in Workers |-> "take"]
  /\ witem = [w \in Workers |-> NoTarget]
  /\ wresult = [w \in Workers |-> NoResult]
  /\ file = EmptyFile /\ lock = NoWorker
  /\ observed = [k \in Keys |-> "none"]
  /\ published = [d \in Destinations |-> EmptyFile]
  /\ rehearsal = TRUE /\ faults = 0 /\ finalOk = TRUE
  /\ run = 0 /\ mainpc = "idle" /\ toQueue = <<>>
  /\ reportFile = [t \in Targets |-> NoResult] /\ exitCode = "none" /\ stranded = FALSE
  /\ started = {} /\ wbase = [w \in Workers |-> NoBase]
  /\ workDir = [t \in Targets |-> "none"]

ConfWorker(w) ==
  \/ ConfTake(w) \/ ConfTakeNone(w) \/ ConfStart(w)
  \/ \E outcome \in Outcomes, known \in BOOLEAN : BuildOne(w, outcome, known)
  \/ ConfRaises(w) \/ ConfRecordResult(w) \/ ConfOnResult(w) \/ ConfOnResultRaises(w)

ConfMain == ResolveInterrupted \/ Queue \/ RunParallel \/ EndOfBuild \/ ExitRun

ConfNext ==
  \/ StartRun
  \/ ConfMain
  \/ \E w \in Workers : ConfWorker(w)
  \/ OnChange
  \/ Kill

ConfSpec == ConfInit /\ [][ConfNext]_confVars

-----------------------------------------------------------------------------
\* A record in a final state ends its own history with that state, and the
\* history is bounded; so the badge and the chart never disagree.
HistoryTellsOutcome ==
  \A k \in Keys :
    /\ Len(file[k].history) <= HISTORY_LIMIT
    /\ file[k].state \in {"success", "failed", "skipped"} => LastState(file[k].history) = file[k].state

\* "a public badge must never claim an outcome nobody actually observed": it
\* says success only if the last outcome that reached the file was a success
\* somebody saw, whatever was killed, retried, lost or resolved since.
NeverClaimsUnobservedSuccess ==
  \A k \in Keys : file[k].state = "success" => observed[k] = "success"

\* Queued and started under the default base, recorded under the one its own
\* manifest pins.
RecordedElsewhere(t) == t.base = NoBase /\ OwnBase[t.entry] # DefaultBase

\* Nothing has been recorded yet under the key a target was started with: its
\* build goes on, its worker is about to record it or died doing so, or the
\* outcome belongs to another key.
Unresolved(t) ==
  \/ results[t] = NoResult
  \/ \E w \in Workers : wstate[w] \in {"publish", "dead"} /\ witem[w] = t
  \/ RecordedElsewhere(t)

\* Once the run has resolved what it found, "testing" is a build of this run
\* of which nothing has been recorded under that badge.
TestingIsInProgress ==
  mainpc \in {"queue", "work", "exit"} =>
    \A k \in Keys : file[k].state = "testing" => \E t \in Plan : IntendedKey(t) = k /\ Unresolved(t)

\* A failed entry keeps its folder until the next run plans it again.
FailuresKeepEvidence ==
  \A w \in Workers :
    wstate[w] \in {"record", "publish"} /\ wresult[w] = "failed" /\ wbase[w] # NoBase
      => workDir[witem[w]] = "full"

\* What a badge says is what happened, and is about now; a failure can be
\* looked into.
BadgeIsHonest ==
  HistoryTellsOutcome /\ NeverClaimsUnobservedSuccess /\ TestingIsInProgress /\ FailuresKeepEvidence

\* A customer's site gets a file only in a pass in which every rehearsal copy
\* took that very file and was verified to serve it.
ProductionWasRehearsed ==
  [][\A d \in Production : published'[d] # published[d] =>
       rehearsal' /\ \A l \in Local : published'[l] = published'[d]]_confVars

\* Exit 0: every destination holds the very file the run ended with, and every
\* entry of the plan built clean. The exit code looks at reported entries only,
\* and one worker that sees the queue drained is enough for all to be reported;
\* if every worker died while recording, an entry may be missing altogether.
ExitOkMeansPublished ==
  exitCode = "ok" => /\ \A t \in Plan : \/ reportFile[t] = "success"
                                        \/ stranded /\ reportFile[t] = NoResult
                     /\ \A d \in Destinations : published[d] = file
=============================================================================
