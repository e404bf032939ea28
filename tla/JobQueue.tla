------------------------------ MODULE JobQueue ------------------------------
(***************************************************************************)
(* tools/job_queue.py: LocalJobQueue, the worker loop and run_parallel.    *)
(*                                                                         *)
(* The two callers, tools/build_matrix.py (BuildMatrix) and                *)
(* tools/catalog_conformance.py (BuildStatus), extend this module: they    *)
(* say what build_one does, when it raises, and what on_result publishes.  *)
(* Here the result of an attempt is any member of Outcomes, an attempt may *)
(* raise, and on_result is one step that may raise too.                    *)
(***************************************************************************)
EXTENDS Naturals, Sequences, FiniteSets

CONSTANTS
  Targets,                   \* the ids of what can be built
  Workers,                   \* the worker threads a run_parallel call may start
  Outcomes,                  \* the results an ordinary attempt returns
  NoTarget,                  \* what a worker without an item holds
  MAX_ATTEMPTS_PER_TARGET    \* job_queue.MAX_ATTEMPTS_PER_TARGET

ASSUME WorkersAssumption == IsFiniteSet(Workers) /\ Workers # {}
ASSUME AttemptsAssumption == MAX_ATTEMPTS_PER_TARGET \in Nat \ {0}

Crash == "error"             \* the result _worker writes for the second raise
NoResult == "none"           \* self._results has no entry for the target

ASSUME OutcomesAssumption == {Crash, NoResult} \cap Outcomes = {}
ASSUME TargetsAssumption == IsFiniteSet(Targets) /\ NoTarget \notin Targets

VARIABLES
  items,      \* the targets run_parallel was called with
  pending,    \* LocalJobQueue._pending
  inFlight,   \* LocalJobQueue._in_flight
  attempts,   \* LocalJobQueue._attempts
  results,    \* LocalJobQueue._results
  wstate,     \* where each worker thread is in _worker
  witem,      \* the item each worker holds
  wresult     \* the result each worker is about to record or publish

queueVars == <<items, pending, inFlight, attempts, results>>
workerVars == <<wstate, witem, wresult>>
jobVars == <<queueVars, workerVars>>

Results == Outcomes \cup {Crash}

\* Threads that called take and have not yet called record_result or requeue.
Holding == {"building", "record"}
WorkerStates == {"idle", "take", "publish", "done", "dead"} \cup Holding

\* --jobs: a call starts at least one thread; the others stay idle.
Jobs == SUBSET Workers \ {{}}

Threads(jobs) == [w \in Workers |-> IF w \in jobs THEN "take" ELSE "idle"]

Distinct(s) == \A i, j \in DOMAIN s : s[i] = s[j] => i = j
Elements(s) == {s[i] : i \in DOMAIN s}

-----------------------------------------------------------------------------
\* LocalJobQueue.__init__ and the threads run_parallel starts.
Start(queue, jobs) ==
  /\ items' = Elements(queue)
  /\ pending' = queue
  /\ inFlight' = 0
  /\ attempts' = [t \in Targets |-> 0]
  /\ results' = [t \in Targets |-> NoResult]
  /\ wstate' = Threads(jobs)
  /\ witem' = [w \in Workers |-> NoTarget]
  /\ wresult' = [w \in Workers |-> NoResult]

\* take returns the head of the queue; mark_running follows at once.
Take(w) ==
  /\ wstate[w] = "take"
  /\ pending # <<>>
  /\ pending' = Tail(pending)
  /\ inFlight' = inFlight + 1
  /\ attempts' = [attempts EXCEPT ![Head(pending)] = @ + 1]
  /\ witem' = [witem EXCEPT ![w] = Head(pending)]
  /\ wstate' = [wstate EXCEPT ![w] = "building"]
  /\ UNCHANGED <<items, results, wresult>>

\* Mutant: a worker does not wait for what the others hold.
DrainedIgnoringInFlight == pending = <<>>

\* take returns None: nothing is pending and nothing is in flight. Until then
\* the worker waits, because what is in flight may be requeued.
Drained == pending = <<>> /\ inFlight = 0

TakeNone(w) ==
  /\ wstate[w] = "take"
  /\ Drained
  /\ wstate' = [wstate EXCEPT ![w] = "done"]
  /\ UNCHANGED <<queueVars, witem, wresult>>

\* build_one returned a result.
BuildReturns(w, outcome) ==
  /\ wstate[w] = "building"
  /\ wresult' = [wresult EXCEPT ![w] = outcome]
  /\ wstate' = [wstate EXCEPT ![w] = "record"]
  /\ UNCHANGED <<queueVars, witem>>

Requeue(w) ==
  /\ pending' = Append(pending, witem[w])
  /\ inFlight' = inFlight - 1
  /\ wstate' = [wstate EXCEPT ![w] = "take"]
  /\ witem' = [witem EXCEPT ![w] = NoTarget]
  /\ UNCHANGED <<items, attempts, results, wresult>>

GivesUp(w) == attempts[witem[w]] >= MAX_ATTEMPTS_PER_TARGET

\* build_one raised: requeued, or turned into a result of its own.
BuildRaises(w) ==
  /\ wstate[w] = "building"
  /\ \/ ~GivesUp(w) /\ Requeue(w)
     \/ /\ GivesUp(w)
        /\ wresult' = [wresult EXCEPT ![w] = Crash]
        /\ wstate' = [wstate EXCEPT ![w] = "record"]
        /\ UNCHANGED <<queueVars, witem>>

RecordResult(w) ==
  /\ wstate[w] = "record"
  /\ results' = [results EXCEPT ![witem[w]] = wresult[w]]
  /\ inFlight' = inFlight - 1
  /\ wstate' = [wstate EXCEPT ![w] = "publish"]
  /\ UNCHANGED <<items, pending, attempts, witem, wresult>>

\* on_result returned; the loop takes the next item.
PublishReturns(w) ==
  /\ wstate[w] = "publish"
  /\ wstate' = [wstate EXCEPT ![w] = "take"]
  /\ witem' = [witem EXCEPT ![w] = NoTarget]
  /\ UNCHANGED <<queueVars, wresult>>

\* on_result is called outside the try: what it raises ends the thread.
PublishRaises(w) ==
  /\ wstate[w] = "publish"
  /\ wstate' = [wstate EXCEPT ![w] = "dead"]
  /\ UNCHANGED <<queueVars, witem, wresult>>

\* Every thread of run_parallel has ended: join returns.
Joined == \A w \in Workers : wstate[w] \in {"idle", "done", "dead"}

\* None of them saw the queue drained: all died in on_result.
NobodyDrained == \A w \in Workers : wstate[w] # "done"

-----------------------------------------------------------------------------
Init ==
  /\ \E queue \in {<<>>} \cup UNION {[1 .. n -> Targets] : n \in 1 .. Cardinality(Targets)} :
       /\ Distinct(queue)
       /\ items = Elements(queue)
       /\ pending = queue
  /\ inFlight = 0
  /\ attempts = [t \in Targets |-> 0]
  /\ results = [t \in Targets |-> NoResult]
  /\ wstate \in {Threads(jobs) : jobs \in Jobs}
  /\ witem = [w \in Workers |-> NoTarget]
  /\ wresult = [w \in Workers |-> NoResult]

WorkerStep(w) ==
  \/ Take(w) \/ TakeNone(w)
  \/ \E outcome \in Outcomes : BuildReturns(w, outcome)
  \/ BuildRaises(w)
  \/ RecordResult(w)
  \/ PublishReturns(w) \/ PublishRaises(w)

Next == \E w \in Workers : WorkerStep(w)

Spec == Init /\ [][Next]_jobVars

-----------------------------------------------------------------------------
\* The parts of the queue and of the threads; an attempt count never exceeds
\* MAX_ATTEMPTS_PER_TARGET.
TypeOK ==
  /\ items \subseteq Targets
  /\ pending \in Seq(Targets)
  /\ inFlight \in Nat
  /\ attempts \in [Targets -> 0 .. MAX_ATTEMPTS_PER_TARGET]
  /\ results \in [Targets -> Results \cup {NoResult}]
  /\ wstate \in [Workers -> WorkerStates]
  /\ witem \in [Workers -> Targets \cup {NoTarget}]
  /\ wresult \in [Workers -> Results \cup {NoResult}]

Holders == {w \in Workers : wstate[w] \in Holding}

\* _in_flight counts exactly the workers that hold an item, on every path of
\* take, requeue and record_result: were it ever too high take would wait for
\* good, were it too low a worker would leave while an item may come back.
InFlightCounted == inFlight = Cardinality(Holders)

\* No target of the run is lost and none is owned twice: each is queued once,
\* or held by one worker, or has its result.
TargetsConserved ==
  /\ Distinct(pending)
  /\ \A t \in items :
       \/ t \in Elements(pending) /\ results[t] = NoResult
       \/ /\ t \notin Elements(pending)
          /\ \/ results[t] # NoResult
             \/ \E w \in Holders : witem[w] = t
  /\ \A v, w \in Holders : witem[v] = witem[w] => v = w
  /\ \A w \in Holders : /\ results[witem[w]] = NoResult
                        /\ witem[w] \notin Elements(pending)

\* A worker leaves its loop only when nothing can come back to the queue: with
\* one worker gone for that reason every target of the run has its result.
\* (take's docstring: None "only once the queue is truly drained".)
LeavesOnlyWhenDrained ==
  (\E w \in Workers : wstate[w] = "done") => \A t \in items : results[t] # NoResult

\* Only a target that raised MAX_ATTEMPTS_PER_TARGET times is recorded as
\* crashed, however its attempts were spread over the workers.
CrashOnlyAfterRetries ==
  \A t \in Targets : results[t] = Crash => attempts[t] = MAX_ATTEMPTS_PER_TARGET

\* What run_parallel promises of the queue its threads share.
QueueIsSound ==
  TypeOK /\ InFlightCounted /\ TargetsConserved /\ LeavesOnlyWhenDrained /\ CrashOnlyAfterRetries
=============================================================================
