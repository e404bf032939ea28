---------------------------- MODULE VoiceTyping -----------------------------
(***************************************************************************)
(* The voice typing service: the main loop that answers D-Bus calls and     *)
(* dispatches idle callbacks (daemon.py), the GStreamer streaming thread    *)
(* that cuts audio into phrases (audio.py), the recognition thread with its *)
(* resident engine and speech detector (session_engine.py, resident.py,     *)
(* vad.py, tuning.py).                                                      *)
(*                                                                          *)
(* Audio is known by the number of its phrase, a detector by the session it *)
(* was prepared for. Stopping a capture waits for the streaming thread's    *)
(* callback, so every handler that stops one is two steps: what it does up  *)
(* to set_state(NULL), and the rest once the callback has returned.         *)
(*                                                                          *)
(* pending is written by both without a lock. CPython switches threads at a *)
(* call, so that += 1 and -= 1 are single steps, while the main loop's      *)
(* max(0, pending - 1) is two: it loads pending, calls, and stores.         *)
(***************************************************************************)
EXTENDS Integers, Sequences, FiniteSets

CONSTANTS
  MaxFinals,     \* RecognitionQueue.max_finals (8)
  MaxSessions,   \* bound: highest session_id
  MaxPhrases,    \* bound: phrases spoken
  MaxPartials,   \* bound: previews asked for
  MaxFaults      \* bound: failures of microphone, detector, engine; missing models

ASSUME VoiceBounds ==
  {MaxFinals, MaxSessions, MaxPhrases, MaxPartials, MaxFaults} \subseteq Nat

VARIABLES
  svc,      \* the attributes of VoiceTypingService that the main loop owns
  mainpc,   \* "ready", or the handler that waits for the streaming thread
  idle,     \* GLib idle callbacks in the order they were added
  queue,    \* RecognitionQueue: finals, partial, quit
  worker,   \* the recognition thread: its step, its job, current_cancel
  vads,     \* the detector process of each session
  cap,      \* the streaming thread and the phrase it collects
  reading,  \* the pending that a result's handler has loaded and not stored yet
  raced,    \* history: in this session pending changed between a load and its store
  hist      \* history: Transcripts shown, phrases accepted and ended, faults

vars == <<svc, mainpc, idle, queue, worker, vads, cap, reading, raced, hist>>

Sessions == 1 .. MaxSessions + 1
Job(kind, s, g, p) == [kind |-> kind, session |-> s, gen |-> g, phrase |-> p]
NoJob == Job("none", 0, 0, 0)
NoRead == -1
Callback(fn, s, arg) == [fn |-> fn, session |-> s, arg |-> arg]
CanFail == hist.faults < MaxFaults
Failed(h) == [h EXCEPT !.faults = @ + 1]

-----------------------------------------------------------------------------
(* What handlers share *)

\* RecognitionQueue.put: a phrase is refused when the queue is full and drops
\* the preview; a preview is refused while phrases wait, and replaces another.
HasRoom(q) == Len(q.finals) < MaxFinals
PutFinal(q, job) == [q EXCEPT !.finals = Append(@, job), !.partial = NoJob]
PutPartial(q, job) == IF q.finals = <<>> THEN [q EXCEPT !.partial = job] ELSE q

\* _invalidate_partials: a new floor, the running preview cancelled, the queued
\* one dropped. The generations of previews alone are counted: the number that an
\* invalidation takes for itself is never compared with.
Invalidated(s) == [s EXCEPT !.floor = s.generation]
InvalidateRunning(w) == [w EXCEPT !.cancel = IF @ # "none" /\ w.job.kind = "partial" THEN "set" ELSE @]
NoPreview(q) == [q EXCEPT !.partial = NoJob]
\* _cancel_work: cancel the running job, clear the queue, close the detector
\* that no capture has taken over yet.
CancelRunning(w) == [w EXCEPT !.cancel = IF @ # "none" THEN "set" ELSE @]
Cleared(q) == [q EXCEPT !.finals = <<>>, !.partial = NoJob]
Closed(v, s) == [t \in Sessions |-> IF t = s /\ v[t] = "open" THEN "closed" ELSE v[t]]
CancelWork(s) == /\ worker' = CancelRunning(worker)
                 /\ queue' = Cleared(queue)
                 /\ vads' = Closed(vads, s.prepared)
\* What stop, stop_test, start_test and _capture_failed do to a session: its
\* number is retired, its work cancelled, its count forgotten.
Ended(s) == [Invalidated(s) EXCEPT !.session = @ + 1, !.pending = 0, !.prepared = 0,
                                   !.restore = FALSE]
EndSession == CancelWork(svc) /\ hist' = [hist EXCEPT !.refused = FALSE, !.ended = cap.phrase]

\* capture.stop: no sample arrives any more; then, with the streaming thread out
\* of its callback, the detector is closed and the phrase forgotten.
Joined == cap.pc \in {"off", "idle", "failed"}
NoCapture == [cap EXCEPT !.pc = "off", !.speaking = FALSE]

-----------------------------------------------------------------------------
(* D-Bus methods and the handlers they share, on the main loop *)

Ready == mainpc = "ready" /\ ~svc.stopped
MayEnd == svc.session + 1 < MaxSessions

\* stop, up to the join.
StopBegin(next) ==
  /\ svc' = [Ended(svc) EXCEPT !.active = FALSE, !.testing = FALSE, !.mic = 0]
  /\ EndSession
  /\ mainpc' = next
  /\ UNCHANGED <<cap>>

\* stop and stop_test, from the join on.
StopEnd ==
  /\ mainpc = "stop" /\ Joined
  /\ svc' = [svc EXCEPT !.capture = 0, !.state = "idle"]
  /\ vads' = Closed(vads, svc.capture)
  /\ cap' = NoCapture
  /\ mainpc' = "ready"
  /\ UNCHANGED <<idle, queue, worker, hist>>

Stop == Ready /\ MayEnd /\ (svc.active \/ svc.testing \/ svc.pending # 0)
          /\ StopBegin("stop") /\ UNCHANGED idle

StopTest == Ready /\ MayEnd /\ svc.testing /\ ~svc.active
              /\ StopBegin("stop") /\ UNCHANGED idle

\* start, once no test runs: cancel what is left of the previous session, then
\* refuse, or open a session whose first job prepares the recognition.
StartBody(s, installed) ==
  LET fresh == [Ended(s) EXCEPT !.active = TRUE, !.message = FALSE, !.capture = 0,
                                !.state = "preparing"]
  IN /\ worker' = CancelRunning(worker)
     /\ vads' = Closed(vads, s.prepared)
     /\ installed \/ CanFail
     /\ IF installed
        THEN /\ svc' = fresh
             /\ queue' = PutFinal(Cleared(queue), Job("prepare", fresh.session, 0, 0))
             /\ hist' = [hist EXCEPT !.refused = FALSE, !.ended = cap.phrase]
        ELSE /\ svc' = [s EXCEPT !.message = FALSE, !.prepared = 0, !.state = "error"]
             /\ queue' = Cleared(queue)
             /\ hist' = [Failed(hist) EXCEPT !.refused = svc.pending # 0 \/ @]

Start ==
  /\ Ready /\ MayEnd /\ ~svc.active
  /\ IF svc.testing
     THEN StopBegin("start") /\ UNCHANGED idle
     ELSE /\ \E installed \in BOOLEAN : StartBody(svc, installed)
          /\ UNCHANGED <<mainpc, idle, cap>>

StartAfterTest ==
  /\ mainpc = "start" /\ Joined
  /\ \E installed \in BOOLEAN : StartBody([svc EXCEPT !.capture = 0], installed)
  /\ cap' = NoCapture
  /\ mainpc' = "ready"
  /\ UNCHANGED <<idle>>

\* finish: during preparation it cancels; otherwise the phrase being spoken is
\* flushed before active is cleared.
Finish ==
  /\ Ready /\ svc.active
  /\ IF svc.capture = 0
     THEN MayEnd /\ StopBegin("stop") /\ UNCHANGED idle
     ELSE /\ svc' = [svc EXCEPT !.capture = 0, !.mic = 0]
          /\ mainpc' = "finish"
          /\ UNCHANGED <<idle, queue, worker, vads, cap, hist>>

Flushes == cap.speaking
FlushedQueue == IF Flushes /\ HasRoom(queue)
                THEN PutFinal(queue, Job("final", svc.session, 0, cap.phrase))
                ELSE queue
FinishEnd ==
  /\ mainpc = "finish" /\ Joined
  /\ LET accepted == Flushes /\ HasRoom(queue)
         count == svc.pending + (IF accepted THEN 1 ELSE 0)
     IN /\ svc' = [Invalidated(svc) EXCEPT
                     !.pending = count, !.active = FALSE,
                     !.state = IF count # 0 THEN "finishing" ELSE "idle"]
        /\ idle' = IF ~Flushes THEN idle
                   ELSE Append(idle, Callback(IF accepted THEN "recognizing" ELSE "overloaded",
                                              svc.session, 0))
  /\ queue' = NoPreview(FlushedQueue)
  /\ worker' = InvalidateRunning(worker)
  /\ vads' = Closed(vads, svc.session)
  /\ cap' = NoCapture
  /\ mainpc' = "ready"
  /\ hist' = [hist EXCEPT !.accepted = IF Flushes THEN cap.phrase ELSE @]

\* start_test: its capture needs no detector; when it cannot be opened the
\* exception leaves testing set and the state at error.
StartTestBody(opens) ==
  /\ opens \/ CanFail
  /\ LET s == Ended(svc)
     IN svc' = [s EXCEPT !.testing = TRUE, !.capture = s.session,
                         !.mic = IF opens THEN s.session ELSE 0,
                         !.state = IF opens THEN "testing" ELSE "error"]
  /\ worker' = CancelRunning(worker)
  /\ queue' = Cleared(queue)
  /\ hist' = [(IF opens THEN hist ELSE Failed(hist)) EXCEPT !.refused = FALSE, !.ended = cap.phrase]
  /\ cap' = [NoCapture EXCEPT !.pc = IF opens THEN "idle" ELSE "off"]
  /\ mainpc' = "ready"
  /\ UNCHANGED <<idle>>

StartTest ==
  /\ Ready /\ MayEnd /\ ~svc.testing
  /\ IF svc.active
     THEN StopBegin("startTest") /\ UNCHANGED idle
     ELSE vads' = Closed(vads, svc.prepared) /\ \E opens \in BOOLEAN : StartTestBody(opens)

StartTestAfterStop ==
  /\ mainpc = "startTest" /\ Joined
  /\ vads' = Closed(vads, svc.capture)
  /\ \E opens \in BOOLEAN : StartTestBody(opens)

\* _quit: once; it ends the session, asks the worker to leave and waits for it.
QuitBegin ==
  /\ ~svc.shutting
  /\ svc' = [Ended(svc) EXCEPT !.active = FALSE, !.testing = FALSE, !.mic = 0, !.shutting = TRUE]
  /\ EndSession
  /\ mainpc' = "quit"
  /\ UNCHANGED <<cap>>
QuitPut ==
  /\ mainpc = "quit" /\ Joined
  /\ svc' = [svc EXCEPT !.capture = 0, !.state = "idle"]
  /\ vads' = Closed(vads, svc.capture)
  /\ cap' = NoCapture
  /\ queue' = [queue EXCEPT !.quit = TRUE]
  /\ mainpc' = "joinWorker"
  /\ UNCHANGED <<idle, worker, hist>>
QuitEnd ==
  /\ mainpc = "joinWorker"
  /\ worker.pc = "exited" \/ (CanFail /\ worker.pc # "get")   \* or join times out
  /\ svc' = [svc EXCEPT !.stopped = TRUE]
  /\ mainpc' = "ready"
  /\ UNCHANGED <<idle, queue, worker, vads, cap, hist>>

\* Quit, a lost bus name, a vanished Shell, or the idle check.
Quit == Ready /\ QuitBegin /\ UNCHANGED idle

-----------------------------------------------------------------------------
(* Idle callbacks: each looks at the session it was added for *)

Dispatch(fn) == Ready /\ idle # <<>> /\ Head(idle).fn = fn /\ idle' = Tail(idle)
Current == Head(idle).session = svc.session
Drop == UNCHANGED <<svc, mainpc, queue, worker, vads, cap, hist>>

PreparationState ==
  /\ Dispatch("preparation")
  /\ IF Current /\ svc.active /\ svc.capture = 0
     THEN svc' = [svc EXCEPT !.state = Head(idle).arg]
     ELSE UNCHANGED svc
  /\ UNCHANGED <<mainpc, queue, worker, vads, cap, hist>>

\* _capture_failed, up to the join.
CaptureFailedBegin ==
  /\ svc' = [Ended(svc) EXCEPT !.active = FALSE, !.testing = FALSE, !.mic = 0]
  /\ CancelWork(svc)
  /\ mainpc' = "captureFailed"

\* Mutant: whoever finishes preparing gets the microphone.
PreparedForAnySession ==
  /\ Dispatch("prepared") /\ svc.capture = 0
  /\ svc' = [svc EXCEPT !.prepared = 0, !.capture = Head(idle).session,
                        !.mic = Head(idle).session, !.state = "listening"]
  /\ cap' = [cap EXCEPT !.pc = "idle"]
  /\ UNCHANGED <<mainpc, queue, worker, vads, hist>>

\* _prepared: the session takes its detector over and opens the microphone, or
\* closes the detector of a session that is gone.
Prepared ==
  /\ Dispatch("prepared")
  /\ LET s == Head(idle).session
         rest == [svc EXCEPT !.prepared = IF @ = s THEN 0 ELSE @]
     IN IF ~Current \/ ~svc.active
        THEN /\ svc' = rest /\ vads' = Closed(vads, s)
             /\ UNCHANGED <<mainpc, queue, worker, cap, hist>>
        ELSE /\ svc' = [rest EXCEPT !.capture = s, !.mic = s,
                                    !.state = "listening"]
             /\ cap' = [cap EXCEPT !.pc = "idle"]
             /\ UNCHANGED <<mainpc, queue, worker, vads, hist>>
\* The microphone cannot be opened.
PreparedFails ==
  /\ Dispatch("prepared") /\ Current /\ svc.active /\ CanFail
  /\ svc' = [Ended(svc) EXCEPT !.active = FALSE, !.testing = FALSE]
  /\ worker' = CancelRunning(worker)
  /\ queue' = Cleared(queue)
  /\ vads' = Closed(vads, svc.session)
  /\ hist' = [Failed(hist) EXCEPT !.refused = FALSE, !.ended = cap.phrase]
  /\ mainpc' = "captureFailed"
  /\ UNCHANGED <<cap>>

CaptureFailed ==
  /\ Dispatch("captureFailed")
  /\ IF Current
     THEN /\ CaptureFailedBegin
          /\ hist' = [hist EXCEPT !.refused = FALSE, !.ended = cap.phrase]
          /\ UNCHANGED <<cap>>
     ELSE Drop

CaptureFailedEnd ==
  /\ mainpc = "captureFailed" /\ Joined
  /\ svc' = [svc EXCEPT !.capture = 0, !.state = "error"]
  /\ vads' = Closed(vads, svc.capture)
  /\ cap' = NoCapture
  /\ mainpc' = "ready"
  /\ UNCHANGED <<idle, queue, worker, hist>>

\* What a result's handler makes of the pending it has loaded: max(0, it - 1).
Lowered == IF reading > 0 THEN reading - 1 ELSE 0

\* _recognition_failed and _overloaded: stop collecting, keep what was accepted.
RecognitionFailed ==
  /\ Dispatch("failed")
  /\ IF Current
     THEN /\ svc' = [svc EXCEPT !.pending = Lowered, !.active = FALSE, !.mic = 0]
          /\ mainpc' = "drain"
          /\ UNCHANGED <<queue, worker, vads, cap, hist>>
     ELSE Drop

Overloaded ==
  /\ Dispatch("overloaded")
  /\ IF Current
     THEN /\ svc' = [svc EXCEPT !.active = FALSE, !.mic = 0]
          /\ mainpc' = "drain"
          /\ UNCHANGED <<queue, worker, vads, cap, hist>>
     ELSE Drop

DrainEnd ==
  /\ mainpc = "drain" /\ Joined
  /\ svc' = [Invalidated(svc) EXCEPT !.capture = 0, !.message = TRUE,
                                     !.state = IF svc.pending # 0 THEN "finishing" ELSE "error"]
  /\ worker' = InvalidateRunning(worker)
  /\ queue' = NoPreview(queue)
  /\ vads' = Closed(vads, svc.capture)
  /\ cap' = IF svc.capture # 0 THEN NoCapture ELSE cap
  /\ mainpc' = "ready"
  /\ UNCHANGED <<idle, hist>>

\* _partial_finished: shown only if nothing was accepted since it was asked for.
PreviewIsValid(job) == /\ job.session = svc.session /\ job.gen > svc.floor /\ svc.active
PartialFinished ==
  /\ Dispatch("partial")
  /\ hist' = IF PreviewIsValid(Head(idle).arg)
             THEN [hist EXCEPT !.shown = [final |-> FALSE, phrase |-> Head(idle).arg.phrase]]
             ELSE hist
  /\ UNCHANGED <<svc, mainpc, queue, worker, vads, cap>>

\* _recognition_finished: a text is shown; the spoken command "stop" ends the
\* session, which drops whatever was accepted after it.
NextState(s, text) ==
  IF s.pending # 0 THEN IF s.active THEN "recognizing" ELSE "finishing"
  ELSE IF s.active THEN IF text = "text" THEN "listening" ELSE "no-speech"
  ELSE IF s.testing THEN s.state
  ELSE IF s.message THEN "error" ELSE "idle"
RecognitionFinished ==
  /\ Dispatch("finished")
  /\ LET text == Head(idle).arg.text
         s == [svc EXCEPT !.pending = Lowered]
         h == IF text = "text"
              THEN [hist EXCEPT !.shown = [final |-> TRUE, phrase |-> Head(idle).arg.phrase],
                                !.delivered = Head(idle).arg.phrase]
              ELSE hist
     IN IF ~Current THEN Drop
        ELSE IF text = "stop"
        THEN /\ svc' = [Ended(s) EXCEPT !.active = FALSE, !.testing = FALSE, !.mic = 0]
             /\ EndSession
             /\ mainpc' = "stop"
             /\ UNCHANGED <<cap>>
        ELSE /\ svc' = [s EXCEPT !.state = NextState(s, text),
                                 !.restore = @ \/ NextState(s, text) = "no-speech"]
             /\ hist' = h
             /\ UNCHANGED <<mainpc, queue, worker, vads, cap>>

\* Both handlers, once they have found their session current: max(0, pending - 1)
\* has loaded pending, and the callback is still the one being dispatched.
CountRead ==
  /\ Ready /\ idle # <<>> /\ Head(idle).fn \in {"finished", "failed"} /\ Current
  /\ reading' = svc.pending

SetSessionState ==
  /\ Dispatch("recognizing")
  /\ svc' = IF Current /\ svc.active THEN [svc EXCEPT !.state = "recognizing"] ELSE svc
  /\ UNCHANGED <<mainpc, queue, worker, vads, cap, hist>>

NoSpeech ==
  /\ Dispatch("noSpeech")
  /\ IF Current /\ svc.active /\ svc.pending = 0 /\ svc.state = "listening"
     THEN svc' = [svc EXCEPT !.state = "no-speech", !.restore = TRUE]
     ELSE UNCHANGED <<svc>>
  /\ UNCHANGED <<mainpc, queue, worker, vads, cap, hist>>

\* The timer of an earlier session finds another session_id and does nothing.
RestoreListening ==
  /\ Ready /\ svc.restore
  /\ svc' = [svc EXCEPT !.restore = FALSE,
                        !.state = IF svc.active /\ @ = "no-speech" THEN "listening" ELSE @]
  /\ UNCHANGED <<mainpc, idle, queue, worker, vads, cap, hist>>

-----------------------------------------------------------------------------
(* The streaming thread *)

Streams == svc.mic # 0 /\ cap.pc = "idle"
Listens == Streams /\ svc.mic # 0 /\ vads[svc.mic] = "open"
CapUnchanged == UNCHANGED <<mainpc, vads>>

\* _consume: speech begins, a preview is due, the phrase ends (silence or
\* max_phrase_bytes), or nobody has spoken for eight seconds.
Onset ==
  /\ Listens /\ ~cap.speaking /\ cap.phrase < MaxPhrases
  /\ cap' = [cap EXCEPT !.speaking = TRUE, !.phrase = @ + 1]
  /\ CapUnchanged /\ UNCHANGED <<svc, idle, queue, worker, hist>>

\* Both begin with _queue_audio's and _queue_partial's check that the session is
\* still on.
StillOn == svc.mic = svc.session /\ svc.active
PhraseComplete ==
  /\ Listens /\ cap.speaking
  /\ cap' = [cap EXCEPT !.speaking = FALSE, !.pc = IF StillOn THEN "put" ELSE "idle",
                        !.session = svc.mic]
  /\ CapUnchanged /\ UNCHANGED <<svc, idle, queue, worker, hist>>

PartialDue ==
  /\ Listens /\ cap.speaking /\ cap.previews < MaxPartials
  /\ cap' = [cap EXCEPT !.pc = IF StillOn THEN "partial" ELSE "idle",
                        !.session = svc.mic, !.previews = @ + 1]
  /\ CapUnchanged /\ UNCHANGED <<svc, idle, queue, worker, hist>>

NobodySpeaks ==
  /\ Listens /\ ~cap.speaking /\ svc.state = "listening"
  /\ idle = <<>>   \* bound: one notice at a time
  /\ idle' = Append(idle, Callback("noSpeech", svc.mic, 0))
  /\ CapUnchanged /\ UNCHANGED <<svc, cap, queue, worker, hist>>

\* The stream ends, stalls for five seconds, or the detector fails.
CaptureErrors ==
  /\ Streams /\ CanFail
  /\ cap' = [cap EXCEPT !.pc = "failed"]
  /\ hist' = Failed(hist)
  /\ idle' = Append(idle, Callback("captureFailed", svc.mic, 0))
  /\ \/ UNCHANGED vads
     \/ vads[svc.mic] = "open" /\ vads' = Closed(vads, svc.mic)
  /\ UNCHANGED <<svc, mainpc, queue, worker>>

\* _queue_audio after its check: invalidate the previews and count the phrase.
\* Mutant: a phrase that is accepted leaves the previews before it alone.
QueueAudioKeepingPreviews ==
  /\ cap.pc = "put"
  /\ svc' = [svc EXCEPT !.pending = @ + 1]
  /\ cap' = [cap EXCEPT !.pc = "counted"]
  /\ CapUnchanged /\ UNCHANGED <<idle, queue, worker, hist>>

QueueAudio ==
  /\ cap.pc = "put"
  /\ svc' = [Invalidated(svc) EXCEPT !.pending = @ + 1]
  /\ worker' = InvalidateRunning(worker)
  /\ queue' = NoPreview(queue)
  /\ cap' = [cap EXCEPT !.pc = "counted"]
  /\ CapUnchanged /\ UNCHANGED <<idle, hist>>

\* Then put it, or take its count back and tell the main loop.
Phrase == Job("final", cap.session, 0, cap.phrase)
\* Mutant: a phrase the queue refuses stays counted.
QueueAudioPutCounted ==
  /\ cap.pc = "counted"
  /\ queue' = IF HasRoom(queue) THEN PutFinal(queue, Phrase) ELSE queue
  /\ idle' = IF HasRoom(queue) THEN idle ELSE Append(idle, Callback("overloaded", cap.session, 0))
  /\ cap' = [cap EXCEPT !.pc = IF HasRoom(queue) THEN "notify" ELSE "idle"]
  /\ hist' = [hist EXCEPT !.accepted = cap.phrase]
  /\ CapUnchanged /\ UNCHANGED <<svc, worker>>

QueueAudioPut ==
  /\ cap.pc = "counted"
  /\ svc' = [svc EXCEPT !.pending = @ - (IF HasRoom(queue) THEN 0 ELSE 1)]
  /\ queue' = IF HasRoom(queue) THEN PutFinal(queue, Phrase) ELSE queue
  /\ idle' = IF HasRoom(queue) THEN idle ELSE Append(idle, Callback("overloaded", cap.session, 0))
  /\ cap' = [cap EXCEPT !.pc = IF HasRoom(queue) THEN "notify" ELSE "idle"]
  /\ hist' = [hist EXCEPT !.accepted = cap.phrase]
  /\ CapUnchanged /\ UNCHANGED worker

QueueAudioNotify ==
  /\ cap.pc = "notify"
  /\ idle' = Append(idle, Callback("recognizing", cap.session, 0))
  /\ cap' = [cap EXCEPT !.pc = "idle"]
  /\ CapUnchanged /\ UNCHANGED <<svc, queue, worker, hist>>

QueuePartial ==
  /\ cap.pc = "partial"
  /\ svc' = [svc EXCEPT !.generation = @ + 1]
  /\ queue' = PutPartial(queue, Job("partial", cap.session, svc.generation + 1, cap.phrase))
  /\ cap' = [cap EXCEPT !.pc = "idle"]
  /\ CapUnchanged /\ UNCHANGED <<idle, worker, hist>>

CaptureThread == QueueAudio \/ QueueAudioPut \/ QueueAudioNotify \/ QueuePartial
Speaker == Onset \/ PhraseComplete \/ PartialDue \/ NobodySpeaks

-----------------------------------------------------------------------------
(* The recognition thread *)

WorkUnchanged == UNCHANGED <<svc, mainpc, cap>>
Idle(w) == [w EXCEPT !.pc = "get", !.job = NoJob, !.cancel = "none"]

\* get, then the checks made before the lock is taken.
Obsolete(job) ==
  \/ job.session # svc.session
  \/ job.kind = "partial" /\ (job.gen # svc.generation \/ job.gen <= svc.floor \/ ~svc.active)
WorkerGet ==
  /\ worker.pc = "get"
  /\ IF queue.quit
     THEN worker' = [worker EXCEPT !.pc = "exited"] /\ UNCHANGED queue
     ELSE \/ /\ queue.finals # <<>>
             /\ queue' = [queue EXCEPT !.finals = Tail(@)]
             /\ worker' = IF Obsolete(Head(queue.finals)) THEN worker
                          ELSE [worker EXCEPT !.pc = "register", !.job = Head(queue.finals)]
          \/ /\ queue.finals = <<>> /\ queue.partial # NoJob
             /\ queue' = NoPreview(queue)
             /\ worker' = IF Obsolete(queue.partial) THEN worker
                          ELSE [worker EXCEPT !.pc = "register", !.job = queue.partial]
  /\ WorkUnchanged /\ UNCHANGED <<idle, vads, hist>>

\* Under work_lock: the job becomes cancellable, unless it is obsolete by now.
WorkerRegister ==
  /\ worker.pc = "register"
  /\ LET job == worker.job
     IN worker' = IF job.session # svc.session
                     \/ (job.kind = "partial" /\ (job.gen <= svc.floor \/ ~svc.active))
                  THEN Idle(worker)
                  ELSE [worker EXCEPT !.cancel = "clear",
                                      !.pc = IF job.kind = "prepare" THEN "prepare" ELSE "run"]
  /\ WorkUnchanged /\ UNCHANGED <<idle, queue, vads, hist>>

\* SessionEngine.transcribe, with its one retry on the CPU, ends in a text, in an
\* error or, when the job's event is set, in RecognitionCancelled.
Transcribe(r) ==
  /\ r = "cancelled" => worker.cancel = "set"
  /\ r = "error" => CanFail
  /\ hist' = IF r = "error" THEN Failed(hist) ELSE hist
\* Mutant: a failed job tells nobody.
SilentFailure == idle
FailedCallback == Append(idle, Callback("failed", worker.job.session, 0))

\* AutomaticSelector.select, by cache, fallback or measurement, and the fixture
\* that warms the selected engine.
WorkerPrepare ==
  /\ worker.pc = "prepare"
  /\ \E r \in {"ok", "cancelled", "error"}, measured \in BOOLEAN :
       LET told == (IF measured THEN <<Callback("preparation", worker.job.session, "calibrating")>> ELSE <<>>)
                   \o <<Callback("preparation", worker.job.session, "preparing")>>
                   \o (IF r = "error" THEN <<Callback("failed", worker.job.session, 0)>> ELSE <<>>)
       IN /\ Transcribe(r)
          /\ worker' = IF r = "ok" THEN [worker EXCEPT !.pc = "vad"] ELSE Idle(worker)
          /\ idle' = idle \o told
  /\ WorkUnchanged /\ UNCHANGED <<queue, vads>>

\* VadEngine.start
WorkerVad ==
  /\ worker.pc = "vad"
  /\ \/ /\ vads' = [vads EXCEPT ![worker.job.session] = "open"]
        /\ worker' = [worker EXCEPT !.pc = "publish"]
        /\ UNCHANGED <<idle, hist>>
     \/ /\ worker.cancel = "set"
        /\ worker' = Idle(worker)
        /\ UNCHANGED <<idle, vads, hist>>
     \/ /\ CanFail /\ hist' = Failed(hist)
        /\ worker' = Idle(worker) /\ idle' = FailedCallback
        /\ UNCHANGED vads
  /\ UNCHANGED <<svc, mainpc, cap, queue>>

Abandoned == worker.cancel = "set" \/ worker.job.session # svc.session \/ ~svc.active

\* Under work_lock: the detector is handed over to the main loop, or closed with
\* its session.
WorkerPublish ==
  /\ worker.pc = "publish"
  /\ IF Abandoned
     THEN vads' = Closed(vads, worker.job.session) /\ UNCHANGED <<svc, idle>>
     ELSE /\ svc' = [svc EXCEPT !.prepared = worker.job.session]
          /\ idle' = Append(idle, Callback("prepared", worker.job.session, 0))
          /\ UNCHANGED vads
  /\ worker' = Idle(worker)
  /\ UNCHANGED <<mainpc, queue, cap, hist>>

\* Transcribe a phrase or a preview; a failed preview is only logged. The text
\* may be empty, or the command that stops listening.
Result(job, r) ==
  IF r \in {"error", "cancelled"}
  THEN IF r = "error" /\ job.kind = "final" THEN FailedCallback ELSE idle
  ELSE IF job.kind = "partial"
  THEN Append(idle, Callback("partial", job.session, job))
  ELSE Append(idle, Callback("finished", job.session, [phrase |-> job.phrase, text |-> r]))
WorkerRun ==
  /\ worker.pc = "run"
  /\ \E r \in {"text", "cancelled", "error"} \cup (IF worker.job.kind = "final" THEN {"empty", "stop"} ELSE {}) :
       /\ Transcribe(r)
       /\ idle' = Result(worker.job, r)
  /\ worker' = Idle(worker)
  /\ WorkUnchanged /\ UNCHANGED <<queue, vads>>

Worker == WorkerGet \/ WorkerRegister \/ WorkerPrepare \/ WorkerVad
            \/ WorkerPublish \/ WorkerRun

-----------------------------------------------------------------------------
VoiceInit ==
  /\ svc = [state |-> "idle", active |-> FALSE, testing |-> FALSE, pending |-> 0, session |-> 0,
            generation |-> 0, floor |-> 0, message |-> FALSE, restore |-> FALSE, capture |-> 0, mic |-> 0,
            prepared |-> 0, shutting |-> FALSE, stopped |-> FALSE]
  /\ mainpc = "ready" /\ idle = <<>>
  /\ queue = [finals |-> <<>>, partial |-> NoJob, quit |-> FALSE]
  /\ worker = [pc |-> "get", job |-> NoJob, cancel |-> "none"]
  /\ vads = [s \in Sessions |-> "none"]
  /\ cap = [pc |-> "off", speaking |-> FALSE, phrase |-> 0, previews |-> 0, session |-> 0]
  /\ hist = [shown |-> [final |-> FALSE, phrase |-> 0], delivered |-> 0, accepted |-> 0, ended |-> 0,
             refused |-> FALSE, faults |-> 0]
  /\ reading = NoRead /\ raced = FALSE

Calls == Start \/ Stop \/ Finish \/ StartTest \/ StopTest \/ Quit

MainLoop ==
  \/ StopEnd \/ StartAfterTest \/ FinishEnd \/ StartTestAfterStop \/ QuitPut \/ QuitEnd
  \/ CaptureFailedEnd \/ DrainEnd
  \/ PreparationState \/ Prepared \/ PreparedFails \/ CaptureFailed
  \/ Overloaded \/ PartialFinished \/ SetSessionState \/ NoSpeech \/ RestoreListening
Results == RecognitionFinished \/ RecognitionFailed
StaleResult == Results /\ ~Current

\* A session begins unraced. While a handler is between its load and its store the
\* main loop does nothing else.
SameSession == svc'.session = svc.session
MainTurn ==
  \/ reading = NoRead /\ CountRead /\ UNCHANGED <<svc, mainpc, idle, queue, worker, vads, cap, raced, hist>>
  \/ reading # NoRead /\ Results /\ reading' = NoRead /\ raced' = (raced /\ SameSession)
  \/ /\ reading = NoRead /\ (MainLoop \/ StaleResult)
     /\ UNCHANGED reading /\ raced' = (raced /\ SameSession)
CallTurn == reading = NoRead /\ Calls /\ UNCHANGED reading /\ raced' = (raced /\ SameSession)
\* What runs beside the main loop.
Beside(A) ==
  /\ ~svc.stopped /\ A /\ UNCHANGED reading
  /\ raced' = (raced \/ (reading # NoRead /\ svc'.pending # svc.pending))

VoiceNext ==
  CallTurn \/ MainTurn \/ Beside(Speaker) \/ Beside(CaptureErrors) \/ Beside(CaptureThread) \/ Beside(Worker)

\* The main loop dispatches, callbacks of the streaming thread return, and every
\* request to the native process ends, by its deadline if nothing else; nobody
\* has to call, to speak or to be silent.
VoiceSpec ==
  /\ VoiceInit /\ [][VoiceNext]_vars
  /\ WF_vars(MainTurn)
  /\ WF_vars(Beside(CaptureThread))
  /\ WF_vars(Beside(Worker))

-----------------------------------------------------------------------------

\* Whenever the microphone records, it is for the session that is on and the
\* state the shell shows says so: no late callback opens it for a session that
\* was stopped, and no error leaves it open behind an idle indicator.
MicrophoneIsShown ==
  svc.mic # 0 /\ mainpc = "ready" =>
    /\ svc.mic = svc.session
    /\ \/ svc.active /\ svc.state \in {"listening", "recognizing", "no-speech"}
       \/ svc.testing /\ svc.state = "testing"

\* The accepted phrases of this session that are queued, being recognized, or
\* whose result is on its way to the main loop.
Outstanding ==
  LET mine(job) == job.kind = "final" /\ job.session = svc.session
      One(b) == IF b THEN 1 ELSE 0
      Queued == {i \in DOMAIN queue.finals : mine(queue.finals[i])}
      Told == {i \in DOMAIN idle : /\ idle[i].fn \in {"finished", "failed"}
                                   /\ idle[i].session = svc.session}
  IN Cardinality(Queued) + Cardinality(Told) + One(mine(worker.job))

\* The phrase of this session that is counted and not yet in the queue.
BeingPut == IF cap.pc = "counted" /\ cap.session = svc.session THEN 1 ELSE 0

\* pending counts the accepted phrases whose result has not reached the main
\* loop, wherever they are: it decides between finishing and idle, and between
\* recognizing and listening. The one exception is a session in which the
\* streaming thread counted a phrase, or took its count back, while the main loop
\* was between loading and storing pending: that update is lost for its rest.
PendingIsOutstanding ==
  /\ mainpc = "ready" /\ ~raced
  /\ (svc.capture # 0 /\ svc.active) \/ (svc.state = "finishing" /\ ~hist.refused)
  => svc.pending = Outstanding + BeingPut

\* A speech detector that runs belongs to somebody who will close it.
DetectorHasOwner ==
  \A s \in Sessions : vads[s] = "open" =>
    \/ svc.capture = s \/ svc.prepared = s
    \/ mainpc = "finish" /\ svc.session = s
    \/ worker.job.session = s /\ worker.pc = "publish"
    \/ \E i \in DOMAIN idle : idle[i].fn = "prepared" /\ idle[i].session = s

\* Microphone and detector are held only by somebody who knows it.
DevicesHaveOwners == MicrophoneIsShown /\ DetectorHasOwner

\* Texts are shown in the order they were spoken; nothing of a session that was
\* stopped or replaced is shown any more, and no preview of a phrase that was
\* already accepted, whatever was superseded, cancelled or late.
TranscriptsAdvance ==
  [][hist'.shown # hist.shown =>
       /\ hist'.shown.phrase > hist.delivered
       /\ hist'.shown.phrase > hist.ended
       /\ hist'.shown.final \/ hist'.shown.phrase > hist.accepted]_vars

\* A session that stopped listening delivers or gives up what it accepted. There
\* are two exceptions: a Start that is refused while phrases are pending clears
\* their queue and keeps their count, and a lost update of the count that a refused
\* phrase takes back leaves it too high for good.
FinishingEnds ==
  svc.state = "finishing" ~> svc.state # "finishing" \/ hist.refused \/ raced \/ svc.stopped

\* Preparation ends with an open microphone or an error, or is cancelled.
PreparationEnds ==
  svc.state \in {"preparing", "calibrating"} ~> svc.state \notin {"preparing", "calibrating"} \/ svc.stopped

\* Neither state lasts for good.
SessionsEnd == FinishingEnds /\ PreparationEnds
=============================================================================
