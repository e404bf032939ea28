------------------------ MODULE VoiceTyping_proofs -------------------------
(***************************************************************************)
(* The voice typing service, for any number of sessions, phrases, previews  *)
(* and failures: who holds the microphone and the speech detectors; which   *)
(* phrases are pending; in which order texts are shown.                     *)
(*                                                                          *)
(* Devices: a session is prepared by one token: the prepare job in the      *)
(* queue, then in the recognition thread, then the callback _prepared. The  *)
(* token of the session that is on exists at most once, and only as long as *)
(* that session has not opened its microphone (DevicesInv). That a failure  *)
(* or a full queue is reported only of a session without a token is         *)
(* SpentInv: both together are inductive.                                   *)
(*                                                                          *)
(* Phrases: those of the session that is on are numbered in the order they  *)
(* were spoken, and are shown, told of, recognized, queued and spoken in    *)
(* this order (PhraseInv). What is counted as pending is what is queued, in *)
(* hand or told of, except where nobody looks (CountInv).                   *)
(***************************************************************************)
EXTENDS VoiceTyping, FiniteSetTheorems, FunctionTheorems, SequenceTheorems, TLAPS

(* Types *)
MainPlaces == {"ready", "stop", "start", "startTest", "finish", "quit", "joinWorker",
               "captureFailed", "drain"}
States == {"idle", "preparing", "calibrating", "listening", "recognizing", "finishing", "no-speech",
           "testing", "error"}
Functions == {"preparation", "prepared", "captureFailed", "failed", "overloaded", "partial",
              "finished", "recognizing", "noSpeech"}
Jobs == [kind : {"none", "prepare", "final", "partial"}, session : Nat, gen : Nat, phrase : Nat]
Texts == [phrase : Nat, text : {"text", "empty", "stop"}]
Arguments == {0} \cup {"calibrating", "preparing"} \cup Jobs \cup Texts
Callbacks == {c \in [fn : Functions, session : Nat, arg : Arguments] :
                c.fn = "preparation" => c.arg \in {"calibrating", "preparing"}}

Attributes == {"state", "active", "testing", "pending", "session", "generation", "floor", "message",
               "restore", "capture", "mic", "prepared", "shutting", "stopped"}
IsService(s) ==
  /\ DOMAIN s = Attributes
  /\ s.pending \in Int /\ s.session \in Nat /\ s.generation \in Nat /\ s.floor \in Nat
  /\ s.capture \in Nat /\ s.mic \in Nat /\ s.prepared \in Nat
  /\ s.active \in BOOLEAN /\ s.testing \in BOOLEAN
Previews == {j \in Jobs : j.kind \in {"none", "partial"}}
Queues == [finals : Seq(Jobs), partial : Previews, quit : BOOLEAN]
Workers == [pc : {"get", "register", "prepare", "vad", "publish", "run", "exited"},
            job : Jobs, cancel : {"none", "clear", "set"}]
Captures == [pc : {"off", "idle", "failed", "put", "counted", "notify", "partial"}, speaking : BOOLEAN,
             phrase : Nat, previews : Nat, session : Nat]

VoiceTypeOK ==
  /\ IsService(svc)
  /\ mainpc \in MainPlaces
  /\ idle \in Seq(Callbacks)
  /\ queue \in Queues
  /\ worker \in Workers
  /\ vads \in [Sessions -> {"none", "open", "closed"}]
  /\ cap \in Captures

(* The token of a session *)
Announces(c, s) == c.fn = "prepared" /\ c.session = s
Announced(q, s) == \E i \in DOMAIN q : Announces(q[i], s)
AnnouncedOnce(q, s) == \A i, j \in DOMAIN q : Announces(q[i], s) /\ Announces(q[j], s) => i = j
Asked(q, s) == q # <<>> /\ q[1].kind = "prepare" /\ q[1].session = s
Prepares(w, s) == w.job.kind = "prepare" /\ w.job.session = s
Tokens(finals, w, callbacks, s) == Asked(finals, s) \/ Prepares(w, s) \/ Announced(callbacks, s)
HasToken(s) == Tokens(queue.finals, worker, idle, s)

\* start clears the queue before it asks for a preparation.
First(q) == \A i \in DOMAIN q : q[i].kind = "prepare" => i = 1

\* Tokens carry the numbers of sessions that were begun, and the session that
\* is on has at most one, before it has a capture.
TokenInv ==
  /\ First(queue.finals)
  /\ \A s \in Nat : HasToken(s) => s \in Sessions /\ s <= svc.session
  /\ HasToken(svc.session) => svc.active /\ svc.capture = 0 /\ mainpc = "ready"
  /\ Asked(queue.finals, svc.session) => ~Prepares(worker, svc.session) /\ ~Announced(idle, svc.session)
  /\ Prepares(worker, svc.session) => ~Announced(idle, svc.session)
  /\ AnnouncedOnce(idle, svc.session)
  /\ svc.capture # 0 => ~HasToken(svc.capture)
  /\ worker.pc \in {"prepare", "vad", "publish"} => worker.job.kind = "prepare"

\* A session that has phrases or was told of a failure is past its preparation.
Blames(c, s) == c.fn \in {"failed", "overloaded"} /\ c.session = s
Blamed(q, s) == \E i \in DOMAIN q : Blames(q[i], s)
Phrases(q, s) == \E i \in DOMAIN q : q[i].kind = "final" /\ q[i].session = s
Spent(s) ==
  \/ cap.session = s \/ Blamed(idle, s) \/ Phrases(queue.finals, s)
  \/ worker.job.kind = "final" /\ worker.job.session = s
SpentInv == \A s \in Nat : Spent(s) => s <= svc.session /\ (s = svc.session => ~HasToken(s))

\* What the main loop knows about its capture.
CaptureInv ==
  /\ ~(svc.active /\ svc.testing)
  /\ svc.capture # 0 => svc.capture \in Sessions /\ svc.capture <= svc.session
  /\ svc.capture # 0 /\ mainpc = "ready" => svc.active \/ svc.testing
  /\ svc.capture # 0 /\ (svc.active \/ svc.testing) => svc.capture = svc.session
  /\ svc.capture # 0 /\ mainpc = "drain" => svc.capture = svc.session
  /\ mainpc = "finish" => svc.active
  /\ mainpc \in {"stop", "start", "startTest", "quit", "joinWorker", "captureFailed"} =>
       ~svc.active /\ ~svc.testing /\ svc.prepared = 0
  /\ mainpc \in {"finish", "joinWorker"} => svc.capture = 0
  /\ mainpc \in {"start", "startTest"} => svc.session < MaxSessions
  /\ svc.prepared \in {0, svc.session}

MicrophoneInv ==
  svc.mic # 0 =>
    /\ mainpc = "ready" /\ svc.mic = svc.session /\ svc.capture = svc.session
    /\ \/ svc.active /\ svc.state \in {"listening", "recognizing", "no-speech"}
       \/ svc.testing /\ svc.state = "testing"

\* A microphone test has no detector, so that it never hears a phrase.
TestInv ==
  /\ (svc.testing \/ mainpc = "start") /\ svc.capture # 0 => vads[svc.capture] # "open"
  /\ svc.testing => svc.pending = 0 /\ cap.pc \notin {"put", "counted"}

DetectorInv ==
  /\ \A s \in Sessions : vads[s] = "open" => s <= svc.session
  /\ DetectorHasOwner

\* What a handler has loaded is what pending still is, unless it was raced.
ReadInv ==
  /\ reading \in Int
  /\ svc.testing => reading <= 0
  /\ reading # NoRead /\ ~raced => reading = svc.pending

\* Inductive together with SpentInv and ReadInv.
DevicesInv == VoiceTypeOK /\ TokenInv /\ CaptureInv /\ MicrophoneInv /\ TestInv /\ DetectorInv

-----------------------------------------------------------------------------
(* Callbacks and jobs *)

\* The kinds of arguments; kept opaque below.
LEMMA ArgumentsAre ==
  /\ 0 \in Arguments /\ "calibrating" \in Arguments /\ "preparing" \in Arguments
  /\ Jobs \subseteq Arguments /\ Texts \subseteq Arguments
BY Zenon DEF Arguments

\* GLib.idle_add(fn, session, arg).
LEMMA CallbackIs ==
  ASSUME NEW fn \in Functions, NEW s \in Nat, NEW a \in Arguments,
         fn = "preparation" => a \in {"calibrating", "preparing"}
  PROVE  /\ Callback(fn, s, a) \in Callbacks
         /\ Callback(fn, s, a).fn = fn /\ Callback(fn, s, a).session = s /\ Callback(fn, s, a).arg = a
BY DEF Callback, Callbacks

\* RecognitionJob.
LEMMA JobIs ==
  ASSUME NEW k \in {"none", "prepare", "final", "partial"}, NEW s \in Nat, NEW g \in Nat, NEW p \in Nat
  PROVE  /\ Job(k, s, g, p) \in Jobs /\ NoJob \in Jobs
         /\ Job(k, s, g, p).kind = k /\ Job(k, s, g, p).session = s
         /\ Job(k, s, g, p).gen = g /\ Job(k, s, g, p).phrase = p
         /\ NoJob.kind = "none" /\ NoJob.session = 0
BY DEF Job, Jobs, NoJob

\* A callback other than _prepared announces nothing.
LEMMA AddCallback ==
  ASSUME NEW q \in Seq(Callbacks), NEW c \in Callbacks
  PROVE  /\ Append(q, c) \in Seq(Callbacks)
         /\ \A s \in Nat : c.fn # "prepared" \/ c.session # s =>
              /\ Announced(Append(q, c), s) <=> Announced(q, s)
              /\ AnnouncedOnce(q, s) => AnnouncedOnce(Append(q, c), s)
         /\ \A s \in Nat : c.fn = "prepared" /\ c.session = s =>
              /\ Announced(Append(q, c), s)
              /\ ~Announced(q, s) => AnnouncedOnce(Append(q, c), s)
<1>. DEFINE a == Append(q, c)
<1>1. /\ a \in Seq(Callbacks) /\ Len(q) \in Nat /\ DOMAIN q = 1..Len(q)
      /\ DOMAIN a = 1..(Len(q) + 1) /\ a[Len(q) + 1] = c
      /\ \A i \in DOMAIN q : a[i] = q[i]
  OBVIOUS
<1>2. \A i \in DOMAIN a : i \in DOMAIN q \/ (i = Len(q) + 1)
  BY <1>1
<1>. HIDE DEF a
<1>3. ASSUME NEW s \in Nat, ~Announces(c, s)
      PROVE  /\ Announced(a, s) <=> Announced(q, s)
             /\ AnnouncedOnce(q, s) => AnnouncedOnce(a, s)
  BY <1>1, <1>2, <1>3 DEF Announced, AnnouncedOnce
<1>4. ASSUME NEW s \in Nat, Announces(c, s)
      PROVE  /\ Announced(a, s)
             /\ ~Announced(q, s) => AnnouncedOnce(a, s)
  BY <1>1, <1>2, <1>4 DEF Announced, AnnouncedOnce
<1>. QED  BY <1>1, <1>3, <1>4 DEF Announces, a

\* Several such callbacks do not either.
LEMMA AddCallbacks ==
  ASSUME NEW q \in Seq(Callbacks), NEW r \in Seq(Callbacks), \A i \in DOMAIN r : r[i].fn # "prepared"
  PROVE  /\ q \o r \in Seq(Callbacks)
         /\ \A s \in Nat : /\ Announced(q \o r, s) <=> Announced(q, s)
                           /\ AnnouncedOnce(q, s) => AnnouncedOnce(q \o r, s)
<1>. DEFINE a == q \o r
<1>1. /\ a \in Seq(Callbacks) /\ Len(q) \in Nat /\ DOMAIN q = 1..Len(q)
      /\ Len(r) \in Nat /\ DOMAIN r = 1..Len(r)
      /\ DOMAIN a = 1..(Len(q) + Len(r))
      /\ \A i \in DOMAIN q : a[i] = q[i]
      /\ \A i \in DOMAIN a : i > Len(q) => a[i] = r[i - Len(q)]
  OBVIOUS
<1>2. \A i \in DOMAIN a : i \in DOMAIN q \/ (a[i].fn # "prepared")
  BY <1>1
<1>3. \A i \in DOMAIN q : i \in DOMAIN a
  BY <1>1
<1>. HIDE DEF a
<1>. QED  BY <1>1, <1>2, <1>3 DEF Announced, AnnouncedOnce, Announces

\* Dispatching the first callback removes that one only.
LEMMA DropCallback ==
  ASSUME NEW q \in Seq(Callbacks), q # <<>>
  PROVE  /\ Tail(q) \in Seq(Callbacks) /\ Head(q) \in Callbacks
         /\ \A s \in Nat : /\ Announced(Tail(q), s) => Announced(q, s)
                           /\ AnnouncedOnce(q, s) => AnnouncedOnce(Tail(q), s)
                           /\ Announced(q, s) => Announced(Tail(q), s) \/ Announces(Head(q), s)
                           /\ Announces(Head(q), s) => Announced(q, s)
                           /\ Announces(Head(q), s) /\ AnnouncedOnce(q, s) => ~Announced(Tail(q), s)
<1>. DEFINE a == Tail(q)
<1>1. /\ a \in Seq(Callbacks) /\ Len(q) \in Nat \ {0} /\ DOMAIN q = 1..Len(q) /\ Head(q) = q[1]
      /\ DOMAIN a = 1..(Len(q) - 1) /\ \A i \in DOMAIN a : a[i] = q[i + 1]
  OBVIOUS
<1>2. /\ \A i \in DOMAIN a : (i + 1) \in DOMAIN q /\ i \in Nat /\ i + 1 # 1
      /\ \A i \in DOMAIN q : i = 1 \/ ((i - 1) \in DOMAIN a /\ a[i - 1] = q[i])
      /\ 1 \in DOMAIN q /\ q[1] \in Callbacks
  BY <1>1
<1>. HIDE DEF a
<1>3. ASSUME NEW s \in Nat
      PROVE  /\ Announced(a, s) => Announced(q, s)
             /\ Announced(q, s) => Announced(a, s) \/ Announces(q[1], s)
             /\ Announces(q[1], s) => Announced(q, s)
  BY <1>1, <1>2 DEF Announced
<1>4. ASSUME NEW s \in Nat, AnnouncedOnce(q, s)
      PROVE  /\ AnnouncedOnce(a, s)
             /\ Announces(q[1], s) => ~Announced(a, s)
  BY SMTT(40), <1>1, <1>2, <1>4 DEF Announced, AnnouncedOnce
<1>. QED  BY <1>1, <1>2, <1>3, <1>4 DEF a

\* A prepare job is the first of the queue, so that others behind it change
\* nothing and taking the first leaves none.
LEMMA AddJob ==
  ASSUME NEW q \in Seq(Jobs), NEW j \in Jobs, First(q)
  PROVE  /\ Append(q, j) \in Seq(Jobs)
         /\ j.kind # "prepare" => /\ First(Append(q, j))
                                 /\ \A s \in Nat : Asked(Append(q, j), s) <=> Asked(q, s)
<1>. DEFINE a == Append(q, j)
<1>1. /\ a \in Seq(Jobs) /\ Len(q) \in Nat /\ DOMAIN q = 1..Len(q)
      /\ DOMAIN a = 1..(Len(q) + 1) /\ a[Len(q) + 1] = j
      /\ (\A i \in DOMAIN q : a[i] = q[i]) /\ (q = <<>> <=> Len(q) = 0) /\ a # <<>>
  OBVIOUS
<1>2. \A i \in DOMAIN a : i \in DOMAIN q \/ (i = Len(q) + 1)
  BY <1>1
<1>3. q # <<>> => 1 \in DOMAIN q
  BY <1>1
<1>. HIDE DEF a
<1>4. ASSUME j.kind # "prepare" PROVE First(a)
  BY <1>1, <1>2, <1>4 DEF First
<1>5. ASSUME j.kind # "prepare", NEW s \in Nat PROVE Asked(a, s) <=> Asked(q, s)
  <2>1. CASE q = <<>>
    <3>1. a[1] = j
      BY <1>1, <2>1
    <3>. QED  BY <1>1, <1>5, <2>1, <3>1 DEF Asked
  <2>2. CASE q # <<>>
    BY <1>1, <1>3, <2>2 DEF Asked
  <2>. QED  BY <2>1, <2>2
<1>. QED  BY <1>1, <1>4, <1>5 DEF a

\* RecognitionQueue.get: only the first job can be a preparation.
LEMMA TakeJob ==
  ASSUME NEW q \in Seq(Jobs), q # <<>>, First(q)
  PROVE  /\ Tail(q) \in Seq(Jobs) /\ Head(q) \in Jobs /\ Head(q) = q[1]
         /\ First(Tail(q)) /\ \A s \in Nat : ~Asked(Tail(q), s)
<1>. DEFINE a == Tail(q)
<1>1. /\ a \in Seq(Jobs) /\ Len(q) \in Nat \ {0} /\ DOMAIN q = 1..Len(q) /\ Head(q) = q[1]
      /\ DOMAIN a = 1..(Len(q) - 1) /\ \A i \in DOMAIN a : a[i] = q[i + 1]
      /\ a # <<>> => 1 \in DOMAIN a
  OBVIOUS
<1>2. \A i \in DOMAIN a : (i + 1) \in DOMAIN q /\ i \in Nat /\ i + 1 # 1
  BY <1>1
<1>3. q[1] \in Jobs
  BY <1>1
<1>. HIDE DEF a
<1>4. \A i \in DOMAIN a : a[i].kind # "prepare"
  BY <1>1, <1>2 DEF First
<1>5. First(a) /\ \A s \in Nat : ~Asked(a, s)
  BY <1>1, <1>4 DEF First, Asked
<1>. QED  BY <1>1, <1>3, <1>5 DEF a

\* RecognitionQueue.clear, and the first job put after it.
LEMMA EmptyQueue ==
  /\ <<>> \in Seq(Jobs) /\ First(<<>>) /\ \A s \in Nat : ~Asked(<<>>, s)
  /\ \A j \in Jobs : /\ Append(<<>>, j) \in Seq(Jobs) /\ First(Append(<<>>, j))
                     /\ \A s \in Nat : Asked(Append(<<>>, j), s) <=> j.kind = "prepare" /\ j.session = s
<1>1. ASSUME NEW j \in Jobs
      PROVE  /\ Append(<<>>, j) \in Seq(Jobs) /\ DOMAIN Append(<<>>, j) = {1} /\ Append(<<>>, j)[1] = j
             /\ Append(<<>>, j) # <<>>
  OBVIOUS
<1>2. <<>> \in Seq(Jobs) /\ DOMAIN <<>> = {}
  OBVIOUS
<1>. QED  BY <1>1, <1>2 DEF First, Asked

-----------------------------------------------------------------------------
(* What handlers share *)

\* _invalidate_partials moves the floor and nothing else.
LEMMA InvalidatedIs ==
  ASSUME NEW s, IsService(s)
  PROVE  /\ IsService(Invalidated(s))
         /\ Invalidated(s).session = s.session /\ Invalidated(s).pending = s.pending
         /\ Invalidated(s).prepared = s.prepared
         /\ Invalidated(s).active = s.active /\ Invalidated(s).testing = s.testing
         /\ Invalidated(s).capture = s.capture /\ Invalidated(s).mic = s.mic
         /\ Invalidated(s).state = s.state
         /\ Invalidated(s).shutting = s.shutting /\ Invalidated(s).stopped = s.stopped
         /\ Invalidated(s).generation = s.generation /\ Invalidated(s).floor = s.generation
BY DEF Invalidated, IsService, Attributes

\* A session that ends is numbered away; who listens is not touched here.
LEMMA EndedIs ==
  ASSUME NEW s, IsService(s)
  PROVE  /\ IsService(Ended(s))
         /\ Ended(s).session = s.session + 1 /\ Ended(s).pending = 0 /\ Ended(s).prepared = 0
         /\ Ended(s).active = s.active /\ Ended(s).testing = s.testing /\ Ended(s).capture = s.capture
         /\ Ended(s).mic = s.mic /\ Ended(s).state = s.state
         /\ Ended(s).shutting = s.shutting /\ Ended(s).stopped = s.stopped
         /\ Ended(s).generation = s.generation /\ Ended(s).floor = s.generation
BY InvalidatedIs DEF Ended, IsService, Attributes

\* What the operations of RecognitionQueue do to the phrases.
LEMMA QueueIs ==
  ASSUME NEW q \in Queues, First(q.finals)
  PROVE  /\ Cleared(q) \in Queues /\ Cleared(q).finals = <<>>
         /\ NoPreview(q) \in Queues /\ NoPreview(q).finals = q.finals
         /\ \A j \in Jobs : PutFinal(q, j) \in Queues /\ PutFinal(q, j).finals = Append(q.finals, j)
         /\ \A j \in Previews : PutPartial(q, j) \in Queues /\ PutPartial(q, j).finals = q.finals
<1>1. NoJob \in Previews
  BY JobIs DEF Previews
<1>. QED  BY <1>1, AddJob, EmptyQueue DEF Queues, Cleared, NoPreview, PutFinal, PutPartial

\* Cancelling leaves the thread where it is, with its job.
LEMMA WorkerIs ==
  ASSUME NEW w \in Workers
  PROVE  /\ CancelRunning(w) \in Workers /\ CancelRunning(w).pc = w.pc /\ CancelRunning(w).job = w.job
         /\ InvalidateRunning(w) \in Workers /\ InvalidateRunning(w).pc = w.pc
         /\ InvalidateRunning(w).job = w.job
         /\ Idle(w) \in Workers /\ Idle(w).pc = "get" /\ Idle(w).job = NoJob
<1>1. NoJob \in Jobs
  BY JobIs
<1>. QED  BY <1>1 DEF Workers, CancelRunning, InvalidateRunning, Idle

\* A detector is closed, no other is touched.
LEMMA ClosedIs ==
  ASSUME NEW v \in [Sessions -> {"none", "open", "closed"}], NEW s
  PROVE  /\ Closed(v, s) \in [Sessions -> {"none", "open", "closed"}]
         /\ \A t \in Sessions : Closed(v, s)[t] = "open" <=> v[t] = "open" /\ t # s
BY DEF Closed

\* capture.stop forgets the phrase being spoken.
LEMMA NoCaptureIs ==
  ASSUME cap \in Captures
  PROVE  /\ NoCapture \in Captures /\ NoCapture.pc = "off" /\ NoCapture.phrase = cap.phrase
BY DEF NoCapture, Captures

-----------------------------------------------------------------------------
(* Steps that make no token and open no device *)

\* DetectorHasOwner, with the callback under its own name.
Owned(s) ==
  \/ svc.capture = s \/ svc.prepared = s
  \/ mainpc = "finish" /\ svc.session = s
  \/ worker.job.session = s /\ worker.pc = "publish"
  \/ Announced(idle, s)

\* DetectorHasOwner in terms of Owned.
LEMMA OwnersAre == DetectorHasOwner <=> \A s \in Sessions : vads[s] = "open" => Owned(s)
BY DEF DetectorHasOwner, Owned, Announced, Announces

\* Session numbers are positive.
LEMMA SessionsAre == MaxSessions \in Nat /\ Sessions \subseteq Nat \ {0} /\ \A n \in Nat : n # 0 /\ n <= MaxSessions => n \in Sessions
BY VoiceBounds DEF Sessions

\* Nobody asks for a preparation, takes the job or announces the result.
NoNewToken ==
  /\ First(queue'.finals)
  /\ \A s \in Nat :
       /\ Asked(queue'.finals, s) => Asked(queue.finals, s)
       /\ Prepares(worker', s) => Prepares(worker, s)
       /\ Announced(idle', s) => Announced(idle, s)
       /\ AnnouncedOnce(idle, s) => AnnouncedOnce(idle', s)
  /\ worker'.pc \in {"prepare", "vad", "publish"} => worker'.job.kind = "prepare"

\* No step makes a second token of a session by moving the first.
LEMMA TokensKept ==
  ASSUME VoiceTypeOK, VoiceTypeOK', TokenInv, NoNewToken,
         svc'.session >= svc.session,
         svc'.session = svc.session /\ HasToken(svc.session) =>
           (svc'.active /\ svc'.capture = 0 /\ mainpc' = "ready") \/ ~Tokens(queue'.finals, worker', idle', svc.session),
         svc'.capture # 0 => svc'.capture = svc.capture \/ ~Tokens(queue'.finals, worker', idle', svc'.capture)
  PROVE  TokenInv'
<1>. DEFINE t == svc'.session
<1>1. /\ svc.session \in Nat /\ t \in Nat /\ svc.capture \in Nat /\ svc'.capture \in Nat
  BY DEF VoiceTypeOK, IsService
<1>2. \A s \in Nat : Tokens(queue'.finals, worker', idle', s) => HasToken(s)
  BY DEF NoNewToken, HasToken, Tokens
<1>3. \A s \in Nat : HasToken(s) => s \in Sessions /\ s <= svc.session
  BY DEF TokenInv
<1>4. \A s \in Nat : HasToken(s)' => s \in Sessions /\ s <= t
  BY <1>1, <1>2, <1>3, SessionsAre DEF HasToken
<1>5. CASE t = svc.session
  <2>1. Tokens(queue'.finals, worker', idle', t) => svc'.active /\ svc'.capture = 0 /\ mainpc' = "ready"
    BY <1>1, <1>2, <1>5 DEF HasToken
  <2>2. /\ Asked(queue'.finals, t) => ~Prepares(worker', t) /\ ~Announced(idle', t)
        /\ Prepares(worker', t) => ~Announced(idle', t)
        /\ AnnouncedOnce(idle', t)
    BY <1>1, <1>5 DEF TokenInv, NoNewToken
  <2>3. svc'.capture # 0 => ~Tokens(queue'.finals, worker', idle', svc'.capture)
    BY <1>1, <1>2 DEF TokenInv
  <2>. QED  BY <1>4, <2>1, <2>2, <2>3 DEF TokenInv, NoNewToken, HasToken
<1>6. CASE t # svc.session
  <2>1. ~Tokens(queue'.finals, worker', idle', t)
    BY <1>1, <1>2, <1>3, <1>6
  <2>2. AnnouncedOnce(idle', t)
    BY <2>1 DEF Tokens, Announced, AnnouncedOnce
  <2>3. svc'.capture # 0 => ~Tokens(queue'.finals, worker', idle', svc'.capture)
    BY <1>1, <1>2 DEF TokenInv
  <2>. QED  BY <1>4, <2>1, <2>2, <2>3 DEF TokenInv, NoNewToken, HasToken, Tokens
<1>. QED  BY <1>5, <1>6

\* A detector whose owner goes away is closed by the same step.
LEMMA DetectorsKept ==
  ASSUME VoiceTypeOK, VoiceTypeOK', DetectorInv, svc'.session >= svc.session,
         \A s \in Sessions : vads'[s] = "open" => vads[s] = "open" /\ (Owned(s) => Owned(s)')
  PROVE  DetectorInv'
<1>1. svc.session \in Nat /\ svc'.session \in Nat /\ Sessions \subseteq Nat
  BY SessionsAre DEF VoiceTypeOK, IsService
<1>. QED  BY <1>1, OwnersAre DEF DetectorInv, DetectorHasOwner, Owned, Announced, Announces

\* A step that leaves sessions and devices alone.
LEMMA QuietStep ==
  ASSUME DevicesInv, VoiceTypeOK', NoNewToken, mainpc' = mainpc,
         svc'.session = svc.session, svc'.active = svc.active, svc'.testing = svc.testing,
         svc'.capture = svc.capture, svc'.mic = svc.mic, svc'.prepared = svc.prepared,
         \A s \in Sessions : vads'[s] = "open" => vads[s] = "open",
         worker.pc = "publish" => worker'.pc = "publish" /\ worker'.job = worker.job,
         \A s \in Sessions : Announced(idle, s) => Announced(idle', s),
         svc.mic # 0 => \/ svc'.state = svc.state
                        \/ svc.active /\ svc'.state \in {"listening", "recognizing", "no-speech"},
         svc.testing => svc'.pending = 0 /\ cap'.pc \notin {"put", "counted"}
  PROVE  DevicesInv'
<1>1. TokenInv'
  <2>1. HasToken(svc.session) => svc'.active /\ svc'.capture = 0 /\ mainpc' = "ready"
    BY DEF DevicesInv, TokenInv
  <2>2. svc'.session >= svc.session
    BY DEF DevicesInv, VoiceTypeOK, IsService
  <2>. QED  BY <2>1, <2>2, TokensKept DEF DevicesInv
<1>2. CaptureInv'
  BY DEF DevicesInv, CaptureInv
<1>3. MicrophoneInv'
  BY DEF DevicesInv, MicrophoneInv
<1>4. TestInv'
  BY DEF DevicesInv, TestInv, CaptureInv
<1>5. DetectorInv'
  <2>1. svc'.session >= svc.session
    BY DEF DevicesInv, VoiceTypeOK, IsService
  <2>2. \A s \in Sessions : Owned(s) => Owned(s)'
    BY DEF Owned
  <2>. QED  BY <2>1, <2>2, DetectorsKept DEF DevicesInv
<1>. QED  BY <1>1, <1>2, <1>3, <1>4, <1>5 DEF DevicesInv

\* One more callback of another kind, or none.
LEMMA Tells ==
  ASSUME DevicesInv, NEW fn \in Functions \ {"prepared", "preparation"}, NEW s \in Nat, NEW a \in Arguments
  PROVE  LET q == Append(idle, Callback(fn, s, a))
         IN  /\ q \in Seq(Callbacks)
             /\ \A t \in Nat : /\ Announced(q, t) <=> Announced(idle, t)
                               /\ AnnouncedOnce(idle, t) => AnnouncedOnce(q, t)
<1>1. Callback(fn, s, a) \in Callbacks /\ Callback(fn, s, a).fn # "prepared"
  BY CallbackIs
<1>. QED  BY <1>1, AddCallback DEF DevicesInv, VoiceTypeOK

\* What stays when neither queue nor recognition thread moves.
LEMMA WorkStays ==
  ASSUME DevicesInv, UNCHANGED <<queue, worker>>,
         \A t \in Nat : /\ Announced(idle', t) => Announced(idle, t)
                        /\ AnnouncedOnce(idle, t) => AnnouncedOnce(idle', t)
  PROVE  NoNewToken
BY DEF NoNewToken, DevicesInv, TokenInv

-----------------------------------------------------------------------------
(* The streaming thread *)

\* _consume: what is spoken moves nothing but the phrase.
LEMMA SpeakerKeeps == ASSUME DevicesInv, Speaker PROVE DevicesInv'
<1>1. VoiceTypeOK /\ TestInv /\ MicrophoneInv /\ Sessions \subseteq Nat \ {0}
  BY SessionsAre DEF DevicesInv
<1>2. CASE Onset \/ PhraseComplete \/ PartialDue
  <2>1. UNCHANGED <<svc, mainpc, idle, queue, worker, vads>>
    BY <1>2 DEF Onset, PhraseComplete, PartialDue, CapUnchanged
  <2>2. cap' \in Captures
    <3>1. cap \in Captures /\ svc.mic \in Nat
      BY <1>1 DEF VoiceTypeOK, IsService
    <3>2. CASE Onset
      <4>1. cap.phrase + 1 \in Nat
        BY <3>1 DEF Captures
      <4>2. PICK n \in Nat : cap' = [cap EXCEPT !.speaking = TRUE, !.phrase = n]
        BY <3>2, <4>1 DEF Onset
      <4>. QED  BY <3>1, <4>2 DEF Captures
    <3>3. CASE PhraseComplete
      <4>1. PICK pc \in {"put", "idle"} :
              cap' = [cap EXCEPT !.speaking = FALSE, !.pc = pc, !.session = svc.mic]
        BY <3>3 DEF PhraseComplete
      <4>. QED  BY <3>1, <4>1 DEF Captures
    <3>4. CASE PartialDue
      <4>0. cap.previews + 1 \in Nat
        BY <3>1 DEF Captures
      <4>1. PICK pc \in {"partial", "idle"}, n \in Nat :
              cap' = [cap EXCEPT !.pc = pc, !.session = svc.mic, !.previews = n]
        BY <3>4, <4>0 DEF PartialDue
      <4>. QED  BY <3>1, <4>1 DEF Captures
    <3>. QED  BY <1>2, <3>2, <3>3, <3>4
  <2>3. svc.testing => cap'.pc \notin {"put", "counted"}
    <3>1. ASSUME svc.testing, Listens PROVE FALSE
      BY <1>1, <3>1 DEF Listens, Streams, TestInv, MicrophoneInv
    <3>. QED  BY <1>2, <3>1 DEF Onset, PhraseComplete, PartialDue
  <2>4. VoiceTypeOK'
    BY <1>1, <2>1, <2>2 DEF VoiceTypeOK
  <2>5. NoNewToken
    BY <2>1, WorkStays
  <2>. QED  BY <1>1, <2>1, <2>3, <2>4, <2>5, QuietStep DEF TestInv
<1>3. CASE NobodySpeaks
  <2>1. /\ UNCHANGED <<svc, mainpc, cap, queue, worker, vads>>
        /\ idle' = Append(idle, Callback("noSpeech", svc.mic, 0))
    BY <1>3 DEF NobodySpeaks, CapUnchanged
  <2>2. /\ idle' \in Seq(Callbacks)
        /\ \A t \in Nat : /\ Announced(idle', t) <=> Announced(idle, t)
                          /\ AnnouncedOnce(idle, t) => AnnouncedOnce(idle', t)
    <3>1. svc.mic \in Nat /\ "noSpeech" \in Functions \ {"prepared", "preparation"}
      BY <1>1 DEF VoiceTypeOK, IsService, Functions
    <3>. QED  BY <2>1, <3>1, Tells, ArgumentsAre
  <2>3. VoiceTypeOK' /\ NoNewToken
    BY <1>1, <2>1, <2>2, WorkStays DEF VoiceTypeOK
  <2>. QED  BY <1>1, <2>1, <2>2, <2>3, QuietStep DEF TestInv
<1>. QED  BY <1>2, <1>3 DEF Speaker

\* A failing capture may close its detector and tells the main loop.
LEMMA CaptureErrorsKeeps == ASSUME DevicesInv, CaptureErrors PROVE DevicesInv'
<1>1. VoiceTypeOK /\ TestInv /\ Sessions \subseteq Nat \ {0}
  BY SessionsAre DEF DevicesInv
<1>2. /\ UNCHANGED <<svc, mainpc, queue, worker>> /\ cap' = [cap EXCEPT !.pc = "failed"]
      /\ idle' = Append(idle, Callback("captureFailed", svc.mic, 0))
      /\ vads' = vads \/ vads' = Closed(vads, svc.mic)
  BY DEF CaptureErrors
<1>3. /\ idle' \in Seq(Callbacks)
      /\ \A t \in Nat : /\ Announced(idle', t) <=> Announced(idle, t)
                        /\ AnnouncedOnce(idle, t) => AnnouncedOnce(idle', t)
  <2>1. svc.mic \in Nat /\ "captureFailed" \in Functions \ {"prepared", "preparation"}
    BY <1>1 DEF VoiceTypeOK, IsService, Functions
  <2>. QED  BY <1>2, <2>1, Tells, ArgumentsAre
<1>4. /\ vads' \in [Sessions -> {"none", "open", "closed"}]
      /\ \A s \in Sessions : vads'[s] = "open" => vads[s] = "open"
  BY <1>1, <1>2, ClosedIs DEF VoiceTypeOK
<1>5. cap' \in Captures /\ cap'.pc = "failed"
  BY <1>1, <1>2 DEF VoiceTypeOK, Captures
<1>6. VoiceTypeOK' /\ NoNewToken
  BY <1>1, <1>2, <1>3, <1>4, <1>5, WorkStays DEF VoiceTypeOK
<1>. QED  BY <1>1, <1>2, <1>3, <1>4, <1>5, <1>6, QuietStep DEF TestInv

\* _queue_audio and _queue_partial move jobs, not tokens.
LEMMA CaptureThreadKeeps == ASSUME DevicesInv, CaptureThread PROVE DevicesInv'
<1>1. VoiceTypeOK /\ TestInv /\ First(queue.finals) /\ Sessions \subseteq Nat \ {0}
  BY SessionsAre DEF DevicesInv, TokenInv
<1>2. CASE QueueAudio
  <2>1. /\ svc' = [Invalidated(svc) EXCEPT !.pending = @ + 1]
        /\ worker' = InvalidateRunning(worker) /\ queue' = NoPreview(queue)
        /\ cap' = [cap EXCEPT !.pc = "counted"]
        /\ UNCHANGED <<mainpc, vads, idle>> /\ cap.pc = "put"
    BY <1>2 DEF QueueAudio, CapUnchanged
  <2>2. /\ IsService(svc') /\ svc'.session = svc.session /\ svc'.active = svc.active
        /\ svc'.testing = svc.testing /\ svc'.capture = svc.capture /\ svc'.mic = svc.mic
        /\ svc'.prepared = svc.prepared /\ svc'.state = svc.state
    BY <1>1, <2>1, InvalidatedIs DEF VoiceTypeOK, IsService, Attributes
  <2>3. queue' \in Queues /\ queue'.finals = queue.finals
    BY <1>1, <2>1, QueueIs DEF VoiceTypeOK
  <2>4. cap' \in Captures
    BY <1>1, <2>1 DEF VoiceTypeOK, Captures
  <2>5. worker' \in Workers /\ worker'.pc = worker.pc /\ worker'.job = worker.job
    BY <1>1, <2>1, WorkerIs DEF VoiceTypeOK
  <2>6. VoiceTypeOK'
    BY <1>1, <2>1, <2>2, <2>3, <2>4, <2>5 DEF VoiceTypeOK
  <2>7. NoNewToken
    BY <1>1, <2>1, <2>3, <2>5 DEF NoNewToken, Prepares, DevicesInv, TokenInv
  <2>8. ~svc.testing
    BY <1>1, <2>1 DEF TestInv
  <2>. QED  BY <1>1, <2>1, <2>2, <2>5, <2>6, <2>7, <2>8, QuietStep
<1>5. CASE QueueAudioPut
  <2>1. /\ svc' = [svc EXCEPT !.pending = @ - (IF HasRoom(queue) THEN 0 ELSE 1)]
        /\ queue' = (IF HasRoom(queue) THEN PutFinal(queue, Phrase) ELSE queue)
        /\ idle' = (IF HasRoom(queue) THEN idle ELSE Append(idle, Callback("overloaded", cap.session, 0)))
        /\ cap' = [cap EXCEPT !.pc = IF HasRoom(queue) THEN "notify" ELSE "idle"]
        /\ UNCHANGED <<mainpc, vads, worker>> /\ cap.pc = "counted"
    BY <1>5 DEF QueueAudioPut, CapUnchanged
  <2>2. /\ IsService(svc') /\ svc'.session = svc.session /\ svc'.active = svc.active
        /\ svc'.testing = svc.testing /\ svc'.capture = svc.capture /\ svc'.mic = svc.mic
        /\ svc'.prepared = svc.prepared /\ svc'.state = svc.state
    BY <1>1, <2>1 DEF VoiceTypeOK, IsService, Attributes
  <2>3. /\ queue' \in Queues /\ First(queue'.finals)
        /\ \A s \in Nat : Asked(queue'.finals, s) <=> Asked(queue.finals, s)
    <3>0. cap.session \in Nat /\ cap.phrase \in Nat
      BY <1>1 DEF VoiceTypeOK, Captures
    <3>1. Phrase \in Jobs /\ Phrase.kind # "prepare"
      BY <3>0, JobIs DEF Phrase
    <3>2. /\ PutFinal(queue, Phrase) \in Queues
          /\ PutFinal(queue, Phrase).finals = Append(queue.finals, Phrase)
          /\ queue.finals \in Seq(Jobs) /\ queue \in Queues
      BY <1>1, <3>1, QueueIs DEF VoiceTypeOK, Queues
    <3>3. /\ First(Append(queue.finals, Phrase))
          /\ \A s \in Nat : Asked(Append(queue.finals, Phrase), s) <=> Asked(queue.finals, s)
      BY <1>1, <3>1, <3>2, AddJob
    <3>. QED  BY <1>1, <2>1, <3>2, <3>3
  <2>4. /\ idle' \in Seq(Callbacks)
        /\ \A t \in Nat : /\ Announced(idle', t) <=> Announced(idle, t)
                          /\ AnnouncedOnce(idle, t) => AnnouncedOnce(idle', t)
    <3>1. cap.session \in Nat /\ "overloaded" \in Functions \ {"prepared", "preparation"}
      BY <1>1 DEF VoiceTypeOK, Captures, Functions
    <3>. QED  BY <1>1, <2>1, <3>1, Tells, ArgumentsAre DEF VoiceTypeOK
  <2>5. cap' \in Captures /\ cap'.pc \notin {"put", "counted"}
    BY <1>1, <2>1 DEF VoiceTypeOK, Captures
  <2>6. VoiceTypeOK'
    BY <1>1, <2>1, <2>2, <2>3, <2>4, <2>5 DEF VoiceTypeOK
  <2>7. NoNewToken
    BY <2>1, <2>3, <2>4 DEF NoNewToken, DevicesInv, TokenInv
  <2>8. ~svc.testing
    BY <1>1, <2>1 DEF TestInv
  <2>. QED  BY <1>1, <2>1, <2>2, <2>4, <2>6, <2>7, <2>8, QuietStep
<1>3. CASE QueueAudioNotify
  <2>1. /\ UNCHANGED <<svc, mainpc, queue, worker, vads>> /\ cap' = [cap EXCEPT !.pc = "idle"]
        /\ idle' = Append(idle, Callback("recognizing", cap.session, 0))
    BY <1>3 DEF QueueAudioNotify, CapUnchanged
  <2>2. /\ idle' \in Seq(Callbacks)
        /\ \A t \in Nat : /\ Announced(idle', t) <=> Announced(idle, t)
                          /\ AnnouncedOnce(idle, t) => AnnouncedOnce(idle', t)
    <3>1. cap.session \in Nat /\ "recognizing" \in Functions \ {"prepared", "preparation"}
      BY <1>1 DEF VoiceTypeOK, Captures, Functions
    <3>. QED  BY <2>1, <3>1, Tells, ArgumentsAre
  <2>3. cap' \in Captures /\ cap'.pc = "idle"
    BY <1>1, <2>1 DEF VoiceTypeOK, Captures
  <2>4. VoiceTypeOK' /\ NoNewToken
    BY <1>1, <2>1, <2>2, <2>3, WorkStays DEF VoiceTypeOK
  <2>. QED  BY <1>1, <2>1, <2>2, <2>3, <2>4, QuietStep DEF TestInv
<1>4. CASE QueuePartial
  <2>1. /\ svc' = [svc EXCEPT !.generation = @ + 1] /\ cap' = [cap EXCEPT !.pc = "idle"]
        /\ queue' = PutPartial(queue, Job("partial", cap.session, svc.generation + 1, cap.phrase))
        /\ UNCHANGED <<mainpc, idle, worker, vads>>
    BY <1>4 DEF QueuePartial, CapUnchanged
  <2>2. /\ IsService(svc') /\ svc'.session = svc.session /\ svc'.active = svc.active
        /\ svc'.testing = svc.testing /\ svc'.capture = svc.capture /\ svc'.mic = svc.mic
        /\ svc'.prepared = svc.prepared /\ svc'.state = svc.state /\ svc'.pending = svc.pending
    BY <1>1, <2>1 DEF VoiceTypeOK, IsService, Attributes
  <2>3. queue' \in Queues /\ queue'.finals = queue.finals
    <3>1. Job("partial", cap.session, svc.generation + 1, cap.phrase) \in Previews
      <4>1. cap.session \in Nat /\ cap.phrase \in Nat /\ svc.generation + 1 \in Nat
        BY <1>1 DEF VoiceTypeOK, Captures, IsService
      <4>2. PICK g \in Nat : g = svc.generation + 1
        BY <4>1
      <4>3. /\ Job("partial", cap.session, g, cap.phrase) \in Jobs
            /\ Job("partial", cap.session, g, cap.phrase).kind = "partial"
        BY <4>1 DEF Job, Jobs
      <4>4. Job("partial", cap.session, g, cap.phrase) \in Previews
        BY <4>3 DEF Previews
      <4>. QED  BY <4>2, <4>4
    <3>. QED  BY <1>1, <2>1, <3>1, QueueIs DEF VoiceTypeOK
  <2>4. cap' \in Captures /\ cap'.pc = "idle"
    BY <1>1, <2>1 DEF VoiceTypeOK, Captures
  <2>5. VoiceTypeOK'
    BY <1>1, <2>1, <2>2, <2>3, <2>4 DEF VoiceTypeOK
  <2>6. NoNewToken
    BY <1>1, <2>1, <2>3 DEF NoNewToken, DevicesInv, TokenInv
  <2>. QED  BY <1>1, <2>1, <2>2, <2>4, <2>5, <2>6, QuietStep DEF TestInv
<1>. QED  BY <1>2, <1>3, <1>4, <1>5 DEF CaptureThread

-----------------------------------------------------------------------------
(* The recognition thread *)

\* get: a prepare job moves from the queue to the thread.
LEMMA WorkerGetKeeps == ASSUME DevicesInv, WorkerGet PROVE DevicesInv'
<1>1. /\ VoiceTypeOK /\ TokenInv /\ TestInv /\ First(queue.finals) /\ Sessions \subseteq Nat \ {0}
      /\ worker \in Workers /\ queue \in Queues /\ queue.finals \in Seq(Jobs) /\ queue.partial \in Previews
      /\ svc.session \in Nat /\ svc.capture \in Nat
  BY SessionsAre DEF DevicesInv, TokenInv, VoiceTypeOK, Queues, IsService
<1>2. UNCHANGED <<svc, mainpc, cap, idle, vads>> /\ worker.pc = "get"
  BY DEF WorkerGet, WorkUnchanged
<1>3. ASSUME queue' \in Queues, First(queue'.finals),
             \A s \in Nat : Asked(queue'.finals, s) => Asked(queue.finals, s),
             worker' \in Workers, worker'.pc \notin {"prepare", "vad", "publish"},
             \A s \in Nat : Prepares(worker', s) => Prepares(worker, s)
      PROVE  DevicesInv'
  <2>1. VoiceTypeOK' /\ NoNewToken
    BY <1>1, <1>2, <1>3 DEF VoiceTypeOK, NoNewToken
  <2>. QED  BY <1>1, <1>2, <2>1, QuietStep DEF TestInv
<1>4. CASE worker' = [worker EXCEPT !.pc = "exited"] /\ UNCHANGED queue
  BY <1>1, <1>3, <1>4 DEF Workers, Prepares
<1>5. CASE /\ queue.finals # <<>> /\ queue' = [queue EXCEPT !.finals = Tail(@)]
           /\ \/ worker' = worker
              \/ worker' = [worker EXCEPT !.pc = "register", !.job = Head(queue.finals)]
  <2>1. /\ Tail(queue.finals) \in Seq(Jobs) /\ Head(queue.finals) \in Jobs
        /\ Head(queue.finals) = queue.finals[1] /\ First(Tail(queue.finals))
        /\ \A s \in Nat : ~Asked(Tail(queue.finals), s)
    BY <1>1, <1>5, TakeJob
  <2>2. queue' \in Queues /\ queue'.finals = Tail(queue.finals)
    BY <1>1, <1>5, <2>1 DEF Queues
  <2>3. CASE worker' = worker
    <3>1. worker.pc \notin {"prepare", "vad", "publish"}
      BY <1>2
    <3>. QED  BY <1>1, <1>3, <2>1, <2>2, <2>3, <3>1
  <2>4. CASE worker' = [worker EXCEPT !.pc = "register", !.job = Head(queue.finals)]
    <3>1. worker' \in Workers /\ worker'.pc = "register" /\ worker'.job = queue.finals[1]
      BY <1>1, <2>1, <2>4 DEF Workers
    <3>2. VoiceTypeOK'
      BY <1>1, <1>2, <2>2, <3>1 DEF VoiceTypeOK
    <3>3. \A s \in Nat : Prepares(worker', s) => Asked(queue.finals, s)
      BY <1>5, <3>1 DEF Prepares, Asked
    <3>4. \A s \in Nat : Tokens(queue'.finals, worker', idle', s) => HasToken(s)
      BY <1>2, <2>1, <2>2, <3>3 DEF HasToken, Tokens
    <3>5. TokenInv'
      BY <1>1, <1>2, <2>1, <2>2, <3>1, <3>3, <3>4 DEF TokenInv, HasToken
    <3>6. CaptureInv' /\ MicrophoneInv' /\ TestInv'
      BY <1>2 DEF DevicesInv, CaptureInv, MicrophoneInv, TestInv
    <3>7. DetectorInv'
      <4>1. \A s \in Sessions : Owned(s) => Owned(s)'
        BY <1>2 DEF Owned
      <4>2. svc'.session >= svc.session
        BY <1>1, <1>2
      <4>. QED  BY <1>1, <1>2, <3>2, <4>1, <4>2, DetectorsKept DEF DevicesInv
    <3>. QED  BY <3>2, <3>5, <3>6, <3>7 DEF DevicesInv
  <2>. QED  BY <1>5, <2>3, <2>4
<1>6. CASE /\ queue' = NoPreview(queue)
           /\ worker' = worker \/ worker' = [worker EXCEPT !.pc = "register", !.job = queue.partial]
  <2>1. queue' \in Queues /\ queue'.finals = queue.finals
    BY <1>1, <1>6, QueueIs
  <2>2. /\ worker' \in Workers /\ worker'.pc \in {"get", "register"}
        /\ worker'.job = worker.job \/ worker'.job.kind # "prepare"
    BY <1>1, <1>2, <1>6 DEF Workers, Previews
  <2>3. \A s \in Nat : Prepares(worker', s) => Prepares(worker, s)
    BY <2>2 DEF Prepares
  <2>. QED  BY <1>1, <1>3, <2>1, <2>2, <2>3
<1>. QED  BY <1>4, <1>5, <1>6 DEF WorkerGet

\* A step of the thread after which it holds its job, or none.
LEMMA WorkerQuiet ==
  ASSUME DevicesInv, UNCHANGED <<svc, mainpc, cap, queue, vads>>, worker.pc # "publish",
         worker' \in Workers, worker'.pc # "publish",
         worker'.job = worker.job \/ worker'.job = NoJob,
         worker'.pc \in {"prepare", "vad"} => worker'.job.kind = "prepare",
         idle' \in Seq(Callbacks),
         \A t \in Nat : /\ Announced(idle', t) <=> Announced(idle, t)
                        /\ AnnouncedOnce(idle, t) => AnnouncedOnce(idle', t)
  PROVE  DevicesInv'
<1>1. Sessions \subseteq Nat /\ VoiceTypeOK' /\ First(queue'.finals)
  BY SessionsAre DEF DevicesInv, VoiceTypeOK, TokenInv
<1>2. \A s \in Nat : Prepares(worker', s) => Prepares(worker, s)
  BY JobIs DEF Prepares
<1>3. NoNewToken
  BY <1>1, <1>2 DEF NoNewToken
<1>. QED  BY <1>1, <1>3, QuietStep DEF DevicesInv, TestInv

\* What a preparation tells the main loop, in the order of its steps.
LEMMA PreparationTells ==
  ASSUME DevicesInv, WorkerPrepare
  PROVE  \E told \in Seq(Callbacks) :
           /\ idle' = idle \o told
           /\ \A i \in DOMAIN told :
                /\ told[i].fn \in {"preparation", "failed"} /\ told[i].fn # "prepared"
                /\ told[i].session = worker.job.session
                /\ told[i].fn = "failed" => worker' = Idle(worker)
<1>1. worker.job.session \in Nat /\ idle \in Seq(Callbacks)
  BY DEF DevicesInv, VoiceTypeOK, Workers, Jobs
<1>2. PICK r \in {"ok", "cancelled", "error"}, measured \in BOOLEAN :
        /\ worker' = (IF r = "ok" THEN [worker EXCEPT !.pc = "vad"] ELSE Idle(worker))
        /\ idle' = idle \o ((IF measured THEN <<Callback("preparation", worker.job.session, "calibrating")>> ELSE <<>>)
                            \o <<Callback("preparation", worker.job.session, "preparing")>>
                            \o (IF r = "error" THEN <<Callback("failed", worker.job.session, 0)>> ELSE <<>>))
  BY DEF WorkerPrepare
<1>3. PICK c \in Callbacks, p \in Callbacks, f \in Callbacks :
        /\ c = Callback("preparation", worker.job.session, "calibrating")
        /\ p = Callback("preparation", worker.job.session, "preparing")
        /\ f = Callback("failed", worker.job.session, 0)
        /\ c.fn = "preparation" /\ p.fn = "preparation" /\ f.fn = "failed"
        /\ c.session = worker.job.session /\ p.session = worker.job.session /\ f.session = worker.job.session
  <2>1. {"preparation", "failed"} \subseteq Functions
    BY DEF Functions
  <2>. QED  BY <1>1, <2>1, CallbackIs, ArgumentsAre
<1>. DEFINE told == (IF measured THEN <<c>> ELSE <<>>) \o <<p>> \o (IF r = "error" THEN <<f>> ELSE <<>>)
<1>4. PICK S \in {{c, p}, {c, p, f}} : told \in Seq(S) /\ (r # "error" => S = {c, p})
  <2>1. ASSUME NEW S, c \in S, p \in S, f \in S \/ r # "error" PROVE told \in Seq(S)
    <3>1. <<c>> \in Seq(S) /\ <<p>> \in Seq(S) /\ (f \in S => <<f>> \in Seq(S)) /\ <<>> \in Seq(S)
      BY <2>1
    <3>2. PICK a \in Seq(S) : a = (IF measured THEN <<c>> ELSE <<>>)
      BY <3>1, Zenon
    <3>3. PICK b \in Seq(S) : b = (IF r = "error" THEN <<f>> ELSE <<>>)
      BY <2>1, <3>1, Zenon
    <3>4. a \o <<p>> \o b \in Seq(S)
      BY <3>1
    <3>. QED  BY <3>2, <3>3, <3>4
  <2>. QED  BY <2>1
<1>5. idle' = idle \o told
  BY <1>2, <1>3
<1>. HIDE DEF told
<1>6. \A i \in DOMAIN told : told[i] \in S
  BY <1>4
<1>7. told \in Seq(Callbacks)
  BY <1>3, <1>4
<1>8. r = "error" => worker' = Idle(worker)
  BY <1>2
<1>9. \A d \in S : /\ d.fn \in {"preparation", "failed"} /\ d.fn # "prepared" /\ d.session = worker.job.session
                   /\ d.fn = "failed" => worker' = Idle(worker)
  BY <1>3, <1>4, <1>8
<1>. QED  BY <1>5, <1>6, <1>7, <1>9

\* What a transcription tells the main loop, if anything: only a phrase that
\* fails is blamed.
LEMMA RunTells ==
  ASSUME DevicesInv, WorkerRun
  PROVE  \/ idle' = idle
         \/ \E c \in Callbacks :
              /\ idle' = Append(idle, c) /\ c.fn # "prepared" /\ c.session = worker.job.session
              /\ c.fn \in {"partial", "finished"} \/ (c.fn = "failed" /\ worker.job.kind = "final")
<1>1. worker.job \in Jobs /\ worker.job.session \in Nat /\ worker.job.phrase \in Nat
  BY DEF DevicesInv, VoiceTypeOK, Workers, Jobs
<1>2. PICK r \in {"text", "cancelled", "error", "empty", "stop"} : idle' = Result(worker.job, r)
  BY DEF WorkerRun
<1>3. {"failed", "partial", "finished"} \subseteq Functions
  BY DEF Functions
<1>4. ASSUME NEW fn \in {"failed", "partial", "finished"}, NEW a \in Arguments
      PROVE  \E c \in Callbacks : /\ c = Callback(fn, worker.job.session, a)
                                  /\ c.fn = fn /\ c.session = worker.job.session
  BY <1>1, <1>3, CallbackIs
<1>5. CASE r \in {"error", "cancelled"}
  <2>1. \/ idle' = idle
        \/ worker.job.kind = "final" /\ idle' = Append(idle, Callback("failed", worker.job.session, 0))
    BY <1>2, <1>5 DEF Result, FailedCallback
  <2>. QED  BY <1>4, <2>1, ArgumentsAre
<1>6. CASE r \notin {"error", "cancelled"} /\ worker.job.kind = "partial"
  <2>1. idle' = Append(idle, Callback("partial", worker.job.session, worker.job))
    BY <1>2, <1>6 DEF Result
  <2>2. worker.job \in Arguments
    BY <1>1, ArgumentsAre
  <2>. QED  BY <1>4, <2>1, <2>2
<1>7. CASE r \notin {"error", "cancelled"} /\ worker.job.kind # "partial"
  <2>1. idle' = Append(idle, Callback("finished", worker.job.session, [phrase |-> worker.job.phrase, text |-> r]))
    BY <1>2, <1>7 DEF Result
  <2>2. [phrase |-> worker.job.phrase, text |-> r] \in Texts
    BY <1>1, <1>2, <1>7 DEF Texts
  <2>3. PICK a \in Arguments : a = [phrase |-> worker.job.phrase, text |-> r]
    BY <2>2, ArgumentsAre, Zenon
  <2>. QED  BY <1>4, <2>1, <2>3
<1>. QED  BY <1>5, <1>6, <1>7

\* Nothing but the thread and its callbacks: registering, preparing, transcribing.
LEMMA WorkerGoesOn == ASSUME DevicesInv, WorkerRegister \/ WorkerPrepare \/ WorkerRun PROVE DevicesInv'
<1>1. /\ worker \in Workers /\ idle \in Seq(Callbacks) /\ worker.job \in Jobs /\ worker.job.session \in Nat
      /\ worker.job.phrase \in Nat /\ (worker.pc \in {"prepare", "vad", "publish"} => worker.job.kind = "prepare")
  BY DEF DevicesInv, VoiceTypeOK, TokenInv, Workers, Jobs
<1>2. Idle(worker) \in Workers /\ Idle(worker).pc = "get" /\ Idle(worker).job = NoJob
  BY <1>1, WorkerIs
<1>3. CASE WorkerRegister
  <2>1. UNCHANGED <<svc, mainpc, cap, queue, vads, idle>> /\ worker.pc = "register"
    BY <1>3 DEF WorkerRegister, WorkUnchanged
  <2>2. CASE worker' = Idle(worker)
    BY <1>1, <1>2, <2>1, <2>2, WorkerQuiet
  <2>3. CASE worker' = [worker EXCEPT !.cancel = "clear",
                                      !.pc = IF worker.job.kind = "prepare" THEN "prepare" ELSE "run"]
    <3>1. PICK pc \in {"prepare", "run"} : /\ worker' = [worker EXCEPT !.cancel = "clear", !.pc = pc]
                                           /\ pc = "prepare" => worker.job.kind = "prepare"
      BY <2>3
    <3>2. worker' \in Workers /\ worker'.pc = pc /\ worker'.job = worker.job
      BY <1>1, <3>1 DEF Workers
    <3>. QED  BY <1>1, <2>1, <3>1, <3>2, WorkerQuiet
  <2>. QED  BY <1>3, <2>2, <2>3 DEF WorkerRegister
<1>4. CASE WorkerPrepare
  <2>1. UNCHANGED <<svc, mainpc, cap, queue, vads>> /\ worker.pc = "prepare"
    BY <1>4 DEF WorkerPrepare, WorkUnchanged
  <2>2. PICK told \in Seq(Callbacks) : idle' = idle \o told /\ \A i \in DOMAIN told : told[i].fn # "prepared"
    BY <1>4, PreparationTells
  <2>3. /\ idle' \in Seq(Callbacks)
        /\ \A t \in Nat : /\ Announced(idle', t) <=> Announced(idle, t)
                          /\ AnnouncedOnce(idle, t) => AnnouncedOnce(idle', t)
    BY SMTT(40), <1>1, <2>2, AddCallbacks
  <2>4. worker' \in Workers /\ worker'.pc \in {"vad", "get"} /\ (worker'.job = worker.job \/ worker'.job = NoJob)
        /\ (worker'.pc = "vad" => worker'.job = worker.job)
    <3>1. CASE worker' = [worker EXCEPT !.pc = "vad"]
      BY <1>1, <3>1 DEF Workers
    <3>2. CASE worker' = Idle(worker)
      BY <1>2, <3>2
    <3>. QED  BY <1>4, <3>1, <3>2 DEF WorkerPrepare
  <2>. QED  BY SMTT(40), <1>1, <2>1, <2>3, <2>4, WorkerQuiet
<1>5. CASE WorkerRun
  <2>1. UNCHANGED <<svc, mainpc, cap, queue, vads>> /\ worker.pc = "run" /\ worker' = Idle(worker)
    BY <1>5 DEF WorkerRun, WorkUnchanged
  <2>2. \/ idle' = idle
        \/ \E c \in Callbacks : c.fn # "prepared" /\ idle' = Append(idle, c)
    BY <1>5, RunTells
  <2>3. /\ idle' \in Seq(Callbacks)
        /\ \A t \in Nat : /\ Announced(idle', t) <=> Announced(idle, t)
                          /\ AnnouncedOnce(idle, t) => AnnouncedOnce(idle', t)
    BY <1>1, <2>2, AddCallback
  <2>. QED  BY <1>1, <1>2, <2>1, <2>3, WorkerQuiet
<1>. QED  BY <1>3, <1>4, <1>5

\* VadEngine.start: the detector that opens belongs to the thread.
LEMMA WorkerVadKeeps == ASSUME DevicesInv, WorkerVad PROVE DevicesInv'
<1>1. /\ VoiceTypeOK /\ TokenInv /\ worker \in Workers /\ idle \in Seq(Callbacks) /\ worker.job.session \in Nat
      /\ worker.pc = "vad" /\ worker.job.kind = "prepare" /\ Sessions \subseteq Nat \ {0}
      /\ UNCHANGED <<svc, mainpc, cap, queue>>
      /\ svc.session \in Nat /\ svc.capture \in Nat
  BY SessionsAre DEF DevicesInv, VoiceTypeOK, TokenInv, Workers, Jobs, WorkerVad, IsService
<1>2. Idle(worker) \in Workers /\ Idle(worker).pc = "get" /\ Idle(worker).job = NoJob
  BY <1>1, WorkerIs
<1>3. CASE worker' = Idle(worker) /\ UNCHANGED <<idle, vads>>
  BY <1>1, <1>2, <1>3, WorkerQuiet
<1>4. CASE worker' = Idle(worker) /\ idle' = FailedCallback /\ UNCHANGED vads
  <2>1. "failed" \in Functions \ {"prepared", "preparation"} /\ idle' = Append(idle, Callback("failed", worker.job.session, 0))
    BY <1>4 DEF Functions, FailedCallback
  <2>2. /\ idle' \in Seq(Callbacks)
        /\ \A t \in Nat : /\ Announced(idle', t) <=> Announced(idle, t)
                          /\ AnnouncedOnce(idle, t) => AnnouncedOnce(idle', t)
    BY <1>1, <2>1, Tells, ArgumentsAre
  <2>. QED  BY <1>1, <1>2, <1>4, <2>2, WorkerQuiet
<1>5. CASE /\ vads' = [vads EXCEPT ![worker.job.session] = "open"]
           /\ worker' = [worker EXCEPT !.pc = "publish"] /\ UNCHANGED idle
  <2>. DEFINE o == worker.job.session
  <2>1. HasToken(o) /\ o \in Sessions /\ o <= svc.session /\ o # svc.capture
    BY <1>1 DEF TokenInv, HasToken, Tokens, Prepares
  <2>2. worker' \in Workers /\ worker'.pc = "publish" /\ worker'.job = worker.job
    BY <1>1, <1>5 DEF Workers
  <2>3. /\ vads' \in [Sessions -> {"none", "open", "closed"}]
        /\ \A s \in Sessions : vads'[s] = "open" <=> vads[s] = "open" \/ s = o
    BY <1>1, <1>5, <2>1 DEF VoiceTypeOK
  <2>4. VoiceTypeOK'
    BY <1>1, <1>5, <2>2, <2>3 DEF VoiceTypeOK
  <2>5. TokenInv'
    BY <1>1, <1>5, <2>2 DEF TokenInv, HasToken, Tokens, Prepares
  <2>6. CaptureInv' /\ MicrophoneInv'
    BY <1>1 DEF DevicesInv, CaptureInv, MicrophoneInv
  <2>7. TestInv'
    BY <1>1, <2>1, <2>3 DEF DevicesInv, TestInv, CaptureInv
  <2>8. DetectorInv'
    <3>1. \A s \in Sessions : vads'[s] = "open" => s <= svc'.session
      BY <1>1, <2>1, <2>3 DEF DevicesInv, DetectorInv
    <3>2. \A s \in Sessions : vads'[s] = "open" => Owned(s)'
      BY <1>1, <1>5, <2>2, <2>3, OwnersAre DEF DevicesInv, DetectorInv, Owned
    <3>. QED  BY <3>1, <3>2 DEF DetectorInv, DetectorHasOwner, Owned, Announced, Announces
  <2>. QED  BY <2>4, <2>5, <2>6, <2>7, <2>8 DEF DevicesInv
<1>. QED  BY <1>3, <1>4, <1>5 DEF WorkerVad

\* Under work_lock: the thread gives its detector to the main loop or closes it.
LEMMA WorkerPublishKeeps == ASSUME DevicesInv, WorkerPublish PROVE DevicesInv'
<1>. DEFINE o == worker.job.session
<1>1. /\ VoiceTypeOK /\ TokenInv /\ worker \in Workers /\ idle \in Seq(Callbacks) /\ o \in Nat
      /\ worker.pc = "publish" /\ worker.job.kind = "prepare" /\ Sessions \subseteq Nat \ {0}
      /\ UNCHANGED <<mainpc, cap, queue>> /\ worker' = Idle(worker)
      /\ svc.session \in Nat /\ svc.capture \in Nat /\ IsService(svc)
  BY SessionsAre DEF DevicesInv, VoiceTypeOK, TokenInv, Workers, Jobs, WorkerPublish, IsService
<1>2. /\ worker' \in Workers /\ worker'.pc = "get" /\ worker'.job = NoJob
      /\ \A s \in Nat : ~Prepares(worker', s)
  BY <1>1, WorkerIs, JobIs DEF Prepares
<1>3. HasToken(o) /\ o \in Sessions /\ o <= svc.session /\ Prepares(worker, o)
  BY <1>1 DEF TokenInv, HasToken, Tokens, Prepares
<1>4. CASE Abandoned
  <2>1. vads' = Closed(vads, o) /\ UNCHANGED <<svc, idle>>
    BY <1>4 DEF WorkerPublish
  <2>2. /\ vads' \in [Sessions -> {"none", "open", "closed"}]
        /\ \A s \in Sessions : vads'[s] = "open" <=> vads[s] = "open" /\ s # o
    BY <1>1, <2>1, ClosedIs DEF VoiceTypeOK
  <2>3. VoiceTypeOK'
    BY <1>1, <1>2, <2>1, <2>2 DEF VoiceTypeOK
  <2>4. NoNewToken
    BY <1>1, <1>2, <2>1 DEF NoNewToken, TokenInv
  <2>5. TokenInv'
    <3>1. HasToken(svc.session) => svc'.active /\ svc'.capture = 0 /\ mainpc' = "ready"
      BY <1>1, <2>1 DEF TokenInv
    <3>2. svc'.session >= svc.session
      BY <1>1, <2>1
    <3>. QED  BY <1>1, <2>1, <2>3, <2>4, <3>1, <3>2, TokensKept
  <2>6. CaptureInv' /\ MicrophoneInv'
    BY <1>1, <2>1 DEF DevicesInv, CaptureInv, MicrophoneInv
  <2>7. TestInv'
    BY <1>1, <2>1, <2>2 DEF DevicesInv, TestInv, CaptureInv
  <2>8. DetectorInv'
    <3>1. \A s \in Sessions : vads'[s] = "open" => vads[s] = "open" /\ (Owned(s) => Owned(s)')
      BY <1>1, <2>1, <2>2 DEF Owned
    <3>2. svc'.session >= svc.session
      BY <1>1, <2>1
    <3>. QED  BY <1>1, <2>3, <3>1, <3>2, DetectorsKept DEF DevicesInv
  <2>. QED  BY <2>3, <2>5, <2>6, <2>7, <2>8 DEF DevicesInv
<1>5. CASE ~Abandoned
  <2>1. /\ svc' = [svc EXCEPT !.prepared = o] /\ UNCHANGED vads
        /\ idle' = Append(idle, Callback("prepared", o, 0)) /\ o = svc.session
    BY <1>5 DEF WorkerPublish, Abandoned
  <2>2. /\ IsService(svc') /\ svc'.session = svc.session /\ svc'.active = svc.active
        /\ svc'.testing = svc.testing /\ svc'.capture = svc.capture /\ svc'.mic = svc.mic
        /\ svc'.prepared = o /\ svc'.state = svc.state /\ svc'.pending = svc.pending
    BY <1>1, <2>1 DEF IsService, Attributes
  <2>3. /\ Callback("prepared", o, 0) \in Callbacks /\ Callback("prepared", o, 0).fn = "prepared"
        /\ Callback("prepared", o, 0).session = o
    <3>1. "prepared" \in Functions
      BY DEF Functions
    <3>. QED  BY <1>1, <3>1, CallbackIs, ArgumentsAre
  <2>4. /\ idle' \in Seq(Callbacks) /\ Announced(idle', o)
        /\ ~Announced(idle, o) => AnnouncedOnce(idle', o)
        /\ \A s \in Nat : s # o => (Announced(idle', s) <=> Announced(idle, s))
    BY <1>1, <2>1, <2>3, AddCallback
  <2>5. ~Announced(idle, o) /\ ~Asked(queue.finals, o) /\ svc.active /\ svc.capture = 0 /\ mainpc = "ready"
    BY <1>1, <1>3, <2>1 DEF TokenInv
  <2>6. VoiceTypeOK'
    BY <1>1, <1>2, <2>1, <2>2, <2>4 DEF VoiceTypeOK
  <2>7. \A s \in Nat : Tokens(queue'.finals, worker', idle', s) => HasToken(s)
    BY <1>1, <1>2, <1>3, <2>4 DEF HasToken, Tokens
  <2>8. TokenInv'
    BY <1>1, <1>2, <2>1, <2>2, <2>4, <2>5, <2>7 DEF TokenInv, HasToken
  <2>9. CaptureInv' /\ MicrophoneInv' /\ TestInv'
    BY <1>1, <2>1, <2>2, <2>5 DEF DevicesInv, CaptureInv, MicrophoneInv, TestInv
  <2>10. DetectorInv'
    <3>1. \A s \in Sessions : vads'[s] = "open" => vads[s] = "open" /\ (Owned(s) => Owned(s)')
      <4>. SUFFICES ASSUME NEW s \in Sessions, vads'[s] = "open", Owned(s) PROVE Owned(s)'
        BY <2>1
      <4>1. s \in Nat /\ svc.prepared \in {0, svc.session} /\ s # 0
        BY <1>1 DEF DevicesInv, CaptureInv
      <4>2. CASE s = o
        BY <2>2, <4>2 DEF Owned
      <4>3. CASE s # o
        BY <1>1, <2>1, <2>2, <2>4, <4>1, <4>3 DEF Owned
      <4>. QED  BY <4>2, <4>3
    <3>2. svc'.session >= svc.session
      BY <1>1, <2>2
    <3>. QED  BY <1>1, <2>6, <3>1, <3>2, DetectorsKept DEF DevicesInv
  <2>. QED  BY <2>6, <2>8, <2>9, <2>10 DEF DevicesInv
<1>. QED  BY <1>4, <1>5

-----------------------------------------------------------------------------
(* The main loop *)

\* _cancel_work: the queue is empty, the running job cancelled, and the
\* detector that waits for its capture closed.
LEMMA CancelIs ==
  ASSUME DevicesInv, NEW p \in Nat,
         worker' = CancelRunning(worker), queue' = Cleared(queue), vads' = Closed(vads, p)
  PROVE  /\ worker' \in Workers /\ worker'.pc = worker.pc /\ worker'.job = worker.job
         /\ queue' \in Queues /\ First(queue'.finals) /\ \A s \in Nat : ~Asked(queue'.finals, s)
         /\ vads' \in [Sessions -> {"none", "open", "closed"}]
         /\ \A s \in Sessions : vads'[s] = "open" <=> vads[s] = "open" /\ s # p
         /\ \A s \in Nat : Prepares(worker', s) <=> Prepares(worker, s)
<1>1. /\ worker \in Workers /\ queue \in Queues /\ First(queue.finals)
      /\ vads \in [Sessions -> {"none", "open", "closed"}]
  BY DEF DevicesInv, VoiceTypeOK, TokenInv
<1>2. worker' \in Workers /\ worker'.pc = worker.pc /\ worker'.job = worker.job
  BY <1>1, WorkerIs
<1>3. queue' \in Queues /\ queue'.finals = <<>>
  BY <1>1, QueueIs
<1>. QED  BY <1>1, <1>2, <1>3, EmptyQueue, ClosedIs DEF Prepares

\* The callbacks after one of them was dispatched, or none.
Dispatched ==
  /\ idle' \in Seq(Callbacks)
  /\ \A t \in Nat : /\ Announced(idle', t) => Announced(idle, t)
                    /\ AnnouncedOnce(idle, t) => AnnouncedOnce(idle', t)
\* The main loop takes the first callback; _prepared consumes its announcement.
LEMMA DispatchIs ==
  ASSUME DevicesInv, NEW fn, Dispatch(fn)
  PROVE  /\ Dispatched /\ Ready /\ Head(idle) \in Callbacks /\ Head(idle).fn = fn /\ Head(idle).session \in Nat
         /\ fn # "prepared" => \A t \in Nat : Announced(idle', t) <=> Announced(idle, t)
         /\ fn = "prepared" => \A t \in Nat :
              /\ t # Head(idle).session => (Announced(idle', t) <=> Announced(idle, t))
              /\ t = Head(idle).session => Announced(idle, t)
              /\ t = Head(idle).session /\ AnnouncedOnce(idle, t) => ~Announced(idle', t)
<1>1. /\ idle \in Seq(Callbacks) /\ idle # <<>> /\ idle' = Tail(idle) /\ Head(idle).fn = fn /\ Ready
  BY DEF Dispatch, DevicesInv, VoiceTypeOK
<1>2. Head(idle) \in Callbacks /\ Head(idle).session \in Nat
  BY <1>1, DropCallback DEF Callbacks
<1>. QED  BY <1>1, <1>2, DropCallback DEF Dispatched, Announces

\* A call from the bus dispatches nothing.
LEMMA NothingDispatched == ASSUME DevicesInv, UNCHANGED idle PROVE Dispatched
BY DEF DevicesInv, VoiceTypeOK, Dispatched

\* stop, stop_test, _capture_failed and _quit up to the join: the session is
\* retired, whatever it waits for.
LEMMA EndingKeeps ==
  ASSUME DevicesInv, mainpc = "ready", Dispatched, UNCHANGED cap, NEW p \in Nat, svc.prepared \in {0, p},
         worker' = CancelRunning(worker), queue' = Cleared(queue), vads' = Closed(vads, p),
         \A s \in Nat : Announced(idle, s) => Announced(idle', s) \/ s = p,
         IsService(svc'), svc'.session = svc.session + 1, svc'.capture = svc.capture,
         svc'.mic = 0, svc'.prepared = 0, svc'.active = FALSE, svc'.testing = FALSE,
         mainpc' \in {"stop", "start", "startTest", "quit", "captureFailed"},
         mainpc' = "start" => svc.testing,
         mainpc' \in {"start", "startTest"} => svc'.session < MaxSessions
  PROVE  DevicesInv'
<1>1. /\ VoiceTypeOK /\ TokenInv /\ CaptureInv /\ TestInv /\ DetectorInv /\ Sessions \subseteq Nat \ {0}
      /\ svc.session \in Nat /\ svc.capture \in Nat /\ svc.prepared \in Nat
  BY SessionsAre DEF DevicesInv, VoiceTypeOK, IsService
<1>2. /\ worker' \in Workers /\ worker'.pc = worker.pc /\ worker'.job = worker.job
      /\ queue' \in Queues /\ First(queue'.finals) /\ \A s \in Nat : ~Asked(queue'.finals, s)
      /\ vads' \in [Sessions -> {"none", "open", "closed"}]
      /\ \A s \in Sessions : vads'[s] = "open" <=> vads[s] = "open" /\ s # p
      /\ \A s \in Nat : Prepares(worker', s) <=> Prepares(worker, s)
  BY <1>1, CancelIs
<1>3. VoiceTypeOK'
  BY <1>1, <1>2 DEF VoiceTypeOK, Dispatched, MainPlaces
<1>4. NoNewToken
  BY <1>1, <1>2 DEF NoNewToken, Dispatched, TokenInv
<1>5. svc'.session >= svc.session /\ svc'.session # svc.session
  BY <1>1
<1>6. TokenInv'
  BY <1>1, <1>3, <1>4, <1>5, TokensKept
<1>7. CaptureInv'
  BY <1>1 DEF CaptureInv
<1>8. MicrophoneInv' /\ TestInv'
  BY <1>1, <1>2 DEF MicrophoneInv, TestInv, CaptureInv
<1>9. DetectorInv'
  <2>1. \A s \in Sessions : vads'[s] = "open" => vads[s] = "open" /\ (Owned(s) => Owned(s)')
    BY <1>1, <1>2 DEF Owned
  <2>. QED  BY <1>1, <1>3, <1>5, <2>1, DetectorsKept
<1>. QED  BY <1>3, <1>6, <1>7, <1>8, <1>9 DEF DevicesInv

\* The join of a handler that has ended its session: the capture and its
\* detector are gone.
LEMMA JoinKeeps == ASSUME DevicesInv, StopEnd \/ CaptureFailedEnd \/ QuitPut PROVE DevicesInv'
<1>1. /\ VoiceTypeOK /\ TokenInv /\ CaptureInv /\ MicrophoneInv /\ TestInv /\ DetectorInv
      /\ Sessions \subseteq Nat \ {0} /\ IsService(svc) /\ cap \in Captures /\ queue \in Queues
      /\ svc.session \in Nat /\ svc.capture \in Nat /\ svc.prepared \in Nat
  BY SessionsAre DEF DevicesInv, VoiceTypeOK, IsService
<1>2. /\ mainpc \in {"stop", "captureFailed", "quit"} /\ mainpc' \in {"ready", "joinWorker"}
      /\ vads' = Closed(vads, svc.capture) /\ cap' = NoCapture /\ UNCHANGED <<idle, worker>>
      /\ \/ queue' = queue \/ queue' = [queue EXCEPT !.quit = TRUE]
  BY DEF StopEnd, CaptureFailedEnd, QuitPut
<1>3. PICK x : svc' = [svc EXCEPT !.capture = 0, !.state = x]
  BY DEF StopEnd, CaptureFailedEnd, QuitPut
<1>4. /\ IsService(svc') /\ svc'.session = svc.session /\ svc'.active = svc.active
      /\ svc'.testing = svc.testing /\ svc'.capture = 0 /\ svc'.mic = svc.mic
      /\ svc'.prepared = svc.prepared /\ svc'.pending = svc.pending
  BY <1>1, <1>3 DEF IsService, Attributes
<1>5. queue' \in Queues /\ queue'.finals = queue.finals
  BY <1>1, <1>2 DEF Queues
<1>6. /\ vads' \in [Sessions -> {"none", "open", "closed"}]
      /\ \A s \in Sessions : vads'[s] = "open" <=> vads[s] = "open" /\ s # svc.capture
  BY <1>1, <1>2, ClosedIs DEF VoiceTypeOK
<1>7. VoiceTypeOK'
  BY <1>1, <1>2, <1>4, <1>5, <1>6, NoCaptureIs DEF VoiceTypeOK, MainPlaces
<1>8. NoNewToken
  BY <1>1, <1>2, <1>5 DEF NoNewToken, TokenInv
<1>9. ~svc.active /\ ~svc.testing /\ svc.mic = 0 /\ ~HasToken(svc.session)
  BY <1>1, <1>2 DEF CaptureInv, MicrophoneInv, TokenInv
<1>10. TokenInv'
  <2>1. svc'.session >= svc.session
    BY <1>1, <1>4
  <2>. QED  BY <1>1, <1>4, <1>7, <1>8, <1>9, <2>1, TokensKept
<1>11. CaptureInv' /\ MicrophoneInv' /\ TestInv'
  BY <1>1, <1>2, <1>4, <1>9 DEF CaptureInv, MicrophoneInv, TestInv
<1>12. DetectorInv'
  <2>1. \A s \in Sessions : vads'[s] = "open" => vads[s] = "open" /\ (Owned(s) => Owned(s)')
    BY <1>1, <1>2, <1>4, <1>6 DEF Owned
  <2>2. svc'.session >= svc.session
    BY <1>1, <1>4
  <2>. QED  BY <1>1, <1>7, <2>1, <2>2, DetectorsKept
<1>. QED  BY <1>7, <1>10, <1>11, <1>12 DEF DevicesInv

\* The calls and callbacks that end a session.
LEMMA EndCallsKeep ==
  ASSUME DevicesInv, \/ Stop \/ StopTest \/ Quit
                     \/ Ready /\ MayEnd /\ svc.testing /\ StopBegin("start") /\ UNCHANGED idle
                     \/ Ready /\ MayEnd /\ svc.active /\ StopBegin("startTest") /\ UNCHANGED idle
                     \/ Ready /\ MayEnd /\ StopBegin("stop") /\ UNCHANGED idle
  PROVE  DevicesInv'
<1>1. /\ IsService(svc) /\ svc.session \in Nat /\ svc.prepared \in Nat /\ MaxSessions \in Nat
  BY SessionsAre DEF DevicesInv, VoiceTypeOK, IsService
<1>2. /\ IsService(Ended(svc)) /\ Ended(svc).session = svc.session + 1 /\ Ended(svc).capture = svc.capture
      /\ Ended(svc).prepared = 0
  BY <1>1, EndedIs
<1>3. ASSUME mainpc = "ready", CancelWork(svc), UNCHANGED <<cap, idle>>,
             \/ svc' = [Ended(svc) EXCEPT !.active = FALSE, !.testing = FALSE, !.mic = 0]
             \/ svc' = [Ended(svc) EXCEPT !.active = FALSE, !.testing = FALSE, !.mic = 0, !.shutting = TRUE],
             mainpc' \in {"stop", "start", "startTest", "quit"},
             mainpc' = "start" => svc.testing,
             mainpc' \in {"start", "startTest"} => MayEnd
      PROVE  DevicesInv'
  <2>1. /\ IsService(svc') /\ svc'.session = svc.session + 1 /\ svc'.capture = svc.capture
        /\ svc'.mic = 0 /\ svc'.prepared = 0 /\ svc'.active = FALSE /\ svc'.testing = FALSE
    BY ZenonT(60), <1>2, <1>3 DEF IsService, Attributes
  <2>2. mainpc' \in {"start", "startTest"} => svc'.session < MaxSessions
    BY <1>1, <1>3, <2>1 DEF MayEnd
  <2>. QED  BY <1>1, <1>3, <2>1, <2>2, EndingKeeps, NothingDispatched DEF CancelWork
<1>. QED  BY <1>3 DEF Stop, StopTest, Quit, StopBegin, QuitBegin, EndSession, Ready

\* _capture_failed ends its own session only.
LEMMA CaptureFailedKeeps == ASSUME DevicesInv, CaptureFailed PROVE DevicesInv'
<1>1. /\ VoiceTypeOK /\ TestInv /\ IsService(svc) /\ svc.session \in Nat /\ svc.prepared \in Nat
      /\ Sessions \subseteq Nat
  BY SessionsAre DEF DevicesInv, VoiceTypeOK, IsService
<1>2. /\ Dispatched /\ mainpc = "ready" /\ \A t \in Nat : Announced(idle', t) <=> Announced(idle, t)
  BY DispatchIs DEF CaptureFailed, Ready
<1>3. CASE Drop
  <2>1. VoiceTypeOK' /\ NoNewToken
    BY <1>1, <1>2, <1>3, WorkStays DEF VoiceTypeOK, Dispatched, Drop
  <2>. QED  BY <1>1, <1>2, <1>3, <2>1, QuietStep DEF Drop, TestInv
<1>4. CASE CaptureFailedBegin /\ UNCHANGED cap
  <2>1. /\ IsService(Ended(svc)) /\ Ended(svc).session = svc.session + 1 /\ Ended(svc).capture = svc.capture
        /\ Ended(svc).prepared = 0
    BY <1>1, EndedIs
  <2>2. /\ svc' = [Ended(svc) EXCEPT !.active = FALSE, !.testing = FALSE, !.mic = 0]
        /\ CancelWork(svc) /\ mainpc' = "captureFailed"
    BY <1>4 DEF CaptureFailedBegin
  <2>3. /\ IsService(svc') /\ svc'.session = svc.session + 1 /\ svc'.capture = svc.capture
        /\ svc'.mic = 0 /\ svc'.prepared = 0 /\ svc'.active = FALSE /\ svc'.testing = FALSE
    BY <2>1, <2>2 DEF IsService, Attributes
  <2>. QED  BY <1>1, <1>2, <1>4, <2>2, <2>3, EndingKeeps DEF CancelWork
<1>. QED  BY <1>3, <1>4 DEF CaptureFailed

\* _prepared whose microphone does not open. The session had no capture yet.
LEMMA PreparedFailsKeeps == ASSUME DevicesInv, PreparedFails PROVE DevicesInv'
<1>1. /\ IsService(svc) /\ svc.session \in Nat /\ svc.prepared \in Nat /\ TokenInv /\ CaptureInv /\ MicrophoneInv
  BY DEF DevicesInv, VoiceTypeOK, IsService
<1>2. /\ Dispatched /\ mainpc = "ready" /\ Head(idle).session = svc.session
      /\ \A t \in Nat : t # svc.session => (Announced(idle', t) <=> Announced(idle, t))
      /\ Announced(idle, svc.session)
  <2>1. Dispatch("prepared") /\ Current
    BY DEF PreparedFails
  <2>. QED  BY <1>1, <2>1, DispatchIs DEF Current, Ready
<1>3. svc.capture = 0 /\ svc.mic = 0
  <2>1. HasToken(svc.session)
    BY <1>2 DEF HasToken, Tokens
  <2>2. svc.capture = 0
    BY <1>1, <2>1 DEF TokenInv
  <2>3. svc.session # 0
    BY <1>1, <2>1, SessionsAre DEF TokenInv
  <2>. QED  BY <1>1, <2>2, <2>3 DEF MicrophoneInv
<1>4. /\ IsService(Ended(svc)) /\ Ended(svc).session = svc.session + 1 /\ Ended(svc).capture = svc.capture
      /\ Ended(svc).prepared = 0 /\ Ended(svc).mic = svc.mic
  BY <1>1, EndedIs
<1>5. /\ svc' = [Ended(svc) EXCEPT !.active = FALSE, !.testing = FALSE] /\ UNCHANGED cap
      /\ worker' = CancelRunning(worker) /\ queue' = Cleared(queue) /\ vads' = Closed(vads, svc.session)
      /\ mainpc' = "captureFailed"
  BY DEF PreparedFails
<1>6. /\ IsService(svc') /\ svc'.session = svc.session + 1 /\ svc'.capture = svc.capture
      /\ svc'.mic = 0 /\ svc'.prepared = 0 /\ svc'.active = FALSE /\ svc'.testing = FALSE
  BY <1>3, <1>4, <1>5 DEF IsService, Attributes
<1>7. svc.prepared \in {0, svc.session}
  BY <1>1 DEF CaptureInv
<1>. QED  BY <1>1, <1>2, <1>5, <1>6, <1>7, EndingKeeps

\* Callbacks that change only what the shell shows.
LEMMA ShowKeeps ==
  ASSUME DevicesInv, PreparationState \/ PartialFinished \/ SetSessionState \/ NoSpeech \/ RestoreListening
  PROVE  DevicesInv'
<1>1. /\ VoiceTypeOK /\ TestInv /\ MicrophoneInv /\ IsService(svc) /\ Sessions \subseteq Nat \ {0}
  BY SessionsAre DEF DevicesInv, VoiceTypeOK
<1>2. /\ Dispatched /\ UNCHANGED <<mainpc, queue, worker, vads, cap>>
      /\ \A t \in Nat : Announced(idle', t) <=> Announced(idle, t)
  <2>1. CASE RestoreListening
    BY <2>1, NothingDispatched DEF RestoreListening
  <2>2. CASE ~RestoreListening
    BY <2>2, DispatchIs DEF PreparationState, PartialFinished, SetSessionState, NoSpeech
  <2>. QED  BY <2>1, <2>2
<1>3. PICK x, r : /\ svc' = svc \/ svc' = [svc EXCEPT !.state = x] \/ svc' = [svc EXCEPT !.state = x, !.restore = r]
                  /\ svc' = svc \/ (svc.active /\ svc.capture = 0) \/ x = svc.state
                       \/ (svc.active /\ x \in {"listening", "recognizing", "no-speech"})
  <2>1. CASE PreparationState
    BY <2>1 DEF PreparationState
  <2>2. CASE PartialFinished
    BY <2>2 DEF PartialFinished
  <2>3. CASE SetSessionState
    BY <2>3 DEF SetSessionState
  <2>4. CASE NoSpeech
    BY <2>4 DEF NoSpeech
  <2>5. CASE RestoreListening
    <3>. DEFINE y == IF svc.active /\ svc.state = "no-speech" THEN "listening" ELSE svc.state
    <3>1. svc' = [svc EXCEPT !.restore = FALSE, !.state = y] /\ svc.state = svc["state"]
      BY <2>5 DEF RestoreListening
    <3>2. y = svc.state \/ (svc.active /\ y = "listening")
      OBVIOUS
    <3>. HIDE DEF y
    <3>3. [svc EXCEPT !.restore = FALSE, !.state = y] = [svc EXCEPT !.state = y, !.restore = FALSE]
      BY <1>1 DEF IsService, Attributes
    <3>. QED  BY <3>1, <3>2, <3>3
  <2>. QED  BY <2>1, <2>2, <2>3, <2>4, <2>5
<1>4. /\ IsService(svc') /\ svc'.session = svc.session /\ svc'.active = svc.active
      /\ svc'.testing = svc.testing /\ svc'.capture = svc.capture /\ svc'.mic = svc.mic
      /\ svc'.prepared = svc.prepared /\ svc'.pending = svc.pending
      /\ svc' = svc \/ svc'.state = x
  BY <1>1, <1>3 DEF IsService, Attributes
<1>5. VoiceTypeOK' /\ NoNewToken
  BY <1>1, <1>2, <1>4, WorkStays DEF VoiceTypeOK, Dispatched
<1>6. svc.mic # 0 => svc.capture # 0
  BY <1>1 DEF MicrophoneInv
<1>7. svc.mic # 0 => \/ svc'.state = svc.state
                     \/ svc.active /\ svc'.state \in {"listening", "recognizing", "no-speech"}
  BY <1>3, <1>4, <1>6
<1>. QED  BY <1>1, <1>2, <1>4, <1>5, <1>7, QuietStep DEF TestInv

\* What is stored is no negative number, and nothing in a test.
LEMMA LoweredIs == ASSUME ReadInv PROVE Lowered \in Nat /\ (svc.testing => Lowered = 0)
BY DEF ReadInv, Lowered

\* _recognition_finished: a text, or the command that ends the session.
LEMMA RecognitionFinishedKeeps == ASSUME DevicesInv, ReadInv, RecognitionFinished PROVE DevicesInv'
<1>. DEFINE text == Head(idle).arg.text
            s == [svc EXCEPT !.pending = Lowered]
<1>1. /\ VoiceTypeOK /\ TestInv /\ CaptureInv /\ MicrophoneInv /\ IsService(svc) /\ svc.session \in Nat
      /\ svc.prepared \in Nat /\ Sessions \subseteq Nat
  BY SessionsAre DEF DevicesInv, VoiceTypeOK, IsService
<1>2. /\ Dispatched /\ mainpc = "ready" /\ \A t \in Nat : Announced(idle', t) <=> Announced(idle, t)
  BY DispatchIs DEF RecognitionFinished, Ready
<1>3. PICK n \in Nat : s = [svc EXCEPT !.pending = n] /\ (svc.testing => n = 0)
  BY LoweredIs
<1>4. /\ IsService(s) /\ s.session = svc.session /\ s.active = svc.active /\ s.testing = svc.testing
      /\ s.capture = svc.capture /\ s.mic = svc.mic /\ s.prepared = svc.prepared /\ s.pending = n
      /\ s.state = svc.state
  BY <1>1, <1>3 DEF IsService, Attributes
<1>5. \/ Drop
      \/ /\ svc' = [Ended(s) EXCEPT !.active = FALSE, !.testing = FALSE, !.mic = 0]
         /\ CancelWork(svc) /\ mainpc' = "stop" /\ UNCHANGED cap
      \/ /\ \E r : svc' = [s EXCEPT !.state = NextState(s, text), !.restore = r]
         /\ UNCHANGED <<mainpc, queue, worker, vads, cap>>
  BY DEF RecognitionFinished, EndSession
<1>. HIDE DEF s, text
<1>6. CASE Drop
  <2>1. VoiceTypeOK' /\ NoNewToken
    BY <1>1, <1>2, <1>6, WorkStays DEF VoiceTypeOK, Dispatched, Drop
  <2>. QED  BY <1>1, <1>2, <1>6, <2>1, QuietStep DEF Drop, TestInv
<1>7. CASE /\ svc' = [Ended(s) EXCEPT !.active = FALSE, !.testing = FALSE, !.mic = 0]
           /\ CancelWork(svc) /\ mainpc' = "stop" /\ UNCHANGED cap
  <2>1. /\ IsService(Ended(s)) /\ Ended(s).session = svc.session + 1 /\ Ended(s).capture = svc.capture
        /\ Ended(s).prepared = 0
    BY <1>4, EndedIs
  <2>2. /\ IsService(svc') /\ svc'.session = svc.session + 1 /\ svc'.capture = svc.capture
        /\ svc'.mic = 0 /\ svc'.prepared = 0 /\ svc'.active = FALSE /\ svc'.testing = FALSE
    BY <1>7, <2>1 DEF IsService, Attributes
  <2>. QED  BY <1>1, <1>2, <1>7, <2>2, EndingKeeps DEF CancelWork
<1>8. CASE /\ \E r : svc' = [s EXCEPT !.state = NextState(s, text), !.restore = r]
           /\ UNCHANGED <<mainpc, queue, worker, vads, cap>>
  <2>. DEFINE x == NextState(s, text)
  <2>1. PICK r : svc' = [s EXCEPT !.state = x, !.restore = r]
    BY <1>8
  <2>2. svc.active => x \in {"listening", "recognizing", "no-speech"}
    BY <1>1, <1>4 DEF NextState
  <2>3. svc.testing => x = svc.state /\ n = 0
    BY <1>1, <1>3, <1>4 DEF NextState, TestInv, CaptureInv
  <2>. HIDE DEF x
  <2>4. /\ IsService(svc') /\ svc'.session = svc.session /\ svc'.active = svc.active
        /\ svc'.testing = svc.testing /\ svc'.capture = svc.capture /\ svc'.mic = svc.mic
        /\ svc'.prepared = svc.prepared /\ svc'.pending = n /\ svc'.state = x
    BY <1>4, <2>1 DEF IsService, Attributes
  <2>5. VoiceTypeOK' /\ NoNewToken
    BY <1>1, <1>2, <1>8, <2>4, WorkStays DEF VoiceTypeOK, Dispatched
  <2>6. svc.mic # 0 => \/ svc'.state = svc.state
                       \/ svc.active /\ svc'.state \in {"listening", "recognizing", "no-speech"}
    BY <1>1, <2>2, <2>3, <2>4 DEF MicrophoneInv
  <2>. QED  BY <1>1, <1>2, <1>8, <2>3, <2>4, <2>5, <2>6, QuietStep DEF TestInv
<1>. QED  BY <1>5, <1>6, <1>7, <1>8

\* _recognition_failed and _overloaded: the session they blame has no token left.
LEMMA DrainBegins ==
  ASSUME DevicesInv, SpentInv, NEW fn \in {"failed", "overloaded"}, Dispatch(fn), Current,
         UNCHANGED <<queue, worker, vads, cap>>, mainpc' = "drain",
         IsService(svc'), svc'.session = svc.session, svc'.active = FALSE, svc'.testing = svc.testing,
         svc'.capture = svc.capture, svc'.mic = 0, svc'.prepared = svc.prepared,
         svc.testing => svc'.pending = 0
  PROVE  DevicesInv'
<1>1. /\ VoiceTypeOK /\ TokenInv /\ TestInv /\ CaptureInv /\ DetectorInv /\ svc.session \in Nat
      /\ Sessions \subseteq Nat \ {0} /\ idle \in Seq(Callbacks)
  BY SessionsAre DEF DevicesInv, VoiceTypeOK, IsService
<1>2. /\ Dispatched /\ mainpc = "ready" /\ \A t \in Nat : Announced(idle', t) <=> Announced(idle, t)
  BY DispatchIs DEF Ready
<1>3. ~HasToken(svc.session)
  <2>1. idle # <<>> /\ Head(idle) = idle[1] /\ 1 \in DOMAIN idle /\ Blames(idle[1], svc.session)
    BY <1>1 DEF Dispatch, Current, Blames
  <2>2. Spent(svc.session)
    BY <2>1 DEF Spent, Blamed
  <2>. QED  BY <1>1, <2>2 DEF SpentInv
<1>4. VoiceTypeOK' /\ NoNewToken
  BY <1>1, <1>2, WorkStays DEF VoiceTypeOK, Dispatched, MainPlaces
<1>5. svc'.session >= svc.session
  BY <1>1
<1>6. TokenInv'
  BY <1>1, <1>3, <1>4, <1>5, TokensKept
<1>7. CaptureInv' /\ MicrophoneInv' /\ TestInv'
  BY <1>1, <1>2 DEF CaptureInv, MicrophoneInv, TestInv
<1>8. DetectorInv'
  <2>1. \A t \in Sessions : Owned(t) => Owned(t)'
    BY <1>1, <1>2 DEF Owned
  <2>. QED  BY <1>1, <1>4, <1>5, <2>1, DetectorsKept
<1>. QED  BY <1>4, <1>6, <1>7, <1>8 DEF DevicesInv

\* A callback of a session that is gone does nothing.
LEMMA DroppedKeeps == ASSUME DevicesInv, NEW fn, fn # "prepared", Dispatch(fn), Drop PROVE DevicesInv'
<1>1. VoiceTypeOK /\ TestInv /\ Sessions \subseteq Nat
  BY SessionsAre DEF DevicesInv
<1>2. Dispatched /\ \A t \in Nat : Announced(idle', t) <=> Announced(idle, t)
  BY DispatchIs
<1>3. VoiceTypeOK' /\ NoNewToken
  BY <1>1, <1>2, WorkStays DEF VoiceTypeOK, Dispatched, Drop
<1>. QED  BY <1>1, <1>2, <1>3, QuietStep DEF Drop, TestInv

\* Both handlers, for the session that is on or one that is gone.
LEMMA DrainKeeps == ASSUME DevicesInv, SpentInv, ReadInv, RecognitionFailed \/ Overloaded PROVE DevicesInv'
<1>1. IsService(svc) /\ (svc.testing => svc.pending = 0)
  BY DEF DevicesInv, VoiceTypeOK, IsService, TestInv
<1>2. CASE RecognitionFailed
  <2>1. CASE ~Current
    BY <1>2, <2>1, DroppedKeeps DEF RecognitionFailed
  <2>2. CASE Current
    <3>1. /\ svc' = [svc EXCEPT !.pending = Lowered, !.active = FALSE, !.mic = 0]
          /\ mainpc' = "drain" /\ UNCHANGED <<queue, worker, vads, cap>> /\ Dispatch("failed")
      BY <1>2, <2>2 DEF RecognitionFailed
    <3>2. PICK n \in Nat : n = Lowered /\ (svc.testing => n = 0)
      BY LoweredIs
    <3>4. svc' = [svc EXCEPT !.pending = n, !.active = FALSE, !.mic = 0]
      BY <3>1, <3>2
    <3>3. /\ IsService(svc') /\ svc'.session = svc.session /\ svc'.active = FALSE
          /\ svc'.testing = svc.testing /\ svc'.capture = svc.capture /\ svc'.mic = 0
          /\ svc'.prepared = svc.prepared /\ svc'.pending = n
      BY <1>1, <3>2, <3>4 DEF IsService, Attributes
    <3>. QED  BY <2>2, <3>1, <3>2, <3>3, DrainBegins
  <2>. QED  BY <2>1, <2>2
<1>3. CASE Overloaded
  <2>1. CASE ~Current
    BY <1>3, <2>1, DroppedKeeps DEF Overloaded
  <2>2. CASE Current
    <3>1. /\ svc' = [svc EXCEPT !.active = FALSE, !.mic = 0]
          /\ mainpc' = "drain" /\ UNCHANGED <<queue, worker, vads, cap>> /\ Dispatch("overloaded")
      BY <1>3, <2>2 DEF Overloaded
    <3>2. /\ IsService(svc') /\ svc'.session = svc.session /\ svc'.active = FALSE
          /\ svc'.testing = svc.testing /\ svc'.capture = svc.capture /\ svc'.mic = 0
          /\ svc'.prepared = svc.prepared /\ svc'.pending = svc.pending
      BY <1>1, <3>1 DEF IsService, Attributes
    <3>. QED  BY <1>1, <2>2, <3>1, <3>2, DrainBegins
  <2>. QED  BY <2>1, <2>2
<1>. QED  BY <1>2, <1>3

\* The join after a failed recognition or a full queue.
LEMMA DrainEndKeeps == ASSUME DevicesInv, DrainEnd PROVE DevicesInv'
<1>1. /\ VoiceTypeOK /\ TokenInv /\ CaptureInv /\ MicrophoneInv /\ TestInv /\ DetectorInv
      /\ Sessions \subseteq Nat \ {0} /\ IsService(svc) /\ cap \in Captures /\ queue \in Queues
      /\ svc.session \in Nat /\ svc.capture \in Nat /\ svc.prepared \in Nat /\ First(queue.finals)
      /\ worker \in Workers
  BY SessionsAre DEF DevicesInv, VoiceTypeOK, IsService, TokenInv
<1>2. /\ mainpc = "drain" /\ mainpc' = "ready" /\ vads' = Closed(vads, svc.capture) /\ UNCHANGED idle
      /\ worker' = InvalidateRunning(worker) /\ queue' = NoPreview(queue)
      /\ cap' = NoCapture \/ cap' = cap
      /\ \E x : svc' = [Invalidated(svc) EXCEPT !.capture = 0, !.message = TRUE, !.state = x]
  BY DEF DrainEnd
<1>3. /\ IsService(svc') /\ svc'.session = svc.session /\ svc'.active = svc.active
      /\ svc'.testing = svc.testing /\ svc'.capture = 0 /\ svc'.mic = svc.mic
      /\ svc'.prepared = svc.prepared /\ svc'.pending = svc.pending
  BY <1>1, <1>2, InvalidatedIs DEF IsService, Attributes
<1>4. queue' \in Queues /\ queue'.finals = queue.finals
  BY <1>1, <1>2, QueueIs
<1>5. worker' \in Workers /\ worker'.pc = worker.pc /\ worker'.job = worker.job
  BY <1>1, <1>2, WorkerIs
<1>6. /\ vads' \in [Sessions -> {"none", "open", "closed"}]
      /\ \A s \in Sessions : vads'[s] = "open" <=> vads[s] = "open" /\ s # svc.capture
  BY <1>1, <1>2, ClosedIs DEF VoiceTypeOK
<1>7. VoiceTypeOK' /\ cap'.pc \in {"off", cap.pc}
  BY <1>1, <1>2, <1>3, <1>4, <1>5, <1>6, NoCaptureIs DEF VoiceTypeOK, MainPlaces
<1>8. NoNewToken
  BY <1>1, <1>2, <1>4, <1>5 DEF NoNewToken, TokenInv, Prepares
<1>9. svc.mic = 0 /\ ~HasToken(svc.session) /\ svc'.session >= svc.session
  BY <1>1, <1>2, <1>3 DEF MicrophoneInv, TokenInv
<1>10. TokenInv'
  BY <1>1, <1>3, <1>7, <1>8, <1>9, TokensKept
<1>11. CaptureInv' /\ MicrophoneInv' /\ TestInv'
  BY <1>1, <1>2, <1>3, <1>7, <1>9 DEF CaptureInv, MicrophoneInv, TestInv
<1>12. DetectorInv'
  <2>1. \A s \in Sessions : vads'[s] = "open" => vads[s] = "open" /\ (Owned(s) => Owned(s)')
    BY <1>1, <1>2, <1>3, <1>5, <1>6 DEF Owned
  <2>. QED  BY <1>1, <1>7, <1>9, <2>1, DetectorsKept
<1>. QED  BY <1>7, <1>10, <1>11, <1>12 DEF DevicesInv

\* finish with a capture, up to the join: the handler keeps the detector.
LEMMA FinishKeeps == ASSUME DevicesInv, Finish PROVE DevicesInv'
<1>1. /\ VoiceTypeOK /\ TokenInv /\ CaptureInv /\ MicrophoneInv /\ TestInv /\ DetectorInv
      /\ Sessions \subseteq Nat \ {0} /\ IsService(svc) /\ svc.session \in Nat /\ svc.capture \in Nat
  BY SessionsAre DEF DevicesInv, VoiceTypeOK, IsService
<1>2. CASE svc.capture = 0
  BY <1>2, EndCallsKeep DEF Finish
<1>3. CASE svc.capture # 0
  <2>1. /\ svc' = [svc EXCEPT !.capture = 0, !.mic = 0] /\ mainpc' = "finish" /\ svc.active /\ mainpc = "ready"
        /\ UNCHANGED <<idle, queue, worker, vads, cap>>
    BY <1>3 DEF Finish, Ready
  <2>2. /\ IsService(svc') /\ svc'.session = svc.session /\ svc'.active = svc.active
        /\ svc'.testing = svc.testing /\ svc'.capture = 0 /\ svc'.mic = 0
        /\ svc'.prepared = svc.prepared /\ svc'.pending = svc.pending
    BY <1>1, <2>1 DEF IsService, Attributes
  <2>3. VoiceTypeOK' /\ NoNewToken /\ svc'.session >= svc.session
    BY <1>1, <2>1, <2>2, WorkStays DEF VoiceTypeOK, MainPlaces
  <2>4. ~HasToken(svc.session) /\ svc.capture = svc.session /\ ~svc.testing
    BY <1>1, <1>3, <2>1 DEF TokenInv, CaptureInv
  <2>5. TokenInv'
    BY <1>1, <2>2, <2>3, <2>4, TokensKept
  <2>6. CaptureInv' /\ MicrophoneInv' /\ TestInv'
    BY <1>1, <2>1, <2>2, <2>4 DEF CaptureInv, MicrophoneInv, TestInv
  <2>7. DetectorInv'
    <3>1. \A s \in Sessions : vads'[s] = "open" => vads[s] = "open" /\ (Owned(s) => Owned(s)')
      BY <1>1, <2>1, <2>2, <2>4 DEF Owned
    <3>. QED  BY <1>1, <2>3, <3>1, DetectorsKept
  <2>. QED  BY <2>3, <2>5, <2>6, <2>7 DEF DevicesInv
<1>. QED  BY <1>2, <1>3

\* finish from the join on: the last phrase is put, the detector closed.
LEMMA FinishEndKeeps == ASSUME DevicesInv, FinishEnd PROVE DevicesInv'
<1>1. /\ VoiceTypeOK /\ TokenInv /\ CaptureInv /\ MicrophoneInv /\ TestInv /\ DetectorInv
      /\ Sessions \subseteq Nat \ {0} /\ IsService(svc) /\ cap \in Captures /\ queue \in Queues
      /\ svc.session \in Nat /\ svc.capture \in Nat /\ svc.prepared \in Nat /\ First(queue.finals)
      /\ worker \in Workers /\ queue.finals \in Seq(Jobs) /\ svc.pending \in Int /\ cap.phrase \in Nat
      /\ idle \in Seq(Callbacks)
  BY SessionsAre DEF DevicesInv, VoiceTypeOK, IsService, TokenInv, Queues, Captures
<1>2. /\ mainpc = "finish" /\ mainpc' = "ready" /\ vads' = Closed(vads, svc.session)
      /\ worker' = InvalidateRunning(worker) /\ queue' = NoPreview(FlushedQueue) /\ cap' = NoCapture
      /\ \/ idle' = idle
         \/ \E fn \in {"recognizing", "overloaded"} : idle' = Append(idle, Callback(fn, svc.session, 0))
  BY DEF FinishEnd
<1>3. /\ IsService(svc') /\ svc'.session = svc.session /\ svc'.active = FALSE
      /\ svc'.testing = svc.testing /\ svc'.capture = svc.capture /\ svc'.mic = svc.mic
      /\ svc'.prepared = svc.prepared
  <2>. DEFINE n == svc.pending + (IF Flushes /\ HasRoom(queue) THEN 1 ELSE 0)
              x == IF n # 0 THEN "finishing" ELSE "idle"
  <2>1. svc' = [Invalidated(svc) EXCEPT !.pending = n, !.active = FALSE, !.state = x]
    BY DEF FinishEnd
  <2>2. n \in Int
    BY <1>1
  <2>. HIDE DEF n, x
  <2>. QED  BY <1>1, <2>1, <2>2, InvalidatedIs DEF IsService, Attributes
<1>4. /\ queue' \in Queues /\ First(queue'.finals)
      /\ \A s \in Nat : Asked(queue'.finals, s) <=> Asked(queue.finals, s)
  <2>. DEFINE j == Job("final", svc.session, 0, cap.phrase)
  <2>1. j \in Jobs /\ j.kind # "prepare"
    BY <1>1 DEF Job, Jobs
  <2>. HIDE DEF j
  <2>2. PutFinal(queue, j) \in Queues /\ PutFinal(queue, j).finals = Append(queue.finals, j)
    BY <1>1, <2>1, QueueIs
  <2>3. /\ First(Append(queue.finals, j))
        /\ \A s \in Nat : Asked(Append(queue.finals, j), s) <=> Asked(queue.finals, s)
    BY <1>1, <2>1, AddJob
  <2>4. CASE queue' = NoPreview(PutFinal(queue, j))
    BY <2>2, <2>3, <2>4, QueueIs
  <2>5. CASE queue' = NoPreview(queue)
    BY <1>1, <2>5, QueueIs
  <2>. QED  BY <1>2, <2>4, <2>5 DEF FlushedQueue, j
<1>5. worker' \in Workers /\ worker'.pc = worker.pc /\ worker'.job = worker.job
  BY <1>1, <1>2, WorkerIs
<1>6. /\ vads' \in [Sessions -> {"none", "open", "closed"}]
      /\ \A s \in Sessions : vads'[s] = "open" <=> vads[s] = "open" /\ s # svc.session
  BY <1>1, <1>2, ClosedIs DEF VoiceTypeOK
<1>7. /\ idle' \in Seq(Callbacks)
      /\ \A t \in Nat : /\ Announced(idle', t) <=> Announced(idle, t)
                        /\ AnnouncedOnce(idle, t) => AnnouncedOnce(idle', t)
  <2>1. CASE idle' = idle
    BY <1>1, <2>1
  <2>2. ASSUME NEW fn \in {"recognizing", "overloaded"}, idle' = Append(idle, Callback(fn, svc.session, 0))
        PROVE  <1>7!1 /\ <1>7!2
    <3>1. fn \in Functions \ {"prepared", "preparation"}
      BY DEF Functions
    <3>. QED  BY <1>1, <2>2, <3>1, Tells, ArgumentsAre
  <2>. QED  BY <1>2, <2>1, <2>2
<1>8. VoiceTypeOK'
  BY <1>1, <1>2, <1>3, <1>4, <1>5, <1>6, <1>7, NoCaptureIs DEF VoiceTypeOK, MainPlaces
<1>9. NoNewToken
  BY <1>1, <1>4, <1>5, <1>7 DEF NoNewToken, TokenInv, Prepares
<1>10. /\ svc.mic = 0 /\ ~HasToken(svc.session) /\ svc'.session >= svc.session /\ svc.capture = 0 /\ ~svc.testing
  BY <1>1, <1>2, <1>3 DEF MicrophoneInv, TokenInv, CaptureInv
<1>11. TokenInv'
  BY <1>1, <1>3, <1>8, <1>9, <1>10, TokensKept
<1>12. CaptureInv' /\ MicrophoneInv' /\ TestInv'
  BY <1>1, <1>2, <1>3, <1>10 DEF CaptureInv, MicrophoneInv, TestInv
<1>13. DetectorInv'
  <2>1. \A s \in Sessions : vads'[s] = "open" => vads[s] = "open" /\ (Owned(s) => Owned(s)')
    BY <1>1, <1>2, <1>3, <1>5, <1>6, <1>7 DEF Owned
  <2>. QED  BY <1>1, <1>8, <1>10, <2>1, DetectorsKept
<1>. QED  BY <1>8, <1>11, <1>12, <1>13 DEF DevicesInv

\* _prepared: the only announcement of the session that is on is consumed when
\* its microphone opens; that of a session that is gone closes its detector.
LEMMA PreparedKeeps == ASSUME DevicesInv, Prepared PROVE DevicesInv'
<1>. DEFINE o == Head(idle).session
            rest == [svc EXCEPT !.prepared = IF @ = o THEN 0 ELSE @]
<1>1. /\ VoiceTypeOK /\ TokenInv /\ CaptureInv /\ MicrophoneInv /\ TestInv /\ DetectorInv
      /\ Sessions \subseteq Nat \ {0} /\ IsService(svc) /\ cap \in Captures
      /\ svc.session \in Nat /\ svc.capture \in Nat /\ svc.prepared \in Nat
  BY SessionsAre DEF DevicesInv, VoiceTypeOK, IsService
<1>2. /\ Dispatched /\ mainpc = "ready" /\ o \in Nat /\ Announced(idle, o)
      /\ \A t \in Nat : t # o => (Announced(idle', t) <=> Announced(idle, t))
      /\ AnnouncedOnce(idle, o) => ~Announced(idle', o)
  BY DispatchIs DEF Prepared, Ready
<1>3. HasToken(o) /\ o \in Sessions /\ o <= svc.session
  BY <1>1, <1>2 DEF HasToken, Tokens, TokenInv
<1>4. /\ IsService(rest) /\ rest.session = svc.session /\ rest.active = svc.active
      /\ rest.testing = svc.testing /\ rest.capture = svc.capture /\ rest.mic = svc.mic
      /\ rest.pending = svc.pending /\ rest.state = svc.state
      /\ rest.prepared = IF svc.prepared = o THEN 0 ELSE svc.prepared
  BY <1>1 DEF IsService, Attributes
<1>5. IF o # svc.session \/ ~svc.active
      THEN /\ svc' = rest /\ vads' = Closed(vads, o)
           /\ UNCHANGED <<mainpc, queue, worker, cap>>
      ELSE /\ svc' = [rest EXCEPT !.capture = o, !.mic = o, !.state = "listening"]
           /\ cap' = [cap EXCEPT !.pc = "idle"]
           /\ UNCHANGED <<mainpc, queue, worker, vads>>
  BY DEF Prepared, Current
<1>. HIDE DEF o, rest
<1>6. CASE o # svc.session \/ ~svc.active
  <2>1. svc' = rest /\ vads' = Closed(vads, o) /\ UNCHANGED <<mainpc, queue, worker, cap>>
    BY <1>5, <1>6
  <2>2. /\ vads' \in [Sessions -> {"none", "open", "closed"}]
        /\ \A s \in Sessions : vads'[s] = "open" <=> vads[s] = "open" /\ s # o
    BY <1>1, <2>1, ClosedIs DEF VoiceTypeOK
  <2>3. VoiceTypeOK' /\ NoNewToken /\ svc'.session >= svc.session
    BY <1>1, <1>2, <1>4, <2>1, <2>2, WorkStays DEF VoiceTypeOK, Dispatched
  <2>4. TokenInv'
    BY <1>1, <1>4, <2>1, <2>3, TokensKept DEF TokenInv
  <2>5. CaptureInv' /\ MicrophoneInv' /\ TestInv'
    BY <1>1, <1>4, <2>1, <2>2 DEF CaptureInv, MicrophoneInv, TestInv
  <2>6. DetectorInv'
    <3>1. \A s \in Sessions : vads'[s] = "open" => vads[s] = "open" /\ (Owned(s) => Owned(s)')
      BY <1>1, <1>2, <1>4, <2>1, <2>2 DEF Owned
    <3>. QED  BY <1>1, <2>3, <3>1, DetectorsKept
  <2>. QED  BY <2>3, <2>4, <2>5, <2>6 DEF DevicesInv
<1>7. CASE ~(o # svc.session \/ ~svc.active)
  <2>1. /\ svc' = [rest EXCEPT !.capture = o, !.mic = o, !.state = "listening"]
        /\ cap' = [cap EXCEPT !.pc = "idle"] /\ UNCHANGED <<mainpc, queue, worker, vads>>
        /\ o = svc.session /\ svc.active
    BY <1>5, <1>7
  <2>2. /\ IsService(svc') /\ svc'.session = svc.session /\ svc'.active = svc.active
        /\ svc'.testing = svc.testing /\ svc'.capture = o /\ svc'.mic = o /\ svc'.state = "listening"
        /\ svc'.pending = svc.pending /\ svc'.prepared = IF svc.prepared = o THEN 0 ELSE svc.prepared
    BY <1>2, <1>4, <2>1 DEF IsService, Attributes
  <2>3. cap' \in Captures /\ cap'.pc = "idle"
    BY <1>1, <2>1 DEF Captures
  <2>4. VoiceTypeOK' /\ NoNewToken /\ svc'.session >= svc.session
    BY <1>1, <1>2, <2>1, <2>2, <2>3, WorkStays DEF VoiceTypeOK, Dispatched
  <2>5. /\ svc.capture = 0 /\ ~svc.testing
        /\ ~Asked(queue.finals, o) /\ ~Prepares(worker, o) /\ AnnouncedOnce(idle, o)
    BY <1>1, <1>2, <1>3, <2>1 DEF TokenInv, CaptureInv
  <2>6. ~Tokens(queue'.finals, worker', idle', o)
    BY <1>2, <2>1, <2>5 DEF Tokens
  <2>7. TokenInv'
    BY <1>1, <2>1, <2>2, <2>4, <2>6, TokensKept
  <2>8. CaptureInv' /\ MicrophoneInv' /\ TestInv'
    BY <1>1, <1>2, <1>3, <2>1, <2>2, <2>5 DEF CaptureInv, MicrophoneInv, TestInv
  <2>9. DetectorInv'
    <3>1. \A s \in Sessions : vads'[s] = "open" => vads[s] = "open" /\ (Owned(s) => Owned(s)')
      BY <1>1, <1>2, <2>1, <2>2, <2>5 DEF Owned
    <3>. QED  BY <1>1, <2>4, <3>1, DetectorsKept
  <2>. QED  BY <2>4, <2>7, <2>8, <2>9 DEF DevicesInv
<1>. QED  BY <1>6, <1>7

\* start once no test runs: the new session gets the only token of its number,
\* or none begins.
LEMMA StartBodyKeeps ==
  ASSUME DevicesInv, mainpc \in {"ready", "start"}, ~svc.active, ~svc.testing, svc.session < MaxSessions,
         svc.capture # 0 => mainpc = "start",
         NEW s, IsService(s), s.session = svc.session, s.prepared = svc.prepared, s.capture = 0,
         s.active = svc.active, s.testing = svc.testing, s.mic = svc.mic,
         NEW installed \in BOOLEAN, StartBody(s, installed),
         mainpc' = "ready", UNCHANGED idle, cap' \in Captures
  PROVE  DevicesInv'
<1>1. /\ VoiceTypeOK /\ TokenInv /\ CaptureInv /\ MicrophoneInv /\ TestInv /\ DetectorInv
      /\ Sessions \subseteq Nat \ {0} /\ svc.session \in Nat /\ svc.capture \in Nat /\ svc.prepared \in Nat
      /\ MaxSessions \in Nat /\ svc.mic = 0 /\ idle \in Seq(Callbacks) /\ worker \in Workers
      /\ queue \in Queues /\ First(queue.finals)
  BY SessionsAre DEF DevicesInv, VoiceTypeOK, IsService, MicrophoneInv, TokenInv
<1>2. worker' = CancelRunning(worker) /\ vads' = Closed(vads, svc.prepared)
  BY DEF StartBody
<1>3. /\ worker' \in Workers /\ worker'.pc = worker.pc /\ worker'.job = worker.job
      /\ vads' \in [Sessions -> {"none", "open", "closed"}]
      /\ \A t \in Sessions : vads'[t] = "open" <=> vads[t] = "open" /\ t # svc.prepared
  BY <1>1, <1>2, WorkerIs, ClosedIs DEF VoiceTypeOK
<1>4. ~HasToken(svc.session)
  BY <1>1 DEF TokenInv
<1>5. \A t \in Sessions : vads[t] = "open" => t # svc.capture
  BY <1>1 DEF TestInv
<1>6. CASE installed
  <2>. DEFINE j == Job("prepare", svc.session + 1, 0, 0)
  <2>1. /\ IsService(Ended(s)) /\ Ended(s).session = svc.session + 1 /\ Ended(s).pending = 0
        /\ Ended(s).prepared = 0 /\ Ended(s).testing = svc.testing /\ Ended(s).mic = svc.mic
    BY EndedIs
  <2>2. PICK x : /\ svc' = [Ended(s) EXCEPT !.active = TRUE, !.message = FALSE, !.capture = 0, !.state = x]
                 /\ queue' = PutFinal(Cleared(queue), Job("prepare", svc'.session, 0, 0))
    BY <1>6 DEF StartBody
  <2>3. /\ IsService(svc') /\ svc'.session = svc.session + 1 /\ svc'.active = TRUE
        /\ svc'.testing = svc.testing /\ svc'.capture = 0 /\ svc'.mic = 0
        /\ svc'.prepared = 0 /\ svc'.pending = 0
    BY <1>1, <2>1, <2>2 DEF IsService, Attributes
  <2>4. j \in Jobs /\ j.kind = "prepare" /\ j.session = svc.session + 1
    <3>1. svc.session + 1 \in Nat
      BY <1>1
    <3>. QED  BY <3>1 DEF Job, Jobs
  <2>. HIDE DEF j
  <2>5. Cleared(queue) \in Queues /\ Cleared(queue).finals = <<>> /\ First(<<>>)
    BY <1>1, QueueIs, EmptyQueue
  <2>6. queue' \in Queues /\ queue'.finals = Append(<<>>, j)
    BY <2>2, <2>3, <2>4, <2>5, QueueIs DEF j
  <2>7. /\ First(queue'.finals)
        /\ \A t \in Nat : Asked(queue'.finals, t) <=> t = svc.session + 1
    BY <2>4, <2>6, EmptyQueue
  <2>8. VoiceTypeOK'
    BY <1>1, <1>3, <2>3, <2>6 DEF VoiceTypeOK, MainPlaces
  <2>9. \A t \in Nat : HasToken(t)' => t = svc.session + 1 \/ HasToken(t)
    BY <1>3, <2>7 DEF HasToken, Tokens, Prepares
  <2>10. (svc.session + 1) \in Sessions /\ ~HasToken(svc.session + 1)
    <3>1. svc.session + 1 \in Nat /\ svc.session + 1 # 0 /\ svc.session + 1 <= MaxSessions
          /\ ~(svc.session + 1 <= svc.session)
      BY <1>1
    <3>. QED  BY <1>1, <3>1, SessionsAre DEF TokenInv
  <2>11. TokenInv'
    <3>1. \A t \in Nat : HasToken(t)' => t \in Sessions /\ t <= svc'.session
      BY <1>1, <2>3, <2>9, <2>10 DEF TokenInv
    <3>2. ~Prepares(worker', svc'.session) /\ ~Announced(idle', svc'.session)
      BY <1>3, <2>3, <2>10 DEF HasToken, Tokens, Prepares
    <3>3. AnnouncedOnce(idle', svc'.session)
      BY <3>2 DEF Announced, AnnouncedOnce
    <3>. QED  BY <1>1, <1>3, <2>3, <2>7, <3>1, <3>2, <3>3 DEF TokenInv
  <2>12. CaptureInv' /\ MicrophoneInv' /\ TestInv'
    BY <2>3 DEF CaptureInv, MicrophoneInv, TestInv
  <2>13. DetectorInv'
    <3>1. \A t \in Sessions : vads'[t] = "open" => vads[t] = "open" /\ (Owned(t) => Owned(t)')
      BY <1>1, <1>3, <1>5, <2>3 DEF Owned
    <3>2. svc'.session >= svc.session
      BY <1>1, <2>3
    <3>. QED  BY <1>1, <2>8, <3>1, <3>2, DetectorsKept
  <2>. QED  BY <2>8, <2>11, <2>12, <2>13 DEF DevicesInv
<1>7. CASE ~installed
  <2>1. /\ svc' = [s EXCEPT !.message = FALSE, !.prepared = 0, !.state = "error"]
        /\ queue' = Cleared(queue)
    BY <1>7 DEF StartBody
  <2>2. /\ IsService(svc') /\ svc'.session = svc.session /\ svc'.active = svc.active
        /\ svc'.testing = svc.testing /\ svc'.capture = 0 /\ svc'.mic = 0 /\ svc'.prepared = 0
    BY <1>1, <2>1 DEF IsService, Attributes
  <2>3. /\ queue' \in Queues /\ First(queue'.finals) /\ \A t \in Nat : ~Asked(queue'.finals, t)
    BY <1>1, <2>1, QueueIs, EmptyQueue
  <2>4. VoiceTypeOK' /\ NoNewToken /\ svc'.session >= svc.session
    BY <1>1, <1>3, <2>2, <2>3 DEF VoiceTypeOK, MainPlaces, NoNewToken, TokenInv, Prepares
  <2>5. TokenInv'
    BY <1>1, <1>4, <2>2, <2>4, TokensKept
  <2>6. CaptureInv' /\ MicrophoneInv' /\ TestInv'
    BY <2>2 DEF CaptureInv, MicrophoneInv, TestInv
  <2>7. DetectorInv'
    <3>1. \A t \in Sessions : vads'[t] = "open" => vads[t] = "open" /\ (Owned(t) => Owned(t)')
      BY <1>1, <1>3, <1>5, <2>2 DEF Owned
    <3>. QED  BY <1>1, <2>4, <3>1, DetectorsKept
  <2>. QED  BY <2>4, <2>5, <2>6, <2>7 DEF DevicesInv
<1>. QED  BY <1>6, <1>7

\* start, at once or after the test it had to end.
LEMMA StartKeeps == ASSUME DevicesInv, Start \/ StartAfterTest PROVE DevicesInv'
<1>1. /\ CaptureInv /\ IsService(svc) /\ svc.session \in Nat /\ MaxSessions \in Nat /\ cap \in Captures
  BY SessionsAre DEF DevicesInv, VoiceTypeOK, IsService
<1>2. CASE Start /\ svc.testing
  BY <1>2, EndCallsKeep DEF Start
<1>3. CASE Start /\ ~svc.testing
  <2>1. PICK installed \in BOOLEAN : StartBody(svc, installed)
    BY <1>3 DEF Start
  <2>2. mainpc = "ready" /\ MayEnd /\ ~svc.active /\ UNCHANGED <<mainpc, idle, cap>>
    BY <1>3 DEF Start, Ready
  <2>3. svc.capture = 0 /\ svc.session < MaxSessions
    BY <1>1, <1>3, <2>2 DEF CaptureInv, MayEnd
  <2>. QED  BY <1>1, <1>3, <2>1, <2>2, <2>3, StartBodyKeeps
<1>4. CASE StartAfterTest
  <2>. DEFINE s == [svc EXCEPT !.capture = 0]
  <2>1. PICK installed \in BOOLEAN : StartBody(s, installed)
    BY <1>4 DEF StartAfterTest
  <2>2. mainpc = "start" /\ mainpc' = "ready" /\ UNCHANGED idle /\ cap' = NoCapture
    BY <1>4 DEF StartAfterTest
  <2>3. /\ IsService(s) /\ s.session = svc.session /\ s.prepared = svc.prepared /\ s.capture = 0
        /\ s.active = svc.active /\ s.testing = svc.testing /\ s.mic = svc.mic
    BY <1>1 DEF IsService, Attributes
  <2>4. ~svc.active /\ ~svc.testing /\ svc.session < MaxSessions /\ cap' \in Captures
    BY <1>1, <2>2, NoCaptureIs DEF CaptureInv
  <2>. HIDE DEF s
  <2>. QED  BY <2>1, <2>2, <2>3, <2>4, StartBodyKeeps
<1>. QED  BY <1>2, <1>3, <1>4

\* start_test: the capture of the test has a number that no detector was ever
\* opened for.
LEMMA StartTestBodyKeeps ==
  ASSUME DevicesInv, mainpc \in {"ready", "startTest"}, ~svc.active, ~svc.testing, svc.session < MaxSessions,
         NEW p \in Nat, vads' = Closed(vads, p), svc.capture \in {0, p}, svc.prepared \in {0, p},
         NEW opens \in BOOLEAN, StartTestBody(opens)
  PROVE  DevicesInv'
<1>1. /\ VoiceTypeOK /\ TokenInv /\ CaptureInv /\ MicrophoneInv /\ TestInv /\ DetectorInv
      /\ Sessions \subseteq Nat \ {0} /\ svc.session \in Nat /\ svc.capture \in Nat /\ svc.prepared \in Nat
      /\ MaxSessions \in Nat /\ idle \in Seq(Callbacks) /\ IsService(svc) /\ cap \in Captures
  BY SessionsAre DEF DevicesInv, VoiceTypeOK, IsService
<1>2. /\ worker' = CancelRunning(worker) /\ queue' = Cleared(queue) /\ mainpc' = "ready" /\ UNCHANGED idle
      /\ \E pc \in {"idle", "off"} : cap' = [NoCapture EXCEPT !.pc = pc]
  BY DEF StartTestBody
<1>3. /\ worker' \in Workers /\ worker'.pc = worker.pc /\ worker'.job = worker.job
      /\ queue' \in Queues /\ First(queue'.finals) /\ \A s \in Nat : ~Asked(queue'.finals, s)
      /\ vads' \in [Sessions -> {"none", "open", "closed"}]
      /\ \A s \in Sessions : vads'[s] = "open" <=> vads[s] = "open" /\ s # p
      /\ \A s \in Nat : Prepares(worker', s) <=> Prepares(worker, s)
  BY <1>2, CancelIs
<1>4. cap' \in Captures /\ cap'.pc \notin {"put", "counted"}
  BY <1>1, <1>2, NoCaptureIs DEF Captures
<1>5. /\ IsService(Ended(svc)) /\ Ended(svc).session = svc.session + 1 /\ Ended(svc).pending = 0
      /\ Ended(svc).prepared = 0 /\ Ended(svc).active = svc.active
  BY <1>1, EndedIs
<1>6. PICK m \in {0, svc.session + 1}, x \in {"testing", "error"} :
        /\ svc' = [Ended(svc) EXCEPT !.testing = TRUE, !.capture = svc.session + 1, !.mic = m, !.state = x]
        /\ m # 0 => x = "testing"
  <2>1. CASE opens
    BY <1>5, <2>1 DEF StartTestBody
  <2>2. CASE ~opens
    BY <1>5, <2>2 DEF StartTestBody
  <2>. QED  BY <2>1, <2>2
<1>7. m \in Nat /\ (svc.session + 1) \in Nat
  BY <1>1, <1>6
<1>8. /\ IsService(svc') /\ svc'.session = svc.session + 1 /\ svc'.active = svc.active
      /\ svc'.testing = TRUE /\ svc'.capture = svc.session + 1 /\ svc'.mic = m /\ svc'.state = x
      /\ svc'.prepared = 0 /\ svc'.pending = 0
  BY <1>5, <1>6, <1>7 DEF IsService, Attributes
<1>9. VoiceTypeOK' /\ NoNewToken
  BY <1>1, <1>2, <1>3, <1>4, <1>8 DEF VoiceTypeOK, MainPlaces, NoNewToken, TokenInv
<1>10. /\ (svc.session + 1) \in Sessions /\ ~(svc.session + 1 <= svc.session) /\ svc'.session >= svc.session
       /\ svc'.session # svc.session
  <2>1. svc.session + 1 # 0 /\ svc.session + 1 <= MaxSessions
    BY <1>1
  <2>. QED  BY <1>1, <1>7, <1>8, <2>1, SessionsAre
<1>11. ~Tokens(queue'.finals, worker', idle', svc.session + 1)
  BY <1>1, <1>7, <1>9, <1>10 DEF NoNewToken, TokenInv, HasToken, Tokens
<1>12. TokenInv'
  BY <1>1, <1>8, <1>9, <1>10, <1>11, TokensKept
<1>13. vads'[svc.session + 1] # "open"
  BY <1>1, <1>3, <1>10 DEF DetectorInv
<1>14. CaptureInv' /\ MicrophoneInv' /\ TestInv'
  BY <1>1, <1>2, <1>4, <1>6, <1>8, <1>10, <1>13 DEF CaptureInv, MicrophoneInv, TestInv
<1>15. DetectorInv'
  <2>1. \A s \in Sessions : vads'[s] = "open" => vads[s] = "open" /\ (Owned(s) => Owned(s)')
    BY <1>1, <1>2, <1>3, <1>8 DEF Owned
  <2>. QED  BY <1>1, <1>9, <1>10, <2>1, DetectorsKept
<1>. QED  BY <1>9, <1>12, <1>14, <1>15 DEF DevicesInv

\* start_test, at once or after the session it had to end.
LEMMA StartTestKeeps == ASSUME DevicesInv, StartTest \/ StartTestAfterStop PROVE DevicesInv'
<1>1. /\ CaptureInv /\ svc.session \in Nat /\ svc.capture \in Nat /\ svc.prepared \in Nat /\ MaxSessions \in Nat
  BY SessionsAre DEF DevicesInv, VoiceTypeOK, IsService
<1>2. CASE StartTest /\ svc.active
  BY <1>2, EndCallsKeep DEF StartTest
<1>3. CASE StartTest /\ ~svc.active
  <2>1. PICK opens \in BOOLEAN : StartTestBody(opens)
    BY <1>3 DEF StartTest
  <2>2. mainpc = "ready" /\ MayEnd /\ ~svc.testing /\ vads' = Closed(vads, svc.prepared)
    BY <1>3 DEF StartTest, Ready
  <2>3. svc.capture = 0 /\ svc.session < MaxSessions
    BY <1>1, <1>3, <2>2 DEF CaptureInv, MayEnd
  <2>. QED  BY <1>1, <1>3, <2>1, <2>2, <2>3, StartTestBodyKeeps
<1>4. CASE StartTestAfterStop
  <2>1. PICK opens \in BOOLEAN : StartTestBody(opens)
    BY <1>4 DEF StartTestAfterStop
  <2>2. mainpc = "startTest" /\ vads' = Closed(vads, svc.capture)
    BY <1>4 DEF StartTestAfterStop
  <2>3. ~svc.active /\ ~svc.testing /\ svc.session < MaxSessions /\ svc.prepared = 0
    BY <1>1, <2>2 DEF CaptureInv
  <2>. QED  BY <1>1, <2>1, <2>2, <2>3, StartTestBodyKeeps
<1>. QED  BY <1>2, <1>3, <1>4

\* _quit after the join of the recognition thread.
LEMMA QuitEndKeeps == ASSUME DevicesInv, QuitEnd PROVE DevicesInv'
<1>1. /\ VoiceTypeOK /\ TokenInv /\ CaptureInv /\ MicrophoneInv /\ TestInv /\ DetectorInv
      /\ svc.session \in Nat /\ IsService(svc)
  BY DEF DevicesInv, VoiceTypeOK, IsService
<1>2. /\ mainpc = "joinWorker" /\ mainpc' = "ready" /\ svc' = [svc EXCEPT !.stopped = TRUE]
      /\ UNCHANGED <<idle, queue, worker, vads, cap>>
  BY DEF QuitEnd
<1>3. /\ IsService(svc') /\ svc'.session = svc.session /\ svc'.active = svc.active
      /\ svc'.testing = svc.testing /\ svc'.capture = svc.capture /\ svc'.mic = svc.mic
      /\ svc'.prepared = svc.prepared /\ svc'.pending = svc.pending
  BY <1>1, <1>2 DEF IsService, Attributes
<1>4. VoiceTypeOK' /\ NoNewToken /\ svc'.session >= svc.session
  BY <1>1, <1>2, <1>3, WorkStays DEF VoiceTypeOK, MainPlaces
<1>5. ~HasToken(svc.session) /\ svc.capture = 0 /\ svc.mic = 0
  BY <1>1, <1>2 DEF TokenInv, CaptureInv, MicrophoneInv
<1>6. TokenInv'
  BY <1>1, <1>3, <1>4, <1>5, TokensKept
<1>7. CaptureInv' /\ MicrophoneInv' /\ TestInv'
  BY <1>1, <1>2, <1>3, <1>5 DEF CaptureInv, MicrophoneInv, TestInv
<1>8. DetectorInv'
  <2>1. \A s \in Sessions : vads'[s] = "open" => vads[s] = "open" /\ (Owned(s) => Owned(s)')
    BY <1>2, <1>3 DEF Owned
  <2>. QED  BY <1>1, <1>4, <2>1, DetectorsKept
<1>. QED  BY <1>4, <1>6, <1>7, <1>8 DEF DevicesInv

\* What a turn of the main loop or of a thread beside it is made of.
Untouched == UNCHANGED <<svc, mainpc, idle, queue, worker, vads, cap, hist>>
Turn ==
  \/ Calls \/ MainLoop \/ StaleResult \/ (Results /\ reading # NoRead)
  \/ Speaker \/ CaptureErrors \/ CaptureThread \/ Worker
LEMMA TurnsAre ==
  ASSUME VoiceNext
  PROVE  \/ Untouched /\ reading' = svc.pending /\ raced' = raced
         \/ Turn /\ reading' = NoRead /\ raced' = (raced /\ SameSession)
         \/ /\ Speaker \/ CaptureErrors \/ CaptureThread \/ Worker
            /\ reading' = reading /\ raced' = (raced \/ (reading # NoRead /\ svc'.pending # svc.pending))
BY DEF VoiceNext, CallTurn, MainTurn, Beside, CountRead, StaleResult, Turn, Untouched

\* Only a turn of the main loop starts or ends a microphone test.
LEMMA BesideTests ==
  ASSUME DevicesInv, Speaker \/ CaptureErrors \/ CaptureThread \/ Worker PROVE svc'.testing = svc.testing
<1>1. DOMAIN svc = Attributes
  BY DEF DevicesInv, VoiceTypeOK, IsService
<1>2. CASE Speaker \/ CaptureErrors \/ CaptureThread
  BY <1>1, <1>2 DEF Speaker, Onset, PhraseComplete, PartialDue, NobodySpeaks, CaptureErrors, CaptureThread,
                    QueueAudio, QueueAudioPut, QueueAudioNotify, QueuePartial, Invalidated, Attributes
<1>3. CASE Worker
  BY <1>1, <1>3 DEF Worker, WorkerGet, WorkerRegister, WorkerPrepare, WorkerVad, WorkerPublish, WorkerRun,
                    WorkUnchanged, Attributes
<1>. QED  BY <1>2, <1>3

\* A load sees pending, and whoever changes it before the store is noticed.
LEMMA ReadKept == ASSUME DevicesInv, ReadInv, VoiceNext PROVE ReadInv'
<1>1. svc.pending \in Int /\ (svc.testing => svc.pending = 0) /\ NoRead \in Int /\ NoRead <= 0
  BY DEF DevicesInv, VoiceTypeOK, IsService, TestInv, NoRead
<1>2. CASE Untouched /\ reading' = svc.pending /\ raced' = raced
  BY <1>1, <1>2 DEF ReadInv, Untouched
<1>3. CASE reading' = NoRead
  BY <1>1, <1>3 DEF ReadInv
<1>4. CASE /\ Speaker \/ CaptureErrors \/ CaptureThread \/ Worker
           /\ reading' = reading /\ raced' = (raced \/ (reading # NoRead /\ svc'.pending # svc.pending))
  BY <1>1, <1>4, BesideTests DEF ReadInv
<1>. QED  BY <1>2, <1>3, <1>4, TurnsAre

\* Every step keeps the devices in the hands of somebody who knows it.
LEMMA DevicesKept == ASSUME DevicesInv, SpentInv, ReadInv, Turn PROVE DevicesInv'
<1>1. CASE Calls
  BY <1>1, EndCallsKeep, StartKeeps, StartTestKeeps, FinishKeeps DEF Calls
<1>2. CASE MainLoop \/ Results
  BY <1>2, JoinKeeps, StartKeeps, FinishEndKeeps, StartTestKeeps, QuitEndKeeps, DrainEndKeeps, ShowKeeps,
     PreparedKeeps, PreparedFailsKeeps, CaptureFailedKeeps, DrainKeeps, RecognitionFinishedKeeps
     DEF MainLoop, Results
<1>3. CASE Speaker \/ CaptureErrors \/ CaptureThread
  BY <1>3, SpeakerKeeps, CaptureErrorsKeeps, CaptureThreadKeeps
<1>4. CASE Worker
  BY <1>4, WorkerGetKeeps, WorkerGoesOn, WorkerVadKeeps, WorkerPublishKeeps DEF Worker
<1>. QED  BY <1>1, <1>2, <1>3, <1>4 DEF Turn, StaleResult

-----------------------------------------------------------------------------
(* A session past its preparation never gets a token again *)

\* What a step has to show: it gives no token to a number in use, and whoever it
\* spends has none.
LEMMA SpentKept ==
  ASSUME DevicesInv, DevicesInv', SpentInv, svc'.session >= svc.session,
         \A s \in Nat : s <= svc.session /\ HasToken(s)' => HasToken(s),
         \A s \in Nat : Spent(s)' => Spent(s) \/ (s <= svc'.session /\ (s = svc'.session => ~HasToken(s)'))
  PROVE  SpentInv'
<1>1. svc.session \in Nat /\ svc'.session \in Nat
  BY DEF DevicesInv, VoiceTypeOK, IsService
<1>2. ASSUME NEW s \in Nat, Spent(s)'
      PROVE  s <= svc'.session /\ (s = svc'.session => ~HasToken(s)')
  <2>1. CASE Spent(s)
    <3>1. s <= svc.session /\ (s = svc.session => ~HasToken(s))
      BY <2>1 DEF SpentInv
    <3>2. s <= svc'.session /\ (s = svc'.session => s = svc.session)
      BY <1>1, <3>1
    <3>. QED  BY <3>1, <3>2
  <2>2. CASE ~Spent(s)
    BY <1>2, <2>2
  <2>. QED  BY <2>1, <2>2
<1>. QED  BY <1>2 DEF SpentInv

\* What a queue of callbacks blames when one is added or dispatched.
LEMMA BlamedBy ==
  ASSUME NEW q \in Seq(Callbacks), NEW s \in Nat
  PROVE  /\ \A c \in Callbacks : Blamed(Append(q, c), s) => Blamed(q, s) \/ Blames(c, s)
         /\ \A r \in Seq(Callbacks) : Blamed(q \o r, s) => Blamed(q, s) \/ Blamed(r, s)
         /\ q # <<>> /\ Blamed(Tail(q), s) => Blamed(q, s)
<1>1. ASSUME NEW r \in Seq(Callbacks), Blamed(q \o r, s) PROVE Blamed(q, s) \/ Blamed(r, s)
  <2>1. PICK i \in DOMAIN (q \o r) : Blames((q \o r)[i], s)
    BY <1>1 DEF Blamed
  <2>2. CASE i <= Len(q)
    <3>1. i \in DOMAIN q /\ (q \o r)[i] = q[i]
      BY <2>2
    <3>. QED  BY <2>1, <3>1 DEF Blamed
  <2>3. CASE ~(i <= Len(q))
    <3>1. (i - Len(q)) \in DOMAIN r /\ (q \o r)[i] = r[i - Len(q)]
      BY <2>3
    <3>. QED  BY <2>1, <3>1 DEF Blamed
  <2>. QED  BY <2>2, <2>3
<1>2. ASSUME NEW c \in Callbacks, Blamed(Append(q, c), s) PROVE Blamed(q, s) \/ Blames(c, s)
  <2>1. PICK i \in DOMAIN Append(q, c) : Blames(Append(q, c)[i], s)
    BY <1>2 DEF Blamed
  <2>2. CASE i \in DOMAIN q
    <3>1. Append(q, c)[i] = q[i]
      BY <2>2
    <3>. QED  BY <2>1, <2>2, <3>1 DEF Blamed
  <2>3. CASE i \notin DOMAIN q
    <3>1. Append(q, c)[i] = c
      BY <2>3
    <3>. QED  BY <2>1, <3>1
  <2>. QED  BY <2>2, <2>3
<1>3. ASSUME q # <<>>, Blamed(Tail(q), s) PROVE Blamed(q, s)
  <2>1. PICK i \in DOMAIN Tail(q) : Blames(Tail(q)[i], s)
    BY <1>3 DEF Blamed
  <2>2. (i + 1) \in DOMAIN q /\ Tail(q)[i] = q[i + 1]
    BY <1>3
  <2>. QED  BY <2>1, <2>2 DEF Blamed
<1>. QED  BY <1>1, <1>2, <1>3

\* The phrases of a session after put, get and clear.
LEMMA PhrasesOf ==
  ASSUME NEW q \in Seq(Jobs), NEW s \in Nat
  PROVE  /\ ~Phrases(<<>>, s)
         /\ \A j \in Jobs : Phrases(Append(q, j), s) => Phrases(q, s) \/ (j.kind = "final" /\ j.session = s)
         /\ q # <<>> => /\ Phrases(Tail(q), s) => Phrases(q, s)
                        /\ Head(q).kind = "final" /\ Head(q).session = s => Phrases(q, s)
<1>1. ASSUME NEW j \in Jobs, Phrases(Append(q, j), s) PROVE Phrases(q, s) \/ (j.kind = "final" /\ j.session = s)
  <2>1. PICK i \in DOMAIN Append(q, j) : Append(q, j)[i].kind = "final" /\ Append(q, j)[i].session = s
    BY <1>1 DEF Phrases
  <2>2. CASE i \in DOMAIN q
    <3>1. Append(q, j)[i] = q[i]
      BY <2>2
    <3>. QED  BY <2>1, <2>2, <3>1 DEF Phrases
  <2>3. CASE i \notin DOMAIN q
    <3>1. Append(q, j)[i] = j
      BY <2>3
    <3>. QED  BY <2>1, <3>1
  <2>. QED  BY <2>2, <2>3
<1>2. ASSUME q # <<>> PROVE /\ Phrases(Tail(q), s) => Phrases(q, s)
                            /\ Head(q).kind = "final" /\ Head(q).session = s => Phrases(q, s)
  <2>1. ASSUME Phrases(Tail(q), s) PROVE Phrases(q, s)
    <3>1. PICK i \in DOMAIN Tail(q) : Tail(q)[i].kind = "final" /\ Tail(q)[i].session = s
      BY <2>1 DEF Phrases
    <3>2. (i + 1) \in DOMAIN q /\ Tail(q)[i] = q[i + 1]
      BY <1>2
    <3>. QED  BY <3>1, <3>2 DEF Phrases
  <2>2. 1 \in DOMAIN q /\ Head(q) = q[1]
    BY <1>2
  <2>. QED  BY <2>1, <2>2 DEF Phrases
<1>3. ~Phrases(<<>>, s)
  <2>1. DOMAIN <<>> = {}
    OBVIOUS
  <2>. QED  BY <2>1 DEF Phrases
<1>. QED  BY <1>1, <1>2, <1>3

\* Steps that leave the phrase and the running job alone, take callbacks and
\* phrases away and ask for nothing.
LEMMA MainSpent ==
  ASSUME DevicesInv, DevicesInv', SpentInv, svc'.session >= svc.session,
         cap'.session = cap.session, worker'.job = worker.job,
         queue'.finals = queue.finals \/ queue'.finals = <<>>,
         idle' = idle \/ (idle # <<>> /\ idle' = Tail(idle))
  PROVE  SpentInv'
<1>1. idle \in Seq(Callbacks) /\ queue.finals \in Seq(Jobs)
  BY DEF DevicesInv, VoiceTypeOK, Queues
<1>2. ASSUME NEW s \in Nat PROVE /\ HasToken(s)' => HasToken(s)
                                 /\ Spent(s)' => Spent(s)
  <2>1. /\ Announced(idle', s) => Announced(idle, s)
        /\ Blamed(idle', s) => Blamed(idle, s)
    BY <1>1, DropCallback, BlamedBy
  <2>2. /\ Asked(queue'.finals, s) => Asked(queue.finals, s)
        /\ Phrases(queue'.finals, s) => Phrases(queue.finals, s)
    BY <1>1, EmptyQueue, PhrasesOf
  <2>3. Prepares(worker', s) => Prepares(worker, s)
    BY DEF Prepares
  <2>4. HasToken(s)' => HasToken(s)
    BY <2>1, <2>2, <2>3 DEF HasToken, Tokens
  <2>. QED  BY <2>1, <2>2, <2>4 DEF Spent
<1>. QED  BY <1>2, SpentKept

\* How the main loop leaves the variables of the other threads.
Settled ==
  /\ worker' \in {worker, CancelRunning(worker), InvalidateRunning(worker)}
  /\ queue' \in {queue, Cleared(queue), NoPreview(queue), [queue EXCEPT !.quit = TRUE]}
  /\ \/ cap' = cap \/ cap' = NoCapture
     \/ \E pc : cap' = [cap EXCEPT !.pc = pc] \/ cap' = [NoCapture EXCEPT !.pc = pc]
  /\ idle' = idle \/ (idle # <<>> /\ idle' = Tail(idle))

\* Such a step spends no session.
LEMMA SettledSpent ==
  ASSUME DevicesInv, DevicesInv', SpentInv, svc'.session >= svc.session, Settled
  PROVE  SpentInv'
<1>1. worker \in Workers /\ queue \in Queues /\ First(queue.finals) /\ cap \in Captures
  BY DEF DevicesInv, VoiceTypeOK, TokenInv
<1>2. worker'.job = worker.job
  BY <1>1, WorkerIs DEF Settled
<1>3. queue'.finals = queue.finals \/ queue'.finals = <<>>
  <2>1. [queue EXCEPT !.quit = TRUE].finals = queue.finals
    BY <1>1 DEF Queues
  <2>. QED  BY <1>1, <2>1, QueueIs DEF Settled
<1>4. cap'.session = cap.session
  BY ZenonT(60), <1>1 DEF Settled, NoCapture, Captures
<1>. QED  BY <1>2, <1>3, <1>4, MainSpent DEF Settled

\* Calls, joins and callbacks other than the ones that put a job.
LEMMA MainLoopSpent ==
  ASSUME DevicesInv, DevicesInv', SpentInv, ReadInv, Calls \/ MainLoop \/ Results, ~FinishEnd,
         ~(Start /\ ~svc.testing), ~StartAfterTest
  PROVE  SpentInv'
<1>1. /\ IsService(svc) /\ svc.session \in Nat
  BY DEF DevicesInv, VoiceTypeOK, IsService
<1>2. ASSUME NEW s, IsService(s), s.session = svc.session
      PROVE  /\ IsService(Ended(s)) /\ Ended(s).session = svc.session + 1
             /\ IsService(Invalidated(s)) /\ Invalidated(s).session = svc.session
  BY <1>2, EndedIs, InvalidatedIs
<1>3. svc.session + 1 >= svc.session /\ svc.session >= svc.session
  BY <1>1
<1>4. CASE Stop \/ StopTest \/ Quit \/ (Start /\ svc.testing) \/ (Finish /\ svc.capture = 0) \/ (StartTest /\ svc.active)
  <2>1. Settled
    BY <1>4 DEF Stop, StopTest, Quit, Start, Finish, StartTest, StopBegin, QuitBegin, EndSession, CancelWork, Settled
  <2>2. \/ svc' = [Ended(svc) EXCEPT !.active = FALSE, !.testing = FALSE, !.mic = 0]
        \/ svc' = [Ended(svc) EXCEPT !.active = FALSE, !.testing = FALSE, !.mic = 0, !.shutting = TRUE]
    BY <1>4 DEF Stop, StopTest, Quit, Start, Finish, StartTest, StopBegin, QuitBegin
  <2>3. svc'.session = svc.session + 1
    <3>1. DOMAIN Ended(svc) = Attributes /\ Ended(svc).session = svc.session + 1
      BY <1>1, <1>2 DEF IsService
    <3>. QED  BY <2>2, <3>1 DEF Attributes
  <2>. QED  BY <1>3, <2>1, <2>3, SettledSpent
<1>5. CASE (StartTest /\ ~svc.active) \/ StartTestAfterStop
  <2>1. PICK opens \in BOOLEAN : StartTestBody(opens)
    BY <1>5 DEF StartTest, StartTestAfterStop
  <2>2. Settled
    BY <2>1 DEF StartTestBody, Settled
  <2>3. \E c, m, x : svc' = [Ended(svc) EXCEPT !.testing = TRUE, !.capture = c, !.mic = m, !.state = x]
    BY <2>1 DEF StartTestBody
  <2>4. svc'.session = svc.session + 1
    BY <1>1, <1>2, <2>3 DEF IsService, Attributes
  <2>. QED  BY <1>3, <2>2, <2>4, SettledSpent
<1>6. CASE Finish /\ svc.capture # 0
  <2>1. Settled /\ svc' = [svc EXCEPT !.capture = 0, !.mic = 0]
    BY <1>6 DEF Finish, Settled
  <2>2. svc'.session = svc.session
    BY <1>1, <2>1 DEF IsService, Attributes
  <2>. QED  BY <1>3, <2>1, <2>2, SettledSpent
<1>7. CASE StopEnd \/ QuitPut \/ QuitEnd \/ CaptureFailedEnd
  <2>1. Settled
    BY <1>7 DEF StopEnd, QuitPut, QuitEnd, CaptureFailedEnd, Settled
  <2>2. \/ \E x : svc' = [svc EXCEPT !.capture = 0, !.state = x]
        \/ svc' = [svc EXCEPT !.stopped = TRUE]
    BY <1>7 DEF StopEnd, QuitPut, QuitEnd, CaptureFailedEnd
  <2>3. svc'.session = svc.session
    BY <1>1, <2>2 DEF IsService, Attributes
  <2>. QED  BY <1>3, <2>1, <2>3, SettledSpent
<1>8. CASE DrainEnd
  <2>1. Settled
    BY <1>8 DEF DrainEnd, Settled
  <2>2. \E x : svc' = [Invalidated(svc) EXCEPT !.capture = 0, !.message = TRUE, !.state = x]
    BY <1>8 DEF DrainEnd
  <2>3. svc'.session = svc.session
    BY <1>1, <1>2, <2>2 DEF IsService, Attributes
  <2>. QED  BY <1>3, <2>1, <2>3, SettledSpent
<1>9. CASE PreparationState \/ PartialFinished \/ SetSessionState \/ NoSpeech \/ RestoreListening
  <2>1. Settled
    BY <1>9 DEF PreparationState, PartialFinished, SetSessionState, NoSpeech, RestoreListening, Dispatch, Settled
  <2>2. svc' = svc \/ (\E x : svc' = [svc EXCEPT !.state = x])
        \/ (\E x, r : svc' = [svc EXCEPT !.state = x, !.restore = r])
        \/ (\E x, r : svc' = [svc EXCEPT !.restore = r, !.state = x])
    BY <1>9 DEF PreparationState, PartialFinished, SetSessionState, NoSpeech, RestoreListening
  <2>3. svc'.session = svc.session
    BY <1>1, <2>2 DEF IsService, Attributes
  <2>. QED  BY <1>3, <2>1, <2>3, SettledSpent
<1>10. CASE Prepared
  <2>1. Settled
    BY <1>10 DEF Prepared, Dispatch, Settled
  <2>2. svc'.session = svc.session
    <3>. DEFINE o == Head(idle).session
                rest == [svc EXCEPT !.prepared = IF @ = o THEN 0 ELSE @]
    <3>1. DOMAIN rest = Attributes /\ rest.session = svc.session
      BY <1>1 DEF IsService, Attributes
    <3>2. svc' = rest \/ (\E x : svc' = [rest EXCEPT !.capture = o, !.mic = o, !.state = x])
      BY <1>10 DEF Prepared
    <3>. HIDE DEF rest, o
    <3>. QED  BY <3>1, <3>2 DEF Attributes
  <2>. QED  BY <1>3, <2>1, <2>2, SettledSpent
<1>11. CASE PreparedFails
  <2>1. Settled /\ svc' = [Ended(svc) EXCEPT !.active = FALSE, !.testing = FALSE]
    BY <1>11 DEF PreparedFails, Dispatch, Settled
  <2>2. svc'.session = svc.session + 1
    BY <1>1, <1>2, <2>1 DEF IsService, Attributes
  <2>. QED  BY <1>3, <2>1, <2>2, SettledSpent
<1>12. CASE CaptureFailed
  <2>1. Settled /\ (svc' = svc \/ svc' = [Ended(svc) EXCEPT !.active = FALSE, !.testing = FALSE, !.mic = 0])
    BY <1>12 DEF CaptureFailed, CaptureFailedBegin, CancelWork, Drop, Dispatch, Settled
  <2>2. svc'.session \in {svc.session, svc.session + 1}
    BY ZenonT(60), <1>1, <1>2, <2>1 DEF IsService, Attributes
  <2>. QED  BY <1>3, <2>1, <2>2, SettledSpent
<1>13. CASE RecognitionFailed \/ Overloaded
  <2>1. Settled
    BY <1>13 DEF RecognitionFailed, Overloaded, Drop, Dispatch, Settled
  <2>2. svc' = svc \/ (svc' = [svc EXCEPT !.active = FALSE, !.mic = 0])
        \/ (\E n : svc' = [svc EXCEPT !.pending = n, !.active = FALSE, !.mic = 0])
    BY <1>13 DEF RecognitionFailed, Overloaded, Drop
  <2>3. svc'.session = svc.session
    BY <1>1, <2>2 DEF IsService, Attributes
  <2>. QED  BY <1>3, <2>1, <2>3, SettledSpent
<1>14. CASE RecognitionFinished
  <2>. DEFINE s == [svc EXCEPT !.pending = Lowered]
  <2>1. Settled
    BY <1>14 DEF RecognitionFinished, EndSession, CancelWork, Drop, Dispatch, Settled
  <2>2. IsService(s) /\ s.session = svc.session
    <3>1. \E n \in Nat : s = [svc EXCEPT !.pending = n]
      BY LoweredIs
    <3>. QED  BY <1>1, <3>1 DEF IsService, Attributes
  <2>3. svc' = svc \/ (svc' = [Ended(s) EXCEPT !.active = FALSE, !.testing = FALSE, !.mic = 0])
        \/ (\E x, r : svc' = [s EXCEPT !.state = x, !.restore = r])
    BY <1>14 DEF RecognitionFinished, Drop
  <2>. HIDE DEF s
  <2>4. svc'.session \in {svc.session, svc.session + 1}
    BY ZenonT(60), <1>1, <1>2, <2>2, <2>3 DEF IsService, Attributes
  <2>. QED  BY <1>3, <2>1, <2>4, SettledSpent
<1>. QED  BY <1>4, <1>5, <1>6, <1>7, <1>8, <1>9, <1>10, <1>11, <1>12, <1>13, <1>14 DEF Calls, MainLoop, Results

\* start: the only token that appears is that of a number nobody had.
LEMMA StartSpent ==
  ASSUME DevicesInv, DevicesInv', SpentInv, NEW s, IsService(s), s.session = svc.session,
         NEW installed \in BOOLEAN, StartBody(s, installed), UNCHANGED idle, cap'.session = cap.session
  PROVE  SpentInv'
<1>1. /\ svc.session \in Nat /\ worker \in Workers /\ queue \in Queues /\ First(queue.finals)
  BY DEF DevicesInv, VoiceTypeOK, IsService, TokenInv
<1>2. worker'.job = worker.job
  BY <1>1, WorkerIs DEF StartBody
<1>3. CASE installed
  <2>. DEFINE j == Job("prepare", svc.session + 1, 0, 0)
  <2>1. DOMAIN Ended(s) = Attributes /\ Ended(s).session = svc.session + 1
    BY EndedIs DEF IsService
  <2>2. PICK x : /\ svc' = [Ended(s) EXCEPT !.active = TRUE, !.message = FALSE, !.capture = 0, !.state = x]
                 /\ queue' = PutFinal(Cleared(queue), Job("prepare", svc'.session, 0, 0))
    BY <1>3 DEF StartBody
  <2>3. svc'.session = svc.session + 1
    BY <2>1, <2>2 DEF Attributes
  <2>4. j \in Jobs /\ j.kind = "prepare" /\ j.session = svc.session + 1
    <3>1. svc.session + 1 \in Nat
      BY <1>1
    <3>. QED  BY <3>1 DEF Job, Jobs
  <2>. HIDE DEF j
  <2>5. Cleared(queue) \in Queues /\ Cleared(queue).finals = <<>> /\ First(<<>>) /\ <<>> \in Seq(Jobs)
    BY <1>1, QueueIs, EmptyQueue
  <2>6. queue'.finals = Append(<<>>, j)
    BY <2>2, <2>3, <2>4, <2>5, QueueIs DEF j
  <2>7. ASSUME NEW t \in Nat PROVE /\ t <= svc.session /\ HasToken(t)' => HasToken(t)
                                   /\ Spent(t)' => Spent(t)
    <3>1. Asked(queue'.finals, t) <=> t = svc.session + 1
      BY <2>4, <2>6, EmptyQueue
    <3>2. ~Phrases(queue'.finals, t)
      <4>1. PICK e \in Seq(Jobs) : e = <<>>
        BY <2>5
      <4>2. Phrases(Append(e, j), t) => Phrases(e, t)
        BY <2>4, PhrasesOf
      <4>3. ~Phrases(e, t)
        BY <4>1, PhrasesOf
      <4>. QED  BY <2>6, <4>1, <4>2, <4>3
    <3>3. t <= svc.session => t # svc.session + 1
      BY <1>1
    <3>4. t <= svc.session /\ HasToken(t)' => HasToken(t)
      <4>1. Prepares(worker', t) => Prepares(worker, t)
        BY <1>2 DEF Prepares
      <4>. QED  BY <3>1, <3>3, <4>1 DEF HasToken, Tokens
    <3>. QED  BY <1>2, <3>2, <3>4 DEF Spent
  <2>8. svc'.session >= svc.session
    BY <1>1, <2>3
  <2>. QED  BY <2>7, <2>8, SpentKept
<1>4. CASE ~installed
  <2>1. /\ svc' = [s EXCEPT !.message = FALSE, !.prepared = 0, !.state = "error"]
        /\ queue' = Cleared(queue)
    BY <1>4 DEF StartBody
  <2>2. svc'.session >= svc.session
    BY <1>1, <2>1 DEF IsService, Attributes
  <2>3. queue'.finals = <<>>
    BY <1>1, <2>1, QueueIs
  <2>. QED  BY <1>2, <2>2, <2>3, MainSpent
<1>. QED  BY <1>3, <1>4

\* finish: the phrase and the notice are those of a session that no longer
\* listens.
LEMMA FinishEndSpent == ASSUME DevicesInv, DevicesInv', SpentInv, FinishEnd PROVE SpentInv'
<1>1. /\ svc.session \in Nat /\ worker \in Workers /\ queue \in Queues /\ First(queue.finals) /\ cap \in Captures
      /\ idle \in Seq(Callbacks) /\ queue.finals \in Seq(Jobs) /\ IsService(svc) /\ cap.phrase \in Nat
  BY DEF DevicesInv, VoiceTypeOK, IsService, TokenInv, Queues, Captures
<1>2. /\ worker' = InvalidateRunning(worker) /\ queue' = NoPreview(FlushedQueue) /\ cap' = NoCapture
      /\ \/ idle' = idle
         \/ \E fn \in {"recognizing", "overloaded"} : idle' = Append(idle, Callback(fn, svc.session, 0))
      /\ \E n, x : svc' = [Invalidated(svc) EXCEPT !.pending = n, !.active = FALSE, !.state = x]
  BY DEF FinishEnd
<1>3. svc'.session = svc.session /\ svc'.active = FALSE
  <2>1. DOMAIN Invalidated(svc) = Attributes /\ Invalidated(svc).session = svc.session
    BY <1>1, InvalidatedIs DEF IsService
  <2>. QED  BY <1>2, <2>1 DEF Attributes
<1>4. worker'.job = worker.job /\ cap'.session = cap.session
  BY <1>1, <1>2, WorkerIs DEF NoCapture, Captures
<1>5. ASSUME NEW t \in Nat PROVE /\ HasToken(t)' => HasToken(t)
                                 /\ Spent(t)' => Spent(t) \/ t = svc.session
  <2>. DEFINE j == Job("final", svc.session, 0, cap.phrase)
  <2>1. j \in Jobs /\ j.kind = "final" /\ j.session = svc.session
    BY <1>1 DEF Job, Jobs
  <2>. HIDE DEF j
  <2>2. PutFinal(queue, j) \in Queues /\ PutFinal(queue, j).finals = Append(queue.finals, j)
    BY <1>1, <2>1, QueueIs
  <2>3. /\ First(Append(queue.finals, j))
        /\ Asked(Append(queue.finals, j), t) <=> Asked(queue.finals, t)
        /\ Phrases(Append(queue.finals, j), t) => Phrases(queue.finals, t) \/ t = svc.session
    BY <1>1, <2>1, AddJob, PhrasesOf
  <2>4. queue'.finals = queue.finals \/ queue'.finals = Append(queue.finals, j)
    <3>1. FlushedQueue = queue \/ FlushedQueue = PutFinal(queue, j)
      BY DEF FlushedQueue, j
    <3>. QED  BY <1>1, <1>2, <2>2, <2>3, <3>1, QueueIs
  <2>5. /\ Announced(idle', t) => Announced(idle, t)
        /\ Blamed(idle', t) => Blamed(idle, t) \/ t = svc.session
    <3>1. ASSUME NEW fn \in {"recognizing", "overloaded"}
          PROVE  /\ Announced(Append(idle, Callback(fn, svc.session, 0)), t) => Announced(idle, t)
                 /\ Blamed(Append(idle, Callback(fn, svc.session, 0)), t) => Blamed(idle, t) \/ t = svc.session
      <4>1. PICK c \in Callbacks : c = Callback(fn, svc.session, 0) /\ c.fn = fn /\ c.session = svc.session
        BY <1>1, CallbackIs, ArgumentsAre DEF Functions
      <4>. QED  BY <1>1, <4>1, AddCallback, BlamedBy DEF Blames
    <3>. QED  BY <1>2, <3>1
  <2>6. HasToken(t)' => HasToken(t)
    BY <1>4, <2>3, <2>4, <2>5 DEF HasToken, Tokens, Prepares
  <2>. QED  BY <1>4, <2>3, <2>4, <2>5, <2>6 DEF Spent
<1>6. \A t \in Nat : t = svc'.session => ~HasToken(t)'
  BY <1>3 DEF DevicesInv, TokenInv
<1>7. svc'.session >= svc.session /\ svc.session <= svc'.session
  BY <1>1, <1>3
<1>. QED  BY <1>3, <1>5, <1>6, <1>7, SpentKept

\* One callback more, and nothing else the argument looks at.
LEMMA TellingSpent ==
  ASSUME DevicesInv, DevicesInv', SpentInv, svc'.session = svc.session, cap'.session = cap.session,
         UNCHANGED <<queue, worker>>, NEW fn \in Functions \ {"prepared", "failed", "overloaded", "preparation"},
         NEW s \in Nat, NEW a \in Arguments, idle' = Append(idle, Callback(fn, s, a))
  PROVE  SpentInv'
<1>1. idle \in Seq(Callbacks) /\ svc.session \in Nat
  BY DEF DevicesInv, VoiceTypeOK, IsService
<1>2. PICK c \in Callbacks : c = Callback(fn, s, a) /\ c.fn = fn
  BY CallbackIs
<1>3. \A t \in Nat : Announced(idle', t) => Announced(idle, t)
  BY <1>1, <1>2, AddCallback
<1>4. \A t \in Nat : Blamed(idle', t) => Blamed(idle, t)
  BY <1>1, <1>2, BlamedBy DEF Blames
<1>5. \A t \in Nat : (HasToken(t)' => HasToken(t)) /\ (Spent(t)' => Spent(t))
  BY <1>3, <1>4 DEF HasToken, Tokens, Prepares, Spent
<1>6. svc'.session >= svc.session
  BY <1>1
<1>. QED  BY <1>5, <1>6, SpentKept

\* The streaming thread speaks for the session whose microphone is open.
LEMMA StreamSpent ==
  ASSUME DevicesInv, DevicesInv', SpentInv, Speaker \/ CaptureErrors \/ CaptureThread
  PROVE  SpentInv'
<1>1. /\ svc.session \in Nat /\ worker \in Workers /\ queue \in Queues /\ First(queue.finals) /\ cap \in Captures
      /\ idle \in Seq(Callbacks) /\ queue.finals \in Seq(Jobs) /\ IsService(svc) /\ cap.phrase \in Nat
      /\ cap.session \in Nat /\ svc.mic \in Nat /\ svc.session >= svc.session
  BY DEF DevicesInv, VoiceTypeOK, IsService, TokenInv, Queues, Captures
<1>2. CASE Onset
  <2>1. UNCHANGED <<svc, idle, queue, worker>> /\ cap' = [cap EXCEPT !.speaking = TRUE, !.phrase = @ + 1]
    BY <1>2 DEF Onset
  <2>2. cap'.session = cap.session
    BY <1>1, <2>1 DEF Captures
  <2>. QED  BY <1>1, <2>1, <2>2, MainSpent
<1>3. CASE PhraseComplete \/ PartialDue
  <2>1. UNCHANGED <<svc, idle, queue, worker>> /\ svc.mic # 0
    BY <1>3 DEF PhraseComplete, PartialDue, Listens
  <2>2. cap'.session = svc.mic
    <3>1. \/ \E pc : cap' = [cap EXCEPT !.speaking = FALSE, !.pc = pc, !.session = svc.mic]
          \/ \E pc, n : cap' = [cap EXCEPT !.pc = pc, !.session = svc.mic, !.previews = n]
      BY <1>3 DEF PhraseComplete, PartialDue
    <3>. QED  BY <1>1, <3>1 DEF Captures
  <2>3. svc.mic = svc.session /\ svc.capture = svc.session /\ ~HasToken(svc.session)
    BY <2>1 DEF DevicesInv, MicrophoneInv, TokenInv
  <2>4. \A s \in Nat : HasToken(s)' <=> HasToken(s)
    BY <2>1 DEF HasToken
  <2>5. \A s \in Nat : Spent(s)' => Spent(s) \/ s = svc.session
    BY <2>1, <2>2, <2>3 DEF Spent
  <2>. QED  BY <1>1, <2>1, <2>3, <2>4, <2>5, SpentKept
<1>4. CASE NobodySpeaks \/ CaptureErrors
  <2>1. /\ UNCHANGED <<svc, queue, worker>> /\ (cap' = cap \/ cap' = [cap EXCEPT !.pc = "failed"])
        /\ \E fn \in {"noSpeech", "captureFailed"} : idle' = Append(idle, Callback(fn, svc.mic, 0))
    BY <1>4 DEF NobodySpeaks, CaptureErrors
  <2>2. cap'.session = cap.session
    BY <1>1, <2>1 DEF Captures
  <2>3. PICK fn \in {"noSpeech", "captureFailed"} : idle' = Append(idle, Callback(fn, svc.mic, 0))
    BY <2>1
  <2>4. fn \in Functions \ {"prepared", "failed", "overloaded", "preparation"}
    BY DEF Functions
  <2>5. svc'.session = svc.session /\ UNCHANGED <<queue, worker>> /\ 0 \in Arguments
    BY <2>1, ArgumentsAre
  <2>. QED  BY <1>1, <2>2, <2>3, <2>4, <2>5, TellingSpent
<1>5. CASE QueueAudioNotify
  <2>1. /\ UNCHANGED <<svc, queue, worker>> /\ cap' = [cap EXCEPT !.pc = "idle"]
        /\ idle' = Append(idle, Callback("recognizing", cap.session, 0))
    BY <1>5 DEF QueueAudioNotify
  <2>2. cap'.session = cap.session
    BY <1>1, <2>1 DEF Captures
  <2>3. "recognizing" \in Functions \ {"prepared", "failed", "overloaded", "preparation"}
    BY DEF Functions
  <2>. QED  BY <1>1, <2>1, <2>2, <2>3, TellingSpent, ArgumentsAre
<1>6. CASE QueuePartial
  <2>1. /\ svc' = [svc EXCEPT !.generation = @ + 1] /\ cap' = [cap EXCEPT !.pc = "idle"]
        /\ UNCHANGED <<idle, worker>>
        /\ \/ queue' = queue
           \/ \E j : queue' = [queue EXCEPT !.partial = j]
    BY <1>6 DEF QueuePartial, PutPartial
  <2>2. cap'.session = cap.session /\ queue'.finals = queue.finals /\ svc'.session = svc.session
    BY <1>1, <2>1 DEF Captures, Queues, IsService, Attributes
  <2>. QED  BY <1>1, <2>1, <2>2, MainSpent
<1>8. CASE QueueAudio
  <2>1. /\ worker' = InvalidateRunning(worker) /\ queue' = NoPreview(queue) /\ UNCHANGED idle
        /\ \E pc : cap' = [cap EXCEPT !.pc = pc]
        /\ \E n : svc' = [Invalidated(svc) EXCEPT !.pending = n]
    BY <1>8 DEF QueueAudio
  <2>2. cap'.session = cap.session /\ worker'.job = worker.job /\ queue'.finals = queue.finals
    BY <1>1, <2>1, WorkerIs, QueueIs DEF Captures
  <2>3. svc'.session = svc.session
    <3>1. DOMAIN Invalidated(svc) = Attributes /\ Invalidated(svc).session = svc.session
      BY <1>1, InvalidatedIs DEF IsService
    <3>. QED  BY <2>1, <3>1 DEF Attributes
  <2>. QED  BY <1>1, <2>1, <2>2, <2>3, MainSpent
<1>7. CASE QueueAudioPut
  <2>1. /\ UNCHANGED worker
        /\ queue' = (IF HasRoom(queue) THEN PutFinal(queue, Phrase) ELSE queue)
        /\ idle' = idle \/ idle' = Append(idle, Callback("overloaded", cap.session, 0))
        /\ \E pc : cap' = [cap EXCEPT !.pc = pc]
        /\ \E n : svc' = [svc EXCEPT !.pending = n]
    BY <1>7 DEF QueueAudioPut
  <2>2. cap'.session = cap.session /\ worker'.job = worker.job
    BY <1>1, <2>1 DEF Captures
  <2>3. svc'.session = svc.session
    BY <1>1, <2>1 DEF IsService, Attributes
  <2>4. Phrase \in Jobs /\ Phrase.kind = "final" /\ Phrase.session = cap.session
    BY <1>1 DEF Phrase, Job, Jobs
  <2>5. queue'.finals = queue.finals \/ queue'.finals = Append(queue.finals, Phrase)
    BY <1>1, <2>1, <2>4, QueueIs
  <2>6. PICK c \in Callbacks : /\ c = Callback("overloaded", cap.session, 0)
                               /\ c.fn = "overloaded" /\ c.session = cap.session
    BY <1>1, CallbackIs, ArgumentsAre DEF Functions
  <2>7. ASSUME NEW s \in Nat PROVE (HasToken(s)' => HasToken(s)) /\ (Spent(s)' => Spent(s))
    <3>1. /\ Asked(queue'.finals, s) => Asked(queue.finals, s)
          /\ Phrases(queue'.finals, s) => Phrases(queue.finals, s) \/ s = cap.session
      <4>1. CASE queue'.finals = queue.finals
        BY <4>1
      <4>2. CASE queue'.finals = Append(queue.finals, Phrase)
        <5>1. Asked(Append(queue.finals, Phrase), s) => Asked(queue.finals, s)
          BY <1>1, <2>4, AddJob
        <5>2. Phrases(Append(queue.finals, Phrase), s) => Phrases(queue.finals, s) \/ s = cap.session
          BY <1>1, <2>4, PhrasesOf
        <5>. QED  BY <4>2, <5>1, <5>2
      <4>. QED  BY <2>5, <4>1, <4>2
    <3>2. /\ Announced(idle', s) => Announced(idle, s)
          /\ Blamed(idle', s) => Blamed(idle, s) \/ s = cap.session
      <4>1. Announced(Append(idle, c), s) => Announced(idle, s)
        BY <1>1, <2>6, AddCallback
      <4>2. Blamed(Append(idle, c), s) => Blamed(idle, s) \/ s = cap.session
        BY <1>1, <2>6, BlamedBy DEF Blames
      <4>. QED  BY <2>1, <2>6, <4>1, <4>2
    <3>3. HasToken(s)' => HasToken(s)
      BY <2>2, <3>1, <3>2 DEF HasToken, Tokens, Prepares
    <3>. QED  BY <2>2, <3>1, <3>2, <3>3 DEF Spent
  <2>. QED  BY <1>1, <2>3, <2>7, SpentKept
<1>. QED  BY <1>2, <1>3, <1>4, <1>5, <1>6, <1>7, <1>8 DEF Speaker, CaptureThread

\* A step of the thread with its job: whoever is blamed has a phrase, or had the
\* token that is now gone.
LEMMA WorkSpent ==
  ASSUME DevicesInv, DevicesInv', SpentInv, UNCHANGED <<cap, queue>>, svc'.session = svc.session,
         worker'.job = worker.job \/ worker'.job = NoJob,
         \A s \in Nat : Announced(idle', s) => HasToken(s),
         \A s \in Nat : Blamed(idle', s) =>
           \/ Blamed(idle, s)
           \/ worker.job.session = s /\ worker.job.kind = "final"
           \/ /\ worker.job.session = s /\ worker.job.kind = "prepare" /\ worker'.job = NoJob
              /\ Announced(idle', s) => Announced(idle, s)
  PROVE  SpentInv'
<1>1. svc.session \in Nat /\ TokenInv /\ NoJob.kind = "none"
  BY JobIs DEF DevicesInv, VoiceTypeOK, IsService
<1>2. \A s \in Nat : HasToken(s)' => HasToken(s)
  BY <1>1 DEF HasToken, Tokens, Prepares
<1>3. ASSUME NEW s \in Nat, Spent(s)'
      PROVE  Spent(s) \/ (s <= svc'.session /\ (s = svc'.session => ~HasToken(s)'))
  <2>1. \/ Spent(s)
        \/ /\ worker.job.session = s /\ worker.job.kind = "prepare" /\ worker'.job = NoJob
           /\ Announced(idle', s) => Announced(idle, s)
    BY <1>1, <1>3 DEF Spent
  <2>2. ASSUME worker.job.session = s, worker.job.kind = "prepare", worker'.job = NoJob,
               Announced(idle', s) => Announced(idle, s)
        PROVE  s <= svc'.session /\ (s = svc'.session => ~HasToken(s)')
    <3>1. Prepares(worker, s) /\ HasToken(s) /\ ~Prepares(worker', s)
      BY <1>1, <2>2 DEF Prepares, HasToken, Tokens
    <3>2. s = svc.session => ~Asked(queue.finals, s) /\ ~Announced(idle, s)
      BY <1>1, <3>1 DEF TokenInv
    <3>3. s <= svc.session
      BY <1>1, <3>1 DEF TokenInv
    <3>. QED  BY <2>2, <3>1, <3>2, <3>3 DEF HasToken, Tokens
  <2>. QED  BY <2>1, <2>2
<1>4. svc'.session >= svc.session
  BY <1>1
<1>. QED  BY <1>2, <1>3, <1>4, SpentKept

\* The recognition thread: get, register, prepare, open, hand over, transcribe.
LEMMA WorkerSpent == ASSUME DevicesInv, DevicesInv', SpentInv, Worker PROVE SpentInv'
<1>1. /\ svc.session \in Nat /\ worker \in Workers /\ queue \in Queues /\ First(queue.finals) /\ IsService(svc)
      /\ idle \in Seq(Callbacks) /\ queue.finals \in Seq(Jobs) /\ queue.partial \in Previews /\ svc.session >= svc.session
      /\ worker.job \in Jobs /\ worker.job.session \in Nat /\ worker.job.phrase \in Nat
      /\ worker.pc \in {"prepare", "vad", "publish"} => worker.job.kind = "prepare"
      /\ Idle(worker).job = NoJob /\ NoJob.kind = "none"
  <2>1. /\ svc.session \in Nat /\ worker \in Workers /\ queue \in Queues /\ First(queue.finals) /\ IsService(svc)
        /\ idle \in Seq(Callbacks)
        /\ worker.pc \in {"prepare", "vad", "publish"} => worker.job.kind = "prepare"
    BY DEF DevicesInv, VoiceTypeOK, IsService, TokenInv
  <2>2. worker.job \in Jobs /\ worker.job.session \in Nat /\ worker.job.phrase \in Nat
    BY <2>1 DEF Workers, Jobs
  <2>3. queue.finals \in Seq(Jobs) /\ queue.partial \in Previews
    BY <2>1 DEF Queues
  <2>4. Idle(worker).job = NoJob /\ NoJob.kind = "none"
    BY <2>1, WorkerIs, JobIs
  <2>. QED  BY <2>1, <2>2, <2>3, <2>4
<1>2. \A s \in Nat : /\ Announced(idle, s) => HasToken(s)
                     /\ worker.job.kind = "prepare" /\ worker.job.session = s => HasToken(s)
  BY DEF HasToken, Tokens, Prepares
<1>3. CASE WorkerGet
  <2>1. UNCHANGED <<svc, cap, idle>>
    BY <1>3 DEF WorkerGet, WorkUnchanged
  <2>2. ASSUME \A s \in Nat :
                 /\ Asked(queue'.finals, s) => HasToken(s)
                 /\ Prepares(worker', s) => HasToken(s)
                 /\ Phrases(queue'.finals, s) => Phrases(queue.finals, s)
                 /\ worker'.job.kind = "final" /\ worker'.job.session = s => Spent(s)
        PROVE  SpentInv'
    <3>1. \A s \in Nat : (HasToken(s)' => HasToken(s)) /\ (Spent(s)' => Spent(s))
      BY <1>2, <2>1, <2>2 DEF HasToken, Tokens, Spent
    <3>2. svc'.session >= svc.session
      BY <1>1, <2>1
    <3>. QED  BY <3>1, <3>2, SpentKept
  <2>3. \A s \in Nat : (Asked(queue.finals, s) \/ Prepares(worker, s)) => HasToken(s)
    BY DEF HasToken, Tokens
  <2>4. \A s \in Nat : worker.job.kind = "final" /\ worker.job.session = s => Spent(s)
    BY DEF Spent
  <2>5. CASE worker' = [worker EXCEPT !.pc = "exited"] /\ UNCHANGED queue
    <3>1. worker'.job = worker.job
      BY <1>1, <2>5 DEF Workers
    <3>. QED  BY <2>2, <2>3, <2>4, <2>5, <3>1 DEF Prepares
  <2>6. CASE /\ queue.finals # <<>> /\ queue' = [queue EXCEPT !.finals = Tail(@)]
             /\ \/ worker' = worker
                \/ worker' = [worker EXCEPT !.pc = "register", !.job = Head(queue.finals)]
    <3>1. queue'.finals = Tail(queue.finals)
      BY <1>1, <2>6 DEF Queues
    <3>2. /\ Head(queue.finals) = queue.finals[1] /\ \A s \in Nat : ~Asked(Tail(queue.finals), s)
      BY <1>1, <2>6, TakeJob
    <3>3. \A s \in Nat : /\ Phrases(Tail(queue.finals), s) => Phrases(queue.finals, s)
                         /\ Head(queue.finals).kind = "final" /\ Head(queue.finals).session = s => Spent(s)
      BY <1>1, <2>6, PhrasesOf DEF Spent
    <3>4. worker'.job = worker.job \/ worker'.job = Head(queue.finals)
      BY <1>1, <2>6 DEF Workers
    <3>5. \A s \in Nat : Head(queue.finals).kind = "prepare" /\ Head(queue.finals).session = s => HasToken(s)
      BY <2>3, <2>6, <3>2 DEF Asked
    <3>6. \A s \in Nat : Prepares(worker', s) => HasToken(s)
      BY <2>3, <3>4, <3>5 DEF Prepares
    <3>. QED  BY <2>2, <2>4, <3>1, <3>2, <3>3, <3>4, <3>6
  <2>7. CASE /\ queue' = NoPreview(queue)
             /\ worker' = worker \/ worker' = [worker EXCEPT !.pc = "register", !.job = queue.partial]
    <3>1. queue'.finals = queue.finals
      BY <1>1, <2>7, QueueIs
    <3>2. worker'.job = worker.job \/ worker'.job.kind \in {"none", "partial"}
      BY <1>1, <2>7 DEF Workers, Previews
    <3>. QED  BY <2>2, <2>3, <2>4, <3>1, <3>2 DEF Prepares
  <2>. QED  BY <1>3, <2>5, <2>6, <2>7 DEF WorkerGet
<1>4. CASE WorkerRegister
  <2>1. UNCHANGED <<svc, cap, queue, idle>>
    BY <1>4 DEF WorkerRegister, WorkUnchanged
  <2>2. worker' = Idle(worker) \/ \E pc : worker' = [worker EXCEPT !.cancel = "clear", !.pc = pc]
    BY <1>4 DEF WorkerRegister
  <2>3. worker'.job = worker.job \/ worker'.job = NoJob
    BY <1>1, <2>2 DEF Workers
  <2>. QED  BY <1>2, <2>1, <2>3, WorkSpent
<1>5. CASE WorkerPublish
  <2>1. /\ UNCHANGED <<cap, queue>> /\ worker'.job = NoJob /\ worker.job.kind = "prepare"
        /\ \/ UNCHANGED <<svc, idle>>
           \/ /\ svc' = [svc EXCEPT !.prepared = worker.job.session]
              /\ idle' = Append(idle, Callback("prepared", worker.job.session, 0))
    BY <1>1, <1>5 DEF WorkerPublish
  <2>2. svc'.session = svc.session
    BY <1>1, <2>1 DEF IsService, Attributes
  <2>3. PICK c \in Callbacks : /\ c = Callback("prepared", worker.job.session, 0)
                               /\ c.fn = "prepared" /\ c.session = worker.job.session
    <3>1. "prepared" \in Functions
      BY DEF Functions
    <3>. QED  BY <1>1, <3>1, CallbackIs, ArgumentsAre
  <2>4. ASSUME NEW s \in Nat PROVE /\ Announced(Append(idle, c), s) => HasToken(s)
                                   /\ Blamed(Append(idle, c), s) => Blamed(idle, s)
    <3>1. s # worker.job.session => (Announced(Append(idle, c), s) <=> Announced(idle, s))
      BY <1>1, <2>3, AddCallback
    <3>2. Blamed(Append(idle, c), s) => Blamed(idle, s)
      BY <1>1, <2>3, BlamedBy DEF Blames
    <3>. QED  BY <1>2, <2>1, <3>1, <3>2
  <2>5. \A s \in Nat : (Announced(idle', s) => HasToken(s)) /\ (Blamed(idle', s) => Blamed(idle, s))
    BY <1>2, <2>1, <2>3, <2>4
  <2>. QED  BY <2>1, <2>2, <2>5, WorkSpent
<1>6. CASE WorkerVad
  <2>1. /\ UNCHANGED <<svc, cap, queue>> /\ worker.job.kind = "prepare"
        /\ \/ worker' = [worker EXCEPT !.pc = "publish"] /\ UNCHANGED idle
           \/ worker' = Idle(worker) /\ (UNCHANGED idle \/ idle' = Append(idle, Callback("failed", worker.job.session, 0)))
    BY <1>1, <1>6 DEF WorkerVad, FailedCallback
  <2>2. worker'.job = worker.job \/ worker'.job = NoJob
    BY <1>1, <2>1 DEF Workers
  <2>3. CASE UNCHANGED idle
    BY <1>2, <2>1, <2>2, <2>3, WorkSpent
  <2>4. CASE worker' = Idle(worker) /\ idle' = Append(idle, Callback("failed", worker.job.session, 0))
    <3>1. PICK c \in Callbacks : /\ c = Callback("failed", worker.job.session, 0)
                                 /\ c.fn = "failed" /\ c.session = worker.job.session
      <4>1. "failed" \in Functions
        BY DEF Functions
      <4>. QED  BY <1>1, <4>1, CallbackIs, ArgumentsAre
    <3>2. \A s \in Nat : Announced(idle', s) => Announced(idle, s)
      BY <1>1, <2>4, <3>1, AddCallback
    <3>3. \A s \in Nat : Blamed(idle', s) => Blamed(idle, s) \/ worker.job.session = s
      BY <1>1, <2>4, <3>1, BlamedBy DEF Blames
    <3>. QED  BY <1>1, <1>2, <2>1, <2>4, <3>2, <3>3, WorkSpent
  <2>. QED  BY <2>1, <2>3, <2>4
<1>7. CASE WorkerPrepare
  <2>1. /\ UNCHANGED <<svc, cap, queue>> /\ worker.job.kind = "prepare"
        /\ worker' = [worker EXCEPT !.pc = "vad"] \/ worker' = Idle(worker)
    BY <1>1, <1>7 DEF WorkerPrepare, WorkUnchanged
  <2>2. worker'.job = worker.job \/ worker'.job = NoJob
    BY <1>1, <2>1 DEF Workers
  <2>3. PICK told \in Seq(Callbacks) :
          /\ idle' = idle \o told
          /\ \A i \in DOMAIN told : /\ told[i].fn # "prepared" /\ told[i].fn \in {"preparation", "failed"}
                                    /\ told[i].session = worker.job.session
                                    /\ told[i].fn = "failed" => worker' = Idle(worker)
    BY <1>7, PreparationTells
  <2>4. \A s \in Nat : Announced(idle', s) => Announced(idle, s)
    BY <1>1, <2>3, AddCallbacks
  <2>5. \A s \in Nat : Blamed(told, s) => worker.job.session = s /\ worker'.job = NoJob
    BY <1>1, <2>3 DEF Blamed, Blames
  <2>6. \A s \in Nat : Blamed(idle', s) => Blamed(idle, s) \/ Blamed(told, s)
    BY <1>1, <2>3, BlamedBy
  <2>. QED  BY <1>2, <2>1, <2>2, <2>4, <2>5, <2>6, WorkSpent
<1>8. CASE WorkerRun
  <2>1. UNCHANGED <<svc, cap, queue>> /\ worker'.job = NoJob
    BY <1>1, <1>8 DEF WorkerRun, WorkUnchanged
  <2>2. CASE idle' = idle
    BY <1>2, <2>1, <2>2, WorkSpent
  <2>3. CASE idle' # idle
    <3>1. PICK c \in Callbacks :
            /\ idle' = Append(idle, c) /\ c.fn # "prepared" /\ c.session = worker.job.session
            /\ c.fn \in {"partial", "finished"} \/ (c.fn = "failed" /\ worker.job.kind = "final")
      BY <1>8, <2>3, RunTells
    <3>2. \A s \in Nat : Announced(idle', s) => Announced(idle, s)
      BY <1>1, <3>1, AddCallback
    <3>3. \A s \in Nat : Blamed(idle', s) => Blamed(idle, s) \/ (worker.job.session = s /\ worker.job.kind = "final")
      BY <1>1, <3>1, BlamedBy DEF Blames
    <3>. QED  BY <1>2, <2>1, <3>2, <3>3, WorkSpent
  <2>. QED  BY <2>2, <2>3
<1>. QED  BY <1>3, <1>4, <1>5, <1>6, <1>7, <1>8 DEF Worker

\* Every step keeps a spent session without a token.
LEMMA SpentSessionsKept == ASSUME DevicesInv, SpentInv, ReadInv, Turn PROVE SpentInv'
<1>1. DevicesInv' /\ IsService(svc) /\ cap \in Captures
  BY DevicesKept DEF DevicesInv, VoiceTypeOK
<1>2. CASE Start /\ ~svc.testing
  <2>1. PICK installed \in BOOLEAN : StartBody(svc, installed)
    BY <1>2 DEF Start
  <2>2. UNCHANGED <<idle, cap>>
    BY <1>2 DEF Start
  <2>. QED  BY <1>1, <2>1, <2>2, StartSpent
<1>3. CASE StartAfterTest
  <2>. DEFINE s == [svc EXCEPT !.capture = 0]
  <2>1. PICK installed \in BOOLEAN : StartBody(s, installed)
    BY <1>3 DEF StartAfterTest
  <2>2. UNCHANGED idle /\ cap' = NoCapture
    BY <1>3 DEF StartAfterTest
  <2>3. IsService(s) /\ s.session = svc.session /\ cap'.session = cap.session
    BY <1>1, <2>2 DEF IsService, Attributes, NoCapture, Captures
  <2>. HIDE DEF s
  <2>. QED  BY <1>1, <2>1, <2>2, <2>3, StartSpent
<1>4. CASE (Calls \/ MainLoop \/ Results) /\ ~(Start /\ ~svc.testing) /\ ~StartAfterTest
  BY <1>1, <1>4, FinishEndSpent, MainLoopSpent
<1>5. CASE Speaker \/ CaptureErrors \/ CaptureThread \/ Worker
  BY <1>1, <1>5, StreamSpent, WorkerSpent
<1>. QED  BY <1>2, <1>3, <1>4, <1>5 DEF Turn, StaleResult

-----------------------------------------------------------------------------
(* Devices have owners *)

\* The service starts with no session and no device.
LEMMA DevicesBegin == VoiceInit => DevicesInv /\ SpentInv /\ ReadInv
<1>. SUFFICES ASSUME VoiceInit PROVE DevicesInv /\ SpentInv /\ ReadInv
  OBVIOUS
<1>1. NoJob \in Jobs /\ NoJob \in Previews /\ NoJob.kind = "none" /\ NoJob.session = 0 /\ Sessions \subseteq Nat \ {0}
  BY JobIs, SessionsAre DEF Previews
<1>2. /\ idle = <<>> /\ mainpc = "ready" /\ vads = [s \in Sessions |-> "none"]
      /\ queue = [finals |-> <<>>, partial |-> NoJob, quit |-> FALSE]
      /\ worker = [pc |-> "get", job |-> NoJob, cancel |-> "none"]
      /\ cap = [pc |-> "off", speaking |-> FALSE, phrase |-> 0, previews |-> 0, session |-> 0]
  BY DEF VoiceInit
<1>3. IsService(svc) /\ svc.session = 0 /\ svc.capture = 0 /\ svc.mic = 0 /\ svc.prepared = 0
      /\ svc.active = FALSE /\ svc.testing = FALSE
  BY DEF VoiceInit, IsService, Attributes
<1>4. idle \in Seq(Callbacks) /\ DOMAIN idle = {}
  BY <1>2
<1>5. queue \in Queues /\ queue.finals = <<>> /\ First(queue.finals) /\ (\A s \in Nat : ~Asked(queue.finals, s))
  BY <1>1, <1>2, EmptyQueue DEF Queues
<1>6. worker \in Workers /\ cap \in Captures /\ vads \in [Sessions -> {"none", "open", "closed"}]
  BY <1>1, <1>2 DEF Workers, Captures
<1>7. VoiceTypeOK
  BY <1>2, <1>3, <1>4, <1>5, <1>6 DEF VoiceTypeOK, MainPlaces
<1>8. \A s \in Nat : ~HasToken(s)
  BY <1>1, <1>2, <1>4, <1>5 DEF HasToken, Tokens, Prepares, Announced
<1>9. TokenInv
  BY <1>2, <1>3, <1>4, <1>5, <1>8 DEF TokenInv, HasToken, Tokens, AnnouncedOnce
<1>10. CaptureInv /\ MicrophoneInv /\ TestInv /\ DetectorInv
  BY <1>2, <1>3 DEF CaptureInv, MicrophoneInv, TestInv, DetectorInv, DetectorHasOwner
<1>11. SpentInv
  <2>1. \A s \in Nat : ~Phrases(queue.finals, s)
    <3>1. DOMAIN queue.finals = {}
      BY <1>5
    <3>. QED  BY <3>1 DEF Phrases
  <2>2. \A s \in Nat : Spent(s) => s = 0
    BY <1>1, <1>2, <1>4, <2>1 DEF Spent, Blamed
  <2>. QED  BY <1>3, <1>8, <2>2 DEF SpentInv
<1>12. ReadInv
  BY <1>3 DEF VoiceInit, ReadInv, NoRead
<1>. QED  BY <1>7, <1>9, <1>10, <1>11, <1>12 DEF DevicesInv

\* A load, like a stuttering step, leaves everything else alone.
LEMMA DevicesStay == ASSUME DevicesInv, SpentInv, Untouched PROVE DevicesInv' /\ SpentInv'
<1>1. DevicesInv'
  BY DEF Untouched, DevicesInv, VoiceTypeOK, TokenInv, HasToken, CaptureInv, MicrophoneInv, TestInv,
         DetectorInv, DetectorHasOwner
<1>2. SpentInv'
  BY DEF Untouched, SpentInv, Spent, HasToken
<1>. QED  BY <1>1, <1>2

LEMMA DevicesNext ==
  ASSUME DevicesInv, SpentInv, ReadInv, [VoiceNext]_vars PROVE DevicesInv' /\ SpentInv' /\ ReadInv'
<1>1. CASE VoiceNext
  <2>1. Turn \/ Untouched
    BY <1>1, TurnsAre DEF Turn
  <2>. QED  BY <1>1, <2>1, DevicesKept, SpentSessionsKept, DevicesStay, ReadKept
<1>2. CASE UNCHANGED vars
  <2>1. Untouched /\ UNCHANGED <<reading, raced>>
    BY <1>2 DEF vars, Untouched
  <2>2. ReadInv'
    BY <2>1 DEF ReadInv, Untouched
  <2>. QED  BY <2>1, <2>2, DevicesStay
<1>. QED  BY <1>1, <1>2

\* The microphone records only for the session that is on and only while the
\* shell says so, and every speech detector that runs belongs to the main loop,
\* to the recognition thread or to a callback on its way: whatever stops, fails,
\* comes late or is refused (_prepared, _cancel_work, _capture_failed, stop,
\* finish, start_test and _quit against the two threads).
THEOREM DevicesAlwaysOwned == VoiceSpec => []DevicesHaveOwners
<1>1. VoiceInit => DevicesInv /\ SpentInv /\ ReadInv
  BY DevicesBegin
<1>2. (DevicesInv /\ SpentInv /\ ReadInv) /\ [VoiceNext]_vars => (DevicesInv /\ SpentInv /\ ReadInv)'
  BY DevicesNext
<1>3. DevicesInv => DevicesHaveOwners
  BY DEF DevicesInv, MicrophoneInv, DetectorInv, DevicesHaveOwners, MicrophoneIsShown
<1>. QED  BY <1>1, <1>2, <1>3, PTL DEF VoiceSpec

-----------------------------------------------------------------------------
(* The phrases on their way through the service *)

Final(j, s) == j.kind = "final" /\ j.session = s
Text(c, s) == c.fn = "finished" /\ c.session = s
Texted(q, s) == \E c \in Range(q) : Text(c, s)

IsHistory(h) ==
  /\ DOMAIN h = {"shown", "delivered", "accepted", "ended", "refused", "faults"}
  /\ h.delivered \in Nat /\ h.accepted \in Nat /\ h.ended \in Nat /\ h.refused \in BOOLEAN

\* The recognition thread has a job exactly between get and its result.
WorkerInv ==
  /\ \A j \in Range(queue.finals) : j.kind \in {"prepare", "final"}
  /\ queue.partial = NoJob \/ queue.partial.kind = "partial"
  /\ worker.pc \in {"get", "exited"} => worker.job.kind = "none"
  /\ worker.pc = "register" => worker.job.kind # "none"
  /\ worker.pc = "run" => worker.job.kind \in {"final", "partial"}
  /\ worker.pc \in {"get", "register"} => worker.cancel = "none"

\* The streaming thread works for a capture that the main loop has or waits for.
Busy == cap.speaking \/ cap.pc \in {"put", "counted", "notify", "partial"}
StreamInv ==
  /\ Busy => svc.capture # 0 \/ mainpc = "finish"
  /\ cap.pc = "partial" => cap.speaking
  /\ cap.pc \in {"put", "counted", "notify"} => ~cap.speaking
  /\ cap.speaking \/ cap.pc \in {"put", "counted"} => cap.phrase > hist.accepted
  /\ cap.pc = "counted" => svc.floor = svc.generation

\* A phrase of this session is being spoken or on its way to the queue.
Uttered ==
  \/ cap.speaking /\ (svc.capture = svc.session \/ mainpc = "finish")
  \/ cap.pc \in {"put", "counted", "partial"} /\ cap.session = svc.session

TextsIn(q, s, low, high) ==
  \A c \in Range(q) : Text(c, s) => c.arg.phrase \in Nat /\ low < c.arg.phrase /\ c.arg.phrase <= high
FinalsIn(q, s, low, high) ==
  \A j \in Range(q) : Final(j, s) => low < j.phrase /\ j.phrase <= high
TextsRise(q, s) ==
  \A i, j \in DOMAIN q : i < j /\ Text(q[i], s) /\ Text(q[j], s) => q[i].arg.phrase < q[j].arg.phrase
FinalsRise(q, s) ==
  \A i, j \in DOMAIN q : i < j /\ Final(q[i], s) /\ Final(q[j], s) => q[i].phrase < q[j].phrase

\* The phrases of this session in the order they were spoken: up to told the main
\* loop knows the text, up to heard it was recognized, up to taken the
\* recognition thread has it.
Progress(told, heard, taken) ==
  /\ hist.delivered <= told /\ hist.ended <= told /\ told <= heard /\ heard <= taken
  /\ taken <= cap.phrase /\ (Uttered => taken < cap.phrase)
  /\ TextsIn(idle, svc.session, told, heard) /\ TextsIn(idle, svc.session, told, hist.accepted)
  /\ Final(worker.job, svc.session) => /\ heard < worker.job.phrase /\ worker.job.phrase <= taken
                                       /\ worker.job.phrase <= hist.accepted
  /\ FinalsIn(queue.finals, svc.session, taken, hist.accepted)
OrderInv ==
  /\ hist.delivered <= hist.accepted /\ hist.accepted <= cap.phrase /\ hist.ended <= cap.phrase
  /\ TextsRise(idle, svc.session) /\ FinalsRise(queue.finals, svc.session)
  /\ \E told, heard, taken \in Nat : Progress(told, heard, taken)

\* A preview above the floor is of the phrase that is being spoken.
Fresh(j) ==
  j.kind = "partial" =>
    /\ j.session <= svc.session /\ j.gen <= svc.generation
    /\ j.session = svc.session /\ j.gen > svc.floor =>
         j.phrase > hist.accepted /\ j.phrase > hist.ended
PreviewInv ==
  /\ svc.floor <= svc.generation
  /\ Fresh(queue.partial) /\ Fresh(worker.job)
  /\ \A c \in Range(idle) :
       /\ c.fn = "partial" => c.arg \in Jobs /\ c.arg.kind = "partial" /\ Fresh(c.arg)
       /\ c.fn = "finished" => c.session <= svc.session

PhraseInv == IsHistory(hist) /\ WorkerInv /\ StreamInv /\ OrderInv /\ PreviewInv

\* Nothing that was spoken, or that failed, carries the number of this session.
Loud(c, s) == c.fn \in {"finished", "failed", "overloaded"} /\ c.session = s
Silent ==
  /\ cap.session # svc.session /\ ~Final(worker.job, svc.session)
  /\ \A j \in Range(queue.finals) : ~Final(j, svc.session)
  /\ \A c \in Range(idle) : ~Loud(c, svc.session)
\* Nothing was accepted yet, and only the preparation can have failed.
Unheard ==
  /\ ~Final(worker.job, svc.session)
  /\ \A j \in Range(queue.finals) : ~Final(j, svc.session)
  /\ \A c \in Range(idle) : Loud(c, svc.session) => c.fn = "failed"
Preparing == svc.active /\ svc.capture = 0 /\ mainpc # "finish"
Dead ==
  /\ ~svc.active /\ Silent /\ mainpc \notin {"finish", "drain"}
  /\ mainpc \in {"ready", "joinWorker"} => svc.state # "finishing"
\* What pending says of the phrases that were put.
Counted == svc.pending - BeingPut
\* pending counts, except during a preparation, after a refused start or a race for
\* it, and in a number that no session has used.
CountInv ==
  /\ hist.refused \/ mainpc = "drain" => ~svc.active
  /\ Preparing => svc.pending = 0 /\ svc.state # "finishing" /\ Unheard /\ Outstanding <= 1
  /\ cap.pc \in {"put", "counted"} => cap.session = svc.session \/ Dead
  /\ hist.refused \/ raced \/ Preparing \/ Dead \/ Counted = Outstanding

\* Only the end of a session, or a refused start, cancels a phrase.
CancelInv == Final(worker.job, svc.session) /\ ~hist.refused /\ ~raced => worker.cancel # "set"
\* Within a session a race is remembered.
Races == svc'.session = svc.session /\ raced => raced'

-----------------------------------------------------------------------------
(* Counting the elements of a sequence that belong to a set *)

Places(q, M) == {i \in DOMAIN q : q[i] \in M}
Count(q, M) == Cardinality(Places(q, M))

\* The places of a sequence are finitely many.
LEMMA CountIs ==
  ASSUME NEW D, NEW q \in Seq(D), NEW M
  PROVE  /\ IsFiniteSet(Places(q, M)) /\ Count(q, M) \in Nat
         /\ Count(q, M) = 0 <=> \A i \in DOMAIN q : q[i] \notin M
<1>1. Len(q) \in Nat /\ DOMAIN q = 1..Len(q)
  OBVIOUS
<1>2. IsFiniteSet(1..Len(q))
  BY <1>1, FS_Interval
<1>3. Places(q, M) \subseteq 1..Len(q)
  BY <1>1 DEF Places
<1>4. IsFiniteSet(Places(q, M))
  BY <1>2, <1>3, FS_Subset
<1>5. Places(q, M) = {} <=> \A i \in DOMAIN q : q[i] \notin M
  BY DEF Places
<1>. QED  BY <1>4, <1>5, FS_CardinalityType, FS_EmptySet DEF Count

\* One more at the end.
LEMMA CountAppend ==
  ASSUME NEW D, NEW q \in Seq(D), NEW x \in D, NEW M
  PROVE  /\ x \in M => Count(Append(q, x), M) = Count(q, M) + 1
         /\ x \notin M => Count(Append(q, x), M) = Count(q, M)
<1>. DEFINE a == Append(q, x)
            n == Len(q) + 1
<1>1. /\ Len(q) \in Nat /\ DOMAIN q = 1..Len(q) /\ DOMAIN a = 1..n
      /\ a[n] = x /\ \A i \in DOMAIN q : a[i] = q[i]
  OBVIOUS
<1>2. /\ \A i \in DOMAIN a : i \in DOMAIN q \/ i = n
      /\ \A i \in DOMAIN q : i \in DOMAIN a
      /\ n \in DOMAIN a /\ n \notin DOMAIN q
  BY <1>1
<1>. HIDE DEF a, n
<1>3. x \in M => Places(a, M) = Places(q, M) \cup {n}
  BY <1>1, <1>2 DEF Places
<1>4. x \notin M => Places(a, M) = Places(q, M)
  BY <1>1, <1>2 DEF Places
<1>5. n \notin Places(q, M) /\ IsFiniteSet(Places(q, M))
  BY <1>2, CountIs DEF Places
<1>6. Cardinality(Places(q, M) \cup {n}) = Cardinality(Places(q, M)) + 1
  BY <1>5, FS_AddElement
<1>. QED  BY <1>3, <1>4, <1>6 DEF Count, a

\* One less at the beginning.
LEMMA CountTail ==
  ASSUME NEW D, NEW q \in Seq(D), q # <<>>, NEW M
  PROVE  /\ Head(q) \in M => Count(Tail(q), M) + 1 = Count(q, M)
         /\ Head(q) \notin M => Count(Tail(q), M) = Count(q, M)
<1>. DEFINE a == Tail(q)
            rest == Places(q, M) \ {1}
            f == [i \in Places(a, M) |-> i + 1]
<1>1. /\ a \in Seq(D) /\ Len(q) \in Nat \ {0} /\ DOMAIN q = 1..Len(q) /\ Head(q) = q[1]
      /\ DOMAIN a = 1..(Len(q) - 1) /\ \A i \in DOMAIN a : a[i] = q[i + 1]
  OBVIOUS
<1>2. /\ \A i \in DOMAIN a : (i + 1) \in DOMAIN q /\ i \in Nat /\ i + 1 # 1
      /\ \A i \in DOMAIN q : i # 1 => (i - 1) \in DOMAIN a /\ a[i - 1] = q[i] /\ (i - 1) + 1 = i
      /\ 1 \in DOMAIN q
  BY <1>1
<1>. HIDE DEF a
<1>3. f \in [Places(a, M) -> rest]
  BY <1>1, <1>2 DEF Places
<1>4. \A i, j \in Places(a, M) : f[i] = f[j] => i = j
  <2>1. \A i \in Places(a, M) : i \in Nat /\ f[i] = i + 1
    BY <1>2 DEF Places
  <2>. HIDE DEF f
  <2>. QED  BY <2>1
<1>5. ASSUME NEW t \in rest PROVE \E i \in Places(a, M) : f[i] = t
  <2>1. (t - 1) \in Places(a, M) /\ (t - 1) + 1 = t
    BY <1>2 DEF Places
  <2>. QED  BY <2>1
<1>6. f \in Bijection(Places(a, M), rest)
  <2>. HIDE DEF f, rest
  <2>. QED  BY <1>3, <1>4, <1>5, Fun_IsBij
<1>7. ExistsBijection(Places(a, M), rest)
  BY <1>6 DEF ExistsBijection
<1>8. Cardinality(rest) = Count(a, M)
  <2>1. IsFiniteSet(Places(a, M))
    BY <1>1, CountIs
  <2>. QED  BY <2>1, <1>7, FS_Bijection DEF Count
<1>9. /\ IsFiniteSet(Places(q, M)) /\ Count(q, M) \in Nat
      /\ 1 \in Places(q, M) <=> Head(q) \in M
  BY <1>1, <1>2, CountIs DEF Places
<1>10. Cardinality(rest) = IF 1 \in Places(q, M) THEN Count(q, M) - 1 ELSE Count(q, M)
  BY <1>9, FS_RemoveElement DEF Count
<1>. QED  BY <1>8, <1>9, <1>10 DEF a

\* Elements outside the set do not count.
LEMMA CountMore ==
  ASSUME NEW D, NEW q \in Seq(D), NEW r \in Seq(D), NEW M, \A i \in DOMAIN r : r[i] \notin M
  PROVE  Count(q \o r, M) = Count(q, M)
<1>. DEFINE a == q \o r
<1>1. /\ Len(q) \in Nat /\ DOMAIN q = 1..Len(q) /\ Len(r) \in Nat /\ DOMAIN r = 1..Len(r)
      /\ DOMAIN a = 1..(Len(q) + Len(r))
      /\ \A i \in DOMAIN q : a[i] = q[i]
      /\ \A i \in DOMAIN a : i > Len(q) => a[i] = r[i - Len(q)]
  OBVIOUS
<1>2. /\ \A i \in DOMAIN a : i \in DOMAIN q \/ a[i] \notin M
      /\ \A i \in DOMAIN q : i \in DOMAIN a
  BY <1>1
<1>. HIDE DEF a
<1>3. Places(a, M) = Places(q, M)
  BY <1>1, <1>2 DEF Places
<1>. QED  BY <1>3 DEF Count, a

-----------------------------------------------------------------------------
(* Sequences of callbacks and of jobs *)

\* A sequence holds one more.
LEMMA RangeAppend ==
  ASSUME NEW D, NEW q \in Seq(D), NEW x \in D
  PROVE  Range(Append(q, x)) = Range(q) \cup {x}
<1>. DEFINE a == Append(q, x)
<1>1. DOMAIN a = 1..(Len(q) + 1) /\ a[Len(q) + 1] = x /\ \A i \in DOMAIN q : a[i] = q[i]
  OBVIOUS
<1>2. /\ \A i \in DOMAIN a : i \in DOMAIN q \/ i = Len(q) + 1
      /\ \A i \in DOMAIN q : i \in DOMAIN a
      /\ (Len(q) + 1) \in DOMAIN a
  BY <1>1
<1>. HIDE DEF a
<1>3. Range(a) = Range(q) \cup {x}
  BY <1>1, <1>2 DEF Range
<1>. QED  BY <1>3 DEF a

\* What a sequence holds after it grew or lost its first element.
LEMMA RangeIs ==
  ASSUME NEW D, NEW q \in Seq(D)
  PROVE  /\ Range(q) \subseteq D /\ Range(<<>>) = {}
         /\ \A x \in D : Range(Append(q, x)) = Range(q) \cup {x} /\ Range(Append(<<>>, x)) = {x}
         /\ \A r \in Seq(D) : Range(q \o r) = Range(q) \cup Range(r)
         /\ q # <<>> => Range(Tail(q)) \subseteq Range(q) /\ Head(q) \in Range(q)
<1>1. /\ Len(q) \in Nat /\ DOMAIN q = 1..Len(q) /\ \A i \in DOMAIN q : q[i] \in D
  OBVIOUS
<1>2. ASSUME NEW x \in D PROVE Range(Append(q, x)) = Range(q) \cup {x}
  BY RangeAppend
<1>3. ASSUME NEW x \in D PROVE Range(Append(<<>>, x)) = {x}
  <2>1. DOMAIN Append(<<>>, x) = {1} /\ Append(<<>>, x)[1] = x
    OBVIOUS
  <2>. QED  BY <2>1 DEF Range
<1>4. ASSUME NEW r \in Seq(D) PROVE Range(q \o r) = Range(q) \cup Range(r)
  <2>. DEFINE a == q \o r
  <2>1. /\ Len(r) \in Nat /\ DOMAIN r = 1..Len(r) /\ DOMAIN a = 1..(Len(q) + Len(r))
        /\ \A i \in DOMAIN q : a[i] = q[i]
        /\ \A i \in DOMAIN a : i > Len(q) => a[i] = r[i - Len(q)]
        /\ \A i \in DOMAIN r : a[i + Len(q)] = r[i]
    BY <1>1
  <2>2. /\ \A i \in DOMAIN a : i \in DOMAIN q \/ (a[i] = r[i - Len(q)] /\ (i - Len(q)) \in DOMAIN r)
        /\ \A i \in DOMAIN q : i \in DOMAIN a
        /\ \A i \in DOMAIN r : (i + Len(q)) \in DOMAIN a
    BY <1>1, <2>1
  <2>. HIDE DEF a
  <2>3. Range(a) = Range(q) \cup Range(r)
    BY <2>1, <2>2 DEF Range
  <2>. QED  BY <2>3 DEF a
<1>5. ASSUME q # <<>> PROVE Range(Tail(q)) \subseteq Range(q) /\ Head(q) \in Range(q)
  <2>1. /\ DOMAIN Tail(q) = 1..(Len(q) - 1) /\ Head(q) = q[1] /\ 1 \in DOMAIN q
        /\ \A i \in DOMAIN Tail(q) : Tail(q)[i] = q[i + 1] /\ (i + 1) \in DOMAIN q
    BY <1>1, <1>5
  <2>. QED  BY <2>1 DEF Range
<1>6. Range(<<>>) = {} /\ Range(q) \subseteq D
  <2>1. DOMAIN <<>> = {}
    OBVIOUS
  <2>. QED  BY <1>1, <2>1 DEF Range
<1>. QED  BY <1>2, <1>3, <1>4, <1>5, <1>6

\* The same for the callbacks that wait.
LEMMA CallbacksHeld ==
  ASSUME NEW q \in Seq(Callbacks)
  PROVE  /\ Range(q) \subseteq Callbacks
         /\ \A c \in Callbacks : Range(Append(q, c)) = Range(q) \cup {c}
         /\ \A r \in Seq(Callbacks) : Range(q \o r) = Range(q) \cup Range(r)
         /\ q # <<>> => Range(Tail(q)) \subseteq Range(q) /\ Head(q) \in Range(q)
<1>1. Range(q) \subseteq Callbacks /\ (q # <<>> => Range(Tail(q)) \subseteq Range(q) /\ Head(q) \in Range(q))
  BY RangeIs
<1>2. ASSUME NEW c \in Callbacks PROVE Range(Append(q, c)) = Range(q) \cup {c}
  BY RangeAppend
<1>3. ASSUME NEW r \in Seq(Callbacks) PROVE Range(q \o r) = Range(q) \cup Range(r)
  BY RangeIs
<1>. QED  BY <1>1, <1>2, <1>3

\* The same for the jobs that wait.
LEMMA JobsHeld ==
  ASSUME NEW q \in Seq(Jobs)
  PROVE  /\ Range(q) \subseteq Jobs /\ Range(<<>>) = {}
         /\ \A j \in Jobs : Range(Append(q, j)) = Range(q) \cup {j} /\ Range(Append(<<>>, j)) = {j}
         /\ q # <<>> => Range(Tail(q)) \subseteq Range(q) /\ Head(q) \in Range(q)
BY RangeIs

\* Texts stay in order when other callbacks join them, and when the first leaves.
LEMMA TextsOf ==
  ASSUME NEW q \in Seq(Callbacks), NEW s \in Nat, TextsRise(q, s)
  PROVE  /\ \A c \in Callbacks : ~Text(c, s) => TextsRise(Append(q, c), s)
         /\ \A r \in Seq(Callbacks) : (\A c \in Range(r) : ~Text(c, s)) => TextsRise(q \o r, s)
         /\ q # <<>> => TextsRise(Tail(q), s)
<1>1. /\ Len(q) \in Nat /\ DOMAIN q = 1..Len(q)
  OBVIOUS
<1>2. ASSUME NEW r \in Seq(Callbacks), \A c \in Range(r) : ~Text(c, s) PROVE TextsRise(q \o r, s)
  <2>. DEFINE a == q \o r
  <2>1. /\ Len(r) \in Nat /\ DOMAIN r = 1..Len(r) /\ DOMAIN a = 1..(Len(q) + Len(r))
        /\ \A i \in DOMAIN q : a[i] = q[i]
        /\ \A i \in DOMAIN a : i > Len(q) => a[i] = r[i - Len(q)]
    BY <1>1
  <2>2. \A i \in DOMAIN a : i \in DOMAIN q \/ (a[i] = r[i - Len(q)] /\ (i - Len(q)) \in DOMAIN r)
    BY <1>1, <2>1
  <2>3. \A i \in DOMAIN r : ~Text(r[i], s)
    BY <1>2 DEF Range
  <2>. HIDE DEF a
  <2>4. TextsRise(a, s)
    BY <2>1, <2>2, <2>3 DEF TextsRise
  <2>. QED  BY <2>4 DEF a
<1>3. ASSUME NEW c \in Callbacks, ~Text(c, s) PROVE TextsRise(Append(q, c), s)
  <2>. DEFINE a == Append(q, c)
  <2>1. DOMAIN a = 1..(Len(q) + 1) /\ a[Len(q) + 1] = c /\ \A i \in DOMAIN q : a[i] = q[i]
    OBVIOUS
  <2>2. \A i \in DOMAIN a : i \in DOMAIN q \/ i = Len(q) + 1
    BY <1>1, <2>1
  <2>. HIDE DEF a
  <2>3. TextsRise(a, s)
    BY <1>3, <2>1, <2>2 DEF TextsRise
  <2>. QED  BY <2>3 DEF a
<1>4. ASSUME q # <<>> PROVE TextsRise(Tail(q), s)
  <2>. DEFINE a == Tail(q)
  <2>1. \A i \in DOMAIN a : a[i] = q[i + 1] /\ (i + 1) \in DOMAIN q /\ i \in Nat
    BY <1>1, <1>4
  <2>. HIDE DEF a
  <2>2. \A i, j \in DOMAIN a : i < j => i + 1 < j + 1
    BY <2>1
  <2>3. TextsRise(a, s)
    BY <2>1, <2>2 DEF TextsRise
  <2>. QED  BY <2>3 DEF a
<1>. QED  BY <1>2, <1>3, <1>4

\* A text behind all others, and what remains behind the first.
LEMMA TextsRising ==
  ASSUME NEW q \in Seq(Callbacks), NEW s \in Nat, TextsRise(q, s),
         NEW low \in Nat, NEW high \in Nat, TextsIn(q, s, low, high)
  PROVE  /\ \A c \in Callbacks : (c.arg.phrase \in Nat /\ high < c.arg.phrase) => TextsRise(Append(q, c), s)
         /\ q # <<>> /\ Text(Head(q), s) => /\ Head(q).arg.phrase \in Nat
                                            /\ low < Head(q).arg.phrase /\ Head(q).arg.phrase <= high
                                            /\ TextsIn(Tail(q), s, Head(q).arg.phrase, high)
<1>1. /\ Len(q) \in Nat /\ DOMAIN q = 1..Len(q)
      /\ \A i \in DOMAIN q : Text(q[i], s) => q[i].arg.phrase \in Nat /\ low < q[i].arg.phrase /\ q[i].arg.phrase <= high
  BY DEF TextsIn, Range
<1>2. ASSUME NEW c \in Callbacks, c.arg.phrase \in Nat, high < c.arg.phrase PROVE TextsRise(Append(q, c), s)
  <2>. DEFINE a == Append(q, c)
  <2>1. DOMAIN a = 1..(Len(q) + 1) /\ a[Len(q) + 1] = c /\ \A i \in DOMAIN q : a[i] = q[i]
    OBVIOUS
  <2>2. \A i \in DOMAIN a : i \in DOMAIN q \/ i = Len(q) + 1
    BY <1>1, <2>1
  <2>. HIDE DEF a
  <2>3. ASSUME NEW i \in DOMAIN a, NEW j \in DOMAIN a, i < j, Text(a[i], s), Text(a[j], s)
        PROVE  a[i].arg.phrase < a[j].arg.phrase
    <3>1. i \in DOMAIN q
      BY <1>1, <2>1, <2>2, <2>3
    <3>2. CASE j \in DOMAIN q
      BY <2>1, <2>3, <3>1, <3>2 DEF TextsRise
    <3>3. CASE j = Len(q) + 1
      <4>1. a[i] = q[i] /\ a[j] = c
        BY <2>1, <3>1, <3>3
      <4>. QED  BY <1>1, <1>2, <2>3, <3>1, <4>1
    <3>. QED  BY <2>2, <3>2, <3>3
  <2>4. TextsRise(a, s)
    BY <2>3 DEF TextsRise
  <2>. QED  BY <2>4 DEF a
<1>3. ASSUME q # <<>>, Text(Head(q), s)
      PROVE  /\ Head(q).arg.phrase \in Nat
             /\ low < Head(q).arg.phrase /\ Head(q).arg.phrase <= high
             /\ TextsIn(Tail(q), s, Head(q).arg.phrase, high)
  <2>1. /\ Head(q) = q[1] /\ 1 \in DOMAIN q
        /\ \A i \in DOMAIN Tail(q) : Tail(q)[i] = q[i + 1] /\ (i + 1) \in DOMAIN q /\ 1 < i + 1
    BY <1>1, <1>3
  <2>2. \A i \in DOMAIN Tail(q) : Text(Tail(q)[i], s) =>
          /\ Tail(q)[i].arg.phrase \in Nat /\ q[1].arg.phrase < Tail(q)[i].arg.phrase
          /\ Tail(q)[i].arg.phrase <= high
    BY <1>1, <1>3, <2>1 DEF TextsRise
  <2>3. TextsIn(Tail(q), s, q[1].arg.phrase, high)
    BY <2>2 DEF TextsIn, Range
  <2>. QED  BY <1>1, <1>3, <2>1, <2>3
<1>. QED  BY <1>2, <1>3

\* The phrases in the queue: put, get, clear.
LEMMA FinalsOf ==
  ASSUME NEW q \in Seq(Jobs), NEW s \in Nat, FinalsRise(q, s)
  PROVE  /\ FinalsRise(<<>>, s) /\ \A j \in Jobs : FinalsRise(Append(<<>>, j), s)
         /\ q # <<>> => FinalsRise(Tail(q), s)
         /\ \A j \in Jobs, low, high \in Nat : FinalsIn(q, s, low, high) /\ high < j.phrase => FinalsRise(Append(q, j), s)
         /\ \A low, high \in Nat : FinalsIn(q, s, low, high) /\ q # <<>> /\ Final(Head(q), s) =>
              /\ low < Head(q).phrase /\ Head(q).phrase <= high
              /\ FinalsIn(Tail(q), s, Head(q).phrase, high)
<1>1. /\ Len(q) \in Nat /\ DOMAIN q = 1..Len(q) /\ \A i \in DOMAIN q : q[i].phrase \in Nat
  <2>1. Len(q) \in Nat /\ DOMAIN q = 1..Len(q) /\ \A i \in DOMAIN q : q[i] \in Jobs
    OBVIOUS
  <2>. QED  BY <2>1 DEF Jobs
<1>2. FinalsRise(<<>>, s)
  <2>1. DOMAIN <<>> = {}
    OBVIOUS
  <2>. QED  BY <2>1 DEF FinalsRise
<1>3. ASSUME NEW j \in Jobs PROVE FinalsRise(Append(<<>>, j), s)
  <2>1. DOMAIN Append(<<>>, j) = {1}
    OBVIOUS
  <2>. QED  BY <2>1 DEF FinalsRise
<1>4. ASSUME q # <<>>
      PROVE  \A i \in DOMAIN Tail(q) : Tail(q)[i] = q[i + 1] /\ (i + 1) \in DOMAIN q /\ i \in Nat /\ 1 < i + 1
  BY <1>1, <1>4
<1>5. ASSUME q # <<>> PROVE FinalsRise(Tail(q), s)
  <2>. DEFINE a == Tail(q)
  <2>1. \A i \in DOMAIN a : a[i] = q[i + 1] /\ (i + 1) \in DOMAIN q /\ i \in Nat
    BY <1>4, <1>5
  <2>. HIDE DEF a
  <2>2. \A i, j \in DOMAIN a : i < j => i + 1 < j + 1
    BY <2>1
  <2>3. FinalsRise(a, s)
    BY <2>1, <2>2 DEF FinalsRise
  <2>. QED  BY <2>3 DEF a
<1>6. ASSUME NEW j \in Jobs, NEW low \in Nat, NEW high \in Nat, FinalsIn(q, s, low, high), high < j.phrase
      PROVE  FinalsRise(Append(q, j), s)
  <2>. DEFINE a == Append(q, j)
  <2>1. /\ DOMAIN a = 1..(Len(q) + 1) /\ a[Len(q) + 1] = j /\ \A i \in DOMAIN q : a[i] = q[i]
        /\ j.phrase \in Nat
    BY SMTT(40) DEF Jobs
  <2>2. \A i \in DOMAIN a : i \in DOMAIN q \/ i = Len(q) + 1
    BY <1>1, <2>1
  <2>3. \A i \in DOMAIN q : Final(q[i], s) => q[i].phrase < j.phrase
    BY <1>1, <1>6, <2>1 DEF FinalsIn, Range
  <2>. HIDE DEF a
  <2>4. ASSUME NEW i \in DOMAIN a, NEW k \in DOMAIN a, i < k, Final(a[i], s), Final(a[k], s)
        PROVE  a[i].phrase < a[k].phrase
    <3>1. i \in DOMAIN q
      BY <1>1, <2>1, <2>2, <2>4
    <3>2. CASE k \in DOMAIN q
      BY <2>1, <2>4, <3>1, <3>2 DEF FinalsRise
    <3>3. CASE k = Len(q) + 1
      BY <2>1, <2>3, <2>4, <3>1, <3>3
    <3>. QED  BY <2>2, <3>2, <3>3
  <2>5. FinalsRise(a, s)
    BY <2>4 DEF FinalsRise
  <2>. QED  BY <2>5 DEF a
<1>7. ASSUME NEW low \in Nat, NEW high \in Nat, FinalsIn(q, s, low, high), q # <<>>, Final(Head(q), s)
      PROVE  /\ low < Head(q).phrase /\ Head(q).phrase <= high
             /\ FinalsIn(Tail(q), s, Head(q).phrase, high)
  <2>1. Head(q) = q[1] /\ 1 \in DOMAIN q
    BY <1>1, <1>7
  <2>2. \A i \in DOMAIN q : Final(q[i], s) => low < q[i].phrase /\ q[i].phrase <= high
    BY <1>7 DEF FinalsIn, Range
  <2>3. \A i \in DOMAIN Tail(q) : Final(Tail(q)[i], s) => q[1].phrase < Tail(q)[i].phrase /\ Tail(q)[i].phrase <= high
    BY <1>4, <1>7, <2>1, <2>2 DEF FinalsRise
  <2>4. FinalsIn(Tail(q), s, q[1].phrase, high)
    BY <2>3 DEF FinalsIn, Range
  <2>. QED  BY <1>7, <2>1, <2>2, <2>4
<1>. QED  BY <1>2, <1>3, <1>5, <1>6, <1>7

-----------------------------------------------------------------------------
(* Steps that show no text and accept no phrase *)

\* Types that the arithmetic below needs.
LEMMA NumbersAre ==
  ASSUME DevicesInv
  PROVE  /\ svc.session \in Nat /\ svc.generation \in Nat /\ svc.floor \in Nat /\ svc.pending \in Int
         /\ svc.capture \in Nat /\ svc.mic \in Nat /\ IsService(svc)
         /\ cap \in Captures /\ cap.phrase \in Nat /\ cap.session \in Nat /\ cap.speaking \in BOOLEAN
         /\ worker \in Workers /\ worker.job \in Jobs /\ worker.job.phrase \in Nat /\ worker.job.session \in Nat
         /\ worker.job.gen \in Nat
         /\ queue \in Queues /\ queue.finals \in Seq(Jobs) /\ queue.partial \in Jobs /\ First(queue.finals)
         /\ idle \in Seq(Callbacks) /\ NoJob \in Jobs /\ NoJob.kind = "none"
<1>1. /\ IsService(svc) /\ cap \in Captures /\ worker \in Workers /\ queue \in Queues /\ idle \in Seq(Callbacks)
      /\ First(queue.finals)
  BY DEF DevicesInv, VoiceTypeOK, TokenInv
<1>2. /\ svc.session \in Nat /\ svc.generation \in Nat /\ svc.floor \in Nat /\ svc.pending \in Int
      /\ svc.capture \in Nat /\ svc.mic \in Nat
  BY <1>1 DEF IsService
<1>3. cap.phrase \in Nat /\ cap.session \in Nat /\ cap.speaking \in BOOLEAN
  BY <1>1 DEF Captures
<1>4. worker.job \in Jobs
  BY <1>1 DEF Workers
<1>5. worker.job.phrase \in Nat /\ worker.job.session \in Nat /\ worker.job.gen \in Nat
  BY <1>4 DEF Jobs
<1>6. queue.finals \in Seq(Jobs) /\ queue.partial \in Jobs
  BY <1>1 DEF Queues, Previews
<1>. QED  BY <1>1, <1>2, <1>3, <1>4, <1>5, <1>6, JobIs

\* The same after a step.
LEMMA NumbersNext ==
  ASSUME DevicesInv'
  PROVE  /\ svc'.session \in Nat /\ svc'.generation \in Nat /\ svc'.floor \in Nat /\ svc'.pending \in Int
         /\ svc'.capture \in Nat /\ IsService(svc')
         /\ cap' \in Captures /\ cap'.phrase \in Nat /\ cap'.session \in Nat /\ cap'.speaking \in BOOLEAN
         /\ worker' \in Workers /\ worker'.job \in Jobs /\ worker'.job.phrase \in Nat
         /\ queue'.finals \in Seq(Jobs) /\ queue'.partial \in Jobs
         /\ idle' \in Seq(Callbacks)
<1>1. /\ IsService(svc') /\ cap' \in Captures /\ worker' \in Workers /\ queue' \in Queues /\ idle' \in Seq(Callbacks)
  BY DEF DevicesInv, VoiceTypeOK, IsService
<1>2. /\ svc'.session \in Nat /\ svc'.generation \in Nat /\ svc'.floor \in Nat /\ svc'.pending \in Int
      /\ svc'.capture \in Nat
  BY <1>1 DEF IsService
<1>3. cap'.phrase \in Nat /\ cap'.session \in Nat /\ cap'.speaking \in BOOLEAN
  BY <1>1 DEF Captures
<1>4. worker'.job \in Jobs
  BY <1>1 DEF Workers
<1>5. worker'.job.phrase \in Nat
  BY <1>4 DEF Jobs
<1>6. queue'.finals \in Seq(Jobs) /\ queue'.partial \in Jobs
  BY <1>1 DEF Queues, Previews
<1>. QED  BY <1>1, <1>2, <1>3, <1>4, <1>5, <1>6

\* The texts are among the ones before, in their order, and new previews are fresh.
Quieter ==
  /\ TextsRise(idle', svc.session)
  /\ \A c \in Range(idle') :
       /\ c.fn = "finished" => c \in Range(idle)
       /\ c.fn = "partial" => c \in Range(idle) \/ (c.arg \in Jobs /\ c.arg.kind = "partial" /\ Fresh(c.arg)')

\* Dispatching one callback, or adding others.
LEMMA QuieterIf ==
  ASSUME DevicesInv, TextsRise(idle, svc.session),
         \/ idle' = idle \/ (idle # <<>> /\ idle' = Tail(idle))
         \/ \E c \in Callbacks : idle' = Append(idle, c) /\ c.fn \notin {"finished", "partial"}
         \/ \E r \in Seq(Callbacks) : /\ idle' = idle \o r
                                      /\ \A i \in DOMAIN r : r[i].fn \notin {"finished", "partial"}
  PROVE  Quieter
<1>1. idle \in Seq(Callbacks) /\ svc.session \in Nat
  BY NumbersAre
<1>2. CASE idle' = idle
  BY <1>2 DEF Quieter
<1>3. CASE idle # <<>> /\ idle' = Tail(idle)
  BY <1>1, <1>3, CallbacksHeld, TextsOf DEF Quieter
<1>4. ASSUME NEW c \in Callbacks, idle' = Append(idle, c), c.fn \notin {"finished", "partial"} PROVE Quieter
  <2>1. Range(idle') = Range(idle) \cup {c}
    BY <1>1, <1>4, CallbacksHeld
  <2>2. TextsRise(idle', svc.session)
    BY <1>1, <1>4, TextsOf DEF Text
  <2>. QED  BY <1>4, <2>1, <2>2 DEF Quieter
<1>5. ASSUME NEW r \in Seq(Callbacks), idle' = idle \o r, \A i \in DOMAIN r : r[i].fn \notin {"finished", "partial"}
      PROVE  Quieter
  <2>1. Range(idle') = Range(idle) \cup Range(r)
    BY <1>1, <1>5, CallbacksHeld
  <2>2. \A c \in Range(r) : c.fn \notin {"finished", "partial"}
    BY <1>5 DEF Range
  <2>3. TextsRise(idle', svc.session)
    BY <1>1, <1>5, <2>2, TextsOf DEF Text
  <2>. QED  BY <2>1, <2>2, <2>3 DEF Quieter
<1>. QED  BY <1>2, <1>3, <1>4, <1>5

\* A preview stays fresh while no phrase is accepted, and is void below the floor.
LEMMA FreshKept ==
  ASSUME DevicesInv, PreviewInv, svc'.session = svc.session, svc'.generation \in Nat, svc'.floor \in Nat,
         svc'.generation >= svc.generation,
         \/ svc'.floor = svc.floor /\ hist'.accepted = hist.accepted /\ hist'.ended = hist.ended
         \/ svc'.floor = svc.generation,
         NEW j \in Jobs, Fresh(j) \/ j = NoJob
  PROVE  Fresh(j)'
<1>1. j.gen \in Nat /\ j.phrase \in Nat /\ j.session \in Nat
  BY DEF Jobs
<1>2. CASE j = NoJob
  BY <1>2, NumbersAre DEF Fresh
<1>3. CASE Fresh(j)
  BY SMTT(40), <1>1, <1>3, NumbersAre DEF Fresh, PreviewInv
<1>. QED  BY <1>2, <1>3

\* Within a session nothing gets out of order by being dropped, or by the next
\* phrase that begins.
LEMMA OrderStays ==
  ASSUME DevicesInv, DevicesInv', PhraseInv, IsHistory(hist'),
         hist'.delivered = hist.delivered, hist'.accepted = hist.accepted, hist'.ended = hist.ended,
         svc'.session = svc.session, svc'.generation >= svc.generation, svc'.floor <= svc'.generation,
         svc'.floor = svc.floor \/ svc'.floor = svc.generation,
         cap'.phrase >= cap.phrase, Uttered' => Uttered \/ cap'.phrase > cap.phrase,
         \A j \in Range(queue'.finals) : Final(j, svc.session) => j \in Range(queue.finals),
         FinalsRise(queue'.finals, svc.session),
         Final(worker'.job, svc.session) => worker'.job = worker.job,
         Fresh(queue.partial)', Fresh(worker.job)',
         Quieter
  PROVE  OrderInv' /\ PreviewInv'
<1>1. /\ IsHistory(hist) /\ OrderInv /\ PreviewInv
      /\ hist.delivered \in Nat /\ hist.accepted \in Nat /\ hist.ended \in Nat
  BY DEF PhraseInv, IsHistory
<1>2. PICK told \in Nat, heard \in Nat, taken \in Nat : Progress(told, heard, taken)
  BY <1>1 DEF OrderInv
<1>3. FinalsIn(queue'.finals, svc.session, taken, hist.accepted)
  BY <1>2 DEF Progress, FinalsIn
<1>4. TextsIn(idle', svc.session, told, heard) /\ TextsIn(idle', svc.session, told, hist.accepted)
  BY <1>2 DEF Progress, TextsIn, Quieter, Text
<1>5. Final(worker'.job, svc.session) => /\ heard < worker'.job.phrase /\ worker'.job.phrase <= taken
                                         /\ worker'.job.phrase <= hist.accepted
  BY <1>2 DEF Progress
<1>6. taken <= cap'.phrase /\ (Uttered' => taken < cap'.phrase)
  <2>1. cap.phrase \in Nat /\ cap'.phrase \in Nat /\ taken <= cap.phrase /\ (Uttered => taken < cap.phrase)
    BY <1>2, NumbersAre, NumbersNext DEF Progress
  <2>. QED  BY <2>1
<1>7. Progress(told, heard, taken)'
  BY <1>2, <1>3, <1>4, <1>5, <1>6 DEF Progress
<1>8. OrderInv'
  <2>1. cap.phrase \in Nat /\ cap'.phrase \in Nat
    BY NumbersAre, NumbersNext
  <2>2. /\ hist'.delivered <= hist'.accepted /\ hist'.accepted <= cap'.phrase /\ hist'.ended <= cap'.phrase
    BY <1>1, <2>1 DEF OrderInv
  <2>. QED  BY <1>2, <1>7, <2>2 DEF OrderInv, Quieter
<1>9. \A c \in Range(idle') :
        /\ c.fn = "partial" => c.arg \in Jobs /\ c.arg.kind = "partial" /\ Fresh(c.arg)'
        /\ c.fn = "finished" => c.session <= svc'.session
  <2>1. svc'.generation \in Nat /\ svc'.floor \in Nat
    BY NumbersNext
  <2>2. \A j \in Jobs : Fresh(j) => Fresh(j)'
    BY <1>1, <2>1, FreshKept
  <2>. QED  BY <1>1, <2>2 DEF PreviewInv, Quieter
<1>. QED  BY <1>8, <1>9 DEF PreviewInv

\* The same, when nobody begins to speak and the queue is kept or cleared.
LEMMA OrderKept ==
  ASSUME DevicesInv, DevicesInv', PhraseInv, IsHistory(hist'),
         hist'.delivered = hist.delivered, hist'.accepted = hist.accepted, hist'.ended = hist.ended,
         svc'.session = svc.session, svc'.generation = svc.generation,
         svc'.floor = svc.floor \/ svc'.floor = svc.generation,
         cap'.phrase = cap.phrase, Uttered' => Uttered,
         queue'.finals = queue.finals \/ queue'.finals = <<>>,
         queue'.partial = queue.partial \/ queue'.partial = NoJob,
         worker'.job = worker.job \/ worker'.job = NoJob,
         Quieter
  PROVE  OrderInv' /\ PreviewInv'
<1>1. OrderInv /\ PreviewInv
  BY DEF PhraseInv
<1>2. /\ svc.generation \in Nat /\ svc'.generation \in Nat /\ svc.floor \in Nat /\ svc'.floor \in Nat
      /\ cap.phrase \in Nat /\ NoJob.kind = "none" /\ queue.finals \in Seq(Jobs) /\ svc.session \in Nat
      /\ queue.partial \in Jobs /\ worker.job \in Jobs /\ queue'.partial \in Jobs /\ worker'.job \in Jobs
  BY NumbersAre
<1>3. /\ svc'.generation >= svc.generation /\ svc'.floor <= svc'.generation /\ cap'.phrase >= cap.phrase
  BY <1>1, <1>2 DEF PreviewInv
<1>4. FinalsRise(queue'.finals, svc.session) /\ \A j \in Range(queue'.finals) : j \in Range(queue.finals)
  BY <1>1, <1>2, FinalsOf, JobsHeld DEF OrderInv
<1>5. ASSUME NEW j \in Jobs, Fresh(j) \/ j = NoJob PROVE Fresh(j)'
  BY <1>1, <1>2, <1>3, <1>5, FreshKept
<1>6. Fresh(queue.partial)' /\ Fresh(worker.job)'
  <2>1. \A j : j \in {queue'.partial, worker'.job} => Fresh(j)'
    BY <1>1, <1>2, <1>5 DEF PreviewInv
  <2>. QED  BY <2>1 DEF Fresh
<1>7. Final(worker'.job, svc.session) => worker'.job = worker.job
  BY <1>2 DEF Final
<1>. QED  BY <1>3, <1>4, <1>6, <1>7, OrderStays

-----------------------------------------------------------------------------
(* The end of a session *)

\* What stop, stop_test, start, start_test, _quit, _capture_failed and the spoken
\* command have in common.
EndStep ==
  /\ mainpc # "finish"
  /\ svc'.session = svc.session + 1 /\ svc'.pending = 0
  /\ svc'.generation = svc.generation /\ svc'.floor = svc.generation
  /\ worker' = CancelRunning(worker)
  /\ queue'.partial = NoJob
  /\ queue'.finals = <<>> \/ (\E j \in Jobs : j.kind = "prepare" /\ queue'.finals = Append(<<>>, j))
  /\ idle' = idle \/ (idle # <<>> /\ idle' = Tail(idle))
  /\ cap'.phrase = cap.phrase /\ cap'.session = cap.session
  /\ (cap' = cap /\ svc'.capture = svc.capture) \/ (~cap'.speaking /\ cap'.pc \in {"off", "idle"})
  /\ IsHistory(hist') /\ hist'.delivered = hist.delivered /\ hist'.accepted = hist.accepted
  /\ hist'.ended = cap.phrase /\ ~hist'.refused
  /\ \/ /\ ~svc'.active /\ mainpc' \notin {"finish", "drain"}
        /\ mainpc' \in {"ready", "joinWorker"} => svc'.state # "finishing"
     \/ svc'.active /\ svc'.capture = 0 /\ mainpc' = "ready" /\ svc'.state = "preparing"

\* The phrases of the queue, after the end of a session.
LEMMA EndedQueue ==
  ASSUME DevicesInv, EndStep
  PROVE  /\ \A j \in Range(queue'.finals) : j.kind = "prepare"
         /\ \A s \in Nat : FinalsRise(queue'.finals, s) /\ ~Phrases(queue'.finals, s)
         /\ queue'.finals \in Seq(Jobs)
<1>1. CASE queue'.finals = <<>>
  <2>1. Range(<<>>) = {} /\ DOMAIN <<>> = {} /\ <<>> \in Seq(Jobs)
    BY NumbersAre, JobsHeld
  <2>. QED  BY <1>1, <2>1 DEF FinalsRise, Phrases
<1>2. ASSUME NEW j \in Jobs, j.kind = "prepare", queue'.finals = Append(<<>>, j)
      PROVE  /\ \A k \in Range(queue'.finals) : k.kind = "prepare"
             /\ \A s \in Nat : FinalsRise(queue'.finals, s) /\ ~Phrases(queue'.finals, s)
             /\ queue'.finals \in Seq(Jobs)
  <2>1. Range(queue'.finals) = {j}
    BY <1>2, NumbersAre, JobsHeld
  <2>2. DOMAIN queue'.finals = {1} /\ queue'.finals[1] = j /\ queue'.finals \in Seq(Jobs)
    BY <1>2
  <2>. QED  BY <1>2, <2>1, <2>2 DEF FinalsRise, Phrases
<1>. QED  BY <1>1, <1>2 DEF EndStep

\* Nothing carries the number of a session that is still to come.
LEMMA NothingYet ==
  ASSUME DevicesInv, SpentInv, PreviewInv, NEW s \in Nat, s > svc.session
  PROVE  ~Spent(s) /\ ~HasToken(s) /\ ~Texted(idle, s) /\ ~Final(worker.job, s)
<1>1. svc.session \in Nat /\ ~(s <= svc.session)
  BY NumbersAre
<1>2. ~Spent(s) /\ ~HasToken(s)
  BY <1>1 DEF SpentInv, DevicesInv, TokenInv
<1>3. ~Final(worker.job, s)
  BY <1>2 DEF Spent, Final
<1>4. ~Texted(idle, s)
  BY <1>1 DEF Texted, Text, PreviewInv
<1>. QED  BY <1>2, <1>3, <1>4

\* A new number finds nothing out of order.
LEMMA OrderEnded ==
  ASSUME DevicesInv, DevicesInv', SpentInv, PhraseInv, EndStep
  PROVE  PhraseInv'
<1>. DEFINE n == svc'.session
<1>1. /\ IsHistory(hist) /\ WorkerInv /\ StreamInv /\ OrderInv /\ PreviewInv
  BY DEF PhraseInv
<1>2. n = svc.session + 1 /\ n \in Nat /\ n > svc.session /\ svc.session \in Nat /\ cap.phrase \in Nat
  BY SMTT(40), NumbersAre DEF EndStep
<1>3. ~Spent(n) /\ ~Texted(idle, n) /\ ~Final(worker.job, n)
  BY <1>1, <1>2, NothingYet
<1>4. /\ worker'.job = worker.job /\ worker'.pc = worker.pc
      /\ worker.cancel = "none" => worker'.cancel = "none"
  BY NumbersAre, WorkerIs DEF EndStep, CancelRunning, Workers
<1>5. /\ \A j \in Range(queue'.finals) : j.kind = "prepare"
      /\ FinalsRise(queue'.finals, n)
  BY <1>2, EndedQueue
<1>6. Range(idle') \subseteq Range(idle)
  BY NumbersAre, CallbacksHeld DEF EndStep
<1>7. ~Texted(idle', n)
  BY <1>3, <1>6 DEF Texted
<1>8. ~Uttered'
  <2>1. (svc.capture \in Nat /\ svc.capture <= svc.session) \/ svc.capture = 0
    BY NumbersAre DEF DevicesInv, CaptureInv
  <2>2. cap.session # n
    BY <1>3 DEF Spent
  <2>3. cap'.session # n /\ mainpc' # "finish"
    BY <2>2 DEF EndStep
  <2>4. cap'.speaking => svc'.capture # n
    BY <1>2, <2>1, NumbersAre DEF EndStep
  <2>. QED  BY <2>3, <2>4 DEF Uttered
<1>9. WorkerInv'
  BY <1>1, <1>3, <1>4, <1>5 DEF WorkerInv, EndStep
<1>10. StreamInv'
  BY <1>1 DEF StreamInv, EndStep, Busy
<1>11. OrderInv'
  <2>1. PICK p \in Nat : p = cap.phrase
    BY <1>2
  <2>4. Progress(p, p, p)'
    <3>1. TextsIn(idle', n, p, p) /\ TextsIn(idle', n, p, hist'.accepted)
      BY <1>7 DEF TextsIn, Texted
    <3>2. FinalsIn(queue'.finals, n, p, hist'.accepted)
      BY <1>5 DEF FinalsIn, Final
    <3>3. ~Final(worker'.job, n)
      BY <1>3, <1>4
    <3>4. hist'.delivered <= p /\ hist'.ended <= p /\ p <= cap'.phrase /\ p <= p
      BY <1>1, <1>2, <2>1 DEF EndStep, OrderInv, IsHistory
    <3>. QED  BY <1>8, <3>1, <3>2, <3>3, <3>4 DEF Progress
  <2>2. TextsRise(idle', n)
    BY <1>7 DEF TextsRise, Texted, Range
  <2>3. hist'.delivered <= hist'.accepted /\ hist'.accepted <= cap'.phrase /\ hist'.ended <= cap'.phrase
    BY <1>1, <1>2 DEF EndStep, OrderInv
  <2>. QED  BY <1>2, <1>5, <2>2, <2>3, <2>4 DEF OrderInv
<1>12. PreviewInv'
  <2>1. ASSUME NEW j \in Jobs, Fresh(j) PROVE Fresh(j)'
    <3>1. j.gen \in Nat /\ j.phrase \in Nat /\ j.session \in Nat
      BY DEF Jobs
    <3>2. /\ svc'.session = svc.session + 1 /\ svc'.generation = svc.generation /\ svc.session \in Nat
      BY <1>2 DEF EndStep
    <3>3. CASE j.kind = "partial"
      <4>1. j.session <= svc.session /\ j.gen <= svc.generation
        BY <2>1, <3>3 DEF Fresh
      <4>2. j.session <= svc'.session /\ j.gen <= svc'.generation /\ j.session # svc'.session
        BY <3>1, <3>2, <4>1
      <4>. QED  BY <4>2 DEF Fresh
    <3>. QED  BY <3>3 DEF Fresh
  <2>2. Fresh(queue.partial)'
    BY JobIs, NumbersAre DEF Fresh, EndStep
  <2>3. Fresh(worker.job)'
    <3>1. Fresh(worker.job) /\ worker.job \in Jobs
      BY <1>1, NumbersAre DEF PreviewInv
    <3>2. \A j : j = worker.job => Fresh(j)'
      BY <2>1, <3>1
    <3>. QED  BY <1>4, <3>1, <3>2 DEF Fresh
  <2>4. \A c \in Range(idle') :
          /\ c.fn = "partial" => c.arg \in Jobs /\ c.arg.kind = "partial" /\ Fresh(c.arg)'
          /\ c.fn = "finished" => c.session <= svc'.session
    <3>1. \A c \in Range(idle) : c.fn = "finished" => c.session \in Nat
      <4>1. Range(idle) \subseteq Callbacks
        BY NumbersAre, CallbacksHeld
      <4>. QED  BY <4>1 DEF Callbacks
    <3>. QED  BY <1>1, <1>2, <1>6, <2>1, <3>1 DEF PreviewInv
  <2>5. svc'.floor <= svc'.generation
    BY NumbersAre DEF EndStep
  <2>. QED  BY <2>2, <2>3, <2>4, <2>5 DEF PreviewInv
<1>. QED  BY <1>9, <1>10, <1>11, <1>12 DEF PhraseInv, EndStep

\* hist when a session ends.
LEMMA HistoryEnds ==
  ASSUME IsHistory(hist), cap.phrase \in Nat,
         \/ hist' = [hist EXCEPT !.refused = FALSE, !.ended = cap.phrase]
         \/ hist' = [Failed(hist) EXCEPT !.refused = FALSE, !.ended = cap.phrase]
  PROVE  /\ IsHistory(hist') /\ hist'.delivered = hist.delivered /\ hist'.accepted = hist.accepted
         /\ hist'.ended = cap.phrase /\ ~hist'.refused
BY DEF IsHistory, Failed

\* The queue when a session ends: cleared, and perhaps the next preparation put.
LEMMA QueueEnds ==
  ASSUME NEW q \in Queues, First(q.finals)
  PROVE  /\ Cleared(q).partial = NoJob /\ Cleared(q).finals = <<>>
         /\ \A j \in Jobs : /\ PutFinal(Cleared(q), j).partial = NoJob
                            /\ PutFinal(Cleared(q), j).finals = Append(<<>>, j)
         /\ NoPreview(q).partial = NoJob
<1>1. Cleared(q) \in Queues /\ Cleared(q).finals = <<>> /\ First(Cleared(q).finals)
  BY QueueIs, EmptyQueue
<1>. QED  BY <1>1 DEF Cleared, PutFinal, NoPreview, Queues

\* What the ended service looks like, before the handler sets who listens.
LEMMA ServiceEnds ==
  ASSUME IsService(svc), NEW s, IsService(s), s.session = svc.session, s.generation = svc.generation,
         s.state = svc.state, s.capture = svc.capture,
         \/ svc' = [Ended(s) EXCEPT !.active = FALSE, !.testing = FALSE, !.mic = 0]
         \/ svc' = [Ended(s) EXCEPT !.active = FALSE, !.testing = FALSE, !.mic = 0, !.shutting = TRUE]
         \/ svc' = [Ended(s) EXCEPT !.active = FALSE, !.testing = FALSE]
  PROVE  /\ svc'.session = svc.session + 1 /\ svc'.pending = 0
         /\ svc'.generation = svc.generation /\ svc'.floor = svc.generation
         /\ svc'.capture = svc.capture /\ ~svc'.active /\ svc'.state = svc.state
<1>1. /\ DOMAIN Ended(s) = Attributes /\ Ended(s).session = svc.session + 1 /\ Ended(s).pending = 0
      /\ Ended(s).capture = svc.capture /\ Ended(s).state = svc.state
      /\ Ended(s).generation = svc.generation /\ Ended(s).floor = svc.generation
  BY EndedIs DEF IsService
<1>. QED  BY <1>1 DEF Attributes

\* Calls that stop what runs, and the callbacks that do.
LEMMA StopsEnd ==
  ASSUME DevicesInv, ReadInv, PhraseInv,
         \/ Stop \/ StopTest \/ Quit \/ (Start /\ svc.testing) \/ (Finish /\ svc.capture = 0)
         \/ (StartTest /\ svc.active) \/ (CaptureFailed /\ Current) \/ PreparedFails
         \/ (RecognitionFinished /\ Current /\ Head(idle).arg.text = "stop")
  PROVE  EndStep
<1>1. /\ IsService(svc) /\ queue \in Queues /\ First(queue.finals) /\ IsHistory(hist) /\ cap.phrase \in Nat
      /\ idle \in Seq(Callbacks)
  BY NumbersAre DEF PhraseInv
<1>2. ASSUME mainpc = "ready", worker' = CancelRunning(worker), queue' = Cleared(queue), cap' = cap,
             mainpc' \in {"stop", "start", "startTest", "quit", "captureFailed"},
             idle' = idle \/ (idle # <<>> /\ idle' = Tail(idle)),
             \/ hist' = [hist EXCEPT !.refused = FALSE, !.ended = cap.phrase]
             \/ hist' = [Failed(hist) EXCEPT !.refused = FALSE, !.ended = cap.phrase],
             NEW s, IsService(s), s.session = svc.session, s.generation = svc.generation,
             s.state = svc.state, s.capture = svc.capture,
             \/ svc' = [Ended(s) EXCEPT !.active = FALSE, !.testing = FALSE, !.mic = 0]
             \/ svc' = [Ended(s) EXCEPT !.active = FALSE, !.testing = FALSE, !.mic = 0, !.shutting = TRUE]
             \/ svc' = [Ended(s) EXCEPT !.active = FALSE, !.testing = FALSE]
      PROVE  EndStep
  <2>1. /\ svc'.session = svc.session + 1 /\ svc'.pending = 0
        /\ svc'.generation = svc.generation /\ svc'.floor = svc.generation
        /\ svc'.capture = svc.capture /\ ~svc'.active
    BY <1>1, <1>2, ServiceEnds
  <2>2. /\ IsHistory(hist') /\ hist'.delivered = hist.delivered /\ hist'.accepted = hist.accepted
        /\ hist'.ended = cap.phrase /\ ~hist'.refused
    BY <1>1, <1>2, HistoryEnds
  <2>3. queue'.partial = NoJob /\ queue'.finals = <<>>
    BY SMTT(40), <1>1, <1>2, QueueEnds
  <2>. QED  BY SMTT(40), <1>2, <2>1, <2>2, <2>3 DEF EndStep
<1>3. CASE Stop \/ StopTest \/ Quit \/ (Start /\ svc.testing) \/ (Finish /\ svc.capture = 0)
           \/ (StartTest /\ svc.active)
  <2>1. /\ mainpc = "ready" /\ worker' = CancelRunning(worker) /\ queue' = Cleared(queue) /\ cap' = cap
        /\ mainpc' \in {"stop", "start", "startTest", "quit", "captureFailed"} /\ idle' = idle
        /\ hist' = [hist EXCEPT !.refused = FALSE, !.ended = cap.phrase]
        /\ \/ svc' = [Ended(svc) EXCEPT !.active = FALSE, !.testing = FALSE, !.mic = 0]
           \/ svc' = [Ended(svc) EXCEPT !.active = FALSE, !.testing = FALSE, !.mic = 0, !.shutting = TRUE]
    BY SMTT(40), <1>3 DEF Stop, StopTest, Quit, Start, Finish, StartTest, StopBegin, QuitBegin, EndSession, CancelWork, Ready
  <2>. QED  BY <1>1, <1>2, <2>1
<1>4. CASE (CaptureFailed /\ Current) \/ PreparedFails
  <2>1. /\ mainpc = "ready" /\ worker' = CancelRunning(worker) /\ queue' = Cleared(queue) /\ cap' = cap
        /\ mainpc' = "captureFailed" /\ idle # <<>> /\ idle' = Tail(idle)
        /\ \/ hist' = [hist EXCEPT !.refused = FALSE, !.ended = cap.phrase]
           \/ hist' = [Failed(hist) EXCEPT !.refused = FALSE, !.ended = cap.phrase]
        /\ \/ svc' = [Ended(svc) EXCEPT !.active = FALSE, !.testing = FALSE, !.mic = 0]
           \/ svc' = [Ended(svc) EXCEPT !.active = FALSE, !.testing = FALSE]
    BY <1>4 DEF CaptureFailed, CaptureFailedBegin, PreparedFails, CancelWork, Ready, Dispatch
  <2>. QED  BY <1>1, <1>2, <2>1
<1>5. CASE RecognitionFinished /\ Current /\ Head(idle).arg.text = "stop"
  <2>1. PICK n \in Nat : n = Lowered
    BY LoweredIs
  <2>. DEFINE s == [svc EXCEPT !.pending = n]
  <2>2. /\ mainpc = "ready" /\ worker' = CancelRunning(worker) /\ queue' = Cleared(queue) /\ cap' = cap
        /\ mainpc' = "stop" /\ idle # <<>> /\ idle' = Tail(idle)
        /\ hist' = [hist EXCEPT !.refused = FALSE, !.ended = cap.phrase]
        /\ svc' = [Ended(s) EXCEPT !.active = FALSE, !.testing = FALSE, !.mic = 0]
    BY <1>5, <2>1 DEF RecognitionFinished, EndSession, CancelWork, Ready, Dispatch
  <2>3. /\ IsService(s) /\ s.session = svc.session /\ s.generation = svc.generation
        /\ s.state = svc.state /\ s.capture = svc.capture
    BY <1>1 DEF IsService, Attributes
  <2>. HIDE DEF s
  <2>. QED  BY <1>2, <2>2, <2>3
<1>. QED  BY <1>3, <1>4, <1>5

\* A microphone test begins.
LEMMA TestEnds ==
  ASSUME DevicesInv, PhraseInv, (StartTest /\ ~svc.active) \/ StartTestAfterStop
  PROVE  EndStep
<1>1. /\ IsService(svc) /\ queue \in Queues /\ First(queue.finals) /\ IsHistory(hist) /\ cap.phrase \in Nat
      /\ cap \in Captures
  BY NumbersAre DEF PhraseInv
<1>2. PICK opens \in BOOLEAN : StartTestBody(opens)
  BY DEF StartTest, StartTestAfterStop
<1>3. /\ worker' = CancelRunning(worker) /\ queue' = Cleared(queue) /\ idle' = idle /\ mainpc' = "ready"
      /\ \/ hist' = [hist EXCEPT !.refused = FALSE, !.ended = cap.phrase]
         \/ hist' = [Failed(hist) EXCEPT !.refused = FALSE, !.ended = cap.phrase]
      /\ \E pc \in {"idle", "off"} : cap' = [NoCapture EXCEPT !.pc = pc]
      /\ \E x \in {"testing", "error"} : \E c, m :
           svc' = [Ended(svc) EXCEPT !.testing = TRUE, !.capture = c, !.mic = m, !.state = x]
  BY <1>2 DEF StartTestBody
<1>4. mainpc # "finish"
  BY DEF StartTest, StartTestAfterStop, Ready
<1>5. /\ DOMAIN Ended(svc) = Attributes /\ Ended(svc).session = svc.session + 1 /\ Ended(svc).pending = 0
      /\ Ended(svc).active = svc.active
      /\ Ended(svc).generation = svc.generation /\ Ended(svc).floor = svc.generation
  BY <1>1, EndedIs DEF IsService
<1>6. /\ svc'.session = svc.session + 1 /\ svc'.pending = 0 /\ svc'.active = svc.active
      /\ svc'.generation = svc.generation /\ svc'.floor = svc.generation /\ svc'.state # "finishing"
  BY <1>3, <1>5 DEF Attributes
<1>7. ~svc.active
  BY DEF StartTestAfterStop, DevicesInv, CaptureInv
<1>8. /\ cap'.phrase = cap.phrase /\ cap'.session = cap.session
      /\ ~cap'.speaking /\ cap'.pc \in {"off", "idle"}
  BY <1>1, <1>3 DEF Captures, NoCapture
<1>9. /\ IsHistory(hist') /\ hist'.delivered = hist.delivered /\ hist'.accepted = hist.accepted
      /\ hist'.ended = cap.phrase /\ ~hist'.refused
  BY <1>1, <1>3, HistoryEnds
<1>10. queue'.partial = NoJob /\ queue'.finals = <<>>
  BY <1>1, <1>3, QueueEnds
<1>. QED  BY <1>3, <1>4, <1>6, <1>7, <1>8, <1>9, <1>10 DEF EndStep

\* A session begins: its number is the first thing that is new.
LEMMA StartEnds ==
  ASSUME DevicesInv, PhraseInv, NEW s, IsService(s), s.session = svc.session, s.generation = svc.generation,
         StartBody(s, TRUE), idle' = idle, mainpc # "finish", mainpc' = "ready",
         (cap' = cap /\ svc.capture = 0) \/ cap' = NoCapture
  PROVE  EndStep
<1>1. /\ IsService(svc) /\ queue \in Queues /\ First(queue.finals) /\ IsHistory(hist) /\ cap.phrase \in Nat
      /\ cap \in Captures
  BY NumbersAre DEF PhraseInv
<1>. DEFINE fresh == [Ended(s) EXCEPT !.active = TRUE, !.message = FALSE, !.capture = 0, !.state = "preparing"]
<1>2. /\ worker' = CancelRunning(worker) /\ svc' = fresh
      /\ queue' = PutFinal(Cleared(queue), Job("prepare", fresh.session, 0, 0))
      /\ hist' = [hist EXCEPT !.refused = FALSE, !.ended = cap.phrase]
  BY DEF StartBody
<1>3. /\ DOMAIN Ended(s) = Attributes /\ Ended(s).session = svc.session + 1 /\ Ended(s).pending = 0
      /\ Ended(s).generation = svc.generation /\ Ended(s).floor = svc.generation
  BY EndedIs DEF IsService
<1>4. /\ fresh.session = svc.session + 1 /\ fresh.pending = 0 /\ fresh.active
      /\ fresh.generation = svc.generation /\ fresh.floor = svc.generation
      /\ fresh.capture = 0 /\ fresh.state = "preparing" /\ svc.session \in Nat
  BY <1>1, <1>3 DEF Attributes, IsService
<1>. HIDE DEF fresh
<1>5. PICK j \in Jobs : j = Job("prepare", fresh.session, 0, 0) /\ j.kind = "prepare"
  BY SMTT(40), <1>4, JobIs
<1>6. queue'.partial = NoJob /\ queue'.finals = Append(<<>>, j)
  BY <1>1, <1>2, <1>5, QueueEnds
<1>7. /\ IsHistory(hist') /\ hist'.delivered = hist.delivered /\ hist'.accepted = hist.accepted
      /\ hist'.ended = cap.phrase /\ ~hist'.refused
  BY <1>1, <1>2, HistoryEnds
<1>8. /\ cap'.phrase = cap.phrase /\ cap'.session = cap.session
      /\ (cap' = cap /\ svc'.capture = svc.capture) \/ (~cap'.speaking /\ cap'.pc \in {"off", "idle"})
  BY <1>1, <1>2, <1>4 DEF NoCapture, Captures
<1>. QED  BY <1>2, <1>4, <1>5, <1>6, <1>7, <1>8 DEF EndStep

-----------------------------------------------------------------------------
(* The main loop within a session *)

\* What the steps of the main loop leave alone while the session stays.
LoopStep ==
  /\ svc'.session = svc.session /\ svc'.generation = svc.generation
  /\ svc'.floor = svc.floor \/ svc'.floor = svc.generation
  /\ worker' = worker \/ worker' = InvalidateRunning(worker)
  /\ queue'.finals = queue.finals /\ (queue'.partial = queue.partial \/ queue'.partial = NoJob)
  /\ IsHistory(hist') /\ hist'.delivered = hist.delivered /\ hist'.accepted = hist.accepted
  /\ hist'.ended = hist.ended /\ hist'.refused = hist.refused
  /\ cap'.phrase = cap.phrase /\ cap'.session = cap.session
  /\ \/ ~Busy' /\ cap.pc # "counted"
     \/ cap' = cap /\ (Uttered' => Uttered) /\ (Busy => svc'.capture # 0 \/ mainpc' = "finish")
     \/ /\ cap.pc = "put" /\ cap'.pc = "counted" /\ cap'.speaking = cap.speaking
        /\ svc'.capture = svc.capture /\ mainpc' = mainpc /\ svc'.floor = svc.generation

\* The job of the recognition thread after the previews were invalidated.
LEMMA InvalidatedJob ==
  ASSUME DevicesInv, worker' = worker \/ worker' = InvalidateRunning(worker)
  PROVE  /\ worker'.job = worker.job /\ worker'.pc = worker.pc
         /\ worker.cancel = "none" => worker'.cancel = "none"
         /\ worker.job.kind = "final" => worker'.cancel = worker.cancel
BY SMTT(40), NumbersAre, WorkerIs DEF InvalidateRunning, Workers

\* Such a step keeps the order.
LEMMA LoopKeeps ==
  ASSUME DevicesInv, DevicesInv', PhraseInv, LoopStep, Quieter
  PROVE  PhraseInv'
<1>1. IsHistory(hist) /\ WorkerInv /\ StreamInv /\ OrderInv /\ PreviewInv
  BY DEF PhraseInv
<1>2. /\ worker'.job = worker.job /\ worker'.pc = worker.pc
      /\ worker.cancel = "none" => worker'.cancel = "none"
      /\ worker.job.kind = "final" => worker'.cancel = worker.cancel
  BY InvalidatedJob DEF LoopStep
<1>3. WorkerInv'
  BY <1>1, <1>2 DEF WorkerInv, LoopStep, Final
<1>4. StreamInv'
  BY <1>1 DEF StreamInv, LoopStep, Busy
<1>5. Uttered' => Uttered
  BY DEF LoopStep, Busy, Uttered
<1>6. OrderInv' /\ PreviewInv'
  BY <1>1, <1>2, <1>5, OrderKept DEF LoopStep
<1>. QED  BY <1>3, <1>4, <1>6 DEF PhraseInv, LoopStep

\* The streaming thread is idle whenever the main loop has no capture.
LEMMA QuietStream ==
  ASSUME DevicesInv, PhraseInv
  PROVE  /\ svc.capture = 0 /\ mainpc # "finish" => ~Busy
         /\ cap' = NoCapture => ~Busy' /\ cap'.phrase = cap.phrase /\ cap'.session = cap.session
         /\ IsHistory(hist)
<1>1. cap \in Captures
  BY NumbersAre
<1>2. cap' = NoCapture => ~Busy' /\ cap'.phrase = cap.phrase /\ cap'.session = cap.session
  BY <1>1 DEF NoCapture, Captures, Busy
<1>. QED  BY <1>2 DEF PhraseInv, StreamInv

\* The joins that end a stop, a failure and _quit.
LEMMA JoinsAre ==
  ASSUME DevicesInv, PhraseInv, StopEnd \/ QuitPut \/ QuitEnd \/ CaptureFailedEnd
  PROVE  /\ LoopStep /\ idle' = idle /\ worker' = worker /\ ~Busy'
         /\ mainpc \in {"stop", "quit", "captureFailed", "joinWorker"} /\ mainpc' \in {"ready", "joinWorker"}
         /\ svc'.active = svc.active /\ svc'.pending = svc.pending
         /\ svc'.state # "finishing" \/ (mainpc = "joinWorker" /\ svc'.state = svc.state)
<1>1. IsService(svc) /\ cap \in Captures /\ queue \in Queues /\ IsHistory(hist)
  BY NumbersAre, QuietStream
<1>2. CASE StopEnd \/ QuitPut \/ CaptureFailedEnd
  <2>1. /\ \E x \in {"idle", "error"} : svc' = [svc EXCEPT !.capture = 0, !.state = x]
        /\ cap' = NoCapture /\ cap.pc # "counted" /\ UNCHANGED <<idle, worker, hist>>
        /\ queue' = queue \/ queue' = [queue EXCEPT !.quit = TRUE]
        /\ mainpc \in {"stop", "quit", "captureFailed"} /\ mainpc' \in {"ready", "joinWorker"}
    BY <1>2 DEF StopEnd, QuitPut, CaptureFailedEnd, Joined
  <2>2. /\ svc'.session = svc.session /\ svc'.generation = svc.generation /\ svc'.floor = svc.floor
        /\ svc'.active = svc.active /\ svc'.pending = svc.pending /\ svc'.state # "finishing"
    BY <1>1, <2>1 DEF IsService, Attributes
  <2>3. queue'.finals = queue.finals /\ queue'.partial = queue.partial
    BY <1>1, <2>1 DEF Queues
  <2>4. ~Busy' /\ cap'.phrase = cap.phrase /\ cap'.session = cap.session
    BY <2>1, QuietStream
  <2>. QED  BY <1>1, <2>1, <2>2, <2>3, <2>4 DEF LoopStep
<1>3. CASE QuitEnd
  <2>1. /\ svc' = [svc EXCEPT !.stopped = TRUE] /\ UNCHANGED <<idle, queue, worker, cap, hist>>
        /\ mainpc = "joinWorker" /\ mainpc' = "ready"
    BY <1>3 DEF QuitEnd
  <2>2. /\ svc'.session = svc.session /\ svc'.generation = svc.generation /\ svc'.floor = svc.floor
        /\ svc'.active = svc.active /\ svc'.pending = svc.pending /\ svc'.state = svc.state
    BY <1>1, <2>1 DEF IsService, Attributes
  <2>3. ~Busy
    BY <2>1, QuietStream DEF DevicesInv, CaptureInv
  <2>4. ~Busy' /\ cap.pc # "counted"
    BY <2>1, <2>3 DEF Busy
  <2>. QED  BY <1>1, <2>1, <2>2, <2>4 DEF LoopStep
<1>. QED  BY <1>2, <1>3

\* finish, up to the join.
LEMMA FinishIs ==
  ASSUME DevicesInv, PhraseInv, Finish, svc.capture # 0
  PROVE  /\ LoopStep /\ idle' = idle /\ worker' = worker /\ cap' = cap
         /\ mainpc = "ready" /\ mainpc' = "finish"
         /\ svc.active /\ svc'.active /\ svc'.pending = svc.pending
<1>1. IsService(svc) /\ IsHistory(hist)
  BY NumbersAre, QuietStream
<1>2. /\ svc' = [svc EXCEPT !.capture = 0, !.mic = 0] /\ mainpc' = "finish" /\ svc.active /\ mainpc = "ready"
      /\ UNCHANGED <<idle, queue, worker, cap, hist>>
  BY DEF Finish, Ready
<1>3. /\ svc'.session = svc.session /\ svc'.generation = svc.generation /\ svc'.floor = svc.floor
      /\ svc'.active = svc.active /\ svc'.pending = svc.pending
  BY <1>1, <1>2 DEF IsService, Attributes
<1>4. svc.capture = svc.session
  BY <1>2 DEF DevicesInv, CaptureInv
<1>5. Uttered' => Uttered
  BY <1>2, <1>3, <1>4 DEF Uttered
<1>. QED  BY <1>1, <1>2, <1>3, <1>5 DEF LoopStep

\* The end of _recognition_failed and _overloaded.
LEMMA DrainEndIs ==
  ASSUME DevicesInv, PhraseInv, DrainEnd
  PROVE  /\ LoopStep /\ idle' = idle /\ ~Busy'
         /\ mainpc = "drain" /\ mainpc' = "ready"
         /\ svc'.active = svc.active /\ svc'.pending = svc.pending
<1>1. /\ IsService(svc) /\ IsHistory(hist) /\ queue \in Queues /\ First(queue.finals)
  BY NumbersAre, QuietStream
<1>2. /\ \E x : svc' = [Invalidated(svc) EXCEPT !.capture = 0, !.message = TRUE, !.state = x]
      /\ worker' = InvalidateRunning(worker) /\ queue' = NoPreview(queue)
      /\ cap' = (IF svc.capture # 0 THEN NoCapture ELSE cap)
      /\ mainpc = "drain" /\ mainpc' = "ready" /\ cap.pc # "counted" /\ UNCHANGED <<idle, hist>>
  BY DEF DrainEnd, Joined
<1>3. /\ svc'.session = svc.session /\ svc'.generation = svc.generation /\ svc'.floor = svc.generation
      /\ svc'.active = svc.active /\ svc'.pending = svc.pending
  BY <1>1, <1>2, InvalidatedIs DEF IsService, Attributes
<1>4. queue'.finals = queue.finals /\ queue'.partial = NoJob
  BY <1>1, <1>2, QueueIs, QueueEnds
<1>5. ~Busy' /\ cap'.phrase = cap.phrase /\ cap'.session = cap.session
  <2>1. CASE svc.capture # 0
    BY <1>2, <2>1, QuietStream
  <2>2. CASE svc.capture = 0
    <3>1. ~Busy /\ cap' = cap
      BY <1>2, <2>2, QuietStream
    <3>. QED  BY <3>1 DEF Busy
  <2>. QED  BY <2>1, <2>2
<1>. QED  BY <1>1, <1>2, <1>3, <1>4, <1>5 DEF LoopStep

\* Callbacks that only show a state, and the ones that come too late.
Shows ==
  \/ PreparationState \/ SetSessionState \/ NoSpeech \/ PartialFinished
  \/ (CaptureFailed /\ ~Current) \/ (RecognitionFailed /\ ~Current) \/ (Overloaded /\ ~Current)
  \/ (RecognitionFinished /\ ~Current) \/ (Prepared /\ (~Current \/ ~svc.active))

\* They take one callback, none of them a result of this session.
LEMMA ShowsAre ==
  ASSUME DevicesInv, PhraseInv, Shows
  PROVE  /\ LoopStep /\ idle # <<>> /\ idle' = Tail(idle) /\ worker' = worker /\ cap' = cap
         /\ Head(idle).fn \notin {"finished", "failed"} \/ Head(idle).session # svc.session
         /\ mainpc = "ready" /\ mainpc' = "ready"
         /\ svc'.active = svc.active /\ svc'.pending = svc.pending /\ svc'.capture = svc.capture
         /\ svc'.state = svc.state \/ (svc.active /\ svc'.state # "finishing")
<1>1. /\ IsService(svc) /\ IsHistory(hist) /\ idle \in Seq(Callbacks)
  BY NumbersAre, QuietStream
<1>2. /\ idle # <<>> /\ idle' = Tail(idle) /\ mainpc = "ready"
  BY DEF Shows, PreparationState, SetSessionState, NoSpeech, PartialFinished, CaptureFailed, RecognitionFailed,
         Overloaded, RecognitionFinished, Prepared, Dispatch, Ready
<1>3. UNCHANGED <<mainpc, queue, worker, cap>>
  BY DEF Shows, PreparationState, SetSessionState, NoSpeech, PartialFinished, CaptureFailed, RecognitionFailed,
         Overloaded, RecognitionFinished, Prepared, Drop
<1>4. Head(idle).fn \notin {"finished", "failed"} \/ Head(idle).session # svc.session
  BY DEF Shows, PreparationState, SetSessionState, NoSpeech, PartialFinished, CaptureFailed, RecognitionFailed,
         Overloaded, RecognitionFinished, Prepared, Dispatch, Current
<1>5. IsHistory(hist') /\ hist'.delivered = hist.delivered /\ hist'.accepted = hist.accepted
      /\ hist'.ended = hist.ended /\ hist'.refused = hist.refused
  <2>1. hist' = hist \/ (\E x : hist' = [hist EXCEPT !.shown = x])
    BY DEF Shows, PreparationState, SetSessionState, NoSpeech, PartialFinished, CaptureFailed, RecognitionFailed,
           Overloaded, RecognitionFinished, Prepared, Drop
  <2>. QED  BY <1>1, <2>1 DEF IsHistory
<1>6. PreparationState => Head(idle).arg \in {"calibrating", "preparing"}
  <2>1. Head(idle) \in Callbacks
    BY <1>1, <1>2, DropCallback
  <2>. QED  BY <2>1 DEF Callbacks, PreparationState, Dispatch
<1>7. \/ svc' = svc
      \/ \E x : svc' = [svc EXCEPT !.prepared = x]
      \/ svc.active /\ \E x : x # "finishing" /\ svc' = [svc EXCEPT !.state = x]
      \/ svc.active /\ \E x, r : x # "finishing" /\ svc' = [svc EXCEPT !.state = x, !.restore = r]
  <2>1. CASE PreparationState
    BY <1>6, <2>1 DEF PreparationState
  <2>2. CASE SetSessionState \/ NoSpeech
    BY <2>2 DEF SetSessionState, NoSpeech
  <2>3. CASE Prepared /\ (~Current \/ ~svc.active)
    BY <2>3 DEF Prepared
  <2>4. CASE PartialFinished \/ (CaptureFailed /\ ~Current) \/ (RecognitionFailed /\ ~Current)
             \/ (Overloaded /\ ~Current) \/ (RecognitionFinished /\ ~Current)
    BY <2>4 DEF PartialFinished, CaptureFailed, RecognitionFailed, Overloaded, RecognitionFinished, Drop
  <2>. QED  BY <2>1, <2>2, <2>3, <2>4 DEF Shows
<1>8. /\ svc'.session = svc.session /\ svc'.generation = svc.generation /\ svc'.floor = svc.floor
      /\ svc'.active = svc.active /\ svc'.pending = svc.pending /\ svc'.capture = svc.capture
      /\ svc'.state = svc.state \/ (svc.active /\ svc'.state # "finishing")
  BY <1>1, <1>7 DEF IsService, Attributes
<1>9. (Uttered' => Uttered) /\ (Busy => svc'.capture # 0)
  BY <1>2, <1>3, <1>8, QuietStream DEF Uttered
<1>. QED  BY <1>2, <1>3, <1>4, <1>5, <1>8, <1>9 DEF LoopStep

\* The timer that shows listening again.
LEMMA RestoreIs ==
  ASSUME DevicesInv, PhraseInv, RestoreListening
  PROVE  /\ LoopStep /\ idle' = idle /\ worker' = worker /\ cap' = cap
         /\ mainpc = "ready" /\ mainpc' = "ready"
         /\ svc'.active = svc.active /\ svc'.pending = svc.pending /\ svc'.capture = svc.capture
         /\ svc'.state = svc.state \/ (svc.active /\ svc'.state # "finishing")
<1>1. /\ IsService(svc) /\ IsHistory(hist)
  BY NumbersAre, QuietStream
<1>2. /\ mainpc = "ready" /\ UNCHANGED <<mainpc, idle, queue, worker, cap, hist>>
      /\ \/ svc' = [svc EXCEPT !.restore = FALSE, !.state = svc.state]
         \/ svc.active /\ svc' = [svc EXCEPT !.restore = FALSE, !.state = "listening"]
  BY <1>1 DEF RestoreListening, Ready, IsService, Attributes
<1>3. /\ svc'.session = svc.session /\ svc'.generation = svc.generation /\ svc'.floor = svc.floor
      /\ svc'.active = svc.active /\ svc'.pending = svc.pending /\ svc'.capture = svc.capture
      /\ svc'.state = svc.state \/ (svc.active /\ svc'.state # "finishing")
  BY <1>1, <1>2 DEF IsService, Attributes
<1>4. (Uttered' => Uttered) /\ (Busy => svc'.capture # 0)
  BY <1>2, <1>3, QuietStream DEF Uttered
<1>. QED  BY <1>1, <1>2, <1>3, <1>4 DEF LoopStep

\* _prepared for the session that is on.
LEMMA PreparedIs ==
  ASSUME DevicesInv, PhraseInv, Prepared, Current, svc.active
  PROVE  /\ LoopStep /\ idle # <<>> /\ idle' = Tail(idle) /\ worker' = worker /\ ~Busy'
         /\ Head(idle).fn = "prepared" /\ HasToken(svc.session) /\ svc.capture = 0
         /\ mainpc = "ready" /\ mainpc' = "ready"
         /\ svc'.active = svc.active /\ svc'.pending = svc.pending /\ svc'.capture # 0
<1>1. /\ IsService(svc) /\ IsHistory(hist) /\ idle \in Seq(Callbacks) /\ svc.session \in Nat /\ cap \in Captures
  BY NumbersAre, QuietStream
<1>. DEFINE s == Head(idle).session
            rest == [svc EXCEPT !.prepared = IF @ = s THEN 0 ELSE @]
<1>2. /\ idle # <<>> /\ idle' = Tail(idle) /\ Head(idle).fn = "prepared" /\ s = svc.session /\ mainpc = "ready"
      /\ svc' = [rest EXCEPT !.capture = s, !.mic = s, !.state = "listening"]
      /\ cap' = [cap EXCEPT !.pc = "idle"] /\ UNCHANGED <<mainpc, queue, worker, hist>>
  BY DEF Prepared, Dispatch, Current, Ready
<1>3. /\ DOMAIN rest = Attributes /\ rest.session = svc.session /\ rest.generation = svc.generation
      /\ rest.floor = svc.floor /\ rest.active = svc.active /\ rest.pending = svc.pending
  BY <1>1 DEF IsService, Attributes
<1>. HIDE DEF rest
<1>4. /\ svc'.session = svc.session /\ svc'.generation = svc.generation /\ svc'.floor = svc.floor
      /\ svc'.active = svc.active /\ svc'.pending = svc.pending /\ svc'.capture = svc.session
  BY <1>2, <1>3 DEF Attributes
<1>5. HasToken(svc.session)
  BY <1>1, <1>2, DropCallback DEF HasToken, Tokens, Announces
<1>6. svc.capture = 0 /\ svc.session \in Sessions
  BY <1>1, <1>5 DEF DevicesInv, TokenInv
<1>7. svc.session # 0
  BY <1>6, SessionsAre
<1>8. ~Busy
  BY <1>2, <1>6, QuietStream
<1>9. ~Busy' /\ cap.pc # "counted" /\ cap'.phrase = cap.phrase /\ cap'.session = cap.session
  BY <1>1, <1>2, <1>8 DEF Busy, Captures
<1>. QED  BY <1>1, <1>2, <1>4, <1>5, <1>6, <1>7, <1>9 DEF LoopStep

\* _recognition_failed and _overloaded, up to the join.
LEMMA DrainIs ==
  ASSUME DevicesInv, ReadInv, PhraseInv, RecognitionFailed \/ Overloaded, Current
  PROVE  /\ LoopStep /\ idle # <<>> /\ idle' = Tail(idle) /\ worker' = worker /\ cap' = cap
         /\ Head(idle).session = svc.session /\ mainpc = "ready" /\ mainpc' = "drain"
         /\ ~svc'.active /\ svc'.capture = svc.capture
         /\ \/ Head(idle).fn = "overloaded" /\ svc'.pending = svc.pending
            \/ Head(idle).fn = "failed" /\ svc'.pending = Lowered
<1>1. /\ IsService(svc) /\ IsHistory(hist)
  BY NumbersAre, QuietStream
<1>2. /\ idle # <<>> /\ idle' = Tail(idle) /\ Head(idle).session = svc.session
      /\ mainpc = "ready" /\ mainpc' = "drain" /\ UNCHANGED <<queue, worker, cap, hist>>
  BY DEF RecognitionFailed, Overloaded, Dispatch, Current, Ready
<1>3. PICK n \in Nat : n = Lowered
  BY LoweredIs
<1>4. \/ Head(idle).fn = "overloaded" /\ svc' = [svc EXCEPT !.active = FALSE, !.mic = 0]
      \/ Head(idle).fn = "failed" /\ svc' = [svc EXCEPT !.pending = n, !.active = FALSE, !.mic = 0]
  BY <1>3 DEF RecognitionFailed, Overloaded, Dispatch
<1>5. /\ svc'.session = svc.session /\ svc'.generation = svc.generation /\ svc'.floor = svc.floor
      /\ ~svc'.active /\ svc'.capture = svc.capture
      /\ \/ Head(idle).fn = "overloaded" /\ svc'.pending = svc.pending
         \/ Head(idle).fn = "failed" /\ svc'.pending = n
  BY <1>1, <1>4 DEF IsService, Attributes
<1>6. (Uttered' => Uttered) /\ (Busy => svc'.capture # 0)
  BY <1>2, <1>5, QuietStream DEF Uttered
<1>. QED  BY <1>1, <1>2, <1>3, <1>5, <1>6 DEF LoopStep

\* _recognition_finished, unless it was the command that ends the session.
LEMMA FinishedIs ==
  ASSUME DevicesInv, ReadInv, PhraseInv, RecognitionFinished, Current, Head(idle).arg.text # "stop"
  PROVE  /\ svc'.session = svc.session /\ svc'.generation = svc.generation /\ svc'.floor = svc.floor
         /\ svc'.active = svc.active /\ svc'.capture = svc.capture
         /\ svc'.pending = Lowered
         /\ svc'.pending = 0 /\ svc.active => svc'.state # "finishing"
         /\ UNCHANGED <<queue, worker, cap>> /\ idle # <<>> /\ idle' = Tail(idle)
         /\ Text(Head(idle), svc.session) /\ mainpc = "ready" /\ mainpc' = "ready"
         /\ IsHistory(hist) /\ hist'.accepted = hist.accepted /\ hist'.ended = hist.ended
         /\ hist'.refused = hist.refused /\ DOMAIN hist' = DOMAIN hist
         /\ \/ hist' = hist
            \/ /\ hist'.shown = [final |-> TRUE, phrase |-> Head(idle).arg.phrase]
               /\ hist'.delivered = Head(idle).arg.phrase
<1>1. /\ IsService(svc) /\ IsHistory(hist)
  BY NumbersAre, QuietStream
<1>2. PICK n \in Nat : n = Lowered
  BY LoweredIs
<1>. DEFINE s == [svc EXCEPT !.pending = n]
            text == Head(idle).arg.text
<1>3. /\ DOMAIN s = Attributes /\ s.session = svc.session /\ s.generation = svc.generation
      /\ s.floor = svc.floor /\ s.active = svc.active /\ s.capture = svc.capture /\ s.pending = n
  BY <1>1 DEF IsService, Attributes
<1>4. /\ idle # <<>> /\ idle' = Tail(idle) /\ Head(idle).fn = "finished" /\ Head(idle).session = svc.session
      /\ mainpc = "ready" /\ UNCHANGED <<mainpc, queue, worker, cap>>
      /\ \E r : svc' = [s EXCEPT !.state = NextState(s, text), !.restore = r]
      /\ \/ hist' = hist
         \/ hist' = [hist EXCEPT !.shown = [final |-> TRUE, phrase |-> Head(idle).arg.phrase],
                                 !.delivered = Head(idle).arg.phrase]
  BY <1>2 DEF RecognitionFinished, Dispatch, Current, Ready
<1>5. s.pending = 0 /\ s.active => NextState(s, text) # "finishing"
  BY <1>3 DEF NextState
<1>. HIDE DEF s, text
<1>6. /\ svc'.session = svc.session /\ svc'.generation = svc.generation /\ svc'.floor = svc.floor
      /\ svc'.active = svc.active /\ svc'.capture = svc.capture /\ svc'.pending = n
      /\ svc'.state = NextState(s, text)
  BY <1>3, <1>4 DEF Attributes
<1>7. /\ hist'.accepted = hist.accepted /\ hist'.ended = hist.ended
      /\ hist'.refused = hist.refused /\ DOMAIN hist' = DOMAIN hist
      /\ \/ hist' = hist
         \/ /\ hist'.shown = [final |-> TRUE, phrase |-> Head(idle).arg.phrase]
            /\ hist'.delivered = Head(idle).arg.phrase
  BY <1>1, <1>4 DEF IsHistory
<1>. QED  BY <1>1, <1>2, <1>3, <1>4, <1>5, <1>6, <1>7 DEF Text

\* A text is delivered in its turn.
LEMMA FinishedKeeps ==
  ASSUME DevicesInv, DevicesInv', ReadInv, PhraseInv, RecognitionFinished, Current, Head(idle).arg.text # "stop"
  PROVE  /\ PhraseInv'
         /\ Head(idle).arg.phrase > hist.delivered /\ Head(idle).arg.phrase > hist.ended
<1>1. /\ IsHistory(hist) /\ WorkerInv /\ StreamInv /\ OrderInv /\ PreviewInv
      /\ hist.delivered \in Nat /\ hist.ended \in Nat /\ hist.accepted \in Nat
  BY DEF PhraseInv, IsHistory
<1>2. /\ svc'.session = svc.session /\ svc'.generation = svc.generation /\ svc'.floor = svc.floor
      /\ svc'.capture = svc.capture /\ UNCHANGED <<queue, worker, cap, mainpc>> /\ idle # <<>> /\ idle' = Tail(idle)
      /\ Text(Head(idle), svc.session)
      /\ hist'.accepted = hist.accepted /\ hist'.ended = hist.ended
      /\ hist'.refused = hist.refused /\ DOMAIN hist' = DOMAIN hist
      /\ hist' = hist \/ hist'.delivered = Head(idle).arg.phrase
  BY FinishedIs
<1>3. PICK told \in Nat, heard \in Nat, taken \in Nat : Progress(told, heard, taken)
  BY <1>1 DEF OrderInv
<1>4. /\ TextsRise(idle, svc.session) /\ TextsIn(idle, svc.session, told, heard)
      /\ TextsIn(idle, svc.session, told, hist.accepted) /\ idle \in Seq(Callbacks) /\ svc.session \in Nat
  BY <1>1, <1>3, NumbersAre DEF OrderInv, Progress
<1>5. PICK p \in Nat : p = Head(idle).arg.phrase
  BY <1>2, <1>4, TextsRising
<1>6. /\ told < p /\ p <= heard /\ TextsIn(idle', svc.session, p, heard)
      /\ TextsRise(idle', svc.session)
  BY <1>2, <1>4, <1>5, TextsRising, TextsOf
<1>7. p <= hist.accepted /\ TextsIn(idle', svc.session, p, hist.accepted)
  BY <1>1, <1>2, <1>4, <1>5, TextsRising
<1>8. /\ hist.delivered <= told /\ hist.ended <= told /\ told <= heard /\ heard <= taken
  BY <1>3 DEF Progress
<1>9. p > hist.delivered /\ p > hist.ended
  BY <1>1, <1>6, <1>8
<1>10. hist'.delivered \in Nat /\ hist'.delivered <= p /\ hist'.delivered <= hist'.accepted /\ IsHistory(hist')
  BY <1>1, <1>2, <1>5, <1>7, <1>9 DEF IsHistory, OrderInv
<1>11. (Uttered' <=> Uttered) /\ (Busy' <=> Busy)
  BY <1>2 DEF Uttered, Busy
<1>12. Progress(p, heard, taken)'
  BY <1>1, <1>2, <1>3, <1>6, <1>7, <1>9, <1>10, <1>11 DEF Progress
<1>13. OrderInv'
  BY <1>1, <1>2, <1>6, <1>10, <1>12 DEF OrderInv
<1>14. WorkerInv' /\ StreamInv'
  BY <1>1, <1>2, <1>11 DEF WorkerInv, StreamInv
<1>15. PreviewInv'
  <2>1. \A j : Fresh(j) => Fresh(j)'
    BY <1>2 DEF Fresh
  <2>2. Range(idle') \subseteq Range(idle)
    BY <1>2, <1>4, CallbacksHeld
  <2>3. Fresh(queue.partial)' /\ Fresh(worker.job)'
    BY <1>1, <1>2 DEF Fresh, PreviewInv
  <2>. QED  BY <1>1, <1>2, <2>1, <2>2, <2>3 DEF PreviewInv
<1>. QED  BY <1>5, <1>9, <1>10, <1>13, <1>14, <1>15 DEF PhraseInv

-----------------------------------------------------------------------------
(* The streaming thread *)

\* What is spoken, and what the main loop is told of it.
StreamStep ==
  /\ UNCHANGED <<svc, mainpc, queue, worker>>
  /\ IsHistory(hist') /\ hist'.delivered = hist.delivered /\ hist'.accepted = hist.accepted
  /\ hist'.ended = hist.ended /\ hist'.refused = hist.refused
  /\ \/ idle' = idle
     \/ \E c \in Callbacks : c.fn \in {"noSpeech", "captureFailed", "recognizing"} /\ idle' = Append(idle, c)
  /\ cap'.phrase >= cap.phrase
  /\ Uttered' => Uttered \/ cap'.phrase > cap.phrase
  /\ cap'.pc = "put" => cap'.session = svc.session
  /\ cap.pc # "counted" /\ cap'.pc # "counted"
  /\ cap'.session = cap.session \/ svc.active

\* GLib.idle_add of a callback that only tells something.
LEMMA TellingIs ==
  ASSUME NEW fn \in {"noSpeech", "captureFailed", "recognizing", "overloaded", "failed"}, NEW s \in Nat
  PROVE  \E c \in Callbacks : c = Callback(fn, s, 0) /\ c.fn = fn /\ c.session = s
<1>1. fn \in Functions
  BY DEF Functions
<1>. QED  BY <1>1, CallbackIs, ArgumentsAre

\* _consume, its failures, and the notice after a phrase was put.
LEMMA StreamIs ==
  ASSUME DevicesInv, PhraseInv, Speaker \/ CaptureErrors \/ QueueAudioNotify
  PROVE  StreamStep /\ StreamInv'
<1>1. /\ cap \in Captures /\ cap.phrase \in Nat /\ svc.mic \in Nat /\ cap.session \in Nat /\ StreamInv /\ IsHistory(hist)
      /\ hist.accepted \in Nat /\ hist.accepted <= cap.phrase
  BY NumbersAre DEF PhraseInv, OrderInv, IsHistory
<1>2. Listens \/ Streams => /\ svc.mic = svc.session /\ svc.capture = svc.session /\ svc.capture # 0 /\ cap.pc = "idle"
  BY DEF Listens, Streams, DevicesInv, MicrophoneInv
<1>3. Listens => svc.active
  BY DEF Listens, Streams, DevicesInv, MicrophoneInv, TestInv
<1>4. CASE Onset
  <2>1. PICK n \in Nat : n = cap.phrase + 1
    BY <1>1
  <2>2. /\ cap' = [cap EXCEPT !.speaking = TRUE, !.phrase = n] /\ Listens
        /\ UNCHANGED <<svc, mainpc, idle, queue, worker, hist>>
    BY <1>4, <2>1 DEF Onset, CapUnchanged
  <2>3. cap'.phrase = n /\ cap'.pc = "idle" /\ cap'.speaking /\ cap'.session = cap.session
    BY <1>1, <1>2, <2>2 DEF Captures
  <2>4. n > cap.phrase /\ n > hist.accepted
    BY <1>1, <2>1
  <2>5. StreamInv'
    BY <1>1, <1>2, <2>2, <2>3, <2>4 DEF StreamInv
  <2>. QED  BY <1>1, <1>2, <2>1, <2>2, <2>3, <2>4, <2>5 DEF StreamStep
<1>5. CASE PhraseComplete
  <2>1. PICK pc \in {"put", "idle"} : cap' = [cap EXCEPT !.speaking = FALSE, !.pc = pc, !.session = svc.mic]
    BY <1>5 DEF PhraseComplete
  <2>2. Listens /\ cap.speaking /\ UNCHANGED <<svc, mainpc, idle, queue, worker, hist>>
    BY <1>5 DEF PhraseComplete, CapUnchanged
  <2>3. cap'.phrase = cap.phrase /\ cap'.pc = pc /\ ~cap'.speaking /\ cap'.session = svc.session
    BY <1>1, <1>2, <2>1, <2>2 DEF Captures
  <2>4. StreamInv' /\ Uttered
    BY <1>1, <1>2, <2>2, <2>3 DEF StreamInv, Busy, Uttered
  <2>. QED  BY <1>1, <1>2, <1>3, <2>2, <2>3, <2>4 DEF StreamStep
<1>6. CASE PartialDue
  <2>1. PICK n \in Nat : n = cap.previews + 1
    BY <1>1 DEF Captures
  <2>2. PICK pc \in {"partial", "idle"} : cap' = [cap EXCEPT !.pc = pc, !.session = svc.mic, !.previews = n]
    BY <1>6, <2>1 DEF PartialDue
  <2>3. Listens /\ cap.speaking /\ UNCHANGED <<svc, mainpc, idle, queue, worker, hist>>
    BY <1>6 DEF PartialDue, CapUnchanged
  <2>4. cap'.phrase = cap.phrase /\ cap'.pc = pc /\ cap'.speaking = cap.speaking
    BY <1>1, <2>2 DEF Captures
  <2>5. StreamInv' /\ Uttered
    BY <1>1, <1>2, <2>3, <2>4 DEF StreamInv, Busy, Uttered
  <2>. QED  BY <1>1, <1>2, <1>3, <2>3, <2>4, <2>5 DEF StreamStep
<1>7. CASE NobodySpeaks
  <2>1. /\ Listens /\ UNCHANGED <<svc, mainpc, cap, queue, worker, hist>>
        /\ idle' = Append(idle, Callback("noSpeech", svc.mic, 0))
    BY <1>7 DEF NobodySpeaks, CapUnchanged
  <2>2. PICK c \in Callbacks : c = Callback("noSpeech", svc.mic, 0) /\ c.fn = "noSpeech"
    BY <1>1, TellingIs
  <2>3. StreamInv' /\ (Uttered' => Uttered) /\ cap'.pc # "put" /\ cap'.phrase >= cap.phrase
    BY <1>1, <1>2, <2>1 DEF StreamInv, Busy, Uttered
  <2>. QED  BY <1>1, <1>2, <2>1, <2>2, <2>3 DEF StreamStep
<1>8. CASE CaptureErrors
  <2>1. /\ Streams /\ UNCHANGED <<svc, mainpc, queue, worker>> /\ cap' = [cap EXCEPT !.pc = "failed"]
        /\ hist' = Failed(hist) /\ idle' = Append(idle, Callback("captureFailed", svc.mic, 0))
    BY <1>8 DEF CaptureErrors
  <2>2. PICK c \in Callbacks : c = Callback("captureFailed", svc.mic, 0) /\ c.fn = "captureFailed"
    BY <1>1, TellingIs
  <2>3. /\ cap'.pc = "failed" /\ cap'.phrase = cap.phrase /\ cap'.speaking = cap.speaking
        /\ cap'.session = cap.session
    BY <1>1, <2>1 DEF Captures
  <2>4. /\ IsHistory(hist') /\ hist'.delivered = hist.delivered /\ hist'.accepted = hist.accepted
        /\ hist'.ended = hist.ended /\ hist'.refused = hist.refused
    BY <1>1, <2>1 DEF IsHistory, Failed
  <2>5. StreamInv' /\ (Uttered' => Uttered) /\ cap'.phrase >= cap.phrase
    BY <1>1, <1>2, <2>1, <2>3, <2>4 DEF StreamInv, Busy, Uttered
  <2>. QED  BY <1>2, <2>1, <2>2, <2>3, <2>4, <2>5 DEF StreamStep
<1>9. CASE QueueAudioNotify
  <2>1. /\ UNCHANGED <<svc, mainpc, queue, worker, hist>> /\ cap' = [cap EXCEPT !.pc = "idle"]
        /\ idle' = Append(idle, Callback("recognizing", cap.session, 0)) /\ cap.pc = "notify"
    BY <1>9 DEF QueueAudioNotify, CapUnchanged
  <2>2. PICK c \in Callbacks : c = Callback("recognizing", cap.session, 0) /\ c.fn = "recognizing"
    BY <1>1, TellingIs
  <2>3. /\ cap'.pc = "idle" /\ cap'.phrase = cap.phrase /\ cap'.speaking = cap.speaking
        /\ cap'.session = cap.session
    BY <1>1, <2>1 DEF Captures
  <2>4. StreamInv' /\ (Uttered' => Uttered) /\ cap'.phrase >= cap.phrase
    BY <1>1, <2>1, <2>3 DEF StreamInv, Busy, Uttered
  <2>. QED  BY <1>1, <2>1, <2>2, <2>3, <2>4 DEF StreamStep
<1>. QED  BY <1>4, <1>5, <1>6, <1>7, <1>8, <1>9 DEF Speaker

\* Such a step keeps the order.
LEMMA StreamKeeps ==
  ASSUME DevicesInv, DevicesInv', PhraseInv, StreamStep, StreamInv'
  PROVE  PhraseInv'
<1>1. WorkerInv /\ OrderInv /\ PreviewInv
  BY DEF PhraseInv
<1>2. Quieter
  BY <1>1, QuieterIf DEF StreamStep, OrderInv
<1>3. WorkerInv'
  BY <1>1 DEF WorkerInv, StreamStep
<1>4. Fresh(queue.partial)' /\ Fresh(worker.job)'
  BY <1>1 DEF PreviewInv, Fresh, StreamStep
<1>5. svc'.generation >= svc.generation /\ svc'.floor <= svc'.generation
  BY <1>1, NumbersAre DEF PreviewInv, StreamStep
<1>6. OrderInv' /\ PreviewInv'
  BY <1>1, <1>2, <1>4, <1>5, OrderStays DEF StreamStep, OrderInv
<1>. QED  BY <1>3, <1>6 DEF PhraseInv, StreamStep

\* A phrase has ended and the previews before it are void: the queue takes it or has
\* no room for it.
AcceptStep(s) ==
  /\ s = svc.session => Uttered
  /\ hist.accepted < cap.phrase
  /\ svc'.session = svc.session /\ svc'.generation = svc.generation /\ svc'.floor = svc.generation
  /\ worker' = worker \/ worker' = InvalidateRunning(worker)
  /\ queue'.partial = NoJob \/ queue'.partial = queue.partial
  /\ \/ queue'.finals = queue.finals /\ (s = svc.session => Counted' = Counted)
     \/ /\ s = svc.session => Counted' = Counted + 1
        /\ \E j \in Jobs : /\ j.kind = "final" /\ j.session = s /\ j.phrase = cap.phrase
                           /\ queue'.finals = Append(queue.finals, j)
  /\ \/ idle' = idle
     \/ \E c \in Callbacks : /\ c.fn \in {"recognizing", "overloaded"} /\ c.session = s
                             /\ idle' = Append(idle, c)
  /\ IsHistory(hist') /\ hist'.delivered = hist.delivered /\ hist'.accepted = cap.phrase
  /\ hist'.ended = hist.ended /\ hist'.refused = hist.refused
  /\ cap'.phrase = cap.phrase /\ cap'.session = cap.session /\ ~cap'.speaking
  /\ cap'.pc \notin {"put", "counted", "partial"}
  /\ Busy' => svc'.capture # 0 \/ mainpc' = "finish"

\* Accepted phrases queue up in the order they were spoken.
LEMMA AcceptKeeps ==
  ASSUME DevicesInv, DevicesInv', PhraseInv, NEW s \in Nat, AcceptStep(s)
  PROVE  PhraseInv'
<1>1. /\ IsHistory(hist) /\ WorkerInv /\ StreamInv /\ OrderInv /\ PreviewInv
      /\ hist.delivered \in Nat /\ hist.accepted \in Nat /\ hist.ended \in Nat
  BY DEF PhraseInv, IsHistory
<1>2. /\ svc.session \in Nat /\ queue.finals \in Seq(Jobs) /\ cap.phrase \in Nat /\ idle \in Seq(Callbacks)
      /\ worker.job \in Jobs /\ NoJob \in Jobs /\ worker.job.phrase \in Nat
      /\ svc.generation \in Nat
  BY NumbersAre
<1>3. /\ worker'.job = worker.job /\ worker'.pc = worker.pc
      /\ worker.cancel = "none" => worker'.cancel = "none"
      /\ worker.job.kind = "final" => worker'.cancel = worker.cancel
  BY InvalidatedJob DEF AcceptStep
<1>4. Quieter
  <2>1. \/ idle' = idle
        \/ \E c \in Callbacks : idle' = Append(idle, c) /\ c.fn \notin {"finished", "partial"}
    BY DEF AcceptStep
  <2>. QED  BY <1>1, <2>1, QuieterIf DEF OrderInv
<1>5. PICK told \in Nat, heard \in Nat, taken \in Nat : Progress(told, heard, taken)
  BY <1>1 DEF OrderInv
<1>6. /\ \A j \in Range(queue'.finals) : j \in Range(queue.finals)
           \/ (j.kind = "final" /\ j.session = s /\ j.phrase = cap.phrase)
      /\ FinalsRise(queue'.finals, svc.session)
  <2>1. CASE queue'.finals = queue.finals
    BY <1>1, <2>1 DEF OrderInv
  <2>2. ASSUME NEW j \in Jobs, j.kind = "final", j.session = s, j.phrase = cap.phrase,
               queue'.finals = Append(queue.finals, j)
        PROVE  <1>6!1 /\ <1>6!2
    <3>0. Range(Append(queue.finals, j)) = Range(queue.finals) \cup {j}
      BY <1>2, JobsHeld
    <3>1. Range(queue'.finals) = Range(queue.finals) \cup {j}
      BY <2>2, <3>0
    <3>2. FinalsIn(queue.finals, svc.session, taken, hist.accepted) /\ hist.accepted < j.phrase
      BY <1>5, <2>2 DEF Progress, AcceptStep
    <3>3. FinalsRise(queue.finals, svc.session)
      BY <1>1 DEF OrderInv
    <3>4. FinalsRise(queue'.finals, svc.session)
      BY <1>1, <1>2, <1>5, <2>2, <3>2, <3>3, FinalsOf
    <3>. QED  BY <2>2, <3>1, <3>4
  <2>. QED  BY <2>1, <2>2 DEF AcceptStep
<1>7. WorkerInv'
  BY <1>1, <1>3, <1>6 DEF WorkerInv, Final, AcceptStep
<1>8. StreamInv'
  BY DEF StreamInv, AcceptStep
<1>9. ~Uttered' /\ hist.accepted < cap.phrase /\ taken <= cap.phrase /\ (s = svc.session => taken < cap.phrase)
  BY <1>5 DEF Uttered, AcceptStep, Progress
<1>10. FinalsIn(queue'.finals, svc.session, taken, cap.phrase)
  <2>1. \A j \in Range(queue.finals) : j.phrase \in Nat
    <3>1. Range(queue.finals) \subseteq Jobs
      BY <1>2, JobsHeld
    <3>. QED  BY <3>1 DEF Jobs
  <2>2. \A j \in Range(queue.finals) : Final(j, svc.session) => taken < j.phrase /\ j.phrase <= hist.accepted
    BY <1>5 DEF Progress, FinalsIn
  <2>3. \A j \in Range(queue.finals) : Final(j, svc.session) => taken < j.phrase /\ j.phrase <= cap.phrase
    BY <1>1, <1>2, <1>9, <2>1, <2>2
  <2>. QED  BY <1>2, <1>6, <1>9, <2>3 DEF FinalsIn, Final
<1>11. TextsIn(idle', svc.session, told, heard) /\ TextsIn(idle', svc.session, told, cap.phrase)
  <2>1. TextsIn(idle, svc.session, told, cap.phrase)
    BY <1>1, <1>2, <1>5, <1>9 DEF Progress, TextsIn
  <2>. QED  BY <1>4, <1>5, <2>1 DEF Progress, TextsIn, Quieter, Text
<1>12. Final(worker'.job, svc.session) => /\ heard < worker'.job.phrase /\ worker'.job.phrase <= taken
                                          /\ worker'.job.phrase <= cap.phrase
  BY <1>1, <1>2, <1>3, <1>5, <1>9 DEF Progress
<1>13. Progress(told, heard, taken)'
  BY <1>5, <1>9, <1>10, <1>11, <1>12 DEF Progress, AcceptStep
<1>14. OrderInv'
  <2>1. /\ hist'.delivered <= hist'.accepted /\ hist'.accepted <= cap'.phrase /\ hist'.ended <= cap'.phrase
    <3>1. hist.delivered <= hist.accepted /\ hist.ended <= cap.phrase
      BY <1>1 DEF OrderInv
    <3>2. /\ hist'.delivered = hist.delivered /\ hist'.accepted = cap.phrase /\ hist'.ended = hist.ended
          /\ cap'.phrase = cap.phrase
      BY DEF AcceptStep
    <3>. QED  BY <1>1, <1>2, <1>9, <3>1, <3>2
  <2>2. svc'.session = svc.session
    BY DEF AcceptStep
  <2>. QED  BY <1>5, <1>4, <1>6, <1>13, <2>1, <2>2 DEF OrderInv, Quieter
<1>15. PreviewInv'
  <2>1. /\ svc'.session = svc.session /\ svc'.generation = svc.generation /\ svc'.floor = svc.generation
        /\ svc'.generation \in Nat /\ svc'.floor \in Nat /\ svc'.generation >= svc.generation
        /\ svc'.floor <= svc'.generation
    BY <1>2 DEF AcceptStep
  <2>2. ASSUME NEW j \in Jobs, Fresh(j) \/ j = NoJob PROVE Fresh(j)'
    BY <1>1, <2>1, <2>2, FreshKept
  <2>3. Fresh(queue.partial)' /\ Fresh(worker.job)'
    <3>1. \A j : j \in {queue'.partial, worker'.job} => Fresh(j)'
      BY <1>1, <1>2, <1>3, <2>2, NumbersAre DEF PreviewInv, AcceptStep
    <3>. QED  BY <3>1 DEF Fresh
  <2>4. \A c \in Range(idle') :
          /\ c.fn = "partial" => c.arg \in Jobs /\ c.arg.kind = "partial" /\ Fresh(c.arg)'
          /\ c.fn = "finished" => c.session <= svc'.session
    BY <1>1, <1>4, <2>1, <2>2 DEF PreviewInv, Quieter
  <2>. QED  BY <2>1, <2>3, <2>4 DEF PreviewInv
<1>. QED  BY <1>7, <1>8, <1>14, <1>15 DEF PhraseInv, AcceptStep

\* _queue_audio voids the previews and counts the phrase.
LEMMA QueueAudioIs ==
  ASSUME DevicesInv, PhraseInv, QueueAudio
  PROVE  /\ LoopStep /\ cap.pc = "put" /\ cap'.pc = "counted" /\ UNCHANGED <<mainpc, idle>>
         /\ svc'.active = svc.active /\ svc'.capture = svc.capture /\ svc'.state = svc.state
         /\ svc'.pending = svc.pending + 1
<1>1. /\ IsService(svc) /\ cap \in Captures /\ queue \in Queues /\ First(queue.finals) /\ IsHistory(hist)
      /\ svc.pending \in Int
  BY NumbersAre DEF PhraseInv
<1>2. PICK n \in Int : n = svc.pending + 1
  BY <1>1
<1>3. /\ cap.pc = "put" /\ svc' = [Invalidated(svc) EXCEPT !.pending = n]
      /\ worker' = InvalidateRunning(worker) /\ queue' = NoPreview(queue)
      /\ cap' = [cap EXCEPT !.pc = "counted"] /\ UNCHANGED <<mainpc, idle, hist>>
  <2>1. Invalidated(svc).pending = svc.pending
    BY <1>1, InvalidatedIs
  <2>. QED  BY <1>2, <2>1 DEF QueueAudio, CapUnchanged
<1>4. /\ svc'.session = svc.session /\ svc'.generation = svc.generation /\ svc'.floor = svc.generation
      /\ svc'.pending = n /\ svc'.active = svc.active /\ svc'.capture = svc.capture /\ svc'.state = svc.state
  <2>1. /\ IsService(Invalidated(svc)) /\ Invalidated(svc).session = svc.session
        /\ Invalidated(svc).generation = svc.generation /\ Invalidated(svc).floor = svc.generation
        /\ Invalidated(svc).active = svc.active /\ Invalidated(svc).capture = svc.capture
        /\ Invalidated(svc).state = svc.state
    BY <1>1, InvalidatedIs
  <2>. QED  BY <1>3, <2>1 DEF IsService, Attributes
<1>5. queue'.finals = queue.finals /\ queue'.partial = NoJob
  BY <1>1, <1>3, QueueIs, QueueEnds
<1>6. /\ cap'.phrase = cap.phrase /\ cap'.pc = "counted" /\ cap'.speaking = cap.speaking
      /\ cap'.session = cap.session
  BY <1>1, <1>3 DEF Captures
<1>. QED  BY <1>1, <1>2, <1>3, <1>4, <1>5, <1>6 DEF LoopStep

\* Then it puts the phrase, or takes its count back.
LEMMA QueueAudioPutIs ==
  ASSUME DevicesInv, PhraseInv, QueueAudioPut
  PROVE  /\ AcceptStep(cap.session) /\ cap.session \in Nat /\ cap.pc = "counted" /\ UNCHANGED mainpc
         /\ svc'.active = svc.active /\ svc'.capture = svc.capture /\ svc'.state = svc.state
<1>1. /\ IsService(svc) /\ cap \in Captures /\ queue \in Queues /\ First(queue.finals) /\ cap.session \in Nat
      /\ cap.phrase \in Nat /\ svc.pending \in Int /\ StreamInv /\ IsHistory(hist) /\ queue.finals \in Seq(Jobs)
  BY NumbersAre DEF PhraseInv
<1>2. PICK n \in Int : n = svc.pending - (IF HasRoom(queue) THEN 0 ELSE 1)
  BY <1>1
<1>3. PICK j \in Jobs : j = Phrase /\ j.kind = "final" /\ j.session = cap.session /\ j.phrase = cap.phrase
  <2>. DEFINE job == Job("final", cap.session, 0, cap.phrase)
  <2>1. /\ job \in Jobs /\ job.phrase = cap.phrase
        /\ job.kind = "final" /\ job.session = cap.session /\ job.gen = 0
    BY <1>1 DEF Job, Jobs
  <2>. QED  BY <2>1 DEF Phrase
<1>4. PICK c \in Callbacks : c = Callback("overloaded", cap.session, 0) /\ c.fn = "overloaded" /\ c.session = cap.session
  BY <1>1, TellingIs
<1>5. /\ cap.pc = "counted" /\ svc' = [svc EXCEPT !.pending = n] /\ worker' = worker
      /\ queue' = (IF HasRoom(queue) THEN PutFinal(queue, j) ELSE queue)
      /\ idle' = idle \/ idle' = Append(idle, c)
      /\ \E pc \in {"notify", "idle"} : cap' = [cap EXCEPT !.pc = pc]
      /\ hist' = [hist EXCEPT !.accepted = cap.phrase]
      /\ UNCHANGED mainpc
  BY <1>2, <1>3, <1>4 DEF QueueAudioPut, CapUnchanged
<1>6. /\ svc'.session = svc.session /\ svc'.generation = svc.generation /\ svc'.floor = svc.floor
      /\ svc'.pending = n /\ svc'.active = svc.active /\ svc'.capture = svc.capture /\ svc'.state = svc.state
  BY <1>1, <1>5 DEF IsService, Attributes
<1>7. /\ queue'.partial = NoJob \/ queue'.partial = queue.partial
      /\ HasRoom(queue) => queue'.finals = Append(queue.finals, j)
      /\ ~HasRoom(queue) => queue'.finals = queue.finals
  <2>1. PutFinal(queue, j).finals = Append(queue.finals, j) /\ PutFinal(queue, j).partial = NoJob
    BY <1>1 DEF PutFinal, Queues
  <2>. QED  BY <1>5, <2>1
<1>8. /\ IsHistory(hist') /\ hist'.delivered = hist.delivered /\ hist'.accepted = cap.phrase
      /\ hist'.ended = hist.ended /\ hist'.refused = hist.refused
  BY <1>1, <1>5 DEF IsHistory
<1>9. /\ cap'.phrase = cap.phrase /\ cap'.pc \in {"notify", "idle"} /\ cap'.speaking = cap.speaking
      /\ cap'.session = cap.session
  BY <1>1, <1>5 DEF Captures
<1>10. /\ cap.session = svc.session => Uttered
       /\ hist.accepted < cap.phrase /\ ~cap.speaking /\ (svc.capture # 0 \/ mainpc = "finish")
       /\ svc.floor = svc.generation
  <2>1. hist.accepted \in Nat
    BY <1>1 DEF IsHistory
  <2>. QED  BY <1>1, <1>5, <2>1 DEF Uttered, StreamInv, Busy
<1>11. ASSUME cap.session = svc.session
       PROVE  (HasRoom(queue) => Counted' = Counted + 1) /\ (~HasRoom(queue) => Counted' = Counted)
  <2>1. BeingPut = 1 /\ BeingPut' = 0
    BY <1>5, <1>9, <1>11 DEF BeingPut
  <2>. QED  BY <1>1, <1>2, <1>6, <2>1 DEF Counted
<1>12. AcceptStep(cap.session)
  BY <1>3, <1>4, <1>5, <1>6, <1>7, <1>8, <1>9, <1>10, <1>11 DEF AcceptStep
<1>. QED  BY <1>1, <1>5, <1>6, <1>12

\* finish, from the join on: the phrase being spoken is put, if there is one.
LEMMA FinishEndIs ==
  ASSUME DevicesInv, PhraseInv, FinishEnd
  PROVE  /\ cap.speaking => AcceptStep(svc.session)
         /\ ~cap.speaking => /\ LoopStep /\ idle' = idle /\ svc'.pending = svc.pending
         /\ mainpc = "finish" /\ mainpc' = "ready" /\ ~Busy' /\ BeingPut = 0 /\ BeingPut' = 0
         /\ ~svc'.active /\ (svc'.pending = 0 => svc'.state # "finishing")
<1>1. /\ IsService(svc) /\ cap \in Captures /\ queue \in Queues /\ First(queue.finals) /\ cap.session \in Nat
      /\ cap.phrase \in Nat /\ svc.pending \in Int /\ StreamInv /\ IsHistory(hist) /\ queue.finals \in Seq(Jobs)
      /\ svc.session \in Nat
  BY NumbersAre DEF PhraseInv
<1>2. PICK n \in Int : n = svc.pending + (IF Flushes /\ HasRoom(queue) THEN 1 ELSE 0)
  BY <1>1
<1>3. PICK j \in Jobs : /\ j = Job("final", svc.session, 0, cap.phrase)
                        /\ j.kind = "final" /\ j.session = svc.session /\ j.phrase = cap.phrase
  <2>. DEFINE job == Job("final", svc.session, 0, cap.phrase)
  <2>1. /\ job \in Jobs /\ job.phrase = cap.phrase
        /\ job.kind = "final" /\ job.session = svc.session /\ job.gen = 0
    BY <1>1 DEF Job, Jobs
  <2>. QED  BY <2>1
<1>4. PICK c \in Callbacks, d \in Callbacks :
        /\ c = Callback("overloaded", svc.session, 0) /\ c.fn = "overloaded" /\ c.session = svc.session
        /\ d = Callback("recognizing", svc.session, 0) /\ d.fn = "recognizing" /\ d.session = svc.session
  BY <1>1, TellingIs
<1>5. PICK x : x = IF n # 0 THEN "finishing" ELSE "idle"
  OBVIOUS
<1>6. PICK a \in Nat : a = IF Flushes THEN cap.phrase ELSE hist.accepted
  BY <1>1 DEF IsHistory
<1>7. /\ mainpc = "finish" /\ svc' = [Invalidated(svc) EXCEPT !.pending = n, !.active = FALSE, !.state = x]
      /\ worker' = InvalidateRunning(worker)
      /\ queue' = NoPreview(IF Flushes /\ HasRoom(queue) THEN PutFinal(queue, j) ELSE queue)
      /\ Flushes => idle' = Append(idle, c) \/ idle' = Append(idle, d)
      /\ ~Flushes => idle' = idle
      /\ cap' = NoCapture /\ mainpc' = "ready"
      /\ hist' = [hist EXCEPT !.accepted = a]
  BY <1>2, <1>3, <1>4, <1>5, <1>6 DEF FinishEnd, FlushedQueue
<1>8. /\ svc'.session = svc.session /\ svc'.generation = svc.generation /\ svc'.floor = svc.generation
      /\ svc'.pending = n /\ svc'.active = FALSE /\ svc'.state = x
  <2>1. /\ IsService(Invalidated(svc)) /\ Invalidated(svc).session = svc.session
        /\ Invalidated(svc).generation = svc.generation /\ Invalidated(svc).floor = svc.generation
    BY <1>1, InvalidatedIs
  <2>. QED  BY <1>7, <2>1 DEF IsService, Attributes
<1>9. /\ queue'.partial = NoJob
      /\ Flushes /\ HasRoom(queue) => queue'.finals = Append(queue.finals, j)
      /\ ~(Flushes /\ HasRoom(queue)) => queue'.finals = queue.finals
  <2>1. /\ PutFinal(queue, j) \in Queues /\ PutFinal(queue, j).finals = Append(queue.finals, j)
    BY <1>1, QueueIs
  <2>2. First(PutFinal(queue, j).finals)
    BY <1>1, <1>3, <2>1, AddJob
  <2>. QED  BY <1>1, <1>7, <2>1, <2>2, QueueIs, QueueEnds
<1>10. /\ IsHistory(hist') /\ hist'.delivered = hist.delivered /\ hist'.accepted = a
       /\ hist'.ended = hist.ended /\ hist'.refused = hist.refused
  BY <1>1, <1>6, <1>7 DEF IsHistory
<1>11. ~Busy' /\ cap'.phrase = cap.phrase /\ cap'.session = cap.session
  BY <1>7, QuietStream
<1>0. BeingPut = 0 /\ BeingPut' = 0 /\ cap.pc # "counted"
  BY <1>11 DEF FinishEnd, Joined, BeingPut, Busy
<1>12. ASSUME cap.speaking PROVE AcceptStep(svc.session)
  <2>1. hist.accepted \in Nat
    BY <1>1 DEF IsHistory
  <2>2. Uttered /\ hist.accepted < cap.phrase
    BY <1>1, <1>7, <1>12, <2>1 DEF Uttered, StreamInv
  <2>3. (HasRoom(queue) => n = svc.pending + 1) /\ (~HasRoom(queue) => n = svc.pending) /\ a = cap.phrase
    BY <1>1, <1>2, <1>6, <1>12 DEF Flushes
  <2>4. Counted' = n /\ Counted = svc.pending
    BY <1>0, <1>1, <1>8 DEF Counted
  <2>. QED  BY <1>3, <1>4, <1>7, <1>8, <1>9, <1>10, <1>11, <1>12, <2>2, <2>3, <2>4 DEF AcceptStep, Flushes, Busy
<1>13. ASSUME ~cap.speaking PROVE LoopStep /\ idle' = idle /\ svc'.pending = svc.pending
  <2>1. n = svc.pending /\ a = hist.accepted
    BY <1>1, <1>2, <1>6, <1>13 DEF Flushes
  <2>. QED  BY <1>0, <1>7, <1>8, <1>9, <1>10, <1>11, <1>13, <2>1 DEF LoopStep, Flushes
<1>14. n = 0 => x # "finishing"
  BY <1>5
<1>. QED  BY <1>0, <1>7, <1>8, <1>11, <1>12, <1>13, <1>14

\* _queue_partial: the preview is of the phrase being spoken.
LEMMA QueuePartialKeeps ==
  ASSUME DevicesInv, DevicesInv', SpentInv, PhraseInv, QueuePartial
  PROVE  /\ PhraseInv' /\ UNCHANGED <<mainpc, idle, worker, hist>> /\ queue'.finals = queue.finals
         /\ cap'.pc = "idle" /\ cap'.session = cap.session
         /\ svc'.session = svc.session /\ svc'.pending = svc.pending /\ svc'.active = svc.active
         /\ svc'.capture = svc.capture /\ svc'.state = svc.state
<1>1. /\ IsService(svc) /\ cap \in Captures /\ queue \in Queues /\ First(queue.finals) /\ cap.session \in Nat
      /\ cap.phrase \in Nat /\ svc.generation \in Nat /\ svc.floor \in Nat /\ svc.session \in Nat
      /\ IsHistory(hist) /\ WorkerInv /\ StreamInv /\ OrderInv /\ PreviewInv
      /\ hist.accepted \in Nat /\ hist.ended \in Nat
  BY NumbersAre DEF PhraseInv, IsHistory
<1>2. PICK g \in Nat : g = svc.generation + 1
  BY <1>1
<1>3. PICK j \in Jobs : /\ j = Job("partial", cap.session, g, cap.phrase) /\ j.kind = "partial"
                        /\ j.session = cap.session /\ j.gen = g /\ j.phrase = cap.phrase
  <2>. DEFINE job == Job("partial", cap.session, g, cap.phrase)
  <2>1. /\ job \in Jobs /\ job.phrase = cap.phrase
        /\ job.kind = "partial" /\ job.session = cap.session /\ job.gen = g
    BY <1>1 DEF Job, Jobs
  <2>. QED  BY <2>1
<1>4. /\ cap.pc = "partial" /\ svc' = [svc EXCEPT !.generation = g] /\ queue' = PutPartial(queue, j)
      /\ cap' = [cap EXCEPT !.pc = "idle"] /\ UNCHANGED <<mainpc, idle, worker, hist>>
  BY <1>2, <1>3 DEF QueuePartial, CapUnchanged
<1>5. /\ svc'.session = svc.session /\ svc'.pending = svc.pending /\ svc'.active = svc.active
      /\ svc'.capture = svc.capture /\ svc'.state = svc.state /\ svc'.generation = g /\ svc'.floor = svc.floor
  BY <1>1, <1>4 DEF IsService, Attributes
<1>6. cap'.pc = "idle" /\ cap'.phrase = cap.phrase /\ cap'.speaking = cap.speaking /\ cap'.session = cap.session
  BY <1>1, <1>4 DEF Captures
<1>7. queue'.finals = queue.finals /\ queue'.partial \in {j, queue.partial}
  BY <1>1, <1>4 DEF PutPartial, Queues
<1>8. svc'.generation >= svc.generation /\ svc'.floor <= svc'.generation
  BY <1>1, <1>2, <1>5 DEF PreviewInv
<1>9. Fresh(j)'
  <2>1. cap.session <= svc.session
    BY <1>1 DEF SpentInv, Spent
  <2>2. cap.speaking /\ cap.phrase > hist.accepted
    BY <1>1, <1>4 DEF StreamInv
  <2>3. ASSUME cap.session = svc.session PROVE cap.phrase > hist.ended
    <3>1. Uttered
      BY <1>4, <2>3 DEF Uttered
    <3>2. PICK told \in Nat, heard \in Nat, taken \in Nat : Progress(told, heard, taken)
      BY <1>1 DEF OrderInv
    <3>. QED  BY <1>1, <3>1, <3>2 DEF Progress
  <2>. QED  BY <1>2, <1>3, <1>4, <1>5, <2>1, <2>2, <2>3 DEF Fresh
<1>10. Fresh(queue.partial)' /\ Fresh(worker.job)'
  <2>0. queue.partial \in Jobs /\ worker.job \in Jobs
    BY NumbersAre
  <2>1. \A k \in Jobs : Fresh(k) => Fresh(k)'
    BY <1>1, <1>2, <1>4, <1>5, <1>8, FreshKept
  <2>2. \A k : k \in {queue'.partial, worker'.job} => Fresh(k)'
    BY <1>1, <1>4, <1>7, <1>9, <2>0, <2>1 DEF PreviewInv
  <2>. QED  BY <2>2 DEF Fresh
<1>11. WorkerInv'
  <2>1. NoJob.kind = "none"
    BY NumbersAre
  <2>. QED  BY <1>1, <1>3, <1>4, <1>5, <1>7, <2>1 DEF WorkerInv
<1>12. StreamInv' /\ (Uttered' => Uttered)
  BY <1>1, <1>4, <1>5, <1>6 DEF StreamInv, Busy, Uttered
<1>13. Quieter
  BY <1>1, <1>4 DEF Quieter, OrderInv
<1>14. OrderInv' /\ PreviewInv'
  <2>1. cap'.phrase >= cap.phrase
    BY <1>1, <1>6
  <2>. QED  BY <1>1, <1>4, <1>5, <1>7, <1>8, <1>10, <1>12, <1>13, <2>1, OrderStays DEF OrderInv
<1>. QED  BY <1>1, <1>4, <1>5, <1>6, <1>7, <1>11, <1>12, <1>14 DEF PhraseInv

-----------------------------------------------------------------------------
(* The recognition thread *)

\* What the thread leaves alone.
WorkStep ==
  /\ UNCHANGED <<mainpc, cap>>
  /\ svc'.session = svc.session /\ svc'.generation = svc.generation /\ svc'.floor = svc.floor
  /\ svc'.pending = svc.pending /\ svc'.active = svc.active /\ svc'.capture = svc.capture /\ svc'.state = svc.state
  /\ IsHistory(hist') /\ hist'.delivered = hist.delivered /\ hist'.accepted = hist.accepted
  /\ hist'.ended = hist.ended /\ hist'.refused = hist.refused

\* Every step of the thread.
LEMMA WorkIs == ASSUME DevicesInv, PhraseInv, Worker PROVE WorkStep
<1>1. IsService(svc) /\ IsHistory(hist)
  BY NumbersAre DEF PhraseInv
<1>2. UNCHANGED <<mainpc, cap>>
  BY DEF Worker, WorkerGet, WorkerRegister, WorkerPrepare, WorkerVad, WorkerPublish, WorkerRun, WorkUnchanged
<1>3. hist' = hist \/ hist' = Failed(hist)
  BY DEF Worker, WorkerGet, WorkerRegister, WorkerPrepare, WorkerVad, WorkerPublish, WorkerRun, WorkUnchanged, Transcribe
<1>4. svc' = svc \/ \E x : svc' = [svc EXCEPT !.prepared = x]
  BY DEF Worker, WorkerGet, WorkerRegister, WorkerPrepare, WorkerVad, WorkerPublish, WorkerRun, WorkUnchanged
<1>5. /\ svc'.session = svc.session /\ svc'.generation = svc.generation /\ svc'.floor = svc.floor
      /\ svc'.pending = svc.pending /\ svc'.active = svc.active /\ svc'.capture = svc.capture /\ svc'.state = svc.state
  BY <1>1, <1>4 DEF IsService, Attributes
<1>6. IsHistory(hist') /\ hist'.delivered = hist.delivered /\ hist'.accepted = hist.accepted
      /\ hist'.ended = hist.ended /\ hist'.refused = hist.refused
  BY <1>1, <1>3 DEF IsHistory, Failed
<1>. QED  BY <1>2, <1>5, <1>6 DEF WorkStep

\* It follows for the streaming thread and for the previews.
LEMMA WorkLeaves ==
  ASSUME PhraseInv, WorkStep
  PROVE  /\ StreamInv' /\ (Uttered' <=> Uttered)
         /\ \A j : Fresh(j) <=> Fresh(j)'
<1>1. (Uttered' <=> Uttered) /\ (Busy' <=> Busy)
  BY DEF WorkStep, Uttered, Busy
<1>2. StreamInv'
  BY <1>1 DEF WorkStep, PhraseInv, StreamInv
<1>3. \A j : Fresh(j) <=> Fresh(j)'
  BY DEF WorkStep, Fresh
<1>. QED  BY <1>1, <1>2, <1>3

\* A step that takes no phrase and delivers none.
LEMMA WorkKeeps ==
  ASSUME DevicesInv, DevicesInv', PhraseInv, WorkStep, WorkerInv',
         \A j \in Range(queue'.finals) : Final(j, svc.session) => j \in Range(queue.finals),
         FinalsRise(queue'.finals, svc.session),
         Final(worker'.job, svc.session) => worker'.job = worker.job,
         queue'.partial = queue.partial \/ queue'.partial = NoJob,
         worker'.job \in {worker.job, queue.partial} \/ worker'.job.kind # "partial",
         Quieter
  PROVE  PhraseInv'
<1>1. OrderInv /\ PreviewInv
  BY DEF PhraseInv
<1>2. StreamInv' /\ (Uttered' <=> Uttered) /\ \A j : Fresh(j) <=> Fresh(j)'
  BY WorkLeaves
<1>3. Fresh(queue.partial)' /\ Fresh(worker.job)'
  <2>1. \A j : j \in {queue'.partial, worker'.job} => Fresh(j)'
    <3>1. NoJob.kind = "none"
      BY NumbersAre
    <3>2. \A j : j.kind # "partial" => Fresh(j)
      BY DEF Fresh
    <3>. QED  BY <1>1, <1>2, <3>1, <3>2 DEF PreviewInv
  <2>. QED  BY <2>1 DEF Fresh
<1>4. svc'.generation >= svc.generation /\ svc'.floor <= svc'.generation /\ cap'.phrase >= cap.phrase
  BY <1>1, NumbersAre DEF WorkStep, PreviewInv
<1>5. OrderInv' /\ PreviewInv'
  BY <1>2, <1>3, <1>4, OrderStays DEF WorkStep
<1>. QED  BY <1>2, <1>5 DEF PhraseInv, WorkStep

\* get, as one of four steps.
LEMMA GetIs ==
  ASSUME DevicesInv, PhraseInv, WorkerGet
  PROVE  /\ idle' = idle /\ worker.pc = "get" /\ worker.job.kind = "none" /\ worker'.cancel = "none"
         /\ \/ /\ queue' = queue /\ worker'.pc = "exited" /\ worker'.job = worker.job
            \/ /\ queue.finals # <<>> /\ queue'.finals = Tail(queue.finals) /\ queue'.partial = queue.partial
               /\ worker' = worker /\ Head(queue.finals).session # svc.session
            \/ /\ queue.finals # <<>> /\ queue'.finals = Tail(queue.finals) /\ queue'.partial = queue.partial
               /\ worker'.pc = "register" /\ worker'.job = Head(queue.finals)
            \/ /\ queue'.finals = queue.finals /\ queue'.partial = NoJob /\ queue.partial.kind = "partial"
               /\ worker' = worker \/ (worker'.pc = "register" /\ worker'.job = queue.partial)
<1>1. /\ queue \in Queues /\ worker \in Workers /\ queue.finals \in Seq(Jobs) /\ WorkerInv /\ First(queue.finals)
  BY NumbersAre DEF PhraseInv
<1>2. idle' = idle /\ worker.pc = "get" /\ worker.job.kind = "none" /\ worker.cancel = "none"
  BY <1>1 DEF WorkerGet, WorkerInv
<1>3. CASE queue.quit
  BY <1>1, <1>2, <1>3 DEF WorkerGet, Workers
<1>4. CASE /\ queue.finals # <<>> /\ queue' = [queue EXCEPT !.finals = Tail(@)]
           /\ worker' = (IF Obsolete(Head(queue.finals)) THEN worker
                         ELSE [worker EXCEPT !.pc = "register", !.job = Head(queue.finals)])
  <2>1. queue'.finals = Tail(queue.finals) /\ queue'.partial = queue.partial
    BY <1>1, <1>4 DEF Queues
  <2>2. CASE Obsolete(Head(queue.finals))
    <3>1. Head(queue.finals).kind # "partial"
      BY <1>1, <1>4, JobsHeld DEF WorkerInv
    <3>. QED  BY <1>2, <1>4, <2>1, <2>2, <3>1 DEF Obsolete
  <2>3. CASE ~Obsolete(Head(queue.finals))
    <3>1. worker' = [worker EXCEPT !.pc = "register", !.job = Head(queue.finals)]
      BY <1>4, <2>3
    <3>2. worker'.pc = "register" /\ worker'.job = Head(queue.finals) /\ worker'.cancel = worker.cancel
      BY <1>1, <3>1 DEF Workers
    <3>. QED  BY <1>2, <1>4, <2>1, <3>2
  <2>. QED  BY <2>2, <2>3
<1>5. CASE /\ queue.partial # NoJob /\ queue' = NoPreview(queue)
           /\ worker' = (IF Obsolete(queue.partial) THEN worker
                         ELSE [worker EXCEPT !.pc = "register", !.job = queue.partial])
  <2>1. queue'.finals = queue.finals /\ queue'.partial = NoJob /\ queue.partial.kind = "partial"
    BY <1>1, <1>5, QueueIs, QueueEnds DEF WorkerInv
  <2>2. worker' = worker \/ (worker'.pc = "register" /\ worker'.job = queue.partial /\ worker'.cancel = worker.cancel)
    BY <1>1, <1>5 DEF Workers
  <2>. QED  BY <1>2, <2>1, <2>2
<1>. QED  BY <1>3, <1>4, <1>5 DEF WorkerGet

\* get takes the phrases in their order.
LEMMA GetKeeps == ASSUME DevicesInv, DevicesInv', PhraseInv, WorkerGet PROVE PhraseInv'
<1>1. /\ IsHistory(hist) /\ WorkerInv /\ StreamInv /\ OrderInv /\ PreviewInv /\ hist.accepted \in Nat
      /\ queue.finals \in Seq(Jobs) /\ svc.session \in Nat /\ NoJob.kind = "none" /\ idle \in Seq(Callbacks)
      /\ cap.phrase \in Nat
  BY NumbersAre DEF PhraseInv, IsHistory
<1>2. WorkStep
  BY WorkIs DEF Worker
<1>3. /\ idle' = idle /\ worker.pc = "get" /\ worker.job.kind = "none" /\ worker'.cancel = "none"
  BY GetIs
<1>4. Quieter
  BY <1>1, <1>3 DEF Quieter, OrderInv
<1>5. queue.finals # <<>> =>
        /\ Range(Tail(queue.finals)) \subseteq Range(queue.finals) /\ Head(queue.finals) \in Range(queue.finals)
        /\ FinalsRise(Tail(queue.finals), svc.session) /\ Head(queue.finals) \in Jobs
  BY <1>1, JobsHeld, FinalsOf DEF OrderInv
<1>6. CASE queue' = queue /\ worker'.pc = "exited" /\ worker'.job = worker.job
  <2>1. WorkerInv'
    BY <1>1, <1>2, <1>3, <1>6 DEF WorkerInv, WorkStep
  <2>. QED  BY <1>1, <1>2, <1>4, <1>6, <2>1, WorkKeeps DEF OrderInv
<1>7. CASE /\ queue.finals # <<>> /\ queue'.finals = Tail(queue.finals) /\ queue'.partial = queue.partial
           /\ worker' = worker
  <2>1. WorkerInv'
    BY <1>1, <1>2, <1>3, <1>5, <1>7 DEF WorkerInv, WorkStep
  <2>. QED  BY <1>2, <1>4, <1>5, <1>7, <2>1, WorkKeeps
<1>8. CASE /\ queue'.finals = queue.finals /\ queue'.partial = NoJob /\ queue.partial.kind = "partial"
           /\ worker' = worker \/ (worker'.pc = "register" /\ worker'.job = queue.partial)
  <2>1. WorkerInv' /\ (Final(worker'.job, svc.session) => worker'.job = worker.job)
    BY <1>1, <1>2, <1>3, <1>8 DEF WorkerInv, WorkStep, Final
  <2>. QED  BY <1>1, <1>2, <1>4, <1>8, <2>1, WorkKeeps DEF OrderInv
<1>9. CASE /\ queue.finals # <<>> /\ queue'.finals = Tail(queue.finals) /\ queue'.partial = queue.partial
           /\ worker'.pc = "register" /\ worker'.job = Head(queue.finals)
  <2>1. worker'.job.kind \in {"prepare", "final"}
    BY <1>1, <1>5, <1>9 DEF WorkerInv
  <2>2. WorkerInv'
    BY <1>1, <1>2, <1>3, <1>5, <1>9, <2>1 DEF WorkerInv, WorkStep
  <2>3. CASE ~Final(worker'.job, svc.session)
    BY <1>2, <1>4, <1>5, <1>9, <2>1, <2>2, <2>3, WorkKeeps
  <2>4. CASE Final(worker'.job, svc.session)
    <3>1. PICK told \in Nat, heard \in Nat, taken \in Nat : Progress(told, heard, taken)
      BY <1>1 DEF OrderInv
    <3>2. PICK p \in Nat : p = worker'.job.phrase
      BY <1>5, <1>9 DEF Jobs
    <3>3. FinalsRise(queue.finals, svc.session) /\ FinalsIn(queue.finals, svc.session, taken, hist.accepted)
      BY <1>1, <3>1 DEF OrderInv, Progress
    <3>4. taken < p /\ p <= hist.accepted /\ FinalsIn(queue'.finals, svc.session, p, hist.accepted)
      BY <1>1, <1>9, <2>4, <3>2, <3>3, FinalsOf
    <3>5. StreamInv' /\ (Uttered' <=> Uttered) /\ \A j : Fresh(j) <=> Fresh(j)'
      BY <1>2, WorkLeaves
    <3>6. p <= cap.phrase /\ (Uttered => p < cap.phrase)
      <4>1. hist.accepted <= cap.phrase
        BY <1>1 DEF OrderInv
      <4>2. Uttered => cap.phrase > hist.accepted
        BY <1>1 DEF Uttered, StreamInv
      <4>. QED  BY <1>1, <3>4, <4>1, <4>2
    <3>7. hist.delivered <= told /\ hist.ended <= told /\ told <= heard /\ heard <= p /\ heard < p
      BY <3>1, <3>4 DEF Progress
    <3>8. TextsIn(idle', svc.session, told, heard) /\ TextsIn(idle', svc.session, told, hist.accepted)
      BY <1>3, <3>1 DEF Progress
    <3>9. Progress(told, heard, p)'
      BY <1>2, <3>2, <3>4, <3>5, <3>6, <3>7, <3>8 DEF Progress, WorkStep
    <3>10. OrderInv'
      <4>1. /\ hist.delivered <= hist.accepted /\ hist.accepted <= cap.phrase /\ hist.ended <= cap.phrase
            /\ TextsRise(idle, svc.session)
        BY <1>1 DEF OrderInv
      <4>2. FinalsRise(queue'.finals, svc.session)
        BY <1>5, <1>9
      <4>. QED  BY <1>2, <1>3, <3>1, <3>9, <4>1, <4>2 DEF OrderInv, WorkStep
    <3>11. PreviewInv'
      <4>1. Fresh(queue.partial)' /\ Fresh(worker.job)'
        <5>1. \A j : j \in {queue'.partial, worker'.job} => Fresh(j)'
          <6>1. \A j : j.kind # "partial" => Fresh(j)
            BY DEF Fresh
          <6>. QED  BY <1>1, <1>9, <2>1, <3>5, <6>1 DEF PreviewInv
        <5>. QED  BY <5>1 DEF Fresh
      <4>. QED  BY <1>1, <1>2, <1>3, <3>5, <4>1 DEF PreviewInv, WorkStep
    <3>. QED  BY <1>2, <2>2, <3>5, <3>10, <3>11 DEF PhraseInv, WorkStep
  <2>. QED  BY <2>3, <2>4
<1>. QED  BY <1>6, <1>7, <1>8, <1>9, GetIs

\* The steps of the thread that have no phrase in hand when they end.
LEMMA PassIs ==
  ASSUME DevicesInv, PhraseInv, WorkerRegister \/ WorkerPrepare \/ WorkerVad \/ WorkerPublish
  PROVE  /\ queue' = queue /\ worker.pc \in {"register", "prepare", "vad", "publish"}
         /\ \/ worker' = Idle(worker)
            \/ /\ worker'.job = worker.job /\ worker'.cancel \in {worker.cancel, "clear"}
               /\ worker'.pc \in {"prepare", "vad", "publish", "run"}
               /\ worker'.pc = "run" => worker.job.kind # "prepare"
         /\ worker.pc = "register" /\ worker' = Idle(worker) => ~Final(worker.job, svc.session)
         /\ worker.pc # "register" => worker.job.kind = "prepare"
<1>1. worker \in Workers
  BY NumbersAre
<1>2. CASE WorkerRegister
  <2>1. /\ queue' = queue /\ worker.pc = "register"
        /\ \/ worker' = Idle(worker) /\ ~Final(worker.job, svc.session)
           \/ \E pc \in {"prepare", "run"} : /\ worker' = [worker EXCEPT !.cancel = "clear", !.pc = pc]
                                             /\ pc = "run" => worker.job.kind # "prepare"
    BY <1>2 DEF WorkerRegister, Final
  <2>2. ASSUME NEW pc \in {"prepare", "run"}, worker' = [worker EXCEPT !.cancel = "clear", !.pc = pc]
        PROVE  worker'.job = worker.job /\ worker'.cancel = "clear" /\ worker'.pc = pc /\ worker' # Idle(worker)
    <3>1. worker'.job = worker.job /\ worker'.cancel = "clear" /\ worker'.pc = pc
      BY <1>1, <2>2 DEF Workers
    <3>2. Idle(worker).pc = "get"
      BY <1>1, WorkerIs
    <3>. QED  BY <3>1, <3>2
  <2>. QED  BY <2>1, <2>2
<1>3. CASE WorkerPrepare \/ WorkerVad \/ WorkerPublish
  <2>1. /\ queue' = queue /\ worker.pc \in {"prepare", "vad", "publish"}
        /\ worker' = Idle(worker) \/ \E pc \in {"vad", "publish"} : worker' = [worker EXCEPT !.pc = pc]
    BY <1>3 DEF WorkerPrepare, WorkerVad, WorkerPublish
  <2>2. worker.job.kind = "prepare"
    BY <2>1 DEF DevicesInv, TokenInv
  <2>3. ASSUME NEW pc \in {"vad", "publish"}, worker' = [worker EXCEPT !.pc = pc]
        PROVE  worker'.job = worker.job /\ worker'.cancel = worker.cancel /\ worker'.pc = pc
    BY <1>1, <2>3 DEF Workers
  <2>. QED  BY <2>1, <2>2, <2>3
<1>. QED  BY <1>2, <1>3

\* What they tell the main loop: never a text.
LEMMA PassTells ==
  ASSUME DevicesInv, PhraseInv, WorkerRegister \/ WorkerPrepare \/ WorkerVad \/ WorkerPublish
  PROVE  \/ idle' = idle
         \/ \E c \in Callbacks : /\ idle' = Append(idle, c)
                                 /\ \/ c.fn = "prepared"
                                    \/ c.fn = "failed" /\ c.session = worker.job.session /\ worker.pc = "vad"
                                       /\ worker' = Idle(worker)
         \/ WorkerPrepare
<1>1. worker.job.session \in Nat
  BY NumbersAre
<1>2. CASE WorkerRegister
  BY <1>2 DEF WorkerRegister
<1>3. CASE WorkerVad
  <2>1. idle' = idle \/ (idle' = Append(idle, Callback("failed", worker.job.session, 0)) /\ worker.pc = "vad"
                         /\ worker' = Idle(worker))
    BY <1>3 DEF WorkerVad, FailedCallback
  <2>2. PICK c \in Callbacks : /\ c = Callback("failed", worker.job.session, 0) /\ c.fn = "failed"
                               /\ c.session = worker.job.session
    BY <1>1, TellingIs
  <2>. QED  BY <2>1, <2>2
<1>4. CASE WorkerPublish
  <2>1. idle' = idle \/ idle' = Append(idle, Callback("prepared", worker.job.session, 0))
    BY <1>4 DEF WorkerPublish
  <2>2. "prepared" \in Functions
    BY DEF Functions
  <2>3. PICK c \in Callbacks : c = Callback("prepared", worker.job.session, 0) /\ c.fn = "prepared"
    BY <1>1, <2>2, CallbackIs, ArgumentsAre
  <2>. QED  BY <2>1, <2>3
<1>. QED  BY <1>2, <1>3, <1>4

\* They keep the order.
LEMMA PassKeeps ==
  ASSUME DevicesInv, DevicesInv', PhraseInv, WorkerRegister \/ WorkerPrepare \/ WorkerVad \/ WorkerPublish
  PROVE  PhraseInv'
<1>1. /\ WorkerInv /\ OrderInv /\ NoJob.kind = "none" /\ worker \in Workers
  BY NumbersAre DEF PhraseInv
<1>2. WorkStep
  BY WorkIs DEF Worker
<1>3. Quieter
  <2>1. CASE WorkerPrepare
    <3>1. PICK told \in Seq(Callbacks) :
            idle' = idle \o told /\ \A i \in DOMAIN told : told[i].fn \notin {"finished", "partial"}
      BY <2>1, PreparationTells
    <3>. QED  BY <1>1, <3>1, QuieterIf DEF OrderInv
  <2>2. CASE ~WorkerPrepare
    <3>1. \/ idle' = idle
          \/ \E c \in Callbacks : idle' = Append(idle, c) /\ c.fn \notin {"finished", "partial"}
      BY <2>2, PassTells
    <3>. QED  BY <1>1, <3>1, QuieterIf DEF OrderInv
  <2>. QED  BY <2>1, <2>2
<1>4. Idle(worker).pc = "get" /\ Idle(worker).job = NoJob /\ Idle(worker).cancel = "none"
  BY <1>1, WorkerIs DEF Idle, Workers
<1>5. WorkerInv' /\ (Final(worker'.job, svc.session) => worker'.job = worker.job)
  <2>1. CASE worker' = Idle(worker)
    BY <1>1, <1>2, <1>4, <2>1, PassIs DEF WorkerInv, WorkStep, Final
  <2>2. CASE /\ worker'.job = worker.job /\ worker'.cancel \in {worker.cancel, "clear"}
             /\ worker'.pc \in {"prepare", "vad", "publish", "run"}
             /\ worker'.pc = "run" => worker.job.kind # "prepare"
    <3>1. worker'.pc = "run" => worker.job.kind \in {"final", "partial"}
      <4>1. worker'.pc = "run" => worker.pc = "register"
        BY <2>2, PassIs
      <4>2. worker.job.kind \in {"none", "prepare", "final", "partial"}
        BY <1>1 DEF Workers, Jobs
      <4>. QED  BY <1>1, <2>2, <4>1, <4>2 DEF WorkerInv
    <3>. QED  BY <1>1, <1>2, <2>2, <3>1, PassIs DEF WorkerInv, WorkStep, Final
  <2>. QED  BY <2>1, <2>2, PassIs
<1>6. worker'.job \in {worker.job, queue.partial} \/ worker'.job.kind # "partial"
  BY <1>1, <1>4, PassIs
<1>7. queue' = queue
  BY PassIs
<1>. QED  BY <1>1, <1>2, <1>3, <1>5, <1>6, <1>7, WorkKeeps DEF OrderInv

\* A transcription ends: a phrase in a text or a failure, unless it was cancelled.
LEMMA RunIs ==
  ASSUME DevicesInv, PhraseInv, WorkerRun
  PROVE  /\ worker.pc = "run" /\ queue' = queue /\ worker' = Idle(worker) /\ worker.job.kind \in {"final", "partial"}
         /\ \/ idle' = idle /\ (worker.job.kind = "final" => worker.cancel = "set")
            \/ \E c \in Callbacks :
                 /\ idle' = Append(idle, c) /\ c.session = worker.job.session
                 /\ \/ c.fn = "failed" /\ worker.job.kind = "final"
                    \/ c.fn = "partial" /\ worker.job.kind = "partial" /\ c.arg = worker.job
                    \/ c.fn = "finished" /\ worker.job.kind = "final" /\ c.arg.phrase = worker.job.phrase
<1>1. worker.job \in Jobs /\ worker.job.session \in Nat /\ worker.job.phrase \in Nat /\ WorkerInv
  BY NumbersAre DEF PhraseInv
<1>2. worker.pc = "run" /\ queue' = queue /\ worker' = Idle(worker) /\ worker.job.kind \in {"final", "partial"}
  BY <1>1 DEF WorkerRun, WorkerInv
<1>3. PICK r \in {"text", "cancelled", "error", "empty", "stop"} :
        idle' = Result(worker.job, r) /\ (r = "cancelled" => worker.cancel = "set")
  BY DEF WorkerRun, Transcribe
<1>4. CASE r = "error" /\ worker.job.kind = "final"
  <2>1. idle' = Append(idle, Callback("failed", worker.job.session, 0))
    BY <1>3, <1>4 DEF Result, FailedCallback
  <2>2. PICK c \in Callbacks : /\ c = Callback("failed", worker.job.session, 0) /\ c.fn = "failed"
                               /\ c.session = worker.job.session
    BY <1>1, TellingIs
  <2>. QED  BY <1>2, <1>4, <2>1, <2>2
<1>5. CASE r = "cancelled" \/ (r = "error" /\ worker.job.kind # "final")
  <2>1. idle' = idle
    BY <1>3, <1>5 DEF Result
  <2>. QED  BY <1>2, <1>3, <1>5, <2>1
<1>6. CASE r \notin {"error", "cancelled"} /\ worker.job.kind = "partial"
  <2>1. idle' = Append(idle, Callback("partial", worker.job.session, worker.job))
    BY <1>3, <1>6 DEF Result
  <2>2. worker.job \in Arguments /\ "partial" \in Functions
    BY <1>1, ArgumentsAre DEF Functions
  <2>3. PICK c \in Callbacks : /\ c = Callback("partial", worker.job.session, worker.job) /\ c.fn = "partial"
                               /\ c.session = worker.job.session /\ c.arg = worker.job
    BY <1>1, <2>2, CallbackIs
  <2>. QED  BY <1>2, <1>6, <2>1, <2>3
<1>7. CASE r \notin {"error", "cancelled"} /\ worker.job.kind = "final"
  <2>1. idle' = Append(idle, Callback("finished", worker.job.session, [phrase |-> worker.job.phrase, text |-> r]))
    BY <1>3, <1>7 DEF Result
  <2>2. [phrase |-> worker.job.phrase, text |-> r] \in Texts
    BY <1>1, <1>3, <1>7 DEF Texts
  <2>3. PICK a \in Arguments : a = [phrase |-> worker.job.phrase, text |-> r]
    BY <2>2, ArgumentsAre, Zenon
  <2>4. a.phrase = worker.job.phrase
    BY <2>3
  <2>5. "finished" \in Functions
    BY DEF Functions
  <2>6. PICK c \in Callbacks : /\ c = Callback("finished", worker.job.session, a) /\ c.fn = "finished"
                               /\ c.session = worker.job.session /\ c.arg = a
    BY <1>1, <2>5, CallbackIs
  <2>. QED  BY <1>2, <1>7, <2>1, <2>3, <2>4, <2>6
<1>. QED  BY <1>2, <1>4, <1>5, <1>6, <1>7

\* A text joins the callbacks behind the texts of earlier phrases.
LEMMA RunKeeps == ASSUME DevicesInv, DevicesInv', SpentInv, PhraseInv, WorkerRun PROVE PhraseInv'
<1>1. /\ IsHistory(hist) /\ WorkerInv /\ StreamInv /\ OrderInv /\ PreviewInv /\ hist.accepted \in Nat
      /\ svc.session \in Nat /\ NoJob.kind = "none" /\ idle \in Seq(Callbacks) /\ worker \in Workers
      /\ worker.job \in Jobs /\ worker.job.phrase \in Nat /\ worker.job.session \in Nat
  BY NumbersAre DEF PhraseInv, IsHistory
<1>2. WorkStep
  BY WorkIs DEF Worker
<1>3. queue' = queue /\ worker' = Idle(worker) /\ worker.job.kind \in {"final", "partial"}
  BY RunIs
<1>4. worker'.pc = "get" /\ worker'.job = NoJob /\ worker'.cancel = "none"
  BY <1>1, <1>3, WorkerIs DEF Idle, Workers
<1>5. WorkerInv' /\ ~Final(worker'.job, svc.session)
  BY <1>1, <1>2, <1>3, <1>4 DEF WorkerInv, WorkStep, Final
<1>6. StreamInv' /\ (Uttered' <=> Uttered) /\ \A j : Fresh(j) <=> Fresh(j)'
  BY <1>2, WorkLeaves
<1>7. ASSUME Quieter PROVE PhraseInv'
  BY <1>1, <1>2, <1>3, <1>4, <1>5, <1>7, WorkKeeps DEF OrderInv
<1>8. CASE idle' = idle
  BY <1>1, <1>7, <1>8, QuieterIf DEF OrderInv
<1>9. ASSUME NEW c \in Callbacks, idle' = Append(idle, c), c.fn = "failed" PROVE PhraseInv'
  <2>1. c.fn \notin {"finished", "partial"}
    BY <1>9
  <2>. QED  BY <1>1, <1>7, <1>9, <2>1, QuieterIf DEF OrderInv
<1>10. ASSUME NEW c \in Callbacks, idle' = Append(idle, c), c.fn = "partial", worker.job.kind = "partial", c.arg = worker.job
       PROVE  PhraseInv'
  <2>0. Range(Append(idle, c)) = Range(idle) \cup {c}
    BY <1>1, CallbacksHeld
  <2>1. Range(idle') = Range(idle) \cup {c}
    BY <1>10, <2>0
  <2>2. Fresh(c.arg)'
    <3>1. Fresh(worker.job)
      BY <1>1 DEF PreviewInv
    <3>2. \A j : j = worker.job => Fresh(j)'
      BY <1>6, <3>1
    <3>. QED  BY <1>10, <3>2
  <2>3. TextsRise(idle', svc.session)
    <3>1. ~Text(c, svc.session) /\ TextsRise(idle, svc.session)
      BY <1>1, <1>10 DEF Text, OrderInv
    <3>. QED  BY <1>1, <1>10, <3>1, TextsOf
  <2>4. \A d \in Range(idle') :
          /\ d.fn = "finished" => d \in Range(idle)
          /\ d.fn = "partial" => d \in Range(idle) \/ (d.arg \in Jobs /\ d.arg.kind = "partial" /\ Fresh(d.arg)')
    BY <1>1, <1>10, <2>1, <2>2
  <2>. QED  BY <1>7, <2>3, <2>4 DEF Quieter
<1>11. ASSUME NEW c \in Callbacks, idle' = Append(idle, c), c.session = worker.job.session, c.fn = "finished",
              worker.job.kind = "final", c.arg.phrase = worker.job.phrase
       PROVE  PhraseInv'
  <2>0. Range(Append(idle, c)) = Range(idle) \cup {c}
    BY <1>1, CallbacksHeld
  <2>1. Range(idle') = Range(idle) \cup {c}
    BY <1>11, <2>0
  <2>2. PICK told \in Nat, heard \in Nat, taken \in Nat : Progress(told, heard, taken)
    BY <1>1 DEF OrderInv
  <2>3. c.session <= svc.session
    BY <1>1, <1>11 DEF SpentInv, Spent
  <2>4. /\ hist.delivered <= told /\ hist.ended <= told /\ told <= heard /\ heard <= taken
        /\ TextsIn(idle, svc.session, told, heard) /\ TextsIn(idle, svc.session, told, hist.accepted)
        /\ Text(c, svc.session) => /\ heard < worker.job.phrase /\ worker.job.phrase <= taken
                                   /\ worker.job.phrase <= hist.accepted
    BY <1>11, <2>2 DEF Progress, Text, Final
  <2>5. TextsIn(idle', svc.session, told, taken) /\ TextsIn(idle', svc.session, told, hist.accepted)
    <3>1. Text(c, svc.session) => /\ c.arg.phrase \in Nat /\ told < c.arg.phrase /\ c.arg.phrase <= taken
                                  /\ c.arg.phrase <= hist.accepted
      BY <1>1, <1>11, <2>4
    <3>2. TextsIn(idle, svc.session, told, taken)
      BY <2>4 DEF TextsIn
    <3>. QED  BY <2>1, <2>4, <3>1, <3>2 DEF TextsIn
  <2>6. TextsRise(idle', svc.session)
    <3>1. TextsRise(idle, svc.session)
      BY <1>1 DEF OrderInv
    <3>2. CASE Text(c, svc.session)
      <4>1. c.arg.phrase \in Nat /\ heard < c.arg.phrase
        BY <1>1, <1>11, <2>4, <3>2
      <4>. QED  BY <1>1, <1>11, <2>4, <3>1, <4>1, TextsRising
    <3>3. CASE ~Text(c, svc.session)
      BY <1>1, <1>11, <3>1, <3>3, TextsOf
    <3>. QED  BY <3>2, <3>3
  <2>7. taken <= cap.phrase /\ (Uttered => taken < cap.phrase) /\ FinalsIn(queue.finals, svc.session, taken, hist.accepted)
    BY <2>2 DEF Progress
  <2>8. Progress(told, taken, taken)'
    BY <1>2, <1>3, <1>5, <1>6, <2>4, <2>5, <2>7 DEF Progress, WorkStep
  <2>9. OrderInv'
    <3>1. /\ hist.delivered <= hist.accepted /\ hist.accepted <= cap.phrase /\ hist.ended <= cap.phrase
          /\ FinalsRise(queue.finals, svc.session)
      BY <1>1 DEF OrderInv
    <3>. QED  BY <1>2, <1>3, <2>2, <2>6, <2>8, <3>1 DEF OrderInv, WorkStep
  <2>10. PreviewInv'
    <3>1. Fresh(queue.partial)' /\ Fresh(worker.job)'
      <4>1. \A j : j \in {queue'.partial, worker'.job} => Fresh(j)'
        <5>1. Fresh(NoJob)
          BY <1>1 DEF Fresh
        <5>. QED  BY <1>1, <1>3, <1>4, <1>6, <5>1 DEF PreviewInv
      <4>. QED  BY <4>1 DEF Fresh
    <3>2. \A d \in Range(idle') :
            /\ d.fn = "partial" => d.arg \in Jobs /\ d.arg.kind = "partial" /\ Fresh(d.arg)'
            /\ d.fn = "finished" => d.session <= svc'.session
      BY <1>1, <1>2, <1>6, <1>11, <2>1, <2>3 DEF PreviewInv, WorkStep
    <3>. QED  BY <1>1, <1>2, <3>1, <3>2 DEF PreviewInv, WorkStep
  <2>. QED  BY <1>2, <1>5, <1>6, <2>9, <2>10 DEF PhraseInv, WorkStep
<1>. QED  BY <1>8, <1>9, <1>10, <1>11, RunIs

-----------------------------------------------------------------------------
(* Counting what is outstanding *)

Outcome(c, s) == c.fn \in {"finished", "failed"} /\ c.session = s
Queued(q, s) == Count(q, {j \in Jobs : Final(j, s)})
Told(q, s) == Count(q, {c \in Callbacks : Outcome(c, s)})
InHand(j, s) == IF Final(j, s) THEN 1 ELSE 0
Total(q, r, j, s) == Queued(q, s) + Told(r, s) + InHand(j, s)

\* The phrases of the queue.
LEMMA QueuedIs ==
  ASSUME NEW q \in Seq(Jobs), NEW s \in Nat
  PROVE  /\ Queued(q, s) \in Nat /\ (Queued(q, s) = 0 <=> ~Phrases(q, s)) /\ Queued(<<>>, s) = 0
         /\ \A j \in Jobs : Queued(Append(q, j), s) = Queued(q, s) + InHand(j, s)
         /\ q # <<>> => Head(q) \in Jobs /\ Queued(q, s) = Queued(Tail(q), s) + InHand(Head(q), s)
<1>. DEFINE M == {j \in Jobs : Final(j, s)}
<1>1. /\ Count(q, M) \in Nat /\ (Count(q, M) = 0 <=> \A i \in DOMAIN q : q[i] \notin M)
  BY CountIs
<1>2. \A i \in DOMAIN q : q[i] \in Jobs
  OBVIOUS
<1>3. Count(<<>>, M) = 0
  <2>1. <<>> \in Seq(Jobs) /\ DOMAIN <<>> = {}
    OBVIOUS
  <2>. HIDE DEF M
  <2>. QED  BY <2>1, CountIs
<1>4. ASSUME NEW j \in Jobs PROVE Count(Append(q, j), M) = Count(q, M) + InHand(j, s)
  <2>1. j \in M <=> Final(j, s)
    OBVIOUS
  <2>. HIDE DEF M
  <2>2. /\ j \in M => Count(Append(q, j), M) = Count(q, M) + 1
        /\ j \notin M => Count(Append(q, j), M) = Count(q, M)
    BY CountAppend
  <2>. QED  BY <1>1, <2>1, <2>2 DEF InHand
<1>5. ASSUME q # <<>> PROVE Head(q) \in Jobs /\ Count(q, M) = Count(Tail(q), M) + InHand(Head(q), s)
  <2>1. Head(q) \in Jobs /\ Tail(q) \in Seq(Jobs)
    BY <1>5
  <2>2. Head(q) \in M <=> Final(Head(q), s)
    BY <2>1
  <2>. HIDE DEF M
  <2>3. /\ Head(q) \in M => Count(Tail(q), M) + 1 = Count(q, M)
        /\ Head(q) \notin M => Count(Tail(q), M) = Count(q, M)
    BY <1>5, CountTail
  <2>4. Count(Tail(q), M) \in Nat
    BY <2>1, CountIs
  <2>. QED  BY <2>1, <2>2, <2>3, <2>4 DEF InHand
<1>. QED  BY <1>1, <1>2, <1>3, <1>4, <1>5 DEF Queued, Phrases, Final

\* The results on their way to the main loop.
LEMMA ToldIs ==
  ASSUME NEW q \in Seq(Callbacks), NEW s \in Nat
  PROVE  /\ Told(q, s) \in Nat /\ (Told(q, s) = 0 <=> \A i \in DOMAIN q : ~Outcome(q[i], s))
         /\ \A c \in Callbacks : Told(Append(q, c), s) = Told(q, s) + (IF Outcome(c, s) THEN 1 ELSE 0)
         /\ q # <<>> => /\ Head(q) \in Callbacks /\ Told(Tail(q), s) \in Nat
                        /\ Told(q, s) = Told(Tail(q), s) + (IF Outcome(Head(q), s) THEN 1 ELSE 0)
         /\ \A r \in Seq(Callbacks) : (\A i \in DOMAIN r : ~Outcome(r[i], s)) => Told(q \o r, s) = Told(q, s)
<1>. DEFINE M == {c \in Callbacks : Outcome(c, s)}
<1>1. /\ Count(q, M) \in Nat /\ (Count(q, M) = 0 <=> \A i \in DOMAIN q : q[i] \notin M)
  BY CountIs
<1>2. \A i \in DOMAIN q : q[i] \in Callbacks
  OBVIOUS
<1>3. ASSUME NEW c \in Callbacks PROVE Count(Append(q, c), M) = Count(q, M) + (IF Outcome(c, s) THEN 1 ELSE 0)
  <2>1. c \in M <=> Outcome(c, s)
    OBVIOUS
  <2>. HIDE DEF M
  <2>2. /\ c \in M => Count(Append(q, c), M) = Count(q, M) + 1
        /\ c \notin M => Count(Append(q, c), M) = Count(q, M)
    BY CountAppend
  <2>. QED  BY <1>1, <2>1, <2>2
<1>4. ASSUME q # <<>>
      PROVE  /\ Head(q) \in Callbacks /\ Count(Tail(q), M) \in Nat
             /\ Count(q, M) = Count(Tail(q), M) + (IF Outcome(Head(q), s) THEN 1 ELSE 0)
  <2>1. Head(q) \in Callbacks /\ Tail(q) \in Seq(Callbacks)
    BY <1>4
  <2>2. Head(q) \in M <=> Outcome(Head(q), s)
    BY <2>1
  <2>. HIDE DEF M
  <2>3. /\ Head(q) \in M => Count(Tail(q), M) + 1 = Count(q, M)
        /\ Head(q) \notin M => Count(Tail(q), M) = Count(q, M)
    BY <1>4, CountTail
  <2>4. Count(Tail(q), M) \in Nat
    BY <2>1, CountIs
  <2>. QED  BY <2>1, <2>2, <2>3, <2>4
<1>5. ASSUME NEW r \in Seq(Callbacks), \A i \in DOMAIN r : ~Outcome(r[i], s) PROVE Count(q \o r, M) = Count(q, M)
  <2>1. \A i \in DOMAIN r : r[i] \notin M
    BY <1>5
  <2>. HIDE DEF M
  <2>. QED  BY <2>1, CountMore
<1>. QED  BY <1>1, <1>2, <1>3, <1>4, <1>5 DEF Told

\* The places that Outstanding counts.
LEMMA PlacesAre ==
  ASSUME NEW q \in Seq(Jobs), NEW r \in Seq(Callbacks), NEW s
  PROVE  /\ {i \in DOMAIN q : q[i].kind = "final" /\ q[i].session = s} = Places(q, {j \in Jobs : Final(j, s)})
         /\ {i \in DOMAIN r : r[i].fn \in {"finished", "failed"} /\ r[i].session = s}
              = Places(r, {c \in Callbacks : Outcome(c, s)})
<1>1. (\A i \in DOMAIN q : q[i] \in Jobs) /\ (\A i \in DOMAIN r : r[i] \in Callbacks)
  OBVIOUS
<1>. QED  BY <1>1 DEF Places, Final, Outcome

\* What Outstanding counts, of given queues, job and session.
OutstandingOf(q, r, j, s) ==
  Cardinality({i \in DOMAIN q : q[i].kind = "final" /\ q[i].session = s})
    + Cardinality({i \in DOMAIN r : r[i].fn \in {"finished", "failed"} /\ r[i].session = s})
    + (IF j.kind = "final" /\ j.session = s THEN 1 ELSE 0)

\* It is the sum of the three counts.
LEMMA OutstandingTotal ==
  ASSUME NEW q \in Seq(Jobs), NEW r \in Seq(Callbacks), NEW j, NEW s
  PROVE  OutstandingOf(q, r, j, s) = Total(q, r, j, s)
<1>1. Cardinality({i \in DOMAIN q : q[i].kind = "final" /\ q[i].session = s}) = Queued(q, s)
  BY PlacesAre, Zenon DEF Queued, Count
<1>2. Cardinality({i \in DOMAIN r : r[i].fn \in {"finished", "failed"} /\ r[i].session = s}) = Told(r, s)
  BY PlacesAre, Zenon DEF Told, Count
<1>3. (IF j.kind = "final" /\ j.session = s THEN 1 ELSE 0) = InHand(j, s)
  BY Zenon DEF InHand, Final
<1>. QED  BY <1>1, <1>2, <1>3, Zenon DEF OutstandingOf, Total

\* Outstanding, now and after a step.
LEMMA OutstandingIs ==
  /\ DevicesInv => Outstanding = Total(queue.finals, idle, worker.job, svc.session)
  /\ DevicesInv' => Outstanding' = Total(queue'.finals, idle', worker'.job, svc'.session)
<1>1. ASSUME DevicesInv PROVE Outstanding = Total(queue.finals, idle, worker.job, svc.session)
  <2>1. queue.finals \in Seq(Jobs) /\ idle \in Seq(Callbacks)
    BY <1>1, NumbersAre
  <2>2. Outstanding = OutstandingOf(queue.finals, idle, worker.job, svc.session)
    BY Zenon DEF Outstanding, OutstandingOf
  <2>. QED  BY <2>1, <2>2, OutstandingTotal, Zenon
<1>2. ASSUME DevicesInv' PROVE Outstanding' = Total(queue'.finals, idle', worker'.job, svc'.session)
  <2>1. queue'.finals \in Seq(Jobs) /\ idle' \in Seq(Callbacks)
    BY <1>2, NumbersNext
  <2>2. Outstanding' = OutstandingOf(queue'.finals, idle', worker'.job, svc'.session)
    BY Zenon DEF Outstanding, OutstandingOf
  <2>. QED  BY <2>1, <2>2, OutstandingTotal, Zenon
<1>. QED  BY <1>1, <1>2

\* Nothing is outstanding exactly when nothing carries the number of the session.
LEMMA TotalIs ==
  ASSUME NEW q \in Seq(Jobs), NEW r \in Seq(Callbacks), NEW j \in Jobs, NEW s \in Nat
  PROVE  /\ Total(q, r, j, s) \in Nat
         /\ Total(q, r, j, s) = 0 <=> /\ ~Phrases(q, s) /\ ~Final(j, s)
                                      /\ \A i \in DOMAIN r : ~Outcome(r[i], s)
<1>1. /\ Queued(q, s) \in Nat /\ (Queued(q, s) = 0 <=> ~Phrases(q, s))
      /\ Told(r, s) \in Nat /\ (Told(r, s) = 0 <=> \A i \in DOMAIN r : ~Outcome(r[i], s))
  BY QueuedIs, ToldIs
<1>2. InHand(j, s) \in Nat /\ (InHand(j, s) = 0 <=> ~Final(j, s))
  BY DEF InHand
<1>. QED  BY <1>1, <1>2 DEF Total

-----------------------------------------------------------------------------
(* A start that is refused *)

RefusedStart ==
  \/ Start /\ ~svc.testing /\ StartBody(svc, FALSE)
  \/ StartAfterTest /\ StartBody([svc EXCEPT !.capture = 0], FALSE)

\* It clears the queue and keeps the count of what was in it.
LEMMA RefuseIs ==
  ASSUME DevicesInv, PhraseInv, RefusedStart
  PROVE  /\ svc'.session = svc.session /\ svc'.generation = svc.generation /\ svc'.floor = svc.floor
         /\ svc'.pending = svc.pending /\ svc'.active = svc.active /\ ~svc.active /\ svc'.state = "error"
         /\ worker' = CancelRunning(worker) /\ queue'.finals = <<>> /\ queue'.partial = NoJob /\ idle' = idle
         /\ IsHistory(hist') /\ hist'.delivered = hist.delivered /\ hist'.accepted = hist.accepted
         /\ hist'.ended = hist.ended /\ hist'.refused = (svc.pending # 0 \/ hist.refused)
         /\ ~Busy' /\ BeingPut = 0 /\ cap'.phrase = cap.phrase /\ cap'.session = cap.session
         /\ mainpc' = "ready" /\ mainpc \in {"ready", "start"}
<1>1. /\ IsService(svc) /\ queue \in Queues /\ First(queue.finals) /\ IsHistory(hist) /\ cap \in Captures
      /\ svc.capture \in Nat /\ svc.pending \in Int
  BY NumbersAre DEF PhraseInv
<1>2. PICK s : /\ s = svc \/ s = [svc EXCEPT !.capture = 0]
               /\ StartBody(s, FALSE)
  BY DEF RefusedStart
<1>3. PICK b \in BOOLEAN : b = (svc.pending # 0 \/ hist.refused)
  BY <1>1
<1>4. /\ worker' = CancelRunning(worker) /\ svc' = [s EXCEPT !.message = FALSE, !.prepared = 0, !.state = "error"]
      /\ queue' = Cleared(queue) /\ hist' = [Failed(hist) EXCEPT !.refused = b]
  <2>1. Failed(hist).refused = hist.refused
    BY <1>1 DEF Failed, IsHistory
  <2>. QED  BY <1>2, <1>3, <2>1 DEF StartBody
<1>5. /\ DOMAIN s = Attributes /\ s.session = svc.session /\ s.generation = svc.generation /\ s.floor = svc.floor
      /\ s.pending = svc.pending /\ s.active = svc.active
  BY <1>1, <1>2 DEF IsService, Attributes
<1>6. /\ svc'.session = svc.session /\ svc'.generation = svc.generation /\ svc'.floor = svc.floor
      /\ svc'.pending = svc.pending /\ svc'.active = svc.active /\ svc'.state = "error"
  BY <1>4, <1>5 DEF Attributes
<1>7. queue'.finals = <<>> /\ queue'.partial = NoJob
  BY <1>1, <1>4, QueueEnds
<1>8. /\ IsHistory(hist') /\ hist'.delivered = hist.delivered /\ hist'.accepted = hist.accepted
      /\ hist'.ended = hist.ended /\ hist'.refused = b
  BY <1>1, <1>4 DEF IsHistory, Failed
<1>9. CASE Start /\ ~svc.testing
  <2>1. mainpc = "ready" /\ ~svc.active /\ UNCHANGED <<mainpc, idle, cap>>
    BY <1>9 DEF Start, Ready
  <2>2. svc.capture = 0
    BY <1>9, <2>1 DEF DevicesInv, CaptureInv
  <2>3. ~Busy' /\ BeingPut = 0
    BY <2>1, <2>2, QuietStream DEF Busy, BeingPut
  <2>. QED  BY <1>3, <1>4, <1>6, <1>7, <1>8, <2>1, <2>3
<1>10. CASE StartAfterTest
  <2>1. mainpc = "start" /\ mainpc' = "ready" /\ idle' = idle /\ cap' = NoCapture
    BY <1>10 DEF StartAfterTest
  <2>2. ~svc.active
    BY <2>1 DEF DevicesInv, CaptureInv
  <2>3. BeingPut = 0
    BY <1>10 DEF StartAfterTest, Joined, BeingPut
  <2>. QED  BY <1>3, <1>4, <1>6, <1>7, <1>8, <2>1, <2>2, <2>3, QuietStream
<1>. QED  BY <1>9, <1>10 DEF RefusedStart

\* It leaves nothing out of order.
LEMMA RefuseKeeps ==
  ASSUME DevicesInv, DevicesInv', PhraseInv, RefusedStart
  PROVE  PhraseInv'
<1>1. /\ IsHistory(hist) /\ WorkerInv /\ StreamInv /\ OrderInv /\ PreviewInv /\ worker \in Workers
      /\ queue.finals \in Seq(Jobs)
  BY NumbersAre DEF PhraseInv
<1>2. /\ svc'.session = svc.session /\ svc'.generation = svc.generation /\ svc'.floor = svc.floor
      /\ worker' = CancelRunning(worker) /\ queue'.finals = <<>> /\ queue'.partial = NoJob /\ idle' = idle
      /\ IsHistory(hist') /\ hist'.delivered = hist.delivered /\ hist'.accepted = hist.accepted
      /\ hist'.ended = hist.ended /\ ~Busy' /\ cap'.phrase = cap.phrase
  BY RefuseIs
<1>3. /\ worker'.job = worker.job /\ worker'.pc = worker.pc
      /\ worker.cancel = "none" => worker'.cancel = "none"
  BY <1>1, <1>2, WorkerIs DEF CancelRunning, Workers
<1>5. WorkerInv'
  <2>1. Range(<<>>) = {}
    BY <1>1, JobsHeld
  <2>. QED  BY <1>1, <1>2, <1>3, <2>1 DEF WorkerInv
<1>6. StreamInv' /\ ~Uttered'
  BY <1>2 DEF StreamInv, Busy, Uttered
<1>7. Quieter
  BY <1>1, <1>2 DEF Quieter, OrderInv
<1>8. OrderInv' /\ PreviewInv'
  BY <1>2, <1>3, <1>6, <1>7, OrderKept
<1>. QED  BY <1>2, <1>5, <1>6, <1>8 DEF PhraseInv

-----------------------------------------------------------------------------
(* Every step of the service *)

\* The steps within a session, by what they do to its phrases.
Steps ==
  \/ StopEnd \/ QuitPut \/ QuitEnd \/ CaptureFailedEnd
  \/ (Finish /\ svc.capture # 0) \/ DrainEnd \/ Shows \/ RestoreListening
  \/ (Prepared /\ Current /\ svc.active)
  \/ ((Overloaded \/ (RecognitionFailed /\ reading # NoRead)) /\ Current)
  \/ (RecognitionFinished /\ reading # NoRead /\ Current /\ Head(idle).arg.text # "stop")
  \/ FinishEnd
  \/ Speaker \/ CaptureErrors \/ QueueAudioNotify
  \/ QueueAudio \/ QueueAudioPut \/ QueuePartial
  \/ WorkerGet \/ WorkerRegister \/ WorkerPrepare \/ WorkerVad \/ WorkerPublish \/ WorkerRun

\* start, once no test runs.
LEMMA StartIs ==
  ASSUME DevicesInv, PhraseInv, (Start /\ ~svc.testing) \/ StartAfterTest
  PROVE  EndStep \/ RefusedStart
<1>1. IsService(svc)
  BY NumbersAre
<1>2. CASE Start /\ ~svc.testing
  <2>1. PICK installed \in BOOLEAN : StartBody(svc, installed)
    BY <1>2 DEF Start
  <2>2. mainpc = "ready" /\ ~svc.active /\ UNCHANGED <<mainpc, idle, cap>>
    BY <1>2 DEF Start, Ready
  <2>3. svc.capture = 0
    BY <1>2, <2>2 DEF DevicesInv, CaptureInv
  <2>4. CASE installed = TRUE
    BY <1>1, <2>1, <2>2, <2>3, <2>4, StartEnds
  <2>5. CASE installed = FALSE
    BY <1>2, <2>1, <2>5 DEF RefusedStart
  <2>. QED  BY <2>4, <2>5
<1>3. CASE StartAfterTest
  <2>. DEFINE s == [svc EXCEPT !.capture = 0]
  <2>1. PICK installed \in BOOLEAN : StartBody(s, installed)
    BY <1>3 DEF StartAfterTest
  <2>2. mainpc = "start" /\ mainpc' = "ready" /\ idle' = idle /\ cap' = NoCapture
    BY <1>3 DEF StartAfterTest
  <2>3. IsService(s) /\ s.session = svc.session /\ s.generation = svc.generation
    BY <1>1 DEF IsService, Attributes
  <2>4. CASE installed = FALSE
    BY <1>3, <2>1, <2>4 DEF RefusedStart
  <2>5. CASE installed = TRUE
    <3>. HIDE DEF s
    <3>. QED  BY <2>1, <2>2, <2>3, <2>5, StartEnds
  <2>. QED  BY <2>4, <2>5
<1>. QED  BY <1>2, <1>3

\* A step ends the session, refuses one, or stays within it.
LEMMA StepsAre == ASSUME DevicesInv, ReadInv, PhraseInv, Turn PROVE EndStep \/ RefusedStart \/ Steps
<1>1. CASE Start \/ StartAfterTest
  <2>1. CASE Start /\ svc.testing
    BY <2>1, StopsEnd
  <2>. QED  BY <1>1, <2>1, StartIs
<1>2. CASE Stop \/ StopTest \/ Quit
  BY <1>2, StopsEnd
<1>3. CASE Finish
  BY <1>3, StopsEnd DEF Steps
<1>4. CASE StartTest \/ StartTestAfterStop
  <2>1. CASE StartTest /\ svc.active
    BY <2>1, StopsEnd
  <2>. QED  BY <1>4, <2>1, TestEnds
<1>5. CASE CaptureFailed \/ PreparedFails
  BY <1>5, StopsEnd DEF Steps, Shows
<1>6. CASE StaleResult \/ (Results /\ reading # NoRead)
  BY <1>6, StopsEnd DEF StaleResult, Results, Steps, Shows
<1>7. CASE Prepared \/ Overloaded
  BY <1>7 DEF Steps, Shows
<1>8. CASE PreparationState \/ PartialFinished \/ SetSessionState \/ NoSpeech
  BY <1>8 DEF Steps, Shows
<1>9. CASE StopEnd \/ FinishEnd \/ QuitPut \/ QuitEnd \/ CaptureFailedEnd \/ DrainEnd \/ RestoreListening
  BY <1>9 DEF Steps
<1>10. CASE Speaker \/ CaptureErrors \/ CaptureThread \/ Worker
  BY <1>10 DEF Steps, CaptureThread, Worker
<1>. QED  BY <1>1, <1>2, <1>3, <1>4, <1>5, <1>6, <1>7, <1>8, <1>9, <1>10 DEF Turn, Calls, MainLoop

\* Every step keeps the phrases in order.
LEMMA PhrasesKept ==
  ASSUME DevicesInv, DevicesInv', SpentInv, ReadInv, PhraseInv, Turn
  PROVE  PhraseInv'
<1>1. TextsRise(idle, svc.session)
  BY DEF PhraseInv, OrderInv
<1>2. CASE EndStep
  BY <1>2, OrderEnded
<1>3. CASE RefusedStart
  BY <1>3, RefuseKeeps
<1>4. ASSUME LoopStep, idle' = idle \/ (idle # <<>> /\ idle' = Tail(idle)) PROVE PhraseInv'
  BY <1>1, <1>4, QuieterIf, LoopKeeps
<1>5. CASE StopEnd \/ QuitPut \/ QuitEnd \/ CaptureFailedEnd
  BY <1>4, <1>5, JoinsAre
<1>6. CASE Finish /\ svc.capture # 0
  BY <1>4, <1>6, FinishIs
<1>7. CASE DrainEnd
  BY <1>4, <1>7, DrainEndIs
<1>8. CASE Shows
  BY <1>4, <1>8, ShowsAre
<1>9. CASE RestoreListening
  BY <1>4, <1>9, RestoreIs
<1>10. CASE Prepared /\ Current /\ svc.active
  BY <1>4, <1>10, PreparedIs
<1>11. CASE (RecognitionFailed \/ Overloaded) /\ Current
  BY <1>4, <1>11, DrainIs
<1>12. CASE RecognitionFinished /\ Current /\ Head(idle).arg.text # "stop"
  BY <1>12, FinishedKeeps
<1>13. CASE FinishEnd
  <2>1. svc.session \in Nat
    BY NumbersAre
  <2>. QED  BY <1>4, <1>13, <2>1, FinishEndIs, AcceptKeeps
<1>14. CASE Speaker \/ CaptureErrors \/ QueueAudioNotify
  BY <1>14, StreamIs, StreamKeeps
<1>15. CASE QueueAudio \/ QueueAudioPut
  BY <1>4, <1>15, QueueAudioIs, QueueAudioPutIs, AcceptKeeps
<1>16. CASE QueuePartial
  BY <1>16, QueuePartialKeeps
<1>17. CASE WorkerGet
  BY <1>17, GetKeeps
<1>18. CASE WorkerRegister \/ WorkerPrepare \/ WorkerVad \/ WorkerPublish
  BY <1>18, PassKeeps
<1>19. CASE WorkerRun
  BY <1>19, RunKeeps
<1>. QED  BY <1>2, <1>3, <1>5, <1>6, <1>7, <1>8, <1>9, <1>10, <1>11, <1>12, <1>13, <1>14, <1>15, <1>16,
             <1>17, <1>18, <1>19, StepsAre DEF Steps

-----------------------------------------------------------------------------
(* What is outstanding, from step to step *)

\* No step of this session brings a phrase, or news of one, from nowhere.
Hushed ==
  /\ svc'.session = svc.session
  /\ cap'.session = cap.session \/ svc.active
  /\ Final(worker'.job, svc.session) => \/ Final(worker.job, svc.session)
                                        \/ \E j \in Range(queue.finals) : Final(j, svc.session)
  /\ \A j \in Range(queue'.finals) : Final(j, svc.session) => j \in Range(queue.finals)
  /\ \A c \in Range(idle') : Loud(c, svc.session) =>
       c \in Range(idle) \/ Final(worker.job, svc.session) \/ (c.fn = "failed" /\ svc.active)

\* A number that no session has used stays unused, and so does what was not accepted.
LEMMA HushKept ==
  ASSUME Hushed
  PROVE  /\ Silent /\ ~svc.active => Silent'
         /\ Unheard => Unheard'
<1>1. Silent /\ ~svc.active => Silent'
  BY DEF Hushed, Silent
<1>2. Unheard => Unheard'
  BY DEF Hushed, Unheard
<1>. QED  BY <1>1, <1>2

\* The steps that are hushed: they take from the queues, and add only news.
LEMMA HushedIf ==
  ASSUME DevicesInv, svc'.session = svc.session, cap'.session = cap.session \/ svc.active,
         \/ queue'.finals = queue.finals \/ queue'.finals = <<>>
         \/ queue.finals # <<>> /\ queue'.finals = Tail(queue.finals),
         \/ worker'.job = worker.job \/ worker'.job.kind # "final"
         \/ queue.finals # <<>> /\ worker'.job = Head(queue.finals),
         \/ idle' = idle \/ (idle # <<>> /\ idle' = Tail(idle))
         \/ \E c \in Callbacks :
              /\ idle' = Append(idle, c)
              /\ Loud(c, svc.session) => Final(worker.job, svc.session) \/ (c.fn = "failed" /\ svc.active)
         \/ \E r \in Seq(Callbacks) :
              /\ idle' = idle \o r
              /\ \A i \in DOMAIN r : Loud(r[i], svc.session) => r[i].fn = "failed" /\ svc.active
  PROVE  Hushed
<1>1. queue.finals \in Seq(Jobs) /\ idle \in Seq(Callbacks)
  BY NumbersAre
<1>2. \A j \in Range(queue'.finals) : j \in Range(queue.finals)
  BY <1>1, JobsHeld
<1>3. Final(worker'.job, svc.session) => \/ Final(worker.job, svc.session)
                                         \/ \E j \in Range(queue.finals) : Final(j, svc.session)
  BY <1>1, JobsHeld DEF Final
<1>4. \A c \in Range(idle') : Loud(c, svc.session) =>
        c \in Range(idle) \/ Final(worker.job, svc.session) \/ (c.fn = "failed" /\ svc.active)
  <2>1. CASE idle' = idle \/ (idle # <<>> /\ idle' = Tail(idle))
    BY <1>1, <2>1, CallbacksHeld
  <2>2. ASSUME NEW c \in Callbacks, idle' = Append(idle, c),
               Loud(c, svc.session) => Final(worker.job, svc.session) \/ (c.fn = "failed" /\ svc.active)
        PROVE  <1>4!:
    <3>1. Range(idle') = Range(idle) \cup {c}
      BY <1>1, <2>2, CallbacksHeld
    <3>. QED  BY <2>2, <3>1
  <2>3. ASSUME NEW r \in Seq(Callbacks), idle' = idle \o r,
               \A i \in DOMAIN r : Loud(r[i], svc.session) => r[i].fn = "failed" /\ svc.active
        PROVE  <1>4!:
    <3>1. Range(idle') = Range(idle) \cup Range(r)
      BY <1>1, <2>3, CallbacksHeld
    <3>2. \A c \in Range(r) : Loud(c, svc.session) => c.fn = "failed" /\ svc.active
      BY <2>3 DEF Range
    <3>. QED  BY <3>1, <3>2
  <2>. QED  BY <2>1, <2>2, <2>3
<1>. QED  BY <1>2, <1>3, <1>4 DEF Hushed

\* What does not move a phrase leaves the number outstanding.
LEMMA OutstandingStays ==
  ASSUME DevicesInv, DevicesInv', svc'.session = svc.session, queue'.finals = queue.finals,
         Final(worker'.job, svc.session) <=> Final(worker.job, svc.session),
         \/ idle' = idle
         \/ idle # <<>> /\ idle' = Tail(idle) /\ ~Outcome(Head(idle), svc.session)
         \/ \E c \in Callbacks : idle' = Append(idle, c) /\ ~Outcome(c, svc.session)
         \/ \E r \in Seq(Callbacks) : idle' = idle \o r /\ \A i \in DOMAIN r : ~Outcome(r[i], svc.session)
  PROVE  Outstanding' = Outstanding
<1>1. queue.finals \in Seq(Jobs) /\ idle \in Seq(Callbacks) /\ svc.session \in Nat
  BY NumbersAre
<1>2. Told(idle, svc.session) \in Nat
  BY <1>1, ToldIs
<1>3. Told(idle', svc.session) = Told(idle, svc.session)
  <2>1. CASE idle # <<>> /\ idle' = Tail(idle) /\ ~Outcome(Head(idle), svc.session)
    <3>1. /\ Told(Tail(idle), svc.session) \in Nat
          /\ Told(idle, svc.session) = Told(Tail(idle), svc.session) + (IF Outcome(Head(idle), svc.session) THEN 1 ELSE 0)
      BY <1>1, <2>1, ToldIs
    <3>. QED  BY <2>1, <3>1
  <2>2. ASSUME NEW c \in Callbacks, idle' = Append(idle, c), ~Outcome(c, svc.session)
        PROVE  Told(idle', svc.session) = Told(idle, svc.session)
    <3>1. Told(Append(idle, c), svc.session) = Told(idle, svc.session) + (IF Outcome(c, svc.session) THEN 1 ELSE 0)
      BY <1>1, <2>2, ToldIs
    <3>. QED  BY <1>2, <2>2, <3>1
  <2>3. ASSUME NEW r \in Seq(Callbacks), idle' = idle \o r, \A i \in DOMAIN r : ~Outcome(r[i], svc.session)
        PROVE  Told(idle', svc.session) = Told(idle, svc.session)
    <3>1. Told(idle \o r, svc.session) = Told(idle, svc.session)
      BY ZenonT(60), <1>1, <2>3, ToldIs
    <3>. QED  BY <2>3, <3>1
  <2>. QED  BY <2>1, <2>2, <2>3
<1>4. InHand(worker'.job, svc.session) = InHand(worker.job, svc.session)
  BY DEF InHand
<1>. QED  BY <1>3, <1>4, OutstandingIs DEF Total

\* A step that neither counts nor moves a phrase keeps the count.
LEMMA CountStays ==
  ASSUME DevicesInv, DevicesInv', CountInv, Hushed, Races,
         svc'.active = svc.active, Counted' = Counted \/ Dead, Preparing => svc'.pending = svc.pending, hist'.refused = hist.refused,
         mainpc' = "drain" => mainpc = "drain",
         Preparing' <=> Preparing, Preparing => svc'.state # "finishing",
         Dead => /\ mainpc' \notin {"finish", "drain"}
                 /\ mainpc' \in {"ready", "joinWorker"} => svc'.state # "finishing",
         cap'.pc \in {"put", "counted"} =>
           (cap.pc \in {"put", "counted"} /\ cap'.session = cap.session) \/ cap'.session = svc.session,
         Outstanding' = Outstanding \/ (Preparing /\ Outstanding' <= 1)
  PROVE  CountInv'
<1>1. Dead => Dead'
  BY HushKept DEF Dead
<1>2. Unheard => Unheard'
  BY HushKept
<1>3. svc'.session = svc.session
  BY DEF Hushed
<1>4. Preparing' => svc'.pending = 0 /\ svc'.state # "finishing" /\ Unheard' /\ Outstanding' <= 1
  BY <1>2 DEF CountInv
<1>5. (hist'.refused \/ mainpc' = "drain" => ~svc'.active) 
      /\ (cap'.pc \in {"put", "counted"} => cap'.session = svc'.session \/ Dead')
  BY <1>1, <1>3 DEF CountInv
<1>6. hist'.refused \/ raced' \/ Preparing' \/ Dead' \/ Counted' = Outstanding'
  BY <1>1, <1>3 DEF CountInv, Races
<1>. QED  BY <1>4, <1>5, <1>6 DEF CountInv

\* The main loop's other steps, none of which counts a phrase.
LEMMA LoopCounts ==
  ASSUME DevicesInv, DevicesInv', PhraseInv, CountInv, Races,
         \/ StopEnd \/ QuitPut \/ QuitEnd \/ CaptureFailedEnd \/ (Finish /\ svc.capture # 0) \/ DrainEnd
         \/ Shows \/ RestoreListening
  PROVE  CountInv'
<1>1. ASSUME LoopStep, ~Busy' \/ cap' = cap, svc'.pending = svc.pending,
             idle' = idle \/ (idle # <<>> /\ idle' = Tail(idle) /\ ~Outcome(Head(idle), svc.session))
      PROVE  /\ Hushed /\ Outstanding' = Outstanding /\ hist'.refused = hist.refused /\ Counted' = Counted
             /\ cap'.pc \in {"put", "counted"} =>
                  cap.pc \in {"put", "counted"} /\ cap'.session = cap.session
  <2>1. /\ svc'.session = svc.session /\ cap'.session = cap.session /\ queue'.finals = queue.finals
        /\ worker' = worker \/ worker' = InvalidateRunning(worker)
        /\ hist'.refused = hist.refused
        /\ cap'.pc \in {"put", "counted"} => cap.pc \in {"put", "counted"}
        /\ cap'.pc = "counted" <=> cap.pc = "counted"
    BY <1>1 DEF LoopStep, Busy
  <2>2. worker'.job = worker.job
    BY <2>1, InvalidatedJob
  <2>3. Hushed
    BY <1>1, <2>1, <2>2, HushedIf
  <2>4. Outstanding' = Outstanding
    BY <1>1, <2>1, <2>2, OutstandingStays
  <2>5. Counted' = Counted
    BY <1>1, <2>1 DEF Counted, BeingPut
  <2>. QED  BY <2>1, <2>3, <2>4, <2>5
<1>2. CASE StopEnd \/ QuitPut \/ QuitEnd \/ CaptureFailedEnd
  <2>1. /\ LoopStep /\ idle' = idle /\ ~Busy'
        /\ mainpc \in {"stop", "quit", "captureFailed", "joinWorker"} /\ mainpc' \in {"ready", "joinWorker"}
        /\ svc'.active = svc.active /\ svc'.pending = svc.pending
        /\ svc'.state # "finishing" \/ (mainpc = "joinWorker" /\ svc'.state = svc.state)
    BY <1>2, JoinsAre
  <2>2. ~svc.active
    BY <2>1 DEF DevicesInv, CaptureInv
  <2>3. ~Preparing /\ ~Preparing'
    BY <2>1, <2>2 DEF Preparing
  <2>4. Dead => svc'.state # "finishing"
    BY <2>1 DEF Dead
  <2>. QED  BY <1>1, <2>1, <2>3, <2>4, CountStays
<1>3. CASE Finish /\ svc.capture # 0
  <2>1. /\ LoopStep /\ idle' = idle /\ cap' = cap /\ mainpc = "ready" /\ mainpc' = "finish"
        /\ svc.active /\ svc'.active /\ svc'.pending = svc.pending
    BY <1>3, FinishIs
  <2>2. ~Dead /\ ~Preparing /\ ~Preparing'
    BY <1>3, <2>1 DEF Dead, Preparing
  <2>3. svc'.active = svc.active
    <3>1. svc.active \in BOOLEAN /\ svc'.active \in BOOLEAN
      BY NumbersAre, NumbersNext DEF IsService
    <3>. QED  BY <2>1, <3>1
  <2>. QED  BY <1>1, <2>1, <2>2, <2>3, CountStays
<1>4. CASE DrainEnd
  <2>1. /\ LoopStep /\ idle' = idle /\ ~Busy' /\ mainpc = "drain" /\ mainpc' = "ready"
        /\ svc'.active = svc.active /\ svc'.pending = svc.pending
    BY <1>4, DrainEndIs
  <2>2. ~Dead /\ ~Preparing /\ ~Preparing'
    BY <2>1 DEF Dead, Preparing, CountInv
  <2>. QED  BY <1>1, <2>1, <2>2, CountStays
<1>5. CASE Shows \/ RestoreListening
  <2>1. /\ LoopStep /\ cap' = cap
        /\ idle' = idle \/ (idle # <<>> /\ idle' = Tail(idle) /\ ~Outcome(Head(idle), svc.session))
        /\ mainpc = "ready" /\ mainpc' = "ready"
        /\ svc'.active = svc.active /\ svc'.pending = svc.pending /\ svc'.capture = svc.capture
        /\ svc'.state = svc.state \/ (svc.active /\ svc'.state # "finishing")
    BY <1>5, ShowsAre, RestoreIs DEF Outcome
  <2>2. Preparing' <=> Preparing
    BY <2>1 DEF Preparing
  <2>3. Preparing => svc'.state # "finishing"
    BY <2>1 DEF CountInv
  <2>4. Dead => svc'.state # "finishing"
    BY <2>1 DEF Dead
  <2>. QED  BY <1>1, <2>1, <2>2, <2>3, <2>4, CountStays
<1>. QED  BY <1>2, <1>3, <1>4, <1>5

\* The streaming thread counts nothing but in _queue_audio.
LEMMA StreamCounts ==
  ASSUME DevicesInv, DevicesInv', SpentInv, PhraseInv, CountInv, Races,
         Speaker \/ CaptureErrors \/ QueueAudioNotify \/ QueuePartial
  PROVE  CountInv'
<1>1. CASE Speaker \/ CaptureErrors \/ QueueAudioNotify
  <2>1. StreamStep
    BY <1>1, StreamIs
  <2>2. /\ UNCHANGED <<svc, mainpc, queue, worker>> /\ hist'.refused = hist.refused
        /\ \/ idle' = idle
           \/ \E c \in Callbacks : c.fn \in {"noSpeech", "captureFailed", "recognizing"} /\ idle' = Append(idle, c)
        /\ cap'.pc = "put" => cap'.session = svc.session
        /\ cap.pc # "counted" /\ cap'.pc # "counted"
        /\ cap'.session = cap.session \/ svc.active
    BY <2>1 DEF StreamStep
  <2>3. \/ idle' = idle
        \/ \E c \in Callbacks : idle' = Append(idle, c) /\ ~Loud(c, svc.session) /\ ~Outcome(c, svc.session)
    BY <2>2 DEF Loud, Outcome
  <2>4. Hushed
    BY <2>2, <2>3, HushedIf
  <2>5. Outstanding' = Outstanding
    BY <2>2, <2>3, OutstandingStays
  <2>6. (Preparing' <=> Preparing) /\ (Preparing => svc'.state # "finishing")
    BY <2>2 DEF Preparing, CountInv
  <2>7. Dead => mainpc' \notin {"finish", "drain"} /\ (mainpc' \in {"ready", "joinWorker"} => svc'.state # "finishing")
    BY <2>2 DEF Dead
  <2>8. Counted' = Counted
    BY <2>2 DEF Counted, BeingPut
  <2>. QED  BY <2>2, <2>4, <2>5, <2>6, <2>7, <2>8, CountStays
<1>2. CASE QueuePartial
  <2>1. /\ UNCHANGED <<mainpc, idle, worker, hist>> /\ queue'.finals = queue.finals
        /\ cap.pc = "partial" /\ cap'.pc = "idle" /\ cap'.session = cap.session
        /\ svc'.session = svc.session /\ svc'.pending = svc.pending /\ svc'.active = svc.active
        /\ svc'.capture = svc.capture /\ svc'.state = svc.state
    BY <1>2, QueuePartialKeeps DEF QueuePartial
  <2>2. Hushed
    BY <2>1, HushedIf
  <2>3. Outstanding' = Outstanding
    BY <2>1, OutstandingStays
  <2>4. (Preparing' <=> Preparing) /\ (Preparing => svc'.state # "finishing")
    BY <2>1 DEF Preparing, CountInv
  <2>5. Dead => mainpc' \notin {"finish", "drain"} /\ (mainpc' \in {"ready", "joinWorker"} => svc'.state # "finishing")
    BY <2>1 DEF Dead
  <2>6. Counted' = Counted
    BY <2>1 DEF Counted, BeingPut
  <2>. QED  BY <2>1, <2>2, <2>3, <2>4, <2>5, <2>6, CountStays
<1>. QED  BY <1>1, <1>2

\* A new number has nothing outstanding: its session is over at once, or prepares.
LEMMA CountEnded ==
  ASSUME DevicesInv, DevicesInv', SpentInv, PhraseInv, PhraseInv', EndStep
  PROVE  CountInv' /\ CancelInv'
<1>1. /\ svc.session \in Nat /\ worker \in Workers /\ idle \in Seq(Callbacks) /\ PreviewInv
      /\ svc'.session \in Nat /\ queue'.finals \in Seq(Jobs) /\ idle' \in Seq(Callbacks) /\ worker'.job \in Jobs
  BY NumbersAre, NumbersNext DEF PhraseInv
<1>2. /\ svc'.session = svc.session + 1 /\ svc'.pending = 0 /\ worker' = CancelRunning(worker)
      /\ idle' = idle \/ (idle # <<>> /\ idle' = Tail(idle))
      /\ cap'.session = cap.session /\ ~hist'.refused
      /\ \/ /\ ~svc'.active /\ mainpc' \notin {"finish", "drain"}
            /\ mainpc' \in {"ready", "joinWorker"} => svc'.state # "finishing"
         \/ svc'.active /\ svc'.capture = 0 /\ mainpc' = "ready" /\ svc'.state = "preparing"
  BY DEF EndStep
<1>3. PICK n \in Nat : n = svc'.session
  BY <1>1
<1>4. n > svc.session
  BY <1>1, <1>2, <1>3
<1>5. ~Spent(n) /\ ~Texted(idle, n) /\ ~Final(worker.job, n)
  BY <1>1, <1>4, NothingYet
<1>6. \A c \in Range(idle) : ~Loud(c, n)
  <2>1. \A i \in DOMAIN idle : ~Blames(idle[i], n)
    BY <1>5 DEF Spent, Blamed
  <2>2. \A c \in Range(idle) : ~Blames(c, n)
    BY <2>1 DEF Range
  <2>. QED  BY <1>5, <2>2 DEF Loud, Blames, Texted, Text
<1>7. \A c \in Range(idle') : ~Loud(c, n)
  BY <1>1, <1>2, <1>6, CallbacksHeld
<1>8. ~Final(worker'.job, n) /\ cap'.session # n
  BY <1>1, <1>2, <1>5, WorkerIs DEF Spent
<1>9. (\A j \in Range(queue'.finals) : ~Final(j, n)) /\ ~Phrases(queue'.finals, n)
  BY EndedQueue DEF Final
<1>10. Silent' /\ Unheard'
  BY <1>3, <1>7, <1>8, <1>9 DEF Silent, Unheard
<1>11. Outstanding' = 0
  <2>1. \A i \in DOMAIN idle' : ~Outcome(idle'[i], n)
    BY <1>7 DEF Range, Loud, Outcome
  <2>2. Total(queue'.finals, idle', worker'.job, n) = 0
    BY <1>1, <1>8, <1>9, <2>1, TotalIs
  <2>. QED  BY <1>3, <2>2, OutstandingIs
<1>12. CancelInv'
  BY <1>3, <1>8 DEF CancelInv
<1>13. CASE /\ ~svc'.active /\ mainpc' \notin {"finish", "drain"}
            /\ mainpc' \in {"ready", "joinWorker"} => svc'.state # "finishing"
  <2>1. Dead' /\ ~Preparing'
    BY <1>10, <1>13 DEF Dead, Preparing
  <2>2. hist'.refused \/ mainpc' = "drain" => ~svc'.active
    BY <1>13
  <2>. QED  BY Zenon, <1>12, <2>1, <2>2 DEF CountInv
<1>14. CASE svc'.active /\ svc'.capture = 0 /\ mainpc' = "ready" /\ svc'.state = "preparing"
  <2>1. cap'.pc \notin {"put", "counted"}
    BY <1>14 DEF PhraseInv, StreamInv, Busy
  <2>2. Preparing'
    BY <1>14 DEF Preparing
  <2>3. Outstanding' <= 1
    BY <1>11
  <2>4. ~hist'.refused /\ mainpc' # "drain" /\ svc'.pending = 0 /\ svc'.state # "finishing"
    BY <1>2, <1>14
  <2>. QED  BY Zenon, <1>10, <1>12, <2>1, <2>2, <2>3, <2>4 DEF CountInv
<1>. QED  BY <1>2, <1>13, <1>14

\* A refused start keeps the count of what it cleared, and says so; else nothing was left.
LEMMA CountRefused ==
  ASSUME DevicesInv, DevicesInv', PhraseInv, CountInv, Races, RefusedStart
  PROVE  CountInv' /\ CancelInv'
<1>1. /\ svc.session \in Nat /\ svc.pending \in Int /\ worker \in Workers /\ worker.job \in Jobs
      /\ idle \in Seq(Callbacks) /\ queue.finals \in Seq(Jobs)
      /\ queue'.finals \in Seq(Jobs)
  BY NumbersAre, NumbersNext
<1>2. /\ svc'.session = svc.session /\ svc'.pending = svc.pending /\ svc'.active = svc.active /\ ~svc.active
      /\ svc'.state = "error" /\ worker' = CancelRunning(worker) /\ queue'.finals = <<>> /\ idle' = idle
      /\ hist'.refused = (svc.pending # 0 \/ hist.refused)
      /\ BeingPut = 0 /\ ~Busy' /\ cap'.session = cap.session /\ mainpc' = "ready"
  BY RefuseIs
<1>3. worker'.job = worker.job /\ cap'.pc \notin {"put", "counted"}
  BY <1>1, <1>2, WorkerIs DEF Busy
<1>4. ~Preparing /\ ~Preparing'
  BY <1>2 DEF Preparing
<1>5. ASSUME ~hist'.refused, ~raced' PROVE (Dead' \/ Counted' = Outstanding') /\ ~Final(worker.job, svc.session)
  <2>0. ~hist.refused /\ ~raced
    BY <1>2, <1>5 DEF Races
  <2>1. svc.pending = 0 /\ Counted = 0 /\ Counted' = 0
    <3>1. svc.pending = 0 /\ svc'.pending = 0
      BY <1>2, <1>5
    <3>2. BeingPut' = 0
      BY <1>3 DEF BeingPut
    <3>. QED  BY <1>2, <3>1, <3>2 DEF Counted
  <2>2. CASE Dead
    <3>1. Hushed
      BY <1>2, <1>3, HushedIf
    <3>2. Silent'
      BY <1>2, <2>2, <3>1, HushKept DEF Dead
    <3>. QED  BY <1>2, <2>2, <3>2 DEF Dead, Silent
  <2>3. CASE Counted = Outstanding
    <3>1. Total(queue.finals, idle, worker.job, svc.session) = 0
      BY <2>1, <2>3, OutstandingIs
    <3>2. ~Final(worker.job, svc.session) /\ \A i \in DOMAIN idle : ~Outcome(idle[i], svc.session)
      BY <1>1, <3>1, TotalIs
    <3>3. ~Phrases(queue'.finals, svc.session)
      BY <1>1, <1>2, PhrasesOf
    <3>4. Total(queue'.finals, idle, worker.job, svc.session) = 0
      BY <1>1, <3>2, <3>3, TotalIs
    <3>. QED  BY <1>2, <1>3, <2>1, <3>2, <3>4, OutstandingIs
  <2>. QED  BY <1>4, <2>0, <2>2, <2>3 DEF CountInv
<1>6. CancelInv'
  BY <1>2, <1>3, <1>5 DEF CancelInv
<1>. QED  BY <1>2, <1>3, <1>4, <1>5, <1>6 DEF CountInv

\* While a preparation is still to come nothing was accepted, and nothing has failed.
LEMMA NothingHeard ==
  ASSUME DevicesInv, SpentInv, CountInv, Preparing, HasToken(svc.session)
  PROVE  /\ ~Phrases(queue.finals, svc.session) /\ ~Final(worker.job, svc.session)
         /\ \A i \in DOMAIN idle : ~Outcome(idle[i], svc.session)
         /\ Outstanding = 0
<1>1. /\ svc.session \in Nat /\ worker.job \in Jobs /\ idle \in Seq(Callbacks) /\ queue.finals \in Seq(Jobs)
  BY NumbersAre
<1>2. Unheard /\ ~Spent(svc.session)
  BY <1>1 DEF CountInv, SpentInv
<1>3. \A i \in DOMAIN idle : ~Outcome(idle[i], svc.session)
  <2>1. \A i \in DOMAIN idle : ~Blames(idle[i], svc.session)
    BY <1>2 DEF Spent, Blamed
  <2>2. \A i \in DOMAIN idle : Loud(idle[i], svc.session) => idle[i].fn = "failed"
    BY <1>2 DEF Unheard, Range
  <2>. QED  BY <2>1, <2>2 DEF Loud, Outcome, Blames
<1>4. ~Phrases(queue.finals, svc.session) /\ ~Final(worker.job, svc.session)
  BY <1>2 DEF Unheard, Spent
<1>5. Total(queue.finals, idle, worker.job, svc.session) = 0
  BY <1>1, <1>3, <1>4, TotalIs
<1>. QED  BY <1>3, <1>4, <1>5, OutstandingIs

\* Counting down, and not below zero.
LEMMA CountDown ==
  ASSUME NEW p \in Int, NEW b \in {0, 1}, NEW o \in Nat, NEW n \in Nat, o = n + 1
  PROVE  /\ p - b = o => (IF p > 0 THEN p - 1 ELSE 0) - b = n
         /\ p = 0 /\ b = 0 /\ o <= 1 => (IF p > 0 THEN p - 1 ELSE 0) - b = n
OBVIOUS

\* A result that is dispatched is one less outstanding.
LEMMA OutstandingFalls ==
  ASSUME DevicesInv, DevicesInv', svc'.session = svc.session, queue'.finals = queue.finals,
         worker'.job = worker.job, idle # <<>>, idle' = Tail(idle), Outcome(Head(idle), svc.session)
  PROVE  Outstanding = Outstanding' + 1 /\ Outstanding \in Nat /\ Outstanding' \in Nat
<1>1. queue.finals \in Seq(Jobs) /\ idle \in Seq(Callbacks) /\ svc.session \in Nat /\ worker.job \in Jobs
  BY NumbersAre
<1>2. /\ Told(Tail(idle), svc.session) \in Nat
      /\ Told(idle, svc.session) = Told(Tail(idle), svc.session) + 1
  BY <1>1, ToldIs
<1>3. Queued(queue.finals, svc.session) \in Nat /\ InHand(worker.job, svc.session) \in Nat
  BY <1>1, QueuedIs DEF InHand
<1>4. Outstanding \in Nat
  BY <1>1, OutstandingIs, TotalIs
<1>. QED  BY <1>2, <1>3, <1>4, OutstandingIs DEF Total

\* Preparation hands over with nothing accepted; results and failures are counted off.
LEMMA ResultsCount ==
  ASSUME DevicesInv, DevicesInv', SpentInv, ReadInv, PhraseInv, CountInv, Races,
         \/ Prepared /\ Current /\ svc.active
         \/ (Overloaded \/ (RecognitionFailed /\ reading # NoRead)) /\ Current
         \/ RecognitionFinished /\ reading # NoRead /\ Current /\ Head(idle).arg.text # "stop"
  PROVE  CountInv'
<1>1. /\ svc.session \in Nat /\ svc.pending \in Int /\ worker.job \in Jobs
      /\ idle \in Seq(Callbacks) /\ queue.finals \in Seq(Jobs) /\ idle' \in Seq(Callbacks)
  BY NumbersAre, NumbersNext
<1>0. /\ cap' = cap /\ svc'.session = svc.session => BeingPut' = BeingPut
      /\ BeingPut \in {0, 1} /\ (~Busy => BeingPut = 0)
      /\ reading # NoRead /\ ~raced => Lowered = (IF svc.pending > 0 THEN svc.pending - 1 ELSE 0)
  BY DEF BeingPut, Busy, ReadInv, Lowered
<1>2. CASE Prepared /\ Current /\ svc.active
  <2>1. /\ LoopStep /\ idle # <<>> /\ idle' = Tail(idle) /\ worker' = worker /\ ~Busy'
        /\ Head(idle).fn = "prepared" /\ HasToken(svc.session) /\ svc.capture = 0
        /\ mainpc = "ready" /\ mainpc' = "ready" /\ svc'.active = svc.active /\ svc'.pending = svc.pending /\ svc'.capture # 0
    BY <1>2, PreparedIs
  <2>2. /\ svc'.session = svc.session /\ hist'.refused = hist.refused /\ queue'.finals = queue.finals
        /\ cap'.pc \notin {"put", "counted"}
    BY <2>1 DEF LoopStep, Busy
  <2>3. Preparing /\ ~Preparing'
    BY <1>2, <2>1 DEF Preparing
  <2>4. svc.pending = 0 /\ Outstanding = 0
    BY <2>1, <2>3, NothingHeard DEF CountInv
  <2>5. Outstanding' = Outstanding
    BY <2>1, <2>2, OutstandingStays DEF Outcome
  <2>6. Counted' = Outstanding'
    <3>1. BeingPut' = 0
      BY <2>2 DEF BeingPut
    <3>. QED  BY <2>1, <2>4, <2>5, <3>1 DEF Counted
  <2>. QED  BY <2>1, <2>2, <2>3, <2>6 DEF CountInv
<1>3. CASE (Overloaded \/ (RecognitionFailed /\ reading # NoRead)) /\ Current
  <2>1. /\ LoopStep /\ idle # <<>> /\ idle' = Tail(idle) /\ worker' = worker /\ cap' = cap
        /\ Head(idle).session = svc.session /\ mainpc = "ready" /\ mainpc' = "drain" /\ ~svc'.active
        /\ \/ Head(idle).fn = "overloaded" /\ svc'.pending = svc.pending
           \/ Head(idle).fn = "failed" /\ svc'.pending = Lowered /\ reading # NoRead
    BY <1>3, DrainIs DEF Overloaded, Dispatch
  <2>2. /\ svc'.session = svc.session /\ hist'.refused = hist.refused /\ queue'.finals = queue.finals
        /\ BeingPut' = BeingPut /\ (raced => raced')
    BY <1>0, <2>1 DEF LoopStep, Races
  <2>3. Head(idle) \in Range(idle) /\ Loud(Head(idle), svc.session)
    BY <1>1, <2>1, CallbacksHeld DEF Loud
  <2>4. ~Dead /\ ~Preparing'
    BY <2>1, <2>3 DEF Dead, Silent, Preparing
  <2>5. Preparing => Head(idle).fn = "failed" /\ svc.pending = 0 /\ Outstanding <= 1 /\ BeingPut = 0
    BY <1>0, <2>3, QuietStream DEF CountInv, Unheard, Preparing
  <2>6. CASE Head(idle).fn = "overloaded"
    <3>1. ~Outcome(Head(idle), svc.session)
      BY <2>6 DEF Outcome
    <3>2. Outstanding' = Outstanding
      BY <2>1, <2>2, <3>1, OutstandingStays
    <3>3. Counted' = Counted
      BY <2>1, <2>2, <2>6 DEF Counted
    <3>. QED  BY <2>1, <2>2, <2>4, <2>5, <2>6, <3>2, <3>3 DEF CountInv
  <2>7. CASE Head(idle).fn = "failed"
    <3>1. Outcome(Head(idle), svc.session)
      BY <2>1, <2>7 DEF Outcome
    <3>2. Outstanding = Outstanding' + 1 /\ Outstanding \in Nat /\ Outstanding' \in Nat
      BY <2>1, <2>2, <3>1, OutstandingFalls
    <3>3. ~raced => Counted' = (IF svc.pending > 0 THEN svc.pending - 1 ELSE 0) - BeingPut
      BY <1>0, <2>1, <2>2, <2>7 DEF Counted
    <3>4. Preparing /\ ~raced => Counted' = Outstanding'
      <4>. SUFFICES ASSUME Preparing, ~raced PROVE Counted' = Outstanding'
        OBVIOUS
      <4>1. svc.pending = 0 /\ BeingPut = 0 /\ Outstanding <= 1
        BY <2>5
      <4>2. Counted' = 0 - 0
        BY <3>3, <4>1
      <4>3. PICK m \in Nat : m = Outstanding
        BY <3>2
      <4>4. PICK n \in Nat : n = Outstanding' /\ m = n + 1
        BY <3>2, <4>3
      <4>5. m <= 1
        BY Zenon, <4>1, <4>3
      <4>6. \A i, j \in Nat : i = j + 1 /\ i <= 1 => j = 0 - 0
        OBVIOUS
      <4>7. n = 0 - 0
        BY <4>4, <4>5, <4>6
      <4>. QED  BY Zenon, <4>2, <4>4, <4>7
    <3>5. Counted = Outstanding /\ ~raced => Counted' = Outstanding'
      BY <1>0, <1>1, <3>2, <3>3, CountDown DEF Counted
    <3>. QED  BY <2>1, <2>2, <2>4, <3>4, <3>5 DEF CountInv
  <2>. QED  BY <2>1, <2>6, <2>7
<1>4. CASE RecognitionFinished /\ reading # NoRead /\ Current /\ Head(idle).arg.text # "stop"
  <2>1. /\ svc'.session = svc.session /\ svc'.active = svc.active /\ svc'.capture = svc.capture
        /\ svc'.pending = Lowered
        /\ UNCHANGED <<queue, worker, cap>> /\ idle # <<>> /\ idle' = Tail(idle)
        /\ Text(Head(idle), svc.session) /\ mainpc = "ready" /\ mainpc' = "ready"
        /\ hist'.refused = hist.refused /\ (raced => raced') /\ BeingPut' = BeingPut
    BY <1>0, <1>4, FinishedIs DEF Races
  <2>2. Head(idle) \in Range(idle) /\ Loud(Head(idle), svc.session) /\ Outcome(Head(idle), svc.session)
    BY <1>1, <2>1, CallbacksHeld DEF Loud, Outcome, Text
  <2>3. ~Dead /\ ~Preparing
    BY <2>1, <2>2 DEF Dead, Silent, CountInv, Unheard, Text
  <2>4. ~Preparing'
    BY <2>1, <2>3 DEF Preparing
  <2>5. Outstanding = Outstanding' + 1 /\ Outstanding \in Nat /\ Outstanding' \in Nat
    BY <2>1, <2>2, OutstandingFalls
  <2>6. Counted = Outstanding /\ ~raced => Counted' = Outstanding'
    <3>1. ~raced => Counted' = (IF svc.pending > 0 THEN svc.pending - 1 ELSE 0) - BeingPut
      BY <1>0, <1>4, <2>1 DEF Counted
    <3>. QED  BY <1>0, <1>1, <2>5, <3>1, CountDown DEF Counted
  <2>. QED  BY <2>1, <2>3, <2>4, <2>6 DEF CountInv
<1>. QED  BY <1>2, <1>3, <1>4

\* A phrase of this session that the queue takes is one more, counted and outstanding.
LEMMA OutstandingRises ==
  ASSUME DevicesInv, DevicesInv', AcceptStep(svc.session), Counted = Outstanding
  PROVE  Counted' = Outstanding'
<1>1. /\ queue.finals \in Seq(Jobs) /\ idle \in Seq(Callbacks) /\ svc.session \in Nat /\ worker.job \in Jobs
  BY NumbersAre
<1>2. /\ svc'.session = svc.session /\ (worker' = worker \/ worker' = InvalidateRunning(worker))
      /\ \/ queue'.finals = queue.finals /\ Counted' = Counted
         \/ /\ Counted' = Counted + 1
            /\ \E j \in Jobs : /\ j.kind = "final" /\ j.session = svc.session /\ j.phrase = cap.phrase
                               /\ queue'.finals = Append(queue.finals, j)
      /\ \/ idle' = idle
         \/ \E c \in Callbacks : /\ c.fn \in {"recognizing", "overloaded"} /\ c.session = svc.session
                                 /\ idle' = Append(idle, c)
  BY DEF AcceptStep
<1>3. worker'.job = worker.job
  BY <1>2, InvalidatedJob
<1>4. Told(idle', svc.session) = Told(idle, svc.session)
  <2>1. ASSUME NEW c \in Callbacks, c.fn \in {"recognizing", "overloaded"}, idle' = Append(idle, c)
        PROVE  Told(idle', svc.session) = Told(idle, svc.session)
    <3>1. ~Outcome(c, svc.session)
      BY <2>1 DEF Outcome
    <3>2. /\ Told(idle, svc.session) \in Nat
          /\ Told(Append(idle, c), svc.session) = Told(idle, svc.session) + (IF Outcome(c, svc.session) THEN 1 ELSE 0)
      BY <1>1, ToldIs
    <3>. QED  BY <2>1, <3>1, <3>2
  <2>. QED  BY <1>2, <2>1
<1>5. CASE queue'.finals = queue.finals /\ Counted' = Counted
  BY <1>2, <1>3, <1>4, <1>5, OutstandingIs DEF Total
<1>6. ASSUME Counted' = Counted + 1,
             NEW j \in Jobs, j.kind = "final", j.session = svc.session, queue'.finals = Append(queue.finals, j)
      PROVE  Counted' = Outstanding'
  <2>1. InHand(j, svc.session) = 1
    BY <1>6 DEF InHand, Final
  <2>2. Queued(queue'.finals, svc.session) = Queued(queue.finals, svc.session) + 1
    <3>1. Queued(Append(queue.finals, j), svc.session) = Queued(queue.finals, svc.session) + InHand(j, svc.session)
      BY <1>1, QueuedIs
    <3>. QED  BY <1>6, <2>1, <3>1
  <2>3. PICK q \in Nat, t \in Nat, h \in Nat :
          q = Queued(queue.finals, svc.session) /\ t = Told(idle, svc.session) /\ h = InHand(worker.job, svc.session)
    BY <1>1, QueuedIs, ToldIs DEF InHand
  <2>4. Counted = q + t + h
    BY <2>3, OutstandingIs DEF Total
  <2>5. Outstanding' = (q + 1) + t + h
    BY <1>2, <1>3, <1>4, <2>2, <2>3, OutstandingIs DEF Total
  <2>. QED  BY <1>6, <2>3, <2>4, <2>5
<1>. QED  BY <1>2, <1>5, <1>6

\* Phrases that end, by silence or by finish, are counted as they are accepted.
LEMMA AcceptCounts ==
  ASSUME DevicesInv, DevicesInv', PhraseInv, CountInv, Races, QueueAudio \/ QueueAudioPut \/ FinishEnd
  PROVE  CountInv'
<1>1. /\ queue.finals \in Seq(Jobs) /\ idle \in Seq(Callbacks) /\ svc.session \in Nat /\ worker.job \in Jobs
  BY NumbersAre
<1>2. CASE FinishEnd
  <2>1. /\ cap.speaking => AcceptStep(svc.session)
        /\ ~cap.speaking => /\ LoopStep /\ idle' = idle /\ svc'.pending = svc.pending
        /\ mainpc = "finish" /\ mainpc' = "ready" /\ ~Busy' /\ BeingPut = 0 /\ BeingPut' = 0 /\ ~svc'.active
    BY <1>2, FinishEndIs
  <2>2. svc.active
    BY <2>1 DEF DevicesInv, CaptureInv
  <2>3. ~hist.refused /\ ~Preparing /\ ~Dead
    BY <2>1, <2>2 DEF CountInv, Preparing, Dead
  <2>0. svc'.session = svc.session
    BY <2>1 DEF AcceptStep, LoopStep
  <2>4. raced' \/ Counted = Outstanding
    BY <2>0, <2>3 DEF CountInv, Races
  <2>5. Counted = Outstanding => Counted' = Outstanding'
    <3>1. CASE cap.speaking
      BY <2>1, <3>1, OutstandingRises
    <3>2. CASE ~cap.speaking
      <4>1. /\ svc'.session = svc.session /\ queue'.finals = queue.finals
            /\ worker' = worker \/ worker' = InvalidateRunning(worker)
        BY <2>1, <3>2 DEF LoopStep
      <4>2. worker'.job = worker.job
        BY <4>1, InvalidatedJob
      <4>3. Outstanding' = Outstanding
        BY <2>1, <3>2, <4>1, <4>2, OutstandingStays
      <4>. QED  BY <2>1, <3>2, <4>3 DEF Counted
    <3>. QED  BY <3>1, <3>2
  <2>6. cap'.pc \notin {"put", "counted"} /\ ~Preparing'
    BY <2>1 DEF Busy, Preparing
  <2>. QED  BY <2>1, <2>4, <2>5, <2>6 DEF CountInv
<1>3. CASE QueueAudioPut
  <2>1. /\ AcceptStep(cap.session) /\ cap.session \in Nat /\ cap.pc = "counted" /\ mainpc' = mainpc
        /\ svc'.active = svc.active /\ svc'.capture = svc.capture /\ svc'.state = svc.state
    BY <1>3, QueueAudioPutIs
  <2>2. /\ svc'.session = svc.session /\ hist'.refused = hist.refused
        /\ cap'.pc \notin {"put", "counted"} /\ cap'.session = cap.session
        /\ worker' = worker \/ worker' = InvalidateRunning(worker)
        /\ raced => raced'
        /\ \/ queue'.finals = queue.finals
           \/ \E j \in Jobs : j.session = cap.session /\ queue'.finals = Append(queue.finals, j)
        /\ \/ idle' = idle
           \/ \E c \in Callbacks : c.session = cap.session /\ idle' = Append(idle, c)
    BY <2>1 DEF AcceptStep, Races
  <2>3. ~Preparing /\ ~Preparing'
    BY <2>1 DEF PhraseInv, StreamInv, Busy, Preparing
  <2>4. CASE cap.session = svc.session
    <3>1. ~Dead
      BY <2>4 DEF Dead, Silent
    <3>2. Counted = Outstanding => Counted' = Outstanding'
      BY <2>1, <2>4, OutstandingRises
    <3>. QED  BY <2>1, <2>2, <2>3, <3>1, <3>2 DEF CountInv
  <2>5. CASE cap.session # svc.session
    <3>1. Dead
      BY <2>1, <2>5 DEF CountInv
    <3>2. worker'.job = worker.job
      BY <2>2, InvalidatedJob
    <3>3. \A j \in Range(queue'.finals) : Final(j, svc.session) => j \in Range(queue.finals)
      <4>1. ASSUME NEW j \in Jobs, j.session = cap.session, queue'.finals = Append(queue.finals, j)
            PROVE  <3>3!:
        <5>1. Range(queue'.finals) = Range(queue.finals) \cup {j}
          BY <1>1, <4>1, RangeAppend
        <5>. QED  BY <2>5, <4>1, <5>1 DEF Final
      <4>. QED  BY <2>2, <4>1
    <3>4. \A c \in Range(idle') : Loud(c, svc.session) => c \in Range(idle)
      <4>1. ASSUME NEW c \in Callbacks, c.session = cap.session, idle' = Append(idle, c)
            PROVE  <3>4!:
        <5>1. Range(idle') = Range(idle) \cup {c}
          BY <1>1, <4>1, CallbacksHeld
        <5>. QED  BY <2>5, <4>1, <5>1 DEF Loud
      <4>. QED  BY <2>2, <4>1
    <3>5. Hushed
      BY <2>2, <3>2, <3>3, <3>4 DEF Hushed
    <3>6. Dead'
      BY <2>1, <3>1, <3>5, HushKept DEF Dead
    <3>. QED  BY <2>1, <2>2, <2>3, <3>6 DEF CountInv
  <2>. QED  BY <2>4, <2>5
<1>4. CASE QueueAudio
  <2>1. /\ LoopStep /\ cap.pc = "put" /\ cap'.pc = "counted" /\ UNCHANGED <<mainpc, idle>>
        /\ svc'.active = svc.active /\ svc'.capture = svc.capture /\ svc'.state = svc.state
        /\ svc'.pending = svc.pending + 1
    BY <1>4, QueueAudioIs
  <2>2. /\ svc'.session = svc.session /\ cap'.session = cap.session /\ queue'.finals = queue.finals
        /\ worker' = worker \/ worker' = InvalidateRunning(worker)
        /\ hist'.refused = hist.refused
    BY <2>1 DEF LoopStep
  <2>3. worker'.job = worker.job
    BY <2>2, InvalidatedJob
  <2>4. Hushed
    BY <2>1, <2>2, <2>3, HushedIf
  <2>5. Outstanding' = Outstanding
    BY <2>1, <2>2, <2>3, OutstandingStays
  <2>6. ~Preparing /\ ~Preparing'
    BY <2>1 DEF PhraseInv, StreamInv, Busy, Preparing
  <2>7. Dead => mainpc' \notin {"finish", "drain"} /\ (mainpc' \in {"ready", "joinWorker"} => svc'.state # "finishing")
    BY <2>1 DEF Dead
  <2>8. Counted' = Counted \/ Dead
    <3>1. CASE cap.session = svc.session
      <4>1. BeingPut = 0 /\ BeingPut' = 1 /\ svc.pending \in Int
        BY <2>1, <2>2, <3>1, NumbersAre DEF BeingPut
      <4>. QED  BY <2>1, <4>1 DEF Counted
    <3>. QED  BY <2>1, <3>1 DEF CountInv
  <2>. QED  BY <2>1, <2>2, <2>4, <2>5, <2>6, <2>7, <2>8, CountStays
<1>. QED  BY <1>2, <1>3, <1>4

\* A preparation tells of its progress, and last of its failure.
LEMMA PreparationNews ==
  ASSUME DevicesInv, WorkerPrepare
  PROVE  \E r \in Seq(Callbacks), f \in Callbacks :
           /\ \A i \in DOMAIN r : r[i].fn = "preparation"
           /\ f.fn = "failed" /\ f.session = worker.job.session
           /\ idle' = idle \o r \/ idle' = Append(idle \o r, f)
<1>1. worker.job.session \in Nat /\ idle \in Seq(Callbacks)
  BY NumbersAre
<1>2. PICK e \in {"ok", "cancelled", "error"}, measured \in BOOLEAN :
        idle' = idle \o ((IF measured THEN <<Callback("preparation", worker.job.session, "calibrating")>> ELSE <<>>)
                         \o <<Callback("preparation", worker.job.session, "preparing")>>
                         \o (IF e = "error" THEN <<Callback("failed", worker.job.session, 0)>> ELSE <<>>))
  BY DEF WorkerPrepare
<1>3. PICK c \in Callbacks, p \in Callbacks, f \in Callbacks :
        /\ c = Callback("preparation", worker.job.session, "calibrating")
        /\ p = Callback("preparation", worker.job.session, "preparing")
        /\ f = Callback("failed", worker.job.session, 0)
        /\ c.fn = "preparation" /\ p.fn = "preparation" /\ f.fn = "failed" /\ f.session = worker.job.session
  <2>1. {"preparation", "failed"} \subseteq Functions
    BY DEF Functions
  <2>. QED  BY <1>1, <2>1, CallbackIs, ArgumentsAre
<1>4. PICK a \in Seq({c, p}) : a = (IF measured THEN <<c>> ELSE <<>>)
  <2>1. <<c>> \in Seq({c, p}) /\ <<>> \in Seq({c, p})
    OBVIOUS
  <2>. QED  BY <2>1, Zenon
<1>5. PICK r : r = a \o <<p>>
  OBVIOUS
<1>6. r \in Seq({c, p})
  <2>1. <<p>> \in Seq({c, p})
    OBVIOUS
  <2>. QED  BY <1>4, <1>5, <2>1
<1>7. r \in Seq(Callbacks) /\ \A i \in DOMAIN r : r[i].fn = "preparation"
  <2>1. \A i \in DOMAIN r : r[i] \in {c, p}
    BY <1>6
  <2>2. Seq({c, p}) \subseteq Seq(Callbacks)
    BY <1>3
  <2>. QED  BY <1>3, <1>6, <2>1, <2>2
<1>8. CASE e = "error"
  <2>1. idle' = idle \o (r \o <<f>>)
    BY <1>2, <1>3, <1>4, <1>5, <1>8
  <2>2. <<f>> \in Seq(Callbacks)
    OBVIOUS
  <2>3. idle' = (idle \o r) \o <<f>>
    BY <1>1, <1>7, <2>1, <2>2, ConcatAssociative
  <2>4. idle \o r \in Seq(Callbacks)
    BY <1>1, <1>7
  <2>5. idle' = Append(idle \o r, f)
    BY <2>3, <2>4, AppendIsConcat
  <2>. QED  BY <1>3, <1>7, <2>5
<1>9. CASE e # "error"
  <2>1. idle' = idle \o (r \o <<>>)
    BY <1>2, <1>3, <1>4, <1>5, <1>9
  <2>2. r \o <<>> = r
    BY <1>7, ConcatEmptySeq
  <2>. QED  BY <1>3, <1>7, <2>1, <2>2
<1>. QED  BY <1>8, <1>9

\* A worker's step between a job and its result leaves everything it counts by.
LEMMA WorkCounts ==
  ASSUME DevicesInv, DevicesInv', PhraseInv, CountInv, Races, WorkStep, Hushed,
         Outstanding' = Outstanding \/ (Preparing /\ Outstanding' <= 1)
  PROVE  CountInv'
<1>1. /\ mainpc' = mainpc /\ cap' = cap /\ svc'.active = svc.active /\ svc'.pending = svc.pending
      /\ svc'.capture = svc.capture /\ svc'.state = svc.state /\ hist'.refused = hist.refused
  BY DEF WorkStep
<1>2. (Preparing' <=> Preparing) /\ (Preparing => svc'.state # "finishing")
  BY <1>1 DEF Preparing, CountInv
<1>3. Dead => mainpc' \notin {"finish", "drain"} /\ (mainpc' \in {"ready", "joinWorker"} => svc'.state # "finishing")
  BY <1>1 DEF Dead
<1>4. Counted' = Counted
  BY <1>1 DEF Counted, BeingPut, Hushed
<1>. QED  BY <1>1, <1>2, <1>3, <1>4, CountStays

\* What the recognition thread takes from the queue it has in hand.
LEMMA GetCounts ==
  ASSUME DevicesInv, DevicesInv', PhraseInv, CountInv, Races, WorkerGet
  PROVE  CountInv'
<1>1. /\ queue.finals \in Seq(Jobs) /\ idle \in Seq(Callbacks) /\ svc.session \in Nat /\ worker.job \in Jobs
  BY NumbersAre
<1>2. WorkStep /\ svc'.session = svc.session /\ cap'.session = cap.session
  BY WorkIs DEF Worker, WorkStep
<1>3. /\ idle' = idle /\ worker.job.kind = "none"
      /\ \/ queue'.finals = queue.finals /\ worker'.job.kind # "final"
         \/ /\ queue.finals # <<>> /\ queue'.finals = Tail(queue.finals)
            /\ \/ worker' = worker /\ Head(queue.finals).session # svc.session
               \/ worker'.job = Head(queue.finals)
  BY GetIs
<1>4. Hushed
  BY <1>2, <1>3, HushedIf
<1>5. InHand(worker.job, svc.session) = 0
  BY <1>3 DEF InHand, Final
<1>6. Queued(queue'.finals, svc.session) + InHand(worker'.job, svc.session) = Queued(queue.finals, svc.session)
  <2>1. Queued(queue.finals, svc.session) \in Nat
    BY <1>1, QueuedIs
  <2>2. CASE queue'.finals = queue.finals /\ worker'.job.kind # "final"
    BY <2>1, <2>2 DEF InHand, Final
  <2>3. CASE /\ queue.finals # <<>> /\ queue'.finals = Tail(queue.finals)
             /\ \/ worker' = worker /\ Head(queue.finals).session # svc.session
                \/ worker'.job = Head(queue.finals)
    <3>1. /\ Tail(queue.finals) \in Seq(Jobs)
          /\ Queued(queue.finals, svc.session)
               = Queued(Tail(queue.finals), svc.session) + InHand(Head(queue.finals), svc.session)
      BY <1>1, <2>3, QueuedIs, SMTT(30)
    <3>2. InHand(worker'.job, svc.session) = InHand(Head(queue.finals), svc.session)
      BY <1>3, <2>3, <1>5 DEF InHand, Final
    <3>. QED  BY <2>3, <3>1, <3>2
  <2>. QED  BY <1>3, <2>2, <2>3
<1>7. Outstanding' = Outstanding
  <2>1. PICK t \in Nat, q \in Nat : t = Told(idle, svc.session) /\ q = Queued(queue.finals, svc.session)
    BY <1>1, ToldIs, QueuedIs
  <2>2. PICK a \in Nat, h \in Nat : a = Queued(queue'.finals, svc.session) /\ h = InHand(worker'.job, svc.session)
    BY NumbersNext, <1>1, QueuedIs DEF InHand
  <2>3. Outstanding = q + t + 0
    BY <1>5, <2>1, OutstandingIs DEF Total
  <2>4. Outstanding' = a + t + h
    BY <1>2, <1>3, <2>1, <2>2, OutstandingIs DEF Total
  <2>5. a + h = q
    BY <1>6, <2>1, <2>2
  <2>. QED  BY <2>1, <2>2, <2>3, <2>4, <2>5
<1>. QED  BY <1>2, <1>4, <1>7, WorkCounts

\* Between a job and its result only a preparation that fails is told of, once.
LEMMA PassCounts ==
  ASSUME DevicesInv, DevicesInv', SpentInv, PhraseInv, CountInv, Races,
         WorkerRegister \/ WorkerPrepare \/ WorkerVad \/ WorkerPublish
  PROVE  CountInv'
<1>1. /\ queue.finals \in Seq(Jobs) /\ idle \in Seq(Callbacks) /\ svc.session \in Nat
      /\ worker \in Workers /\ worker.job \in Jobs /\ NoJob.kind = "none" /\ <<>> \in Seq(Callbacks)
  BY NumbersAre
<1>2. WorkStep /\ svc'.session = svc.session /\ cap'.session = cap.session
  BY WorkIs DEF Worker, WorkStep
<1>3. /\ queue' = queue /\ (worker' = Idle(worker) \/ worker'.job = worker.job)
      /\ worker.pc = "register" /\ worker' = Idle(worker) => ~Final(worker.job, svc.session)
      /\ worker.pc # "register" => worker.job.kind = "prepare"
  BY PassIs
<1>4. worker'.job = worker.job \/ worker'.job = NoJob
  BY <1>1, <1>3, WorkerIs
<1>5. Final(worker'.job, svc.session) <=> Final(worker.job, svc.session)
  BY <1>1, <1>3, <1>4, WorkerIs DEF Final
<1>6. ASSUME \/ idle' = idle
             \/ \E c \in Callbacks : idle' = Append(idle, c) /\ c.fn = "prepared"
             \/ \E r \in Seq(Callbacks) : idle' = idle \o r /\ \A i \in DOMAIN r : r[i].fn = "preparation"
      PROVE  CountInv'
  <2>1. \/ idle' = idle
        \/ \E c \in Callbacks : idle' = Append(idle, c) /\ ~Loud(c, svc.session) /\ ~Outcome(c, svc.session)
        \/ \E r \in Seq(Callbacks) :
             idle' = idle \o r /\ \A i \in DOMAIN r : ~Loud(r[i], svc.session) /\ ~Outcome(r[i], svc.session)
    BY <1>6 DEF Loud, Outcome
  <2>2. worker'.job = worker.job \/ worker'.job.kind # "final"
    BY <1>1, <1>4
  <2>3. Hushed
    BY <1>2, <1>3, <2>1, <2>2, HushedIf
  <2>4. Outstanding' = Outstanding
    BY <1>2, <1>3, <1>5, <2>1, OutstandingStays
  <2>. QED  BY <1>2, <2>3, <2>4, WorkCounts
<1>7. ASSUME NEW r \in Seq(Callbacks), \A i \in DOMAIN r : r[i].fn = "preparation",
             NEW f \in Callbacks, f.fn = "failed", f.session = worker.job.session,
             worker.job.kind = "prepare", idle' = Append(idle \o r, f)
      PROVE  CountInv'
  <2>1. (idle \o r) \in Seq(Callbacks) /\ Range(idle') = (Range(idle) \cup Range(r)) \cup {f}
    <3>1. (idle \o r) \in Seq(Callbacks) /\ Range(idle \o r) = Range(idle) \cup Range(r)
      BY <1>1, CallbacksHeld
    <3>2. Range(Append(idle \o r, f)) = Range(idle \o r) \cup {f}
      BY <3>1, CallbacksHeld
    <3>. QED  BY <1>7, <3>1, <3>2
  <2>2. \A c \in Range(r) : ~Loud(c, svc.session)
    BY <1>7 DEF Range, Loud
  <2>3. f.session = svc.session => HasToken(svc.session)
    BY <1>7 DEF HasToken, Tokens, Prepares
  <2>4. HasToken(svc.session) => svc.active /\ Preparing
    BY DEF DevicesInv, TokenInv, Preparing
  <2>5. Hushed
    <3>1. \A c \in Range(idle') : Loud(c, svc.session) => c \in Range(idle) \/ (c.fn = "failed" /\ svc.active)
      BY <1>7, <2>1, <2>2, <2>3, <2>4 DEF Loud
    <3>. QED  BY <1>2, <1>3, <1>5, <3>1 DEF Hushed
  <2>6. Told(idle', svc.session) = Told(idle, svc.session) + (IF f.session = svc.session THEN 1 ELSE 0)
    <3>1. \A i \in DOMAIN r : ~Outcome(r[i], svc.session)
      BY <1>7 DEF Outcome
    <3>2. Told(idle \o r, svc.session) = Told(idle, svc.session)
      BY ZenonT(60), <1>1, <3>1, ToldIs
    <3>3. Outcome(f, svc.session) <=> f.session = svc.session
      BY <1>7 DEF Outcome
    <3>4. Told(Append(idle \o r, f), svc.session) =
            Told(idle \o r, svc.session) + (IF Outcome(f, svc.session) THEN 1 ELSE 0)
      BY ZenonT(60), <1>1, <2>1, ToldIs
    <3>. QED  BY <1>7, <3>2, <3>3, <3>4
  <2>7. PICK t \in Nat, q \in Nat, h \in Nat :
          t = Told(idle, svc.session) /\ q = Queued(queue.finals, svc.session) /\ h = InHand(worker.job, svc.session)
    BY <1>1, ToldIs, QueuedIs DEF InHand
  <2>8. Outstanding = q + t + h
    BY <2>7, OutstandingIs DEF Total
  <2>9. InHand(worker'.job, svc.session) = h
    BY <1>5, <2>7 DEF InHand
  <2>10. CASE f.session = svc.session
    <3>1. Outstanding = 0
      BY <2>3, <2>4, <2>10, NothingHeard
    <3>2. Told(idle', svc.session) = t + 1
      BY <2>6, <2>7, <2>10
    <3>3. Outstanding' = q + (t + 1) + h
      BY <1>2, <1>3, <2>7, <2>9, <3>2, OutstandingIs DEF Total
    <3>4. Outstanding' <= 1
      BY SMTT(40), <2>7, <2>8, <3>1, <3>3
    <3>. QED  BY <1>2, <2>3, <2>4, <2>5, <2>10, <3>4, WorkCounts
  <2>11. CASE f.session # svc.session
    <3>1. Told(idle', svc.session) = t
      BY <2>6, <2>7, <2>11
    <3>2. Outstanding' = q + t + h
      BY <1>2, <1>3, <2>7, <2>9, <3>1, OutstandingIs DEF Total
    <3>. QED  BY <1>2, <2>5, <2>8, <3>2, WorkCounts
  <2>. QED  BY <2>10, <2>11
<1>8. CASE WorkerPrepare
  <2>1. worker.job.kind = "prepare"
    BY <1>3, <1>8 DEF WorkerPrepare
  <2>. QED  BY <1>6, <1>7, <1>8, <2>1, PreparationNews
<1>9. ASSUME NEW c \in Callbacks, idle' = Append(idle, c), c.fn = "failed", c.session = worker.job.session,
             worker.pc = "vad"
      PROVE  CountInv'
  <2>1. idle \o <<>> = idle /\ DOMAIN <<>> = {}
    BY <1>1, ConcatEmptySeq
  <2>2. idle' = Append(idle \o <<>>, c)
    BY <1>9, <2>1
  <2>3. \A i \in DOMAIN <<>> : <<>>[i].fn = "preparation"
    BY <2>1
  <2>. QED  BY <1>1, <1>3, <1>7, <1>9, <2>2, <2>3
<1>. QED  BY <1>6, <1>8, <1>9, PassTells

\* A result that is told of is no longer in hand; a cancelled phrase belongs to nobody.
LEMMA RunCounts ==
  ASSUME DevicesInv, DevicesInv', PhraseInv, CountInv, CancelInv, Races, WorkerRun
  PROVE  CountInv'
<1>1. /\ queue.finals \in Seq(Jobs) /\ idle \in Seq(Callbacks) /\ svc.session \in Nat
      /\ worker \in Workers /\ worker.job \in Jobs /\ NoJob.kind = "none"
  BY NumbersAre
<1>2. WorkStep /\ svc'.session = svc.session /\ cap'.session = cap.session
  BY WorkIs DEF Worker, WorkStep
<1>3. /\ queue' = queue /\ worker' = Idle(worker)
      /\ \/ idle' = idle /\ (worker.job.kind = "final" => worker.cancel = "set")
         \/ \E c \in Callbacks : /\ idle' = Append(idle, c) /\ c.session = worker.job.session
                                 /\ \/ c.fn \in {"finished", "failed"} /\ worker.job.kind = "final"
                                    \/ c.fn = "partial" /\ worker.job.kind = "partial"
  BY RunIs
<1>4. worker'.job.kind = "none" /\ ~Final(worker'.job, svc.session)
  BY <1>1, <1>3, WorkerIs DEF Final
<1>5. CASE idle' = idle /\ Final(worker.job, svc.session) /\ worker.cancel = "set"
  <2>0. svc'.session = svc.session /\ (raced => raced')
    BY <1>2 DEF Races
  <2>1. hist.refused \/ raced
    BY <1>5 DEF CancelInv
  <2>2. ~Preparing /\ ~Dead
    BY <1>5 DEF CountInv, Unheard, Dead, Silent
  <2>3. /\ hist'.refused = hist.refused /\ svc'.active = svc.active /\ mainpc' = mainpc /\ cap' = cap
        /\ svc'.capture = svc.capture
    BY <1>2 DEF WorkStep
  <2>4. ~Preparing'
    BY <2>2, <2>3 DEF Preparing
  <2>5. hist'.refused \/ raced'
    BY <2>0, <2>1, <2>3
  <2>. QED  BY <2>0, <2>2, <2>3, <2>4, <2>5 DEF CountInv
<1>6. CASE idle' = idle /\ ~Final(worker.job, svc.session)
  <2>1. Hushed
    BY <1>2, <1>3, <1>4, <1>6, HushedIf
  <2>2. Outstanding' = Outstanding
    BY <1>2, <1>3, <1>4, <1>6, OutstandingStays
  <2>. QED  BY <1>2, <2>1, <2>2, WorkCounts
<1>7. ASSUME NEW c \in Callbacks, idle' = Append(idle, c), c.session = worker.job.session,
             \/ c.fn \in {"finished", "failed"} /\ worker.job.kind = "final"
             \/ c.fn = "partial" /\ worker.job.kind = "partial"
      PROVE  CountInv'
  <2>1. /\ Loud(c, svc.session) => Final(worker.job, svc.session)
        /\ Outcome(c, svc.session) <=> Final(worker.job, svc.session)
    BY <1>7 DEF Loud, Final, Outcome
  <2>2. Hushed
    BY <1>2, <1>3, <1>4, <1>7, <2>1, HushedIf
  <2>3. PICK t \in Nat, q \in Nat, h \in Nat :
          t = Told(idle, svc.session) /\ q = Queued(queue.finals, svc.session) /\ h = InHand(worker.job, svc.session)
    BY <1>1, ToldIs, QueuedIs DEF InHand
  <2>4. Told(Append(idle, c), svc.session) = Told(idle, svc.session) + (IF Outcome(c, svc.session) THEN 1 ELSE 0)
    BY <1>1, ToldIs
  <2>5. Told(idle', svc.session) = t + h
    BY <1>7, <2>1, <2>3, <2>4 DEF InHand
  <2>6. InHand(worker'.job, svc.session) = 0
    BY <1>4 DEF InHand
  <2>7. Outstanding = q + t + h
    BY <2>3, OutstandingIs DEF Total
  <2>8. Outstanding' = q + (t + h) + 0
    BY <1>2, <1>3, <2>3, <2>5, <2>6, OutstandingIs DEF Total
  <2>9. Outstanding' = Outstanding
    BY <2>3, <2>7, <2>8
  <2>. QED  BY <1>2, <2>2, <2>9, WorkCounts
<1>. QED  BY <1>3, <1>5, <1>6, <1>7 DEF Final

\* Within a session no step cancels a phrase.
LEMMA CancelKept ==
  ASSUME DevicesInv, DevicesInv', SpentInv, ReadInv, PhraseInv, CancelInv, Races, Steps
  PROVE  CancelInv'
<1>1. ASSUME svc'.session = svc.session, hist'.refused = hist.refused,
             \/ worker' = worker \/ worker' = InvalidateRunning(worker)
             \/ worker'.cancel = "none" \/ worker'.job.kind # "final"
             \/ worker'.job = worker.job /\ worker'.cancel \in {worker.cancel, "clear"}
      PROVE  CancelInv'
  <2>1. raced => raced'
    BY <1>1 DEF Races
  <2>2. CASE worker' = worker \/ worker' = InvalidateRunning(worker)
    <3>1. worker'.job = worker.job /\ (worker.job.kind = "final" => worker'.cancel = worker.cancel)
      BY <2>2, InvalidatedJob
    <3>. QED  BY <1>1, <2>1, <3>1 DEF CancelInv, Final
  <2>. QED  BY <1>1, <2>1, <2>2 DEF CancelInv, Final
<1>2. ASSUME LoopStep PROVE CancelInv'
  BY <1>1, <1>2 DEF LoopStep
<1>3. ASSUME NEW n, AcceptStep(n) PROVE CancelInv'
  BY <1>1, <1>3 DEF AcceptStep
<1>4. CASE StopEnd \/ QuitPut \/ QuitEnd \/ CaptureFailedEnd \/ (Finish /\ svc.capture # 0) \/ DrainEnd \/ Shows
           \/ RestoreListening \/ (Prepared /\ Current /\ svc.active) \/ QueueAudio
           \/ ((Overloaded \/ (RecognitionFailed /\ reading # NoRead)) /\ Current)
  BY <1>2, <1>4, JoinsAre, FinishIs, DrainEndIs, ShowsAre, RestoreIs, PreparedIs, DrainIs, QueueAudioIs
<1>5. CASE FinishEnd \/ QueueAudioPut
  BY <1>2, <1>3, <1>5, FinishEndIs, QueueAudioPutIs
<1>6. CASE RecognitionFinished /\ reading # NoRead /\ Current /\ Head(idle).arg.text # "stop"
  BY <1>1, <1>6, FinishedIs
<1>7. CASE Speaker \/ CaptureErrors \/ QueueAudioNotify
  BY <1>1, <1>7, StreamIs DEF StreamStep
<1>8. CASE QueuePartial
  BY <1>1, <1>8, QueuePartialKeeps
<1>9. CASE WorkerGet \/ WorkerRegister \/ WorkerPrepare \/ WorkerVad \/ WorkerPublish \/ WorkerRun
  <2>1. svc'.session = svc.session /\ hist'.refused = hist.refused
    BY <1>9, WorkIs DEF Worker, WorkStep
  <2>2. NoJob.kind = "none" /\ Idle(worker).job = NoJob
    BY NumbersAre, WorkerIs
  <2>3. CASE WorkerGet
    BY <1>1, <2>1, <2>3, GetIs
  <2>4. CASE WorkerRegister \/ WorkerPrepare \/ WorkerVad \/ WorkerPublish
    BY <1>1, <2>1, <2>2, <2>4, PassIs
  <2>5. CASE WorkerRun
    BY <1>1, <2>1, <2>2, <2>5, RunIs
  <2>. QED  BY <1>9, <2>3, <2>4, <2>5
<1>. QED  BY <1>4, <1>5, <1>6, <1>7, <1>8, <1>9 DEF Steps

\* Every step keeps the count.
LEMMA CountsKept ==
  ASSUME DevicesInv, DevicesInv', SpentInv, ReadInv, PhraseInv, PhraseInv', CountInv, CancelInv, Races, Turn
  PROVE  CountInv' /\ CancelInv'
<1>1. EndStep \/ RefusedStart \/ Steps
  BY StepsAre
<1>2. CASE EndStep
  BY <1>2, CountEnded
<1>3. CASE RefusedStart
  BY <1>3, CountRefused
<1>4. CASE Steps
  BY <1>4, CancelKept, LoopCounts, ResultsCount, AcceptCounts, StreamCounts, GetCounts, PassCounts, RunCounts DEF Steps
<1>. QED  BY <1>1, <1>2, <1>3, <1>4

-----------------------------------------------------------------------------
(* Pending is outstanding, and transcripts advance *)

\* The invariant of the phrases.
VoiceInv == DevicesInv /\ SpentInv /\ ReadInv /\ PhraseInv /\ CountInv /\ CancelInv

\* The service starts with nothing spoken.
LEMMA VoiceBegins == VoiceInit => VoiceInv
<1>. SUFFICES ASSUME VoiceInit PROVE VoiceInv
  OBVIOUS
<1>1. DevicesInv /\ SpentInv /\ ReadInv
  BY DevicesBegin
<1>2. /\ idle = <<>> /\ mainpc = "ready"
      /\ queue = [finals |-> <<>>, partial |-> NoJob, quit |-> FALSE]
      /\ worker = [pc |-> "get", job |-> NoJob, cancel |-> "none"]
      /\ cap = [pc |-> "off", speaking |-> FALSE, phrase |-> 0, previews |-> 0, session |-> 0]
      /\ svc.session = 0 /\ svc.capture = 0 /\ svc.active = FALSE /\ svc.pending = 0
      /\ svc.floor = 0 /\ svc.generation = 0 /\ svc.state = "idle"
  BY DEF VoiceInit
<1>3. /\ IsHistory(hist) /\ hist.delivered = 0 /\ hist.accepted = 0 /\ hist.ended = 0 /\ hist.refused = FALSE
  BY DEF VoiceInit, IsHistory
<1>4. NoJob.kind = "none" /\ DOMAIN <<>> = {} /\ Range(<<>>) = {}
  BY NumbersAre, <1>1, JobsHeld
<1>5. WorkerInv /\ StreamInv /\ ~Uttered
  BY <1>2, <1>3, <1>4 DEF WorkerInv, StreamInv, Busy, Uttered, Final
<1>6. OrderInv
  <2>1. Progress(0, 0, 0)
    BY <1>2, <1>3, <1>4, <1>5 DEF Progress, TextsIn, FinalsIn, Final
  <2>2. TextsRise(idle, svc.session) /\ FinalsRise(queue.finals, svc.session)
    BY <1>2, <1>4 DEF TextsRise, FinalsRise
  <2>3. \E told, heard, taken \in Nat : Progress(told, heard, taken)
    BY <2>1
  <2>. QED  BY <1>2, <1>3, <2>2, <2>3 DEF OrderInv
<1>7. PreviewInv
  BY <1>2, <1>4 DEF PreviewInv, Fresh
<1>8. Outstanding = 0
  <2>1. /\ <<>> \in Seq(Jobs) /\ <<>> \in Seq(Callbacks) /\ NoJob \in Jobs /\ 0 \in Nat
    BY <1>1, NumbersAre
  <2>2. ~Phrases(<<>>, 0) /\ ~Final(NoJob, 0) /\ \A i \in DOMAIN <<>> : ~Outcome(<<>>[i], 0)
    BY <1>4, <2>1, PhrasesOf DEF Final
  <2>3. Total(<<>>, <<>>, NoJob, 0) = 0
    BY <2>1, <2>2, TotalIs
  <2>. QED  BY <1>1, <1>2, <2>3, OutstandingIs
<1>9. CountInv
  <2>1. Counted = 0
    <3>1. cap.pc = "off"
      BY <1>2
    <3>2. BeingPut = 0
      BY <3>1 DEF BeingPut
    <3>. QED  BY <1>2, <3>2 DEF Counted
  <2>2. ~Preparing /\ cap.pc \notin {"put", "counted"}
    BY <1>2 DEF Preparing
  <2>. QED  BY <1>2, <1>3, <1>8, <2>1, <2>2 DEF CountInv
<1>10. CancelInv
  BY <1>2, <1>4 DEF CancelInv, Final
<1>. QED  BY <1>1, <1>3, <1>5, <1>6, <1>7, <1>9, <1>10 DEF VoiceInv, PhraseInv

\* Every step keeps it.
LEMMA VoiceKept == VoiceInv /\ [VoiceNext]_vars => VoiceInv'
<1>. SUFFICES ASSUME VoiceInv, [VoiceNext]_vars PROVE VoiceInv'
  OBVIOUS
<1>1. DevicesInv' /\ SpentInv' /\ ReadInv'
  BY DevicesNext DEF VoiceInv
<1>2. (Turn /\ Races) \/ (Untouched /\ raced' = raced)
  BY TurnsAre DEF Turn, Races, SameSession, vars, Untouched
<1>3. CASE Turn /\ Races
  <2>1. PhraseInv'
    BY <1>1, <1>3, PhrasesKept DEF VoiceInv
  <2>2. CountInv' /\ CancelInv'
    BY <1>1, <1>3, <2>1, CountsKept DEF VoiceInv
  <2>. QED  BY <1>1, <2>1, <2>2 DEF VoiceInv
<1>4. CASE Untouched /\ raced' = raced
  <2>1. /\ svc' = svc /\ mainpc' = mainpc /\ idle' = idle /\ queue' = queue /\ worker' = worker
        /\ vads' = vads /\ cap' = cap /\ hist' = hist
    BY <1>4 DEF Untouched
  <2>2. PhraseInv'
    <3>1. (Uttered' <=> Uttered) /\ (Busy' <=> Busy) /\ \A j : Fresh(j)' <=> Fresh(j)
      BY <2>1 DEF Uttered, Busy, Fresh
    <3>2. \A t, h, k : Progress(t, h, k)' <=> Progress(t, h, k)
      BY <2>1, <3>1 DEF Progress
    <3>3. WorkerInv' /\ StreamInv' /\ OrderInv'
      BY <2>1, <3>1, <3>2 DEF VoiceInv, PhraseInv, WorkerInv, StreamInv, OrderInv
    <3>4. PreviewInv'
      BY <2>1, <3>1 DEF VoiceInv, PhraseInv, PreviewInv, Fresh
    <3>. QED  BY <2>1, <3>3, <3>4 DEF VoiceInv, PhraseInv
  <2>3. CountInv'
    <3>1. Outstanding' = Outstanding
      BY <2>1 DEF Outstanding
    <3>2. (Silent' <=> Silent) /\ (Unheard' <=> Unheard) /\ (Preparing' <=> Preparing)
      BY <2>1 DEF Silent, Unheard, Preparing
    <3>3. (Dead' <=> Dead) /\ Counted' = Counted
      BY <2>1, <3>2 DEF Dead, Counted, BeingPut
    <3>. QED  BY <1>4, <2>1, <3>1, <3>2, <3>3 DEF VoiceInv, CountInv
  <2>4. CancelInv'
    BY <1>4, <2>1 DEF VoiceInv, CancelInv
  <2>. QED  BY <1>1, <2>2, <2>3, <2>4 DEF VoiceInv
<1>. QED  BY <1>2, <1>3, <1>4

\* pending, which decides between finishing and idle and between recognizing and
\* listening, is the number of accepted phrases of this session whose result the
\* main loop has not dispatched, whatever _queue_audio's count, its put and its
\* taking back, the recognition thread, the load and the store of a result's
\* handler, finish and the ends of sessions do in between. The property names the
\* two exceptions: a start that is refused while phrases are pending, and the rest
\* of a session in which the streaming thread changed pending between a handler's
\* load and its store.
THEOREM PendingAlwaysOutstanding == VoiceSpec => []PendingIsOutstanding
<1>1. VoiceInv => PendingIsOutstanding
  <2>. SUFFICES ASSUME VoiceInv, mainpc = "ready", ~raced,
                       (svc.capture # 0 /\ svc.active) \/ (svc.state = "finishing" /\ ~hist.refused)
                PROVE  svc.pending = Outstanding + BeingPut
    BY DEF PendingIsOutstanding
  <2>1. Counted = Outstanding
    BY DEF VoiceInv, CountInv, Preparing, Dead
  <2>2. svc.pending \in Int /\ BeingPut \in Int /\ Outstanding \in Nat
    BY NumbersAre, OutstandingIs, TotalIs DEF VoiceInv, BeingPut
  <2>. QED  BY <2>1, <2>2 DEF Counted
<1>. QED  BY <1>1, VoiceBegins, VoiceKept, PTL DEF VoiceSpec

\* Only the two callbacks that publish a Transcript change what is shown.
LEMMA ShownBy ==
  ASSUME IsHistory(hist), Turn \/ Untouched
  PROVE  \/ hist'.shown = hist.shown \/ PartialFinished
         \/ RecognitionFinished /\ Current /\ Head(idle).arg.text # "stop"
<1>1. /\ [hist EXCEPT !.refused = FALSE, !.ended = cap.phrase].shown = hist.shown
      /\ [Failed(hist) EXCEPT !.refused = FALSE, !.ended = cap.phrase].shown = hist.shown
      /\ Failed(hist).shown = hist.shown
      /\ [Failed(hist) EXCEPT !.refused = svc.pending # 0 \/ @].shown = hist.shown
      /\ [hist EXCEPT !.accepted = IF Flushes THEN cap.phrase ELSE @].shown = hist.shown
      /\ [hist EXCEPT !.accepted = cap.phrase].shown = hist.shown
  BY DEF IsHistory, Failed
<1>2. ASSUME NEW s, NEW b \in BOOLEAN, StartBody(s, b) PROVE hist'.shown = hist.shown
  BY <1>1, <1>2 DEF StartBody
<1>3. ASSUME NEW b \in BOOLEAN, StartTestBody(b) PROVE hist'.shown = hist.shown
  BY <1>1, <1>3 DEF StartTestBody
<1>4. CASE Calls
  <2>1. ASSUME NEW n, StopBegin(n) PROVE hist'.shown = hist.shown
    BY <1>1, <2>1 DEF StopBegin, EndSession
  <2>2. CASE Start
    BY <1>2, <2>1, <2>2 DEF Start
  <2>3. CASE Stop \/ StopTest
    BY <2>1, <2>3 DEF Stop, StopTest
  <2>4. CASE Finish
    BY <2>1, <2>4 DEF Finish
  <2>5. CASE StartTest
    BY <1>3, <2>1, <2>5 DEF StartTest
  <2>6. CASE Quit
    BY <1>1, <2>6 DEF Quit, QuitBegin, EndSession
  <2>. QED  BY <1>4, <2>2, <2>3, <2>4, <2>5, <2>6 DEF Calls
<1>5. CASE MainLoop \/ Results
  <2>1. CASE StopEnd \/ QuitPut \/ QuitEnd \/ CaptureFailedEnd \/ DrainEnd \/ PreparationState \/ SetSessionState
             \/ NoSpeech \/ RestoreListening
    BY <2>1 DEF StopEnd, QuitPut, QuitEnd, CaptureFailedEnd, DrainEnd, PreparationState, SetSessionState,
                NoSpeech, RestoreListening
  <2>2. CASE StartAfterTest
    BY <1>2, <2>2 DEF StartAfterTest
  <2>3. CASE StartTestAfterStop
    BY <1>3, <2>3 DEF StartTestAfterStop
  <2>4. CASE FinishEnd
    BY <1>1, <2>4 DEF FinishEnd
  <2>5. CASE Prepared \/ PreparedFails
    BY <1>1, <2>5 DEF Prepared, PreparedFails
  <2>6. CASE CaptureFailed
    BY <1>1, <2>6 DEF CaptureFailed, Drop
  <2>7. CASE RecognitionFailed \/ Overloaded
    BY <2>7 DEF RecognitionFailed, Overloaded, Drop
  <2>8. CASE RecognitionFinished /\ (~Current \/ Head(idle).arg.text = "stop")
    BY <1>1, <2>8 DEF RecognitionFinished, EndSession, Drop
  <2>. QED  BY <1>5, <2>1, <2>2, <2>3, <2>4, <2>5, <2>6, <2>7, <2>8 DEF MainLoop, Results
<1>6. CASE Speaker \/ CaptureErrors \/ CaptureThread
  BY <1>1, <1>6 DEF Speaker, Onset, PhraseComplete, PartialDue, NobodySpeaks, CaptureErrors, CaptureThread,
                    QueueAudio, QueueAudioPut, QueueAudioNotify, QueuePartial
<1>7. CASE Worker
  BY <1>1, <1>7 DEF Worker, WorkerGet, WorkerRegister, WorkerPrepare, WorkerVad, WorkerPublish, WorkerRun, Transcribe
<1>. QED  BY <1>4, <1>5, <1>6, <1>7 DEF Turn, StaleResult, Untouched

\* Texts are shown in the order they were spoken, nothing of a session that ended is
\* shown afterwards, and no preview of a phrase that was already accepted: the
\* checks of _partial_finished and _recognition_finished, the floor that
\* _invalidate_partials raises and the session numbers are enough, whatever was
\* superseded, cancelled or late.
THEOREM TranscriptsAlwaysAdvance == VoiceSpec => TranscriptsAdvance
<1>. DEFINE Advances == hist'.shown # hist.shown =>
                          /\ hist'.shown.phrase > hist.delivered
                          /\ hist'.shown.phrase > hist.ended
                          /\ hist'.shown.final \/ hist'.shown.phrase > hist.accepted
<1>1. VoiceInv /\ VoiceInv' /\ [VoiceNext]_vars => [Advances]_vars
  <2>. SUFFICES ASSUME VoiceInv, VoiceInv', VoiceNext PROVE Advances
    OBVIOUS
  <2>1. /\ DevicesInv /\ DevicesInv' /\ ReadInv /\ PhraseInv /\ IsHistory(hist) /\ idle \in Seq(Callbacks)
    BY NumbersAre DEF VoiceInv, PhraseInv
  <2>2. CASE PartialFinished
    <3>1. /\ idle # <<>> /\ Head(idle).fn = "partial"
          /\ hist' = IF PreviewIsValid(Head(idle).arg)
                     THEN [hist EXCEPT !.shown = [final |-> FALSE, phrase |-> Head(idle).arg.phrase]]
                     ELSE hist
      BY <2>2 DEF PartialFinished, Dispatch
    <3>2. CASE PreviewIsValid(Head(idle).arg)
      <4>1. Head(idle) \in Range(idle)
        BY <2>1, <3>1, CallbacksHeld
      <4>2. PICK j \in Jobs : j = Head(idle).arg /\ j.kind = "partial" /\ Fresh(j)
        BY <2>1, <3>1, <4>1 DEF PhraseInv, PreviewInv
      <4>3. j.phrase > hist.accepted /\ j.phrase > hist.ended /\ j.phrase \in Nat
        BY <3>2, <4>2 DEF Fresh, PreviewIsValid, Jobs
      <4>4. hist.delivered <= hist.accepted /\ hist.delivered \in Nat /\ hist.accepted \in Nat
        BY <2>1 DEF PhraseInv, OrderInv, IsHistory
      <4>5. hist'.shown = [final |-> FALSE, phrase |-> j.phrase]
        BY <2>1, <3>1, <3>2, <4>2 DEF IsHistory
      <4>6. hist'.shown.phrase = j.phrase
        BY <4>5
      <4>. QED  BY <4>3, <4>4, <4>6
    <3>. QED  BY <3>1, <3>2
  <2>3. CASE RecognitionFinished /\ Current /\ Head(idle).arg.text # "stop"
    <3>1. \/ hist' = hist
          \/ hist'.shown = [final |-> TRUE, phrase |-> Head(idle).arg.phrase]
      BY <2>1, <2>3, FinishedIs
    <3>2. Head(idle).arg.phrase > hist.delivered /\ Head(idle).arg.phrase > hist.ended
      BY <2>1, <2>3, FinishedKeeps
    <3>. QED  BY <3>1, <3>2
  <2>4. Turn \/ Untouched
    BY TurnsAre DEF Turn
  <2>. QED  BY <2>1, <2>2, <2>3, <2>4, ShownBy
<1>. QED  BY <1>1, VoiceBegins, VoiceKept, PTL DEF VoiceSpec, TranscriptsAdvance
=============================================================================
