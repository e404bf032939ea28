--------------------------- MODULE JobQueue_proofs ---------------------------
(***************************************************************************)
(* What run_parallel promises of its queue, for any number of targets and  *)
(* threads and any bound on the attempts.                                  *)
(***************************************************************************)
EXTENDS JobQueue, SequencesExt, FiniteSetTheorems, TLAPS

\* Taking the head of a queue without duplicates removes that item only.
LEMMA TailOfDistinct ==
  ASSUME NEW S, NEW s \in Seq(S), s # <<>>, Distinct(s)
  PROVE  /\ Tail(s) \in Seq(S) /\ Head(s) \in S /\ Distinct(Tail(s))
         /\ Head(s) \in Elements(s)
         /\ Elements(Tail(s)) = Elements(s) \ {Head(s)}
<1>1. /\ Len(s) \in Nat \ {0} /\ DOMAIN s = 1 .. Len(s) /\ Head(s) = s[1]
  OBVIOUS
<1>2. /\ Tail(s) \in Seq(S) /\ Len(Tail(s)) = Len(s) - 1
      /\ \A i \in 1 .. (Len(s) - 1) : Tail(s)[i] = s[i + 1]
  OBVIOUS
<1>3. DOMAIN Tail(s) = 1 .. (Len(s) - 1)
  BY <1>1, <1>2
<1>4. Head(s) \in S /\ Head(s) \in Elements(s)
  BY <1>1 DEF Elements
<1>5. Distinct(Tail(s))
  <2>. SUFFICES ASSUME NEW i \in DOMAIN Tail(s), NEW j \in DOMAIN Tail(s), Tail(s)[i] = Tail(s)[j]
                PROVE  i = j
    BY DEF Distinct
  <2>1. i + 1 \in DOMAIN s /\ j + 1 \in DOMAIN s /\ s[i + 1] = s[j + 1]
    BY <1>1, <1>2, <1>3
  <2>. QED  BY <2>1, <1>1, <1>3 DEF Distinct
<1>6. ASSUME NEW e \in Elements(Tail(s)) PROVE e \in Elements(s) /\ e # Head(s)
  <2>1. PICK i \in DOMAIN Tail(s) : e = Tail(s)[i]
    BY DEF Elements
  <2>2. i + 1 \in DOMAIN s /\ e = s[i + 1] /\ i + 1 # 1 /\ 1 \in DOMAIN s
    BY <2>1, <1>1, <1>2, <1>3
  <2>. QED  BY <2>2, <1>1 DEF Elements, Distinct
<1>7. ASSUME NEW e \in Elements(s), e # Head(s) PROVE e \in Elements(Tail(s))
  <2>1. PICK i \in DOMAIN s : e = s[i]
    BY DEF Elements
  <2>2. i - 1 \in DOMAIN Tail(s) /\ Tail(s)[i - 1] = e
    BY <2>1, <1>1, <1>2, <1>3, <1>7
  <2>. QED  BY <2>2 DEF Elements
<1>. QED  BY <1>2, <1>4, <1>5, <1>6, <1>7

\* Requeueing an item that is not queued adds that item only.
LEMMA AppendToDistinct ==
  ASSUME NEW S, NEW s \in Seq(S), NEW e \in S, Distinct(s), e \notin Elements(s)
  PROVE  /\ Append(s, e) \in Seq(S) /\ Distinct(Append(s, e))
         /\ Elements(Append(s, e)) = Elements(s) \cup {e}
<1>1. /\ Len(s) \in Nat /\ DOMAIN s = 1 .. Len(s)
      /\ Append(s, e) \in Seq(S) /\ DOMAIN Append(s, e) = 1 .. (Len(s) + 1)
  OBVIOUS
<1>2. /\ \A i \in DOMAIN s : Append(s, e)[i] = s[i]
      /\ Append(s, e)[Len(s) + 1] = e
  BY <1>1
<1>3. Distinct(Append(s, e))
  <2>. SUFFICES ASSUME NEW i \in 1 .. (Len(s) + 1), NEW j \in 1 .. (Len(s) + 1),
                       Append(s, e)[i] = Append(s, e)[j]
                PROVE  i = j
    BY <1>1 DEF Distinct
  <2>1. CASE i \in DOMAIN s /\ j \in DOMAIN s
    BY <2>1, <1>2 DEF Distinct
  <2>2. CASE i \in DOMAIN s /\ j = Len(s) + 1
    BY <2>2, <1>2 DEF Elements
  <2>3. CASE i = Len(s) + 1 /\ j \in DOMAIN s
    BY <2>3, <1>2 DEF Elements
  <2>4. CASE i = Len(s) + 1 /\ j = Len(s) + 1
    BY <2>4
  <2>. QED  BY <2>1, <2>2, <2>3, <2>4, <1>1
<1>4. Elements(Append(s, e)) = Elements(s) \cup {e}
  <2>1. ASSUME NEW x \in Elements(Append(s, e)) PROVE x \in Elements(s) \cup {e}
    <3>1. PICK i \in 1 .. (Len(s) + 1) : x = Append(s, e)[i]
      BY <1>1 DEF Elements
    <3>2. i \in DOMAIN s \/ i = Len(s) + 1
      BY <1>1
    <3>. QED  BY <3>1, <3>2, <1>2 DEF Elements
  <2>2. ASSUME NEW x \in Elements(s) PROVE x \in Elements(Append(s, e))
    <3>1. PICK i \in DOMAIN s : x = s[i]
      BY DEF Elements
    <3>2. i \in DOMAIN Append(s, e) /\ Append(s, e)[i] = x
      BY <3>1, <1>1, <1>2
    <3>. QED  BY <3>2 DEF Elements
  <2>3. e \in Elements(Append(s, e))
    BY <1>1, <1>2 DEF Elements
  <2>. QED  BY <2>1, <2>2, <2>3
<1>. QED  BY <1>1, <1>3, <1>4

\* The list of a finite plan holds each of its targets once.
LEMMA ListedOnce ==
  ASSUME NEW S, IsFiniteSet(S)
  PROVE  /\ SetToSeq(S) \in Seq(S) /\ Distinct(SetToSeq(S)) /\ Elements(SetToSeq(S)) = S
<1>. DEFINE n == Cardinality(S)
            q == SetToSeq(S)
<1>1. n \in Nat /\ ExistsBijection(1 .. n, S)
  BY FS_CardinalityType
<1>2. \E f \in [1 .. n -> S] : IsInjective(f)
  BY <1>1 DEF ExistsBijection, Bijection, Injection
<1>3. q \in [1 .. n -> S] /\ IsInjective(q)
  BY <1>2 DEF SetToSeq
<1>4. q \in Seq(S) /\ Distinct(q)
  BY <1>1, <1>3 DEF IsInjective, Distinct
<1>5. Elements(q) = S
  <2>1. Elements(q) \subseteq S /\ q \in [1 .. n -> Elements(q)]
    BY <1>3 DEF Elements
  <2>2. q \in Bijection(1 .. n, Elements(q))
    BY <1>3, <2>1 DEF Bijection, Injection, Surjection, IsInjective, Elements
  <2>3. IsFiniteSet(1 .. n) /\ Cardinality(1 .. n) = n
    BY <1>1, FS_Interval
  <2>4. Cardinality(Elements(q)) = n
    BY <2>2, <2>3, FS_Bijection DEF ExistsBijection
  <2>. QED  BY <2>1, <2>4, FS_Subset
<1>. QED  BY <1>4, <1>5

-----------------------------------------------------------------------------
\* What the threads hold: only targets of the run that may still be tried, and
\* a crash only after the last attempt.
OwnInv ==
  /\ Elements(pending) \subseteq items
  /\ \A t \in Elements(pending) : attempts[t] < MAX_ATTEMPTS_PER_TARGET
  /\ \A w \in Holders : witem[w] \in items
  /\ \A w \in Workers : wstate[w] = "record" =>
       /\ wresult[w] \in Results
       /\ wresult[w] = Crash => attempts[witem[w]] = MAX_ATTEMPTS_PER_TARGET

IInv == QueueIsSound /\ OwnInv

\* The threads are finitely many, so the set of those that hold an item is.
LEMMA HoldersFinite == IsFiniteSet(Holders) /\ Cardinality(Holders) \in Nat
<1>1. IsFiniteSet(Holders)
  BY WorkersAssumption, FS_Subset DEF Holders
<1>. QED  BY <1>1, FS_CardinalityType

\* A thread that takes an item joins the holders.
LEMMA HoldersGrow ==
  ASSUME TypeOK, NEW w \in Workers, wstate[w] = "take",
         wstate' = [wstate EXCEPT ![w] = "building"]
  PROVE  /\ Holders' = Holders \cup {w} /\ w \notin Holders
         /\ Cardinality(Holders') = Cardinality(Holders) + 1
<1>1. Holders' = Holders \cup {w} /\ w \notin Holders
  BY DEF TypeOK, Holders, Holding
<1>2. Cardinality(Holders \cup {w}) = Cardinality(Holders) + 1
  BY <1>1, HoldersFinite, FS_AddElement
<1>. QED  BY <1>1, <1>2

\* A thread that requeues or records its item leaves the holders.
LEMMA HoldersShrink ==
  ASSUME TypeOK, NEW w \in Workers, wstate[w] \in Holding,
         NEW s \in {"take", "publish"}, wstate' = [wstate EXCEPT ![w] = s]
  PROVE  /\ Holders' = Holders \ {w} /\ w \in Holders
         /\ Cardinality(Holders') = Cardinality(Holders) - 1
<1>1. Holders' = Holders \ {w} /\ w \in Holders
  BY DEF TypeOK, Holders, Holding
<1>2. Cardinality(Holders \ {w}) = Cardinality(Holders) - 1
  BY <1>1, HoldersFinite, FS_RemoveElement
<1>. QED  BY <1>1, <1>2

\* The other steps of a thread leave the holders as they are.
LEMMA HoldersStay ==
  ASSUME TypeOK, NEW w \in Workers, NEW s \in WorkerStates,
         wstate' = [wstate EXCEPT ![w] = s], wstate[w] \in Holding <=> s \in Holding
  PROVE  Holders' = Holders
BY DEF TypeOK, Holders

\* take hands the head of the queue to a thread.
LEMMA TakeSound ==
  ASSUME IInv, NEW w \in Workers, Take(w)
  PROVE  IInv'
<1>. DEFINE h == Head(pending)
<1>. USE AttemptsAssumption
<1>1. TypeOK /\ InFlightCounted /\ TargetsConserved /\ LeavesOnlyWhenDrained /\ CrashOnlyAfterRetries /\ OwnInv
  BY DEF IInv, QueueIsSound
<1>2. /\ pending' \in Seq(Targets) /\ h \in Targets /\ Distinct(pending')
      /\ h \in Elements(pending) /\ Elements(pending') = Elements(pending) \ {h}
  BY <1>1, TailOfDistinct DEF TypeOK, TargetsConserved, Take
<1>3. /\ Holders' = Holders \cup {w} /\ w \notin Holders
      /\ Cardinality(Holders') = Cardinality(Holders) + 1
  BY <1>1, HoldersGrow DEF Take
<1>4. h \in items /\ attempts[h] < MAX_ATTEMPTS_PER_TARGET /\ results[h] = NoResult
  BY <1>1, <1>2 DEF OwnInv, TargetsConserved
<1>5. /\ attempts' = [attempts EXCEPT ![h] = @ + 1] /\ items' = items /\ results' = results
      /\ witem' = [witem EXCEPT ![w] = h] /\ wresult' = wresult
      /\ wstate' = [wstate EXCEPT ![w] = "building"] /\ inFlight' = inFlight + 1
  BY DEF Take
<1>6. TypeOK'
  <2>1. attempts' \in [Targets -> 0 .. MAX_ATTEMPTS_PER_TARGET] /\ inFlight' \in Nat
    BY <1>1, <1>2, <1>4, <1>5 DEF TypeOK
  <2>2. witem' \in [Workers -> Targets \cup {NoTarget}] /\ wstate' \in [Workers -> WorkerStates]
    BY <1>1, <1>2, <1>5 DEF TypeOK, WorkerStates, Holding
  <2>. QED  BY <1>1, <1>2, <1>5, <2>1, <2>2 DEF TypeOK
<1>7. InFlightCounted'
  BY <1>1, <1>3, <1>5 DEF InFlightCounted
<1>8. /\ \A v \in Holders : witem'[v] = witem[v]
      /\ witem'[w] = h
      /\ \A v \in Holders : witem[v] # h
  BY <1>1, <1>2, <1>3, <1>5 DEF TypeOK, TargetsConserved
<1>9. TargetsConserved'
  <2>1. \A t \in items' :
          \/ t \in Elements(pending') /\ results'[t] = NoResult
          \/ /\ t \notin Elements(pending')
             /\ \/ results'[t] # NoResult
                \/ \E v \in Holders' : witem'[v] = t
    BY <1>1, <1>2, <1>3, <1>5, <1>8 DEF TargetsConserved
  <2>2. \A u, v \in Holders' : witem'[u] = witem'[v] => u = v
    BY <1>1, <1>3, <1>8 DEF TargetsConserved
  <2>3. \A v \in Holders' : results'[witem'[v]] = NoResult /\ witem'[v] \notin Elements(pending')
    BY <1>1, <1>2, <1>3, <1>4, <1>5, <1>8 DEF TargetsConserved
  <2>. QED  BY <1>2, <2>1, <2>2, <2>3 DEF TargetsConserved
<1>10. LeavesOnlyWhenDrained'
  BY <1>1, <1>4, <1>5 DEF LeavesOnlyWhenDrained, TypeOK
<1>11. CrashOnlyAfterRetries'
  <2>1. NoResult # Crash
    BY DEF NoResult, Crash
  <2>. QED  BY <1>1, <1>4, <1>5, <2>1 DEF CrashOnlyAfterRetries, TypeOK
<1>12. OwnInv'
  <2>1. Elements(pending') \subseteq items' /\ \A v \in Holders' : witem'[v] \in items'
    BY <1>1, <1>2, <1>3, <1>4, <1>5, <1>8 DEF OwnInv
  <2>2. \A t \in Elements(pending') : attempts'[t] < MAX_ATTEMPTS_PER_TARGET
    <3>. SUFFICES ASSUME NEW t \in Elements(pending') PROVE attempts'[t] < MAX_ATTEMPTS_PER_TARGET
      OBVIOUS
    <3>1. t # h /\ t \in Targets /\ t \in Elements(pending)
      BY <1>1, <1>2 DEF OwnInv, TypeOK
    <3>. QED  BY <3>1, <1>1, <1>5 DEF OwnInv, TypeOK
  <2>3. ASSUME NEW v \in Workers, wstate'[v] = "record"
        PROVE  /\ wresult'[v] \in Results
               /\ wresult'[v] = Crash => attempts'[witem'[v]] = MAX_ATTEMPTS_PER_TARGET
    <3>1. v # w /\ wstate[v] = "record" /\ v \in Holders
      BY <1>1, <1>5, <2>3 DEF TypeOK, Holders, Holding
    <3>2. witem'[v] = witem[v] /\ witem[v] # h /\ witem[v] \in Targets
      BY <1>1, <1>8, <3>1 DEF OwnInv, TypeOK
    <3>3. attempts'[witem'[v]] = attempts[witem[v]]
      BY <1>1, <1>5, <3>2 DEF TypeOK
    <3>. QED  BY <1>1, <1>5, <3>1, <3>3 DEF OwnInv
  <2>. QED  BY <2>1, <2>2, <2>3 DEF OwnInv
<1>. QED  BY <1>6, <1>7, <1>9, <1>10, <1>11, <1>12 DEF IInv, QueueIsSound

\* A thread leaves its loop only when nobody holds an item that may come back.
LEMMA TakeNoneSound ==
  ASSUME IInv, NEW w \in Workers, TakeNone(w)
  PROVE  IInv'
<1>1. TypeOK /\ InFlightCounted /\ TargetsConserved /\ LeavesOnlyWhenDrained /\ CrashOnlyAfterRetries /\ OwnInv
  BY DEF IInv, QueueIsSound
<1>2. /\ wstate[w] = "take" /\ wstate' = [wstate EXCEPT ![w] = "done"]
      /\ UNCHANGED <<items, pending, inFlight, attempts, results, witem, wresult>>
  BY DEF TakeNone, queueVars
<1>3. Holders' = Holders
  BY <1>1, <1>2, HoldersStay DEF WorkerStates, Holding
<1>4. Holders = {} /\ Elements(pending) = {}
  <2>1. Cardinality(Holders) = 0 /\ pending = <<>>
    BY <1>1 DEF TakeNone, Drained, InFlightCounted
  <2>2. Holders = {}
    BY <2>1, HoldersFinite, FS_EmptySet
  <2>. QED  BY <2>1, <2>2 DEF Elements
<1>5. \A t \in items : results[t] # NoResult
  BY <1>1, <1>4 DEF TargetsConserved
<1>6. TypeOK'
  BY <1>1, <1>2 DEF TypeOK, WorkerStates
<1>7. InFlightCounted' /\ TargetsConserved' /\ CrashOnlyAfterRetries'
  BY <1>1, <1>2, <1>3 DEF InFlightCounted, TargetsConserved, CrashOnlyAfterRetries
<1>8. LeavesOnlyWhenDrained'
  BY <1>2, <1>5 DEF LeavesOnlyWhenDrained
<1>9. OwnInv'
  BY <1>1, <1>2, <1>3 DEF OwnInv, TypeOK
<1>. QED  BY <1>6, <1>7, <1>8, <1>9 DEF IInv, QueueIsSound

\* An attempt that returned, or raised for the last time, becomes a result.
LEMMA ResultSound ==
  ASSUME IInv, NEW w \in Workers, NEW r \in Results, wstate[w] = "building",
         r = Crash => attempts[witem[w]] = MAX_ATTEMPTS_PER_TARGET,
         wresult' = [wresult EXCEPT ![w] = r],
         wstate' = [wstate EXCEPT ![w] = "record"],
         UNCHANGED <<queueVars, witem>>
  PROVE  IInv'
<1>1. TypeOK /\ InFlightCounted /\ TargetsConserved /\ LeavesOnlyWhenDrained /\ CrashOnlyAfterRetries /\ OwnInv
  BY DEF IInv, QueueIsSound
<1>2. UNCHANGED <<items, pending, inFlight, attempts, results, witem>>
  BY DEF queueVars
<1>3. Holders' = Holders
  BY <1>1, HoldersStay DEF WorkerStates, Holding
<1>4. TypeOK'
  BY <1>1, <1>2 DEF TypeOK, WorkerStates, Holding
<1>5. InFlightCounted' /\ TargetsConserved' /\ CrashOnlyAfterRetries'
  BY <1>1, <1>2, <1>3 DEF InFlightCounted, TargetsConserved, CrashOnlyAfterRetries
<1>6. LeavesOnlyWhenDrained'
  BY <1>1, <1>2 DEF LeavesOnlyWhenDrained, TypeOK
<1>7. OwnInv'
  BY <1>1, <1>2, <1>3 DEF OwnInv, TypeOK
<1>. QED  BY <1>4, <1>5, <1>6, <1>7 DEF IInv, QueueIsSound

\* requeue gives the item back while an attempt is left.
LEMMA RequeueSound ==
  ASSUME IInv, NEW w \in Workers, wstate[w] = "building", ~GivesUp(w), Requeue(w)
  PROVE  IInv'
<1>. DEFINE e == witem[w]
<1>. USE AttemptsAssumption
<1>1. TypeOK /\ InFlightCounted /\ TargetsConserved /\ LeavesOnlyWhenDrained /\ CrashOnlyAfterRetries /\ OwnInv
  BY DEF IInv, QueueIsSound
<1>2. /\ pending' = Append(pending, e) /\ inFlight' = inFlight - 1
      /\ wstate' = [wstate EXCEPT ![w] = "take"] /\ witem' = [witem EXCEPT ![w] = NoTarget]
      /\ UNCHANGED <<items, attempts, results, wresult>>
  BY DEF Requeue
<1>3. /\ Holders' = Holders \ {w} /\ w \in Holders
      /\ Cardinality(Holders') = Cardinality(Holders) - 1
  BY <1>1, <1>2, HoldersShrink DEF Holding
<1>4. e \in items /\ e \in Targets /\ results[e] = NoResult /\ e \notin Elements(pending)
  BY <1>1, <1>3 DEF OwnInv, TypeOK, TargetsConserved
<1>5. /\ pending' \in Seq(Targets) /\ Distinct(pending')
      /\ Elements(pending') = Elements(pending) \cup {e}
  BY <1>1, <1>2, <1>4, AppendToDistinct DEF TypeOK, TargetsConserved
<1>6. attempts[e] < MAX_ATTEMPTS_PER_TARGET
  BY <1>1, <1>4 DEF GivesUp, TypeOK
<1>7. \A v \in Holders' : v \in Holders /\ witem'[v] = witem[v] /\ witem[v] # e
  BY <1>1, <1>2, <1>3 DEF TypeOK, TargetsConserved, Holders
<1>8. TypeOK'
  <2>1. inFlight' \in Nat
    <3>1. Cardinality(Holders) # 0
      BY <1>3, HoldersFinite, FS_EmptySet
    <3>. QED  BY <1>1, <1>2, <3>1, HoldersFinite DEF InFlightCounted
  <2>. QED  BY <1>1, <1>2, <1>5, <2>1 DEF TypeOK, WorkerStates
<1>9. InFlightCounted'
  BY <1>1, <1>2, <1>3 DEF InFlightCounted
<1>10. TargetsConserved'
  <2>1. \A t \in items' :
          \/ t \in Elements(pending') /\ results'[t] = NoResult
          \/ /\ t \notin Elements(pending')
             /\ \/ results'[t] # NoResult
                \/ \E v \in Holders' : witem'[v] = t
    <3>. SUFFICES ASSUME NEW t \in items, t # e, t \notin Elements(pending), results[t] = NoResult
                  PROVE  \E v \in Holders' : witem'[v] = t
      BY <1>1, <1>2, <1>4, <1>5 DEF TargetsConserved
    <3>1. PICK v \in Holders : witem[v] = t
      BY <1>1 DEF TargetsConserved
    <3>2. v \in Holders'
      BY <1>3, <3>1
    <3>. QED  BY <3>1, <3>2, <1>7
  <2>2. \A u, v \in Holders' : witem'[u] = witem'[v] => u = v
    BY <1>1, <1>7 DEF TargetsConserved
  <2>3. \A v \in Holders' : results'[witem'[v]] = NoResult /\ witem'[v] \notin Elements(pending')
    BY <1>1, <1>2, <1>5, <1>7 DEF TargetsConserved
  <2>. QED  BY <1>5, <2>1, <2>2, <2>3 DEF TargetsConserved
<1>11. LeavesOnlyWhenDrained' /\ CrashOnlyAfterRetries'
  BY <1>1, <1>2 DEF LeavesOnlyWhenDrained, CrashOnlyAfterRetries, TypeOK
<1>12. OwnInv'
  <2>1. /\ Elements(pending') \subseteq items'
        /\ \A t \in Elements(pending') : attempts'[t] < MAX_ATTEMPTS_PER_TARGET
        /\ \A v \in Holders' : witem'[v] \in items'
    BY <1>1, <1>2, <1>4, <1>5, <1>6, <1>7 DEF OwnInv
  <2>2. ASSUME NEW v \in Workers, wstate'[v] = "record"
        PROVE  v # w /\ wstate[v] = "record" /\ witem'[v] = witem[v]
    BY <1>1, <1>2, <2>2 DEF TypeOK
  <2>. QED  BY <1>1, <1>2, <2>1, <2>2 DEF OwnInv
<1>. QED  BY <1>8, <1>9, <1>10, <1>11, <1>12 DEF IInv, QueueIsSound

\* record_result ends the ownership of the item with its result.
LEMMA RecordResultSound ==
  ASSUME IInv, NEW w \in Workers, RecordResult(w)
  PROVE  IInv'
<1>. DEFINE e == witem[w]
<1>1. TypeOK /\ InFlightCounted /\ TargetsConserved /\ LeavesOnlyWhenDrained /\ CrashOnlyAfterRetries /\ OwnInv
  BY DEF IInv, QueueIsSound
<1>2. /\ wstate[w] = "record" /\ results' = [results EXCEPT ![e] = wresult[w]]
      /\ inFlight' = inFlight - 1 /\ wstate' = [wstate EXCEPT ![w] = "publish"]
      /\ UNCHANGED <<items, pending, attempts, witem, wresult>>
  BY DEF RecordResult
<1>3. /\ Holders' = Holders \ {w} /\ w \in Holders
      /\ Cardinality(Holders') = Cardinality(Holders) - 1
  BY <1>1, <1>2, HoldersShrink DEF Holding
<1>4. e \in items /\ e \in Targets /\ e \notin Elements(pending)
  BY <1>1, <1>3 DEF OwnInv, TypeOK, TargetsConserved
<1>5. /\ wresult[w] \in Results
      /\ wresult[w] = Crash => attempts[e] = MAX_ATTEMPTS_PER_TARGET
  BY <1>1, <1>2 DEF OwnInv
<1>6. wresult[w] # NoResult
  BY <1>5, OutcomesAssumption DEF Results, Crash, NoResult
<1>7. /\ results'[e] = wresult[w]
      /\ \A t \in Targets : t # e => results'[t] = results[t]
  BY <1>1, <1>2, <1>4 DEF TypeOK
<1>8. \A v \in Holders' : v \in Holders /\ witem[v] # e /\ witem[v] \in Targets
  BY <1>1, <1>3 DEF TypeOK, TargetsConserved, OwnInv
<1>9. TypeOK'
  <2>1. inFlight' \in Nat
    <3>1. Cardinality(Holders) # 0
      BY <1>3, HoldersFinite, FS_EmptySet
    <3>. QED  BY <1>1, <1>2, <3>1, HoldersFinite DEF InFlightCounted
  <2>. QED  BY <1>1, <1>2, <1>4, <1>5, <2>1 DEF TypeOK, WorkerStates
<1>10. InFlightCounted'
  BY <1>1, <1>2, <1>3 DEF InFlightCounted
<1>11. TargetsConserved'
  <2>1. ASSUME NEW t \in items'
        PROVE  \/ t \in Elements(pending') /\ results'[t] = NoResult
               \/ /\ t \notin Elements(pending')
                  /\ \/ results'[t] # NoResult
                     \/ \E v \in Holders' : witem'[v] = t
    <3>1. CASE t = e
      BY <3>1, <1>2, <1>4, <1>6, <1>7
    <3>2. CASE t # e
      <4>1. t \in items /\ results'[t] = results[t] /\ Elements(pending') = Elements(pending)
        BY <1>1, <1>2, <1>7, <3>2 DEF TypeOK
      <4>2. ASSUME NEW v \in Holders, witem[v] = t PROVE v \in Holders' /\ witem'[v] = t
        BY <1>2, <1>3, <3>2, <4>2
      <4>. QED  BY <1>1, <4>1, <4>2 DEF TargetsConserved
    <3>. QED  BY <3>1, <3>2
  <2>2. \A u, v \in Holders' : witem'[u] = witem'[v] => u = v
    BY <1>1, <1>2, <1>8 DEF TargetsConserved
  <2>3. \A v \in Holders' : results'[witem'[v]] = NoResult /\ witem'[v] \notin Elements(pending')
    BY <1>1, <1>2, <1>7, <1>8 DEF TargetsConserved
  <2>4. Distinct(pending')
    BY <1>1, <1>2 DEF TargetsConserved
  <2>. QED  BY <2>1, <2>2, <2>3, <2>4 DEF TargetsConserved
<1>12. LeavesOnlyWhenDrained'
  <2>1. ASSUME NEW v \in Workers, wstate'[v] = "done" PROVE wstate[v] = "done"
    BY <1>1, <1>2, <2>1 DEF TypeOK
  <2>. QED  BY <1>1, <1>2, <1>6, <1>7, <2>1 DEF LeavesOnlyWhenDrained, TypeOK
<1>13. CrashOnlyAfterRetries'
  BY <1>1, <1>2, <1>4, <1>5, <1>7 DEF CrashOnlyAfterRetries
<1>14. OwnInv'
  <2>1. \A v \in Workers : wstate'[v] = "record" => wstate[v] = "record"
    BY <1>1, <1>2 DEF TypeOK
  <2>. QED  BY <1>1, <1>2, <1>8, <2>1 DEF OwnInv
<1>. QED  BY <1>9, <1>10, <1>11, <1>12, <1>13, <1>14 DEF IInv, QueueIsSound

\* What on_result does, return or raise, concerns its own thread only.
LEMMA PublishSound ==
  ASSUME IInv, NEW w \in Workers, PublishReturns(w) \/ PublishRaises(w)
  PROVE  IInv'
<1>1. TypeOK /\ InFlightCounted /\ TargetsConserved /\ LeavesOnlyWhenDrained /\ CrashOnlyAfterRetries /\ OwnInv
  BY DEF IInv, QueueIsSound
<1>2. PICK s \in {"take", "dead"} : wstate' = [wstate EXCEPT ![w] = s]
  BY DEF PublishReturns, PublishRaises
<1>3. /\ wstate[w] = "publish"
      /\ UNCHANGED <<items, pending, inFlight, attempts, results, wresult>>
      /\ witem' = witem \/ witem' = [witem EXCEPT ![w] = NoTarget]
  BY DEF PublishReturns, PublishRaises, queueVars
<1>4. Holders' = Holders
  BY <1>1, <1>2, <1>3, HoldersStay DEF WorkerStates, Holding
<1>5. \A v \in Holders : v \in Workers /\ v # w /\ witem'[v] = witem[v]
  BY <1>1, <1>3 DEF Holders, Holding, TypeOK
<1>6. TypeOK'
  BY <1>1, <1>2, <1>3 DEF TypeOK, WorkerStates
<1>7. InFlightCounted' /\ TargetsConserved' /\ CrashOnlyAfterRetries'
  BY <1>1, <1>3, <1>4, <1>5 DEF InFlightCounted, TargetsConserved, CrashOnlyAfterRetries
<1>8. LeavesOnlyWhenDrained'
  BY <1>1, <1>2, <1>3 DEF LeavesOnlyWhenDrained, TypeOK
<1>9. OwnInv'
  <2>1. \A v \in Workers : wstate'[v] = "record" => wstate[v] = "record" /\ v \in Holders
    BY <1>1, <1>2 DEF TypeOK, Holders, Holding
  <2>. QED  BY <1>1, <1>3, <1>4, <1>5, <2>1 DEF OwnInv
<1>. QED  BY <1>6, <1>7, <1>8, <1>9 DEF IInv, QueueIsSound

\* A queue on which no thread has done anything yet; without targets it may
\* also be the one nobody works on.
Fresh(queue, places) ==
  /\ items = Elements(queue) /\ pending = queue /\ inFlight = 0
  /\ attempts = [t \in Targets |-> 0]
  /\ results = [t \in Targets |-> NoResult]
  /\ wstate \in [Workers -> places]
  /\ witem = [w \in Workers |-> NoTarget]
  /\ wresult = [w \in Workers |-> NoResult]

SoundWhenFresh ==
  \A queue \in Seq(Targets), places \in {{"idle", "take"}, {"done"}} :
    Distinct(queue) /\ ("done" \in places => queue = <<>>) /\ Fresh(queue, places) => IInv

\* A queue made from a list of distinct targets is sound.
LEMMA FreshSound == SoundWhenFresh
<1>. SUFFICES ASSUME NEW queue \in Seq(Targets), NEW places \in {{"idle", "take"}, {"done"}},
                     Distinct(queue), "done" \in places => queue = <<>>, Fresh(queue, places)
              PROVE  IInv
  BY DEF SoundWhenFresh
<1>. USE AttemptsAssumption
<1>1. items = Elements(queue) /\ pending = queue
  BY DEF Fresh
<1>2. /\ inFlight = 0 /\ attempts = [t \in Targets |-> 0]
      /\ results = [t \in Targets |-> NoResult] /\ wstate \in [Workers -> places]
      /\ witem = [w \in Workers |-> NoTarget] /\ wresult = [w \in Workers |-> NoResult]
  BY DEF Fresh
<1>3. Elements(queue) \subseteq Targets /\ ("done" \in places => Elements(queue) = {})
  BY DEF Elements
<1>4. Holders = {}
  BY <1>2 DEF Holders, Holding
<1>5. TypeOK
  BY <1>1, <1>2, <1>3 DEF TypeOK, WorkerStates, Results
<1>6. InFlightCounted
  BY <1>2, <1>4, FS_EmptySet DEF InFlightCounted
<1>7. TargetsConserved
  BY <1>1, <1>2, <1>3, <1>4 DEF TargetsConserved
<1>8. LeavesOnlyWhenDrained /\ CrashOnlyAfterRetries
  BY <1>1, <1>2, <1>3 DEF LeavesOnlyWhenDrained, CrashOnlyAfterRetries, NoResult, Crash
<1>9. OwnInv
  BY <1>1, <1>2, <1>3, <1>4 DEF OwnInv
<1>. QED  BY <1>5, <1>6, <1>7, <1>8, <1>9 DEF IInv, QueueIsSound

\* The same of the queue a step makes.
LEMMA FreshSoundNext ==
  ASSUME NEW queue \in Seq(Targets), NEW places \in {{"idle", "take"}, {"done"}},
         Distinct(queue), "done" \in places => queue = <<>>, Fresh(queue, places)'
  PROVE  IInv'
<1>1. SoundWhenFresh'
  BY FreshSound, PTL
<1>. QED  BY <1>1 DEF SoundWhenFresh

\* The queue run_parallel builds from its list of distinct targets.
LEMMA InitSound == Init => IInv
<1>. SUFFICES ASSUME Init PROVE IInv
  OBVIOUS
<1>1. PICK queue \in {<<>>} \cup UNION {[1 .. n -> Targets] : n \in 1 .. Cardinality(Targets)} :
        Distinct(queue) /\ items = Elements(queue) /\ pending = queue
  BY DEF Init
<1>2. queue \in Seq(Targets)
  <2>1. ASSUME NEW n \in 1 .. Cardinality(Targets), queue \in [1 .. n -> Targets]
        PROVE  queue \in Seq(Targets)
    <3>1. n \in Nat
      OBVIOUS
    <3>. QED  BY <2>1, <3>1
  <2>2. <<>> \in Seq(Targets)
    OBVIOUS
  <2>. QED  BY <1>1, <2>1, <2>2
<1>3. Fresh(queue, {"idle", "take"})
  BY <1>1 DEF Init, Fresh, Threads
<1>. QED  BY <1>1, <1>2, <1>3, FreshSound DEF SoundWhenFresh

\* An attempt that raises is requeued, or becomes a crash after the last one.
LEMMA RaisesSound ==
  ASSUME IInv, NEW w \in Workers, BuildRaises(w)
  PROVE  IInv'
<1>1. CASE ~GivesUp(w) /\ Requeue(w)
  BY <1>1, RequeueSound DEF BuildRaises
<1>2. CASE GivesUp(w) /\ ~(~GivesUp(w) /\ Requeue(w))
  <2>1. witem[w] \in Targets
    BY DEF BuildRaises, IInv, QueueIsSound, OwnInv, TypeOK, Holders, Holding
  <2>2. attempts[witem[w]] = MAX_ATTEMPTS_PER_TARGET
    BY <1>2, <2>1, AttemptsAssumption DEF GivesUp, IInv, QueueIsSound, TypeOK
  <2>. QED  BY <1>2, <2>2, ResultSound DEF BuildRaises, Results
<1>. QED  BY <1>1, <1>2 DEF BuildRaises

\* A build that returns has a result that is not a crash.
LEMMA ReturnsSound ==
  ASSUME IInv, NEW w \in Workers, NEW outcome \in Outcomes, BuildReturns(w, outcome)
  PROVE  IInv'
<1>1. outcome \in Results /\ outcome # Crash
  BY OutcomesAssumption DEF Results
<1>. QED  BY <1>1, ResultSound DEF BuildReturns

\* A step of something else leaves the queue sound.
LEMMA QueueStutters ==
  ASSUME IInv, UNCHANGED jobVars
  PROVE  IInv'
BY DEF jobVars, queueVars, workerVars, IInv, QueueIsSound, OwnInv, TypeOK, InFlightCounted,
       TargetsConserved, LeavesOnlyWhenDrained, CrashOnlyAfterRetries, Holders

\* run_parallel: however the threads interleave, and whatever attempts raise or
\* publishing raises, no target is lost or owned twice, take lets a thread go
\* only when nothing can come back, and only a target that raised on its last
\* attempt is recorded as crashed.
THEOREM QueueAlwaysSound == Spec => []QueueIsSound
<1>1. IInv /\ [Next]_jobVars => IInv'
  <2>. SUFFICES ASSUME IInv, [Next]_jobVars PROVE IInv'
    OBVIOUS
  <2>1. CASE UNCHANGED jobVars
    BY <2>1, QueueStutters
  <2>2. ASSUME NEW w \in Workers, WorkerStep(w) PROVE IInv'
    <3>1. CASE Take(w)
      BY <3>1, TakeSound
    <3>2. CASE TakeNone(w)
      BY <3>2, TakeNoneSound
    <3>3. ASSUME NEW outcome \in Outcomes, BuildReturns(w, outcome) PROVE IInv'
      BY <3>3, ReturnsSound
    <3>4. CASE BuildRaises(w)
      BY <3>4, RaisesSound
    <3>5. CASE RecordResult(w)
      BY <3>5, RecordResultSound
    <3>6. CASE PublishReturns(w) \/ PublishRaises(w)
      BY <3>6, PublishSound
    <3>. QED  BY <2>2, <3>1, <3>2, <3>3, <3>4, <3>5, <3>6 DEF WorkerStep
  <2>. QED  BY <2>1, <2>2 DEF Next
<1>2. IInv => QueueIsSound
  BY DEF IInv
<1>. QED  BY <1>1, <1>2, InitSound, PTL DEF Spec
=============================================================================
