--------------------- MODULE RestoreCoordination_proofs ---------------------
(***************************************************************************)
(* Proofs about RestoreCoordination, for any number of concurrent calls,   *)
(* snapshots, rollbacks, package transactions, failures and kills.         *)
(*                                                                         *)
(* That a rollback and a package transaction exclude each other rests on   *)
(* the start lock: what either side has found out about the other stays    *)
(* true until it has created its own record, because only the holder of    *)
(* the lock creates one. The inductive invariant says who is where with    *)
(* the lock, and what it has found out by then.                            *)
(***************************************************************************)
EXTENDS RestoreCoordination, TLAPS

Ids == TransactionIds \cup {None}
Snaps == Snapshots \cup {None}
AnyRecord == [id : Ids, target : Snaps, fallback : Snaps, phase : Phases \cup {"none"}]
AnyPackage == [id : PackageIds \cup {None}, names : SUBSET Snapshots, phase : PackagePhases \cup {"none"}]
Ops == {"none", "schedule", "cancel", "reconcile", "delete"}
Steps == {"idle", "verify", "verifying", "fallback", "protecting", "lock", "check", "claim", "menu",
          "entry", "update", "write", "arm", "clear", "archive", "remove", "regenerate",
          "dlock", "dcheck", "dremove"}
HookSteps == {"idle", "dpkg", "lock", "begin", "stale", "create", "pre", "pre runs", "post", "post runs",
              "save", "archive pre", "archive", "rename pre", "rename"}
AnyCall == [op : Ops, pc : Steps, snap : Snaps, mine : AnyRecord]
AnyHook == [pc : HookSteps, before : BOOLEAN, after : BOOLEAN, snap : Snaps]

TypeInv ==
  /\ record \in AnyRecord
  /\ package \in AnyPackage
  /\ call \in [Callers -> AnyCall]
  /\ hook \in AnyHook
  /\ overrun \in BOOLEAN

\* Who is where the start lock is held, holds it.
LockInv ==
  /\ \A c \in Callers : call[c].pc \in {"check", "claim", "dcheck", "dremove"} => startLock = c
  /\ hook.pc \in {"begin", "stale", "create"} => startLock = Hook

\* A record has an id, and so has the copy that a call is about to write.
Writing == {"protecting", "lock", "check", "claim", "menu", "entry", "update", "write", "arm"}
NameInv ==
  /\ Pending => record.id # None
  /\ \A c \in Callers : call[c].pc \in Writing => call[c].mine.id # None

\* What each side knows of the other.
Owning == {"pre", "pre runs", "post", "post runs", "save", "archive pre", "archive", "rename pre", "rename"}
OwnerInv ==
  /\ hook.pc \in Owning => PackagePending
  /\ \A c \in Callers : call[c].pc = "claim" => ~PackagePending
  /\ ~overrun /\ hook.pc \in {"stale", "create"} => ~Pending
  /\ BoundaryHasOneOwner

IInv == TypeInv /\ LockInv /\ NameInv /\ OwnerInv

-----------------------------------------------------------------------------
\* A caller that does nothing, and one that begins cleanup_failed_schedule.
LEMMA IdleCall == Idle \in AnyCall /\ [Idle EXCEPT !.op = "schedule", !.pc = "clear"] \in AnyCall
  <1>1. NoRecord \in AnyRecord
    BY DEF NoRecord, AnyRecord, Ids, Snaps
  <1> QED BY <1>1 DEF Idle, AnyCall, Snaps, Ops, Steps

\* A booted system, with or without a rollback that early boot applied.
LEMMA InitInv == Init => IInv
  <1> SUFFICES ASSUME Init PROVE IInv
    OBVIOUS
  <1> USE DEF Init, NoRecord, NoPackage
  <1>1. record \in AnyRecord
    BY IdsAssumption DEF AnyRecord, Ids, Snaps, Phases
  <1>2. package \in AnyPackage
    BY DEF AnyPackage, PackagePhases
  <1>3. call \in [Callers -> AnyCall]
    BY IdleCall
  <1>4. hook \in AnyHook /\ overrun \in BOOLEAN
    BY DEF AnyHook, HookSteps, Snaps
  <1>5. TypeInv
    BY <1>1, <1>2, <1>3, <1>4 DEF TypeInv
  <1>6. LockInv /\ NameInv
    BY IdsAssumption DEF LockInv, NameInv, Writing, Pending, Idle
  <1>7. OwnerInv
    BY DEF OwnerInv, Owning, BoundaryHasOneOwner, Pending, PackagePending, Idle
  <1> QED BY <1>5, <1>6, <1>7 DEF IInv

\* A call that only moves on, to a place where nothing has been found out yet.
Untouched == UNCHANGED <<record, package, hook, overrun>>

\* A caller may move anywhere as long as it keeps to the lock and to what it
\* learned under it, and touches neither record.
LEMMA MoveInv ==
  ASSUME IInv, NEW c \in Callers, NEW k \in AnyCall, Untouched,
         call' = [call EXCEPT ![c] = k],
         k.pc \in Writing => k.mine.id # None,
         k.pc = "claim" => ~PackagePending,
         \/ startLock' = startLock /\ (k.pc \in {"check", "claim", "dcheck", "dremove"} => startLock = c)
         \/ startLock = c /\ startLock' = None /\ k.pc \notin {"check", "claim", "dcheck", "dremove"}
         \/ startLock = None /\ startLock' = c
  PROVE  IInv'
  <1> USE DEF IInv, Untouched
  <1>1. TypeInv'
    BY DEF TypeInv
  <1>2. \A a \in Callers : call'[a] = IF a = c THEN k ELSE call[a]
    BY DEF TypeInv
  <1>3. LockInv'
    BY <1>2, ActorsAssumption DEF LockInv
  <1>4. NameInv'
    BY <1>2 DEF NameInv, Pending
  <1>5. OwnerInv'
    BY <1>2 DEF OwnerInv, BoundaryHasOneOwner, Pending, PackagePending
  <1> QED BY <1>1, <1>3, <1>4, <1>5

\* Every call may return, with or without giving the start lock back.
LEMMA ReturnInv ==
  ASSUME IInv, NEW c \in Callers, Untouched, Return(c),
         startLock' = startLock \/ (startLock = c /\ startLock' = None)
  PROVE  IInv'
  <1>1. Idle \in AnyCall
    BY IdleCall
  <1>2. Idle.pc = "idle"
    BY DEF Idle
  <1>3. "idle" \notin Writing
    BY DEF Writing
  <1> QED BY <1>1, <1>2, <1>3, MoveInv DEF Return

\* A failed schedule may turn to cleanup_failed_schedule at any point.
LEMMA UndoInv ==
  ASSUME IInv, NEW c \in Callers, Untouched, Undo(c),
         startLock' = startLock \/ (startLock = c /\ startLock' = None)
  PROVE  IInv'
  <1> DEFINE k == [Idle EXCEPT !.op = "schedule", !.pc = "clear"]
  <1>1. k \in AnyCall
    BY IdleCall
  <1>2. k.pc = "clear"
    BY DEF Idle
  <1>3. "clear" \notin Writing
    BY DEF Writing
  <1>4. call' = [call EXCEPT ![c] = k]
    BY DEF Undo
  <1> HIDE DEF k
  <1> QED BY <1>1, <1>2, <1>3, <1>4, MoveInv

\* A call may go on to its next place.
LEMMA GotoInv ==
  ASSUME IInv, NEW c \in Callers, NEW pc \in Steps, Untouched, Goto(c, pc),
         pc \in Writing => call[c].mine.id # None,
         pc = "claim" => ~PackagePending,
         \/ startLock' = startLock /\ (pc \in {"check", "claim", "dcheck", "dremove"} => startLock = c)
         \/ startLock = c /\ startLock' = None /\ pc \notin {"check", "claim", "dcheck", "dremove"}
         \/ startLock = None /\ startLock' = c
  PROVE  IInv'
  <1> DEFINE k == [call[c] EXCEPT !.pc = pc]
  <1>1. call[c] \in AnyCall
    BY DEF IInv, TypeInv
  <1>2. k \in AnyCall /\ k.pc = pc /\ k.mine = call[c].mine
    BY <1>1 DEF AnyCall
  <1>3. call' = [call EXCEPT ![c] = k]
    BY DEF Goto, IInv, TypeInv
  <1> HIDE DEF k
  <1> QED BY <1>2, <1>3, MoveInv

-----------------------------------------------------------------------------
\* The steps of a call that leave both records alone.
LEMMA ScheduleInv == ASSUME IInv, NEW c \in Callers, NEW d \in OnRecord, Schedule(c, d) PROVE IInv'
  <1> DEFINE k == [Idle EXCEPT !.op = "schedule", !.pc = "verify", !.snap = d]
  <1>1. k \in AnyCall /\ k.pc = "verify"
    BY IdleCall DEF AnyCall, Ops, Steps, Snaps, OnRecord, Idle
  <1>2. call' = [call EXCEPT ![c] = k] /\ Untouched /\ startLock' = startLock
    BY DEF Schedule, Untouched, storeVars
  <1>3. "verify" \notin Writing
    BY DEF Writing
  <1> HIDE DEF k
  <1> QED BY <1>1, <1>2, <1>3, MoveInv

\* OperationEngine::delete begins without a lock of its own.
LEMMA DeleteInv == ASSUME IInv, NEW c \in Callers, NEW d \in OnRecord, Delete(c, d) PROVE IInv'
  <1> DEFINE k == [Idle EXCEPT !.op = "delete", !.pc = "dlock", !.snap = d]
  <1>1. k \in AnyCall /\ k.pc = "dlock"
    BY IdleCall DEF AnyCall, Ops, Steps, Snaps, OnRecord, Idle
  <1>2. call' = [call EXCEPT ![c] = k] /\ Untouched /\ startLock' = startLock
    BY DEF Delete, Untouched, storeVars
  <1>3. "dlock" \notin Writing
    BY DEF Writing
  <1> HIDE DEF k
  <1> QED BY <1>1, <1>2, <1>3, MoveInv

\* RollbackCoordinator::cancel begins by reading the record.
LEMMA CancelInv == ASSUME IInv, NEW c \in Callers, Cancel(c) PROVE IInv'
  <1> DEFINE k == [Idle EXCEPT !.op = "cancel", !.pc = "clear"]
  <1>1. k \in AnyCall /\ k.pc = "clear"
    BY IdleCall DEF AnyCall, Ops, Steps, Idle
  <1>2. call' = [call EXCEPT ![c] = k] /\ Untouched /\ startLock' = startLock
    BY DEF Cancel, Untouched, storeVars
  <1>3. "clear" \notin Writing
    BY DEF Writing
  <1> HIDE DEF k
  <1> QED BY <1>1, <1>2, <1>3, MoveInv

\* reconcile takes its copy of the record, whatever others hold.
LEMMA ReconcileInv == ASSUME IInv, NEW c \in Callers, Reconcile(c) PROVE IInv'
  <1> DEFINE copy == [record EXCEPT !.phase = "terminal"]
             k == [Idle EXCEPT !.op = "reconcile",
                               !.pc = IF record.phase = "terminal" THEN "clear" ELSE "update",
                               !.mine = copy]
  <1>1. record \in AnyRecord /\ Pending
    BY DEF IInv, TypeInv, Reconcile, Pending, NoRecord
  <1>2. copy \in AnyRecord /\ copy.id # None
    BY <1>1 DEF AnyRecord, Phases, IInv, NameInv
  <1> HIDE DEF copy
  <1>3. k \in AnyCall /\ k.pc \in {"clear", "update"} /\ k.mine = copy
    BY <1>2, IdleCall DEF AnyCall, Ops, Steps, Idle
  <1>4. call' = [call EXCEPT ![c] = k] /\ Untouched /\ startLock' = startLock
    BY DEF Reconcile, Untouched, storeVars, copy
  <1> HIDE DEF k
  <1> QED BY <1>2, <1>3, <1>4, MoveInv

\* The safety snapshot takes the operation lock, never the start lock.
LEMMA FallbackLockInv == ASSUME IInv, NEW c \in Callers, FallbackLock(c) PROVE IInv'
  <1>1. Untouched /\ startLock' = startLock
    BY DEF FallbackLock, Untouched
  <1>2. CASE Return(c)
    BY <1>1, <1>2, ReturnInv
  <1>3. CASE ~Return(c)
    <2>1. PICK d \in Snapshots, i \in TransactionIds :
            call' = [call EXCEPT ![c].pc = "protecting",
                       ![c].mine = [id |-> i, target |-> call[c].snap, fallback |-> d,
                                    phase |-> "preparing"]]
      BY <1>3 DEF FallbackLock
    <2> DEFINE new == [id |-> i, target |-> call[c].snap, fallback |-> d, phase |-> "preparing"]
               k == [call[c] EXCEPT !.pc = "protecting", !.mine = new]
    <2>2. call[c] \in AnyCall
      BY DEF IInv, TypeInv
    <2>3. new \in AnyRecord /\ new.id # None
      BY <2>2, IdsAssumption DEF AnyRecord, AnyCall, Ids, Snaps, Phases
    <2>4. call' = [call EXCEPT ![c] = k]
      BY <2>1 DEF IInv, TypeInv
    <2> HIDE DEF new
    <2>5. k \in AnyCall /\ k.pc = "protecting" /\ k.mine = new
      BY <2>2, <2>3 DEF AnyCall, Steps
    <2> HIDE DEF k
    <2> QED BY <1>1, <2>3, <2>4, <2>5, MoveInv
  <1> QED BY <1>2, <1>3

\* The check of the boot entry leads to the update or to the undoing.
LEMMA VerifyGrubEntryInv == ASSUME IInv, NEW c \in Callers, VerifyGrubEntry(c) PROVE IInv'
  <1>1. Untouched /\ startLock' = startLock
    BY DEF VerifyGrubEntry, Untouched, storeVars
  <1>2. CASE Undo(c)
    BY <1>1, <1>2, UndoInv
  <1>3. CASE ~Undo(c)
    <2> DEFINE new == [call[c].mine EXCEPT !.phase = "armed"]
               k == [call[c] EXCEPT !.pc = "update", !.mine = new]
    <2>1. call[c] \in AnyCall /\ call[c].mine.id # None
      BY DEF IInv, TypeInv, NameInv, Writing, VerifyGrubEntry
    <2>2. new \in AnyRecord /\ new.id # None
      BY <2>1 DEF AnyRecord, AnyCall, Phases
    <2>3. call' = [call EXCEPT ![c] = k]
      <3>1. call' = [call EXCEPT ![c].pc = "update", ![c].mine.phase = "armed"]
        BY <1>3 DEF VerifyGrubEntry
      <3>2. call \in [Callers -> AnyCall]
        BY DEF IInv, TypeInv
      <3> QED BY <2>1, <3>1, <3>2 DEF AnyCall, AnyRecord
    <2> HIDE DEF new
    <2>4. k \in AnyCall /\ k.pc = "update" /\ k.mine = new
      BY <2>1, <2>2 DEF AnyCall, Steps
    <2> HIDE DEF k
    <2> QED BY <1>1, <2>2, <2>3, <2>4, MoveInv
  <1> QED BY <1>2, <1>3

\* Every other step of a call that leaves the records alone goes on, returns or
\* turns to cleanup_failed_schedule.
LEMMA GoesOnInv ==
  ASSUME IInv, NEW c \in Callers,
         \/ VerifyLock(c) \/ VerifyEnd(c) \/ FallbackEnd(c) \/ ConfigureBoot(c)
         \/ UpdateCheck(c) \/ ArmOnce(c)
         \/ ClearOnce(c) \/ ArchiveTransaction(c) \/ RegenerateAtEnd(c)
  PROVE  IInv'
  <1> DEFINE On == {"verifying", "fallback", "lock", "entry", "write", "archive", "remove"}
  <1>1. Untouched /\ startLock' = startLock
    BY DEF VerifyLock, VerifyEnd, FallbackEnd, ConfigureBoot, UpdateCheck, ArmOnce, ClearOnce,
           ArchiveTransaction, RegenerateAtEnd, Untouched, storeVars
  <1>2. \/ Return(c) \/ Undo(c)
        \/ \E pc \in On : Goto(c, pc) /\ (pc \in {"lock", "entry", "write"} => call[c].pc \in Writing)
    BY DEF VerifyLock, VerifyEnd, FallbackEnd, ConfigureBoot, UpdateCheck, ArmOnce, ClearOnce,
           ArchiveTransaction, RegenerateAtEnd, Proceed, Writing
  <1>3. CASE Return(c)
    BY <1>1, <1>3, ReturnInv
  <1>4. CASE Undo(c)
    BY <1>1, <1>4, UndoInv
  <1>5. ASSUME NEW pc \in On, Goto(c, pc), pc \in {"lock", "entry", "write"} => call[c].pc \in Writing
        PROVE  IInv'
    <2>1. pc \in Steps /\ pc \notin {"check", "claim", "dcheck", "dremove"}
      BY DEF Steps
    <2>2. pc \in Writing => call[c].mine.id # None
      BY <1>5 DEF IInv, NameInv, Writing
    <2> HIDE DEF On
    <2> QED BY <1>1, <1>5, <2>1, <2>2, GotoInv
  <1> HIDE DEF On
  <1> QED BY <1>2, <1>3, <1>4, <1>5

\* The steps that take the start lock, look around, or give it back.
LEMMA LockStepInv ==
  ASSUME IInv, NEW c \in Callers,
         StartLock(c) \/ CheckPackage(c) \/ DeleteLock(c) \/ DeleteCheck(c) \/ DeleteEnd(c)
  PROVE  IInv'
  <1>1. Untouched
    BY DEF StartLock, CheckPackage, DeleteLock, DeleteCheck, DeleteEnd, Untouched, storeVars
  <1>2. CASE StartLock(c)
    <2>1. Goto(c, "check") /\ startLock = None /\ startLock' = c /\ call[c].mine.id # None
      BY <1>2 DEF StartLock, IInv, NameInv, Writing
    <2> QED BY <1>1, <2>1, GotoInv DEF Steps
  <1>3. CASE CheckPackage(c)
    <2>1. startLock = c /\ call[c].mine.id # None
      BY <1>3 DEF CheckPackage, IInv, LockInv, NameInv, Writing
    <2>2. CASE PackagePending
      BY <1>1, <1>3, <2>1, <2>2, UndoInv DEF CheckPackage
    <2>3. CASE ~PackagePending
      <3>1. Goto(c, "claim") /\ startLock' = startLock
        BY <1>3, <2>3 DEF CheckPackage
      <3> QED BY <1>1, <2>1, <2>3, <3>1, GotoInv DEF Steps
    <2> QED BY <2>2, <2>3
  <1>4. CASE DeleteLock(c)
    <2>1. Goto(c, "dcheck") /\ startLock = None /\ startLock' = c
      BY <1>4 DEF DeleteLock
    <2>2. "dcheck" \in Steps /\ "dcheck" \notin Writing
      BY DEF Steps, Writing
    <2> QED BY <1>1, <2>1, <2>2, GotoInv
  <1>5. CASE DeleteCheck(c)
    <2>1. startLock = c
      BY <1>5 DEF DeleteCheck, IInv, LockInv
    <2>2. \/ Return(c) /\ startLock' = None
          \/ Goto(c, "dremove") /\ startLock' = startLock
      BY <1>5 DEF DeleteCheck
    <2>3. "dremove" \in Steps /\ "dremove" \notin Writing
      BY DEF Steps, Writing
    <2> QED BY <1>1, <2>1, <2>2, <2>3, GotoInv, ReturnInv
  <1>6. CASE DeleteEnd(c)
    <2>1. startLock = c
      BY <1>6 DEF DeleteEnd, IInv, LockInv
    <2> QED BY <1>1, <1>6, <2>1, ReturnInv DEF DeleteEnd
  <1> QED BY <1>2, <1>3, <1>4, <1>5, <1>6

-----------------------------------------------------------------------------
\* The steps of a call that write the pending rollback. The creation happens
\* under the lock, after a look at the package transaction; an update that finds
\* another record in its place, or none, is an overrun.
LEMMA RecordStepInv ==
  ASSUME IInv, NEW c \in Callers, NEW k \in AnyCall,
         call' = [call EXCEPT ![c] = k],
         k.pc \notin {"check", "claim", "dcheck", "dremove"},
         k.pc \in Writing => k.mine.id # None,
         UNCHANGED <<package, hook>>,
         record' \in AnyRecord, overrun' \in BOOLEAN, overrun => overrun',
         record' # NoRecord => record'.id # None,
         startLock' = startLock \/ (startLock = c /\ startLock' = None),
         \/ record' = NoRecord
         \/ ~overrun' => Pending
         \/ startLock = c /\ ~PackagePending
  PROVE  IInv'
  <1> USE DEF IInv
  <1>1. TypeInv'
    BY DEF TypeInv
  <1>2. \A a \in Callers : call'[a] = IF a = c THEN k ELSE call[a]
    BY DEF TypeInv
  <1>3. LockInv'
    BY <1>2, ActorsAssumption DEF LockInv
  <1>4. NameInv'
    BY <1>2 DEF NameInv, Pending, NoRecord
  <1>5. PackagePending' = PackagePending
    BY DEF PackagePending, NoPackage
  <1>6. (hook.pc \in Owning => PackagePending)' /\ (\A a \in Callers : call[a].pc = "claim" => ~PackagePending)'
    BY <1>2, <1>5 DEF OwnerInv
  <1>7. BoundaryHasOneOwner'
    BY <1>5 DEF OwnerInv, BoundaryHasOneOwner, Pending, NoRecord
  <1>8. ~overrun' /\ hook'.pc \in {"stale", "create"} => ~Pending'
    BY ActorsAssumption DEF OwnerInv, LockInv, Pending, NoRecord, TypeInv
  <1> QED BY <1>1, <1>3, <1>4, <1>6, <1>7, <1>8 DEF OwnerInv

\* What Return, Undo and Goto make of a call.
LEMMA MoveCall ==
  ASSUME IInv, NEW c \in Callers, NEW pc \in Steps, Return(c) \/ Undo(c) \/ Goto(c, pc)
  PROVE  \E k \in AnyCall : /\ call' = [call EXCEPT ![c] = k]
                            /\ k.pc \in {"idle", "clear"} \/ (k.pc = pc /\ k.mine = call[c].mine)
  <1>1. CASE Return(c)
    BY <1>1, IdleCall DEF Return, Idle
  <1>2. CASE Undo(c)
    BY <1>2, IdleCall DEF Undo, Idle
  <1>3. CASE Goto(c, pc)
    <2> DEFINE k == [call[c] EXCEPT !.pc = pc]
    <2>1. call[c] \in AnyCall
      BY DEF IInv, TypeInv
    <2>2. k \in AnyCall /\ k.pc = pc /\ k.mine = call[c].mine
      BY <2>1 DEF AnyCall
    <2>3. call' = [call EXCEPT ![c] = k]
      BY <1>3 DEF Goto, IInv, TypeInv
    <2> HIDE DEF k
    <2> QED BY <2>2, <2>3
  <1> QED BY <1>1, <1>2, <1>3

\* TransactionStore::create writes under the start lock and gives it back.
LEMMA CreateTransactionInv == ASSUME IInv, NEW c \in Callers, CreateTransaction(c) PROVE IInv'
  <1>1. call[c] \in AnyCall /\ call[c].mine.id # None /\ startLock = c /\ ~PackagePending
    BY DEF IInv, TypeInv, NameInv, Writing, LockInv, OwnerInv, CreateTransaction
  <1>2. call[c].mine \in AnyRecord
    BY <1>1 DEF AnyCall
  <1>3. PICK k \in AnyCall : /\ call' = [call EXCEPT ![c] = k]
                             /\ k.pc \in {"idle", "clear"} \/ (k.pc = "menu" /\ k.mine = call[c].mine)
    BY MoveCall DEF CreateTransaction, Steps
  <1>4. /\ UNCHANGED <<package, hook, overrun>> /\ startLock' = None
        /\ record' = record \/ record' = call[c].mine
    BY DEF CreateTransaction
  <1>5. record \in AnyRecord /\ overrun \in BOOLEAN /\ (record # NoRecord => record.id # None)
    BY DEF IInv, TypeInv, NameInv, Pending
  <1>6. k.pc \in Writing => k.mine.id # None
    BY <1>1, <1>3 DEF Writing
  <1>7. k.pc \notin {"check", "claim", "dcheck", "dremove"}
    BY <1>3
  <1> QED BY <1>1, <1>2, <1>3, <1>4, <1>5, <1>6, <1>7, RecordStepInv

\* TransactionStore::update renames over whatever the file has become.
LEMMA UpdateWriteInv == ASSUME IInv, NEW c \in Callers, UpdateWrite(c) PROVE IInv'
  <1>1. call[c] \in AnyCall /\ call[c].mine.id # None
    BY DEF IInv, TypeInv, NameInv, Writing, UpdateWrite
  <1>2. call[c].mine \in AnyRecord
    BY <1>1 DEF AnyCall
  <1>3. PICK pc \in {"arm", "clear"} : Return(c) \/ Undo(c) \/ Goto(c, pc)
    BY DEF UpdateWrite
  <1>4. PICK k \in AnyCall : /\ call' = [call EXCEPT ![c] = k]
                             /\ k.pc \in {"idle", "clear"} \/ (k.pc = pc /\ k.mine = call[c].mine)
    BY <1>3, MoveCall DEF Steps
  <1>5. /\ UNCHANGED <<package, hook, startLock>>
        /\ record' = record \/ record' = call[c].mine
        /\ overrun' = (overrun \/ record'.id # record.id)
    BY DEF UpdateWrite
  <1>6. record \in AnyRecord /\ overrun \in BOOLEAN /\ (record # NoRecord => record.id # None)
    BY DEF IInv, TypeInv, NameInv, Pending
  <1>7. k.pc \in Writing => k.mine.id # None
    BY <1>1, <1>3, <1>4 DEF Writing
  <1>8. k.pc \notin {"check", "claim", "dcheck", "dremove"}
    BY <1>3, <1>4
  <1>9. overrun' \in BOOLEAN /\ (overrun => overrun')
    BY <1>5, <1>6
  <1>10. record' = NoRecord \/ (~overrun' => Pending)
    <2>1. ~overrun' => record'.id = record.id
      BY <1>5, <1>6
    <2>2. record.id # None => Pending
      BY DEF Pending, NoRecord
    <2> QED BY <1>1, <1>5, <2>1, <2>2 DEF Pending
  <1> QED BY <1>1, <1>2, <1>4, <1>5, <1>6, <1>7, <1>8, <1>9, <1>10, RecordStepInv

\* TransactionStore::remove unlinks whatever record is there.
LEMMA RemoveTransactionInv == ASSUME IInv, NEW c \in Callers, RemoveTransaction(c) PROVE IInv'
  <1>1. PICK k \in AnyCall : /\ call' = [call EXCEPT ![c] = k]
                             /\ k.pc \in {"idle", "clear"} \/ (k.pc = "regenerate" /\ k.mine = call[c].mine)
    BY MoveCall DEF RemoveTransaction, Proceed, Steps
  <1>2. /\ UNCHANGED <<package, hook, startLock, overrun>>
        /\ record' = record \/ record' = NoRecord
    BY DEF RemoveTransaction
  <1>3. record \in AnyRecord /\ overrun \in BOOLEAN /\ (record # NoRecord => record.id # None)
    BY DEF IInv, TypeInv, NameInv, Pending
  <1>4. NoRecord \in AnyRecord
    BY DEF NoRecord, AnyRecord, Ids, Snaps
  <1>5. k.pc \notin Writing /\ k.pc \notin {"check", "claim", "dcheck", "dremove"}
    BY <1>1 DEF Writing
  <1>6. record' = NoRecord \/ Pending
    BY <1>2 DEF Pending
  <1> QED BY <1>1, <1>2, <1>3, <1>4, <1>5, <1>6, RecordStepInv

-----------------------------------------------------------------------------
\* The steps of the hook. They never touch the rollback; what they know of it
\* holds as long as they have the lock.
LEMMA HookStepInv ==
  ASSUME IInv, UNCHANGED <<record, call, overrun>>,
         hook' \in AnyHook, package' \in AnyPackage,
         \/ startLock' = startLock /\ (hook'.pc \in {"begin", "stale", "create"} => startLock = Hook)
         \/ startLock = Hook /\ startLock' = None /\ hook'.pc \notin {"begin", "stale", "create"}
         \/ startLock = None /\ startLock' = Hook,
         hook'.pc \in Owning => PackagePending',
         ~overrun /\ hook'.pc \in {"stale", "create"} => ~Pending,
         PackagePending' => PackagePending \/ (startLock = Hook /\ (~overrun => ~Pending))
  PROVE  IInv'
  <1> USE DEF IInv
  <1>1. TypeInv'
    BY DEF TypeInv
  <1>2. LockInv'
    BY ActorsAssumption DEF LockInv
  <1>3. Pending' = Pending /\ NameInv'
    BY DEF NameInv, Pending, NoRecord
  <1>4. (\A c \in Callers : call[c].pc = "claim" => ~PackagePending)'
    BY ActorsAssumption DEF OwnerInv, LockInv
  <1>5. BoundaryHasOneOwner'
    BY <1>3 DEF OwnerInv, BoundaryHasOneOwner
  <1> QED BY <1>1, <1>2, <1>3, <1>4, <1>5 DEF OwnerInv

\* The hook's places, and what the package transaction is after a step.
LEMMA HookTypes ==
  /\ NoHook \in AnyHook /\ NoHook.pc = "idle"
  /\ [NoHook EXCEPT !.pc = "dpkg"] \in AnyHook
  /\ [NoHook EXCEPT !.pc = "dpkg"].pc = "dpkg"
  /\ NoPackage \in AnyPackage
  BY DEF NoHook, AnyHook, HookSteps, Snaps, NoPackage, AnyPackage

\* A step of the hook changes its place only.
LEMMA HookAt == ASSUME IInv, NEW pc \in HookSteps, HookGoto(pc) PROVE hook' \in AnyHook /\ hook'.pc = pc
  BY DEF IInv, TypeInv, HookGoto, AnyHook

\* The hook may return, or leave to dpkg, at any point.
LEMMA EndsHook ==
  ASSUME IInv, UNCHANGED <<record, package, call, overrun>>, HookReturn \/ RunsDpkg,
         startLock' = startLock \/ (startLock = Hook /\ startLock' = None)
  PROVE  IInv'
  <1>1. hook' \in AnyHook /\ hook'.pc \in {"idle", "dpkg"}
    BY HookTypes DEF HookReturn, RunsDpkg
  <1>2. hook'.pc \notin Owning
    BY <1>1 DEF Owning
  <1>3. package' \in AnyPackage /\ PackagePending' = PackagePending
    BY DEF IInv, TypeInv, PackagePending, NoPackage
  <1> QED BY <1>1, <1>2, <1>3, HookStepInv

\* DPkg::Pre-Invoke begins without a lock.
LEMMA HookPreInv == ASSUME IInv, NEW before \in BOOLEAN, NEW after \in BOOLEAN, HookPre(before, after) PROVE IInv'
  <1>1. UNCHANGED <<record, package, call, overrun>> /\ startLock' = startLock
    BY DEF HookPre, helperVars
  <1>2. CASE RunsDpkg
    BY <1>1, <1>2, EndsHook
  <1>3. CASE ~RunsDpkg
    <2>1. hook' = [NoHook EXCEPT !.pc = "lock", !.before = before, !.after = after]
      BY <1>3 DEF HookPre
    <2>2. hook' \in AnyHook /\ hook'.pc = "lock"
      BY <2>1 DEF NoHook, AnyHook, HookSteps, Snaps
    <2>3. package' \in AnyPackage /\ PackagePending' = PackagePending /\ "lock" \notin Owning
      BY <1>1 DEF IInv, TypeInv, PackagePending, NoPackage, Owning
    <2> QED BY <1>1, <2>2, <2>3, HookStepInv
  <1> QED BY <1>2, <1>3

\* begin_transaction takes the start lock.
LEMMA HookLockInv == ASSUME IInv, HookLock PROVE IInv'
  <1>1. UNCHANGED <<record, package, call, overrun>> /\ startLock = None /\ startLock' = Hook
    BY DEF HookLock, helperVars
  <1>2. hook' \in AnyHook /\ hook'.pc = "begin"
    BY HookAt DEF HookLock, HookSteps
  <1>3. package' \in AnyPackage /\ PackagePending' = PackagePending /\ "begin" \notin Owning
    BY <1>1 DEF IInv, TypeInv, PackagePending, NoPackage, Owning
  <1> QED BY <1>1, <1>2, <1>3, HookStepInv

\* Under the lock the hook looks for a rollback before it goes on.
LEMMA HookBeginInv == ASSUME IInv, HookBegin PROVE IInv'
  <1>1. UNCHANGED <<record, call, overrun>> /\ startLock = Hook
    BY DEF HookBegin, helperVars, IInv, LockInv
  <1>2. CASE Pending
    BY <1>1, <1>2, EndsHook DEF HookBegin
  <1>3. CASE ~Pending
    <2>1. hook' \in AnyHook /\ hook'.pc = "stale" /\ startLock' = startLock
      BY <1>3, HookAt DEF HookBegin, HookSteps
    <2>2. package' = [package EXCEPT !.phase = "terminal"] \/ package' = package
      BY <1>3 DEF HookBegin
    <2>3. package' \in AnyPackage /\ "stale" \notin Owning
      BY <2>2 DEF IInv, TypeInv, AnyPackage, PackagePhases, Owning
    <2> QED BY <1>1, <1>3, <2>1, <2>3, HookStepInv
  <1> QED BY <1>2, <1>3

\* A stale package transaction is archived under the lock.
LEMMA HookStaleInv == ASSUME IInv, HookStale PROVE IInv'
  <1>1. UNCHANGED <<record, call, overrun>> /\ startLock = Hook /\ startLock' = startLock
    BY DEF HookStale, helperVars, IInv, LockInv
  <1>2. hook' \in AnyHook /\ hook'.pc = "create"
    BY HookAt DEF HookStale, HookSteps
  <1>3. package' \in AnyPackage /\ ~PackagePending' /\ "create" \notin Owning
    BY HookTypes DEF HookStale, PackagePending, NoPackage, Owning
  <1>4. ~overrun => ~Pending
    BY DEF IInv, OwnerInv, HookStale
  <1> QED BY <1>1, <1>2, <1>3, <1>4, HookStepInv

\* PackageTransactionStore::create writes under the lock, having seen no rollback.
LEMMA HookCreateInv == ASSUME IInv, HookCreate PROVE IInv'
  <1>1. UNCHANGED <<record, call, overrun>> /\ startLock = Hook /\ startLock' = None
    BY DEF HookCreate, helperVars, IInv, LockInv
  <1>2. hook' \in AnyHook /\ hook'.pc \in {"pre", "save"}
    BY HookAt DEF HookCreate, HookSteps
  <1>3. package' \in AnyPackage /\ PackagePending'
    BY DEF HookCreate, PackagePending, NoPackage, AnyPackage, PackagePhases
  <1>4. ~overrun => ~Pending
    BY DEF IInv, OwnerInv, HookCreate
  <1> QED BY <1>1, <1>2, <1>3, <1>4, HookStepInv

\* From create to rename the package transaction is there, and the hook its owner.
LEMMA OwnerStepInv ==
  ASSUME IInv, UNCHANGED <<record, call, overrun, startLock>>, hook.pc \in Owning,
         hook' \in AnyHook, hook'.pc \in Owning \cup {"idle", "dpkg"}, package' \in AnyPackage,
         hook'.pc \in Owning => PackagePending'
  PROVE  IInv'
  <1>1. PackagePending
    BY DEF IInv, OwnerInv
  <1>2. hook'.pc \notin {"begin", "stale", "create"}
    BY DEF Owning
  <1> QED BY <1>1, <1>2, HookStepInv

\* create_pre and create_post hold the operation lock only.
LEMMA HookSnapshotInv == ASSUME IInv, HookSnapshot \/ HookSnapshotEnd PROVE IInv'
  <1>1. UNCHANGED <<record, package, call, overrun, startLock>> /\ hook.pc \in Owning
    BY DEF HookSnapshot, HookSnapshotEnd, helperVars, Owning
  <1>2. package' \in AnyPackage /\ PackagePending'
    BY <1>1 DEF IInv, TypeInv, OwnerInv, PackagePending, NoPackage
  <1>3. \/ \E pc \in Owning : HookGoto(pc)
        \/ \E pc \in Owning, d \in Snaps : hook' = [hook EXCEPT !.snap = d, !.pc = pc]
    <2>1. CASE HookSnapshot
      BY <2>1 DEF HookSnapshot, Owning, Snaps
    <2>2. CASE HookSnapshotEnd
      BY <2>2 DEF HookSnapshotEnd, Owning, Snaps
    <2> QED BY <2>1, <2>2
  <1>4. hook' \in AnyHook /\ hook'.pc \in Owning
    BY <1>3 DEF IInv, TypeInv, AnyHook, Owning, HookSteps, HookGoto
  <1> QED BY <1>1, <1>2, <1>4, OwnerStepInv

\* The hook saves its own transaction.
LEMMA HookSaveInv == ASSUME IInv, HookSave PROVE IInv'
  <1>1. UNCHANGED <<record, call, overrun, startLock>> /\ hook.pc \in Owning
    BY DEF HookSave, helperVars, Owning
  <1>2. hook' \in AnyHook /\ hook'.pc = "dpkg"
    BY HookTypes DEF HookSave, RunsDpkg
  <1>3. package' \in AnyPackage
    BY DEF HookSave, IInv, TypeInv, AnyPackage, AnyHook, Snaps, PackagePhases
  <1>4. "dpkg" \notin Owning
    BY DEF Owning
  <1> QED BY <1>1, <1>2, <1>3, <1>4, OwnerStepInv

\* The archive is written while the transaction is still pending.
LEMMA HookArchiveInv == ASSUME IInv, HookArchive PROVE IInv'
  <1>1. UNCHANGED <<record, call, overrun, startLock>> /\ hook.pc \in Owning
    BY DEF HookArchive, helperVars, Owning
  <1>2. hook' \in AnyHook /\ hook'.pc \in Owning
    BY HookAt DEF HookArchive, HookSteps, Owning
  <1>3. package' \in AnyPackage /\ PackagePending'
    BY DEF HookArchive, IInv, TypeInv, AnyPackage, AnyHook, Snaps, PackagePhases, PackagePending, NoPackage
  <1> QED BY <1>1, <1>2, <1>3, OwnerStepInv

\* The rename ends the package transaction.
LEMMA HookRenameInv == ASSUME IInv, HookRename PROVE IInv'
  <1>1. UNCHANGED <<record, call, overrun, startLock>> /\ hook.pc \in Owning
    BY DEF HookRename, helperVars, Owning
  <1>2. hook' \in AnyHook /\ hook'.pc \in {"idle", "dpkg"}
    BY HookTypes DEF HookRename, RunsDpkg, HookReturn
  <1>3. package' \in AnyPackage
    BY HookTypes DEF HookRename
  <1>4. hook'.pc \notin Owning
    BY <1>2 DEF Owning
  <1> QED BY <1>1, <1>2, <1>3, <1>4, OwnerStepInv

\* DPkg::Post-Invoke goes on with the transaction it finds.
LEMMA HookPostInv == ASSUME IInv, NEW after \in BOOLEAN, HookPost(after) PROVE IInv'
  <1>1. UNCHANGED <<record, package, call, overrun, startLock>>
    BY DEF HookPost, helperVars
  <1>2. CASE HookReturn
    BY <1>1, <1>2, EndsHook
  <1>3. CASE ~HookReturn
    <2>1. PICK pc \in {"post", "archive"} : HookGoto(pc)
      BY <1>3 DEF HookPost
    <2>2. hook' \in AnyHook /\ hook'.pc = pc
      BY <2>1, HookAt DEF HookSteps
    <2>3. PackagePending
      BY <1>3 DEF HookPost, PackagePending, NoPackage
    <2>4. package' \in AnyPackage /\ PackagePending'
      BY <1>1, <2>3 DEF IInv, TypeInv, PackagePending, NoPackage
    <2> QED BY <1>1, <2>2, <2>3, <2>4, HookStepInv
  <1> QED BY <1>2, <1>3

-----------------------------------------------------------------------------
\* A kill gives back exactly what the killed program held.
LEMMA KilledInv == ASSUME IInv, NEW programs \in SUBSET Callers, Killed(programs) PROVE IInv'
  <1>1. call' = [c \in Callers |-> IF c \in programs THEN Idle ELSE call[c]]
    BY DEF Killed
  <1>2. Untouched /\ startLock' = IF startLock \in programs THEN None ELSE startLock
    BY DEF Killed, Untouched, Released
  <1>3. Idle \in AnyCall /\ Idle.pc = "idle"
    BY IdleCall DEF Idle
  <1> HIDE DEF Idle
  <1> USE DEF IInv, Untouched
  <1>4. TypeInv'
    BY <1>1, <1>2, <1>3 DEF TypeInv
  <1>5. \A c \in Callers : (call'[c] = call[c] /\ c \notin programs) \/ call'[c].pc = "idle"
    BY <1>1, <1>3
  <1>6. LockInv'
    BY <1>2, <1>5, ActorsAssumption DEF LockInv
  <1>7. NameInv'
    BY <1>2, <1>5 DEF NameInv, Pending, Writing
  <1>8. OwnerInv'
    BY <1>2, <1>5 DEF OwnerInv, BoundaryHasOneOwner, Pending, PackagePending
  <1> QED BY <1>4, <1>6, <1>7, <1>8

\* A killed hook leaves its transaction and gives back its locks.
LEMMA HookKilledInv == ASSUME IInv, HookKilled PROVE IInv'
  <1>1. UNCHANGED <<record, package, call, overrun>> /\ (HookReturn \/ RunsDpkg)
    BY DEF HookKilled, helperVars
  <1>2. startLock' = startLock \/ (startLock = Hook /\ startLock' = None)
    BY DEF HookKilled, Released
  <1> QED BY <1>1, <1>2, EndsHook

-----------------------------------------------------------------------------
\* The invariant is inductive: one case per kind of step.
LEMMA NextInv == IInv /\ [Next]_vars => IInv'
  <1> SUFFICES ASSUME IInv, [Next]_vars PROVE IInv'
    OBVIOUS
  <1>1. ASSUME NEW c \in Callers, CallStarts(c) PROVE IInv'
    BY <1>1, ScheduleInv, DeleteInv, CancelInv, ReconcileInv DEF CallStarts
  <1>2. ASSUME NEW c \in Callers, CallGoesOn(c) PROVE IInv'
    BY <1>2, GoesOnInv, LockStepInv, FallbackLockInv, VerifyGrubEntryInv, CreateTransactionInv,
       UpdateWriteInv, RemoveTransactionInv DEF CallGoesOn
  <1>3. CASE UNCHANGED <<record, package, call, hook, startLock, overrun>>
    BY <1>3 DEF IInv, TypeInv, LockInv, NameInv, OwnerInv, BoundaryHasOneOwner, Pending, PackagePending
  <1>4. ASSUME NEW d \in Snapshots, Browse(d) \/ EndBrowse(d) PROVE IInv'
    BY <1>3, <1>4 DEF Browse, EndBrowse
  <1>5. CASE HookStarts \/ HookGoesOn
    BY <1>5, HookPreInv, HookLockInv, HookBeginInv, HookStaleInv, HookCreateInv, HookSnapshotInv,
       HookSaveInv, HookArchiveInv, HookRenameInv, HookPostInv DEF HookStarts, HookGoesOn
  <1>6. CASE Killed(Tasks) \/ Killed({Unit})
    BY <1>6, KilledInv DEF Callers
  <1>7. CASE UNCHANGED vars
    BY <1>3, <1>7 DEF vars, storeVars
  <1> QED BY <1>1, <1>2, <1>4, <1>5, <1>6, <1>7, HookKilledInv DEF Next

\* A rollback and a package transaction never own the recovery boundary at the
\* same time (create_transaction and begin_transaction under the start lock),
\* however many calls and hooks run, fail and are killed.
THEOREM OwnersExclude == Spec => []BoundaryHasOneOwner
  <1>1. IInv => BoundaryHasOneOwner
    BY DEF IInv, OwnerInv
  <1> QED BY <1>1, InitInv, NextInv, PTL DEF Spec

-----------------------------------------------------------------------------
\* Locks are given back. A lock is held in some places of the program and
\* nowhere else; a call that holds one leaves these places only by giving it
\* back.
StartHeld == {"check", "claim", "dcheck", "dremove"}
OpHeld == {"verifying", "protecting", "dlock", "dcheck", "dremove"}

\* A step of one caller that takes or keeps a lock only at a place where it may
\* be held.
LEMMA CallLocks ==
  ASSUME NoLockIsLeft, NEW c \in Callers, UNCHANGED hook,
         \A a \in Callers \ {c} : call'[a] = call[a],
         \/ startLock' = None
         \/ startLock' = c /\ call'[c].pc \in StartHeld
         \/ startLock' = startLock /\ (call[c].pc \in StartHeld => call'[c].pc \in StartHeld),
         \/ opLock' = None
         \/ opLock' = c /\ call'[c].pc \in OpHeld
         \/ opLock' = opLock /\ (call[c].pc \in OpHeld => call'[c].pc \in OpHeld)
  PROVE  NoLockIsLeft'
  BY DEF NoLockIsLeft, StartHeld, OpHeld

\* A step from a place without locks, which takes none.
LEMMA FreeStep ==
  ASSUME NoLockIsLeft, NEW c \in Callers, call[c].pc \notin StartHeld \cup OpHeld,
         UNCHANGED <<hook, startLock, opLock>>, \A a \in Callers \ {c} : call'[a] = call[a]
  PROVE  NoLockIsLeft'
  BY CallLocks

\* No step of a call leaves a lock behind.
LEMMA CallStepLocks ==
  ASSUME IInv, NoLockIsLeft, NEW c \in Callers, CallStarts(c) \/ CallGoesOn(c)
  PROVE  NoLockIsLeft'
  <1> USE DEF Goto, Return, Undo, StartHeld, OpHeld, Idle
  <1>1. call \in [Callers -> AnyCall] /\ DOMAIN call = Callers
    BY DEF IInv, TypeInv
  <1>2. \A a \in Callers \ {c} : call'[a] = call[a]
    <2>1. CASE CallStarts(c)
      BY <1>1, <2>1 DEF CallStarts, Schedule, Delete, Cancel, Reconcile
    <2>2. CASE CallGoesOn(c)
      BY <1>1, <2>2 DEF CallGoesOn, VerifyLock, VerifyEnd, FallbackLock, FallbackEnd, StartLock, CheckPackage,
         CreateTransaction, ConfigureBoot, VerifyGrubEntry, UpdateCheck, UpdateWrite, ArmOnce, ClearOnce,
         ArchiveTransaction, RemoveTransaction, RegenerateAtEnd, DeleteLock, DeleteCheck, DeleteEnd, Proceed
    <2> QED BY <2>1, <2>2
  <1>3. CASE \/ (\E d \in OnRecord : Schedule(c, d)) \/ Cancel(c) \/ Reconcile(c)
            \/ ConfigureBoot(c) \/ VerifyGrubEntry(c) \/ UpdateCheck(c) \/ UpdateWrite(c) \/ ArmOnce(c)
            \/ ClearOnce(c) \/ ArchiveTransaction(c) \/ RemoveTransaction(c) \/ RegenerateAtEnd(c)
    <2>1. call[c].pc \notin StartHeld \cup OpHeld
      <3> HIDE DEF Goto, Return, Undo, Idle
      <3>1. call[c] = Idle \/ call[c].pc \in {"menu", "entry", "update", "write", "arm", "clear", "archive",
                                               "remove", "regenerate"}
        BY <1>3 DEF Schedule, Cancel, Reconcile, ConfigureBoot, VerifyGrubEntry, UpdateCheck, UpdateWrite,
           ArmOnce, ClearOnce, ArchiveTransaction, RemoveTransaction, RegenerateAtEnd
      <3>2. Idle.pc = "idle"
        BY DEF Idle
      <3> QED BY <3>1, <3>2
    <2>2. UNCHANGED <<hook, startLock, opLock>>
      BY <1>3 DEF Schedule, Cancel, Reconcile, ConfigureBoot, VerifyGrubEntry, UpdateCheck, UpdateWrite,
         ArmOnce, ClearOnce, ArchiveTransaction, RemoveTransaction, RegenerateAtEnd
    <2> QED BY <1>2, <2>1, <2>2, FreeStep
  <1>4. ASSUME NEW d \in OnRecord, Delete(c, d) PROVE NoLockIsLeft'
    <2>1. call'[c].pc = "dlock" /\ opLock' = c /\ UNCHANGED <<hook, startLock>> /\ call[c].pc = "idle"
      BY <1>1, <1>4 DEF Delete
    <2> QED BY <1>2, <2>1, CallLocks
  <1>5. CASE VerifyLock(c)
    <2>1. /\ UNCHANGED <<hook, startLock>> /\ call[c].pc = "verify"
          /\ opLock' = opLock \/ (opLock' = c /\ call'[c].pc = "verifying")
      BY <1>1, <1>5 DEF VerifyLock, AnyCall
    <2> QED BY <1>2, <2>1, CallLocks
  <1>6. CASE VerifyEnd(c)
    <2>1. UNCHANGED <<hook, startLock>> /\ call[c].pc = "verifying" /\ opLock' = None
      BY <1>6 DEF VerifyEnd
    <2> QED BY <1>2, <2>1, CallLocks
  <1>7. CASE FallbackLock(c)
    <2>1. /\ UNCHANGED <<hook, startLock>> /\ call[c].pc = "fallback"
          /\ opLock' = opLock \/ (opLock' = c /\ call'[c].pc = "protecting")
      BY <1>1, <1>7 DEF FallbackLock, AnyCall
    <2> QED BY <1>2, <2>1, CallLocks
  <1>8. CASE FallbackEnd(c)
    <2>1. UNCHANGED <<hook, startLock>> /\ call[c].pc = "protecting" /\ opLock' = None
      BY <1>8 DEF FallbackEnd
    <2> QED BY <1>2, <2>1, CallLocks
  <1>9. CASE StartLock(c)
    <2>1. UNCHANGED <<hook, opLock>> /\ call[c].pc = "lock" /\ startLock' = c /\ call'[c].pc = "check"
      BY <1>1, <1>9 DEF StartLock, AnyCall
    <2> QED BY <1>2, <2>1, CallLocks
  <1>10. CASE CheckPackage(c)
    <2>1. /\ UNCHANGED <<hook, opLock>> /\ call[c].pc = "check"
          /\ startLock' = None \/ (startLock' = startLock /\ call'[c].pc = "claim")
      BY <1>1, <1>10 DEF CheckPackage, AnyCall
    <2> QED BY <1>2, <2>1, CallLocks
  <1>11. CASE CreateTransaction(c)
    <2>1. UNCHANGED <<hook, opLock>> /\ call[c].pc = "claim" /\ startLock' = None
      BY <1>11 DEF CreateTransaction
    <2> QED BY <1>2, <2>1, CallLocks
  <1>12. CASE DeleteLock(c)
    <2>1. UNCHANGED <<hook, opLock>> /\ call[c].pc = "dlock" /\ startLock' = c /\ call'[c].pc = "dcheck"
      BY <1>1, <1>12 DEF DeleteLock, AnyCall
    <2> QED BY <1>2, <2>1, CallLocks
  <1>13. CASE DeleteCheck(c) \/ DeleteEnd(c)
    <2>1. /\ UNCHANGED hook
          /\ \/ startLock' = None /\ opLock' = None
             \/ UNCHANGED <<startLock, opLock>> /\ call'[c].pc = "dremove"
      BY <1>1, <1>13 DEF DeleteCheck, DeleteEnd, AnyCall
    <2> QED BY <1>2, <2>1, CallLocks
  <1> QED BY <1>3, <1>4, <1>5, <1>6, <1>7, <1>8, <1>9, <1>10, <1>11, <1>12, <1>13 DEF CallStarts, CallGoesOn

\* No step of the hook leaves a lock behind.
LEMMA HookStepLocks == ASSUME IInv, NoLockIsLeft, HookStarts \/ HookGoesOn \/ HookKilled PROVE NoLockIsLeft'
  <1>1. UNCHANGED call
    BY DEF HookStarts, HookGoesOn, HookKilled, HookPre, HookLock, HookBegin, HookStale, HookCreate, HookSnapshot,
       HookSnapshotEnd, HookSave, HookArchive, HookRename, HookPost, helperVars
  <1>2. hook \in AnyHook
    BY DEF IInv, TypeInv
  <1> DEFINE Mine == {"begin", "stale", "create"}
             Runs == {"pre runs", "post runs"}
  <1>3. /\ \/ startLock' = None
           \/ startLock' = Hook /\ hook'.pc \in Mine
           \/ startLock' = startLock /\ (hook.pc \in Mine => hook'.pc \in Mine)
           \/ startLock' = startLock /\ startLock # Hook
        /\ \/ opLock' = None
           \/ opLock' = Hook /\ hook'.pc \in Runs
           \/ opLock' = opLock /\ (hook.pc \in Runs => hook'.pc \in Runs)
           \/ opLock' = opLock /\ opLock # Hook
    <2> USE DEF HookGoto, HookReturn, RunsDpkg, NoHook
    <2>1. CASE HookStarts
      BY <2>1 DEF HookStarts, HookPre
    <2>2. CASE HookLock \/ HookBegin \/ HookStale \/ HookCreate
      BY <1>2, <2>2 DEF HookLock, HookBegin, HookStale, HookCreate, AnyHook
    <2>3. CASE HookSnapshot
      BY <1>2, <2>3 DEF HookSnapshot, AnyHook
    <2>4. CASE HookSnapshotEnd \/ HookSave \/ HookArchive \/ HookRename \/ (\E after \in BOOLEAN : HookPost(after))
      BY <2>4 DEF HookSnapshotEnd, HookSave, HookArchive, HookRename, HookPost
    <2>5. CASE HookKilled
      BY <2>5 DEF HookKilled, Released
    <2> QED BY <2>1, <2>2, <2>3, <2>4, <2>5 DEF HookGoesOn
  <1> QED BY <1>1, <1>3, ActorsAssumption DEF NoLockIsLeft

\* The kernel gives the locks of killed programs back.
LEMMA KilledLocks ==
  ASSUME NoLockIsLeft, NEW programs \in SUBSET Callers, Killed(programs) PROVE NoLockIsLeft'
  <1>1. /\ call' = [c \in Callers |-> IF c \in programs THEN Idle ELSE call[c]] /\ UNCHANGED hook
        /\ startLock' = IF startLock \in programs THEN None ELSE startLock
        /\ opLock' = IF opLock \in programs THEN None ELSE opLock
    BY DEF Killed, Released
  <1> QED BY <1>1, ActorsAssumption DEF NoLockIsLeft

\* Nobody keeps a lock that others wait for (the guards of TransactionStartLock
\* and OperationLock), whatever fails and whoever is killed.
THEOREM LocksAreReturned == Spec => []NoLockIsLeft
  <1>1. Init => NoLockIsLeft
    BY DEF Init, NoLockIsLeft
  <1>2. IInv /\ NoLockIsLeft /\ [Next]_vars => NoLockIsLeft'
    <2> SUFFICES ASSUME IInv, NoLockIsLeft, [Next]_vars PROVE NoLockIsLeft'
      OBVIOUS
    <2>1. CASE UNCHANGED <<call, hook, startLock, opLock>>
      BY <2>1 DEF NoLockIsLeft
    <2>2. ASSUME NEW d \in Snapshots, Browse(d) \/ EndBrowse(d) PROVE NoLockIsLeft'
      BY <2>1, <2>2 DEF Browse, EndBrowse
    <2>3. CASE Killed(Tasks) \/ Killed({Unit})
      BY <2>3, KilledLocks DEF Callers
    <2>4. CASE UNCHANGED vars
      BY <2>1, <2>4 DEF vars
    <2> QED BY <2>2, <2>3, <2>4, CallStepLocks, HookStepLocks DEF Next
  <1> QED BY <1>1, <1>2, InitInv, NextInv, PTL DEF Spec

-----------------------------------------------------------------------------
\* What the records say, and what deletions leave alone. Both rest on what a
\* call knows: the copy of a record that it carries, and how far it has got.

\* Where a schedule is before it has a record of its own to give up.
Preparing == {"verify", "verifying", "fallback", "protecting", "lock", "check", "claim", "menu", "entry", "arm"}

\* The places that follow one another in a call.
Onward == {<<"verify", "verifying">>, <<"verifying", "fallback">>, <<"protecting", "lock">>, <<"lock", "check">>,
           <<"check", "claim">>, <<"claim", "menu">>, <<"menu", "entry">>, <<"update", "write">>,
           <<"write", "arm">>, <<"write", "clear">>, <<"clear", "archive">>, <<"clear", "remove">>,
           <<"archive", "remove">>, <<"remove", "regenerate">>, <<"dlock", "dcheck">>, <<"dcheck", "dremove">>}

\* What k, the next state of call c, may be: nothing, the undoing of a schedule,
\* a later place with the same knowledge, a new or an armed transaction, or the
\* beginning of a call.
Ends(k) == k.op = "none" /\ k.pc = "idle" /\ k.mine = NoRecord
Undoes(c, k) == /\ k.op = "schedule" /\ k.pc = "clear" /\ k.mine = NoRecord
                /\ \/ call[c].pc \in Preparing
                   \/ call[c].pc \in {"update", "write"} /\ call[c].op = "schedule"
GoesOn(c, k) == /\ k.op = call[c].op /\ k.snap = call[c].snap /\ k.mine = call[c].mine
                /\ <<call[c].pc, k.pc>> \in Onward
                /\ k.pc = "archive" => k.op = "reconcile"
                /\ call[c].pc = "clear" /\ k.op = "reconcile" => k.pc = "archive"
                /\ k.pc = "arm" => k.op = "schedule"
Names(c, k) == /\ call[c].pc = "fallback" /\ k.pc = "protecting" /\ k.op = call[c].op
               /\ k.mine.id \in TransactionIds \ (used \cup {Old}) /\ used' = used \cup {k.mine.id}
Arms(c, k) == /\ call[c].pc = "entry" /\ k.pc = "update" /\ k.op = call[c].op
              /\ k.mine.id = call[c].mine.id
              /\ k.mine.target = call[c].mine.target /\ k.mine.fallback = call[c].mine.fallback
Begins(k) ==
  \/ k.op = "schedule" /\ k.pc = "verify" /\ k.mine = NoRecord /\ ~Pending
  \/ k.op = "delete" /\ k.pc = "dlock" /\ k.mine = NoRecord
  \/ k.op = "cancel" /\ k.pc = "clear" /\ k.mine = NoRecord /\ record.phase \in {"preparing", "armed"}
  \/ /\ k.op = "reconcile" /\ k.pc \in {"clear", "update"} /\ k.mine.phase = "terminal"
     /\ k.mine.id = record.id /\ k.mine.target = record.target /\ k.mine.fallback = record.fallback
Turns(c, k) == Ends(k) \/ Undoes(c, k) \/ GoesOn(c, k) \/ Names(c, k) \/ Arms(c, k) \/ Begins(k)

\* Return, Undo and Goto in these terms.
LEMMA Turning ==
  ASSUME IInv, NEW c \in Callers
  PROVE  /\ Return(c) => \E k \in AnyCall : call' = [call EXCEPT ![c] = k] /\ Ends(k)
         /\ Undo(c) => \E k \in AnyCall : /\ call' = [call EXCEPT ![c] = k]
                                          /\ k.op = "schedule" /\ k.pc = "clear" /\ k.mine = NoRecord
         /\ \A pc \in Steps : Goto(c, pc) =>
              \E k \in AnyCall : /\ call' = [call EXCEPT ![c] = k] /\ k.pc = pc
                                 /\ k.op = call[c].op /\ k.snap = call[c].snap /\ k.mine = call[c].mine
  <1>1. Return(c) => \E k \in AnyCall : call' = [call EXCEPT ![c] = k] /\ Ends(k)
    BY IdleCall DEF Return, Idle, Ends
  <1>2. Undo(c) => \E k \in AnyCall : /\ call' = [call EXCEPT ![c] = k]
                                      /\ k.op = "schedule" /\ k.pc = "clear" /\ k.mine = NoRecord
    BY IdleCall DEF Undo, Idle
  <1>3. ASSUME NEW pc \in Steps, Goto(c, pc)
        PROVE  \E k \in AnyCall : /\ call' = [call EXCEPT ![c] = k] /\ k.pc = pc
                                  /\ k.op = call[c].op /\ k.snap = call[c].snap /\ k.mine = call[c].mine
    <2> DEFINE k == [call[c] EXCEPT !.pc = pc]
    <2>1. call[c] \in AnyCall
      BY DEF IInv, TypeInv
    <2>2. k \in AnyCall /\ k.pc = pc /\ k.op = call[c].op /\ k.snap = call[c].snap /\ k.mine = call[c].mine
      BY <2>1 DEF AnyCall
    <2>3. call' = [call EXCEPT ![c] = k]
      BY <1>3 DEF Goto, IInv, TypeInv
    <2> HIDE DEF k
    <2> QED BY <2>2, <2>3
  <1> QED BY <1>1, <1>2, <1>3

\* A call that begins.
LEMMA StartTurns ==
  ASSUME IInv, NEW c \in Callers, CallStarts(c)
  PROVE  \E k \in AnyCall : call' = [call EXCEPT ![c] = k] /\ Turns(c, k)
  <1> USE DEF Turns, Begins
  <1>1. ASSUME NEW d \in OnRecord, Schedule(c, d)
        PROVE  \E k \in AnyCall : call' = [call EXCEPT ![c] = k] /\ Turns(c, k)
    <2> DEFINE k == [Idle EXCEPT !.op = "schedule", !.pc = "verify", !.snap = d]
    <2>1. k \in AnyCall /\ k.op = "schedule" /\ k.pc = "verify" /\ k.mine = NoRecord
      BY IdleCall DEF AnyCall, Ops, Steps, Snaps, OnRecord, Idle
    <2>2. call' = [call EXCEPT ![c] = k] /\ ~Pending
      BY <1>1 DEF Schedule
    <2> HIDE DEF k
    <2> QED BY <2>1, <2>2
  <1>2. ASSUME NEW d \in OnRecord, Delete(c, d)
        PROVE  \E k \in AnyCall : call' = [call EXCEPT ![c] = k] /\ Turns(c, k)
    <2> DEFINE k == [Idle EXCEPT !.op = "delete", !.pc = "dlock", !.snap = d]
    <2>1. k \in AnyCall /\ k.op = "delete" /\ k.pc = "dlock" /\ k.mine = NoRecord
      BY IdleCall DEF AnyCall, Ops, Steps, Snaps, OnRecord, Idle
    <2>2. call' = [call EXCEPT ![c] = k]
      BY <1>2 DEF Delete
    <2> HIDE DEF k
    <2> QED BY <2>1, <2>2
  <1>3. CASE Cancel(c)
    <2> DEFINE k == [Idle EXCEPT !.op = "cancel", !.pc = "clear"]
    <2>1. k \in AnyCall /\ k.op = "cancel" /\ k.pc = "clear" /\ k.mine = NoRecord
      BY IdleCall DEF AnyCall, Ops, Steps, Idle
    <2>2. call' = [call EXCEPT ![c] = k] /\ record.phase \in {"preparing", "armed"}
      BY <1>3 DEF Cancel
    <2> HIDE DEF k
    <2> QED BY <2>1, <2>2
  <1>4. CASE Reconcile(c)
    <2> DEFINE copy == [record EXCEPT !.phase = "terminal"]
               k == [Idle EXCEPT !.op = "reconcile",
                                 !.pc = IF record.phase = "terminal" THEN "clear" ELSE "update",
                                 !.mine = copy]
    <2>1. record \in AnyRecord
      BY DEF IInv, TypeInv
    <2>2. /\ copy \in AnyRecord /\ copy.phase = "terminal" /\ copy.id = record.id
          /\ copy.target = record.target /\ copy.fallback = record.fallback
      BY <2>1 DEF AnyRecord, Phases
    <2>3. call' = [call EXCEPT ![c] = k]
      BY <1>4 DEF Reconcile
    <2> HIDE DEF copy
    <2>4. k \in AnyCall /\ k.op = "reconcile" /\ k.pc \in {"clear", "update"} /\ k.mine = copy
      BY <2>2, IdleCall DEF AnyCall, Ops, Steps, Idle
    <2> HIDE DEF k
    <2> QED BY <2>2, <2>3, <2>4
  <1> QED BY <1>1, <1>2, <1>3, <1>4 DEF CallStarts

\* A call that goes on.
LEMMA StepTurns ==
  ASSUME IInv, NEW c \in Callers, CallGoesOn(c)
  PROVE  \E k \in AnyCall : call' = [call EXCEPT ![c] = k] /\ Turns(c, k)
  <1> DEFINE Goal == \E k \in AnyCall : call' = [call EXCEPT ![c] = k] /\ Turns(c, k)
  <1>1. Return(c) => Goal
    BY Turning DEF Turns
  <1>2. ASSUME Undo(c), \/ call[c].pc \in Preparing
                        \/ call[c].pc \in {"update", "write"} /\ call[c].op = "schedule"
        PROVE  Goal
    <2>1. PICK k \in AnyCall : /\ call' = [call EXCEPT ![c] = k]
                               /\ k.op = "schedule" /\ k.pc = "clear" /\ k.mine = NoRecord
      BY <1>2, Turning
    <2> QED BY <1>2, <2>1 DEF Turns, Undoes
  <1>3. ASSUME NEW pc \in Steps, Goto(c, pc), <<call[c].pc, pc>> \in Onward,
               pc = "archive" => call[c].op = "reconcile",
               call[c].pc = "clear" /\ call[c].op = "reconcile" => pc = "archive",
               pc = "arm" => call[c].op = "schedule"
        PROVE  Goal
    <2>1. PICK k \in AnyCall : /\ call' = [call EXCEPT ![c] = k] /\ k.pc = pc
                               /\ k.op = call[c].op /\ k.snap = call[c].snap /\ k.mine = call[c].mine
      BY <1>3, Turning
    <2> QED BY <1>3, <2>1 DEF Turns, GoesOn
  <1>4. ASSUME FallbackLock(c) /\ ~Return(c) PROVE Goal
    <2>1. PICK d \in Snapshots, i \in TransactionIds \ (used \cup {Old}) :
            /\ used' = used \cup {i} /\ call[c].pc = "fallback"
            /\ call' = [call EXCEPT ![c].pc = "protecting",
                          ![c].mine = [id |-> i, target |-> call[c].snap, fallback |-> d,
                                       phase |-> "preparing"]]
      BY <1>4 DEF FallbackLock
    <2> DEFINE new == [id |-> i, target |-> call[c].snap, fallback |-> d, phase |-> "preparing"]
               k == [call[c] EXCEPT !.pc = "protecting", !.mine = new]
    <2>2. call[c] \in AnyCall
      BY DEF IInv, TypeInv
    <2>3. new \in AnyRecord /\ new.id = i
      BY <2>2 DEF AnyRecord, AnyCall, Ids, Snaps, Phases
    <2>4. call' = [call EXCEPT ![c] = k]
      BY <2>1 DEF IInv, TypeInv
    <2> HIDE DEF new
    <2>5. k \in AnyCall /\ k.pc = "protecting" /\ k.op = call[c].op /\ k.mine = new
      BY <2>2, <2>3 DEF AnyCall, Steps
    <2> HIDE DEF k
    <2> QED BY <2>1, <2>3, <2>4, <2>5 DEF Turns, Names
  <1>5. ASSUME VerifyGrubEntry(c) /\ ~Undo(c) PROVE Goal
    <2> DEFINE new == [call[c].mine EXCEPT !.phase = "armed"]
               k == [call[c] EXCEPT !.pc = "update", !.mine = new]
    <2>1. call[c] \in AnyCall /\ call[c].pc = "entry"
      BY <1>5 DEF IInv, TypeInv, VerifyGrubEntry
    <2>2. /\ new \in AnyRecord /\ new.id = call[c].mine.id
          /\ new.target = call[c].mine.target /\ new.fallback = call[c].mine.fallback
      BY <2>1 DEF AnyRecord, AnyCall, Phases
    <2>3. call' = [call EXCEPT ![c] = k]
      <3>1. call' = [call EXCEPT ![c].pc = "update", ![c].mine.phase = "armed"]
        BY <1>5 DEF VerifyGrubEntry
      <3>2. call \in [Callers -> AnyCall]
        BY DEF IInv, TypeInv
      <3> QED BY <2>1, <3>1, <3>2 DEF AnyCall, AnyRecord
    <2> HIDE DEF new
    <2>4. k \in AnyCall /\ k.pc = "update" /\ k.op = call[c].op /\ k.mine = new
      BY <2>1, <2>2 DEF AnyCall, Steps
    <2> HIDE DEF k
    <2> QED BY <2>1, <2>2, <2>3, <2>4 DEF Turns, Arms
  <1> HIDE DEF Goal
  <1>6. ASSUME \/ VerifyLock(c) \/ VerifyEnd(c) \/ FallbackEnd(c) \/ StartLock(c) \/ CheckPackage(c)
               \/ CreateTransaction(c) \/ ConfigureBoot(c)
        PROVE  Goal
    BY <1>1, <1>2, <1>3, <1>6 DEF VerifyLock, VerifyEnd, FallbackEnd, StartLock, CheckPackage, CreateTransaction,
       ConfigureBoot, Preparing, Onward, Steps
  <1>7. ASSUME UpdateCheck(c) \/ UpdateWrite(c) \/ ArmOnce(c) PROVE Goal
    BY <1>1, <1>2, <1>3, <1>7 DEF UpdateCheck, UpdateWrite, ArmOnce, Preparing, Onward, Steps
  <1>8. ASSUME ClearOnce(c) \/ ArchiveTransaction(c) \/ RemoveTransaction(c) \/ RegenerateAtEnd(c) PROVE Goal
    BY <1>1, <1>3, <1>8 DEF ClearOnce, ArchiveTransaction, RemoveTransaction, RegenerateAtEnd, Proceed, Onward, Steps
  <1>9. ASSUME DeleteLock(c) \/ DeleteCheck(c) \/ DeleteEnd(c) PROVE Goal
    BY <1>1, <1>3, <1>9 DEF DeleteLock, DeleteCheck, DeleteEnd, Onward, Steps
  <1>10. ASSUME FallbackLock(c) PROVE Goal
    BY <1>1, <1>4, <1>10
  <1>11. ASSUME VerifyGrubEntry(c) PROVE Goal
    BY <1>2, <1>5, <1>11 DEF VerifyGrubEntry, Preparing
  <1>12. Goal
    BY <1>6, <1>7, <1>8, <1>9, <1>10, <1>11 DEF CallGoesOn
  <1> QED BY <1>12 DEF Goal

\* What a call writes: the pending rollback in three places, the history in one,
\* and nothing of the package transactions.
LEMMA CallWrites ==
  ASSUME IInv, NEW c \in Callers, CallStarts(c) \/ CallGoesOn(c)
  PROVE  /\ \/ record' = record /\ overrun' = overrun
            \/ call[c].pc = "claim" /\ ~Pending /\ record' = call[c].mine /\ overrun' = overrun
            \/ call[c].pc = "remove" /\ record' = NoRecord /\ overrun' = overrun
            \/ /\ call[c].pc = "write" /\ record' \in {record, call[c].mine}
               /\ overrun' = (overrun \/ record'.id # record.id)
         /\ \/ history' = history /\ ~(call[c].pc = "archive" /\ call'[c].pc = "remove")
            \/ call[c].pc = "archive" /\ history' = history \cup {call[c].mine.id}
         /\ call[c].pc # "fallback" => used' = used
         /\ used' = used \/ \E i \in TransactionIds \ (used \cup {Old}) : used' = used \cup {i}
         /\ UNCHANGED <<package, archived, browsed, requested, hook, begun>>
  <1>1. call \in [Callers -> AnyCall]
    BY DEF IInv, TypeInv
  <1>2. CASE CallStarts(c)
    <2>1. UNCHANGED <<record, overrun, history, used, package, archived, browsed, requested, hook, begun>>
      BY <1>2 DEF CallStarts, Schedule, Delete, Cancel, Reconcile, storeVars
    <2>2. call[c] = Idle
      BY <1>2 DEF CallStarts, Schedule, Delete, Cancel, Reconcile
    <2> QED BY <2>1, <2>2 DEF Idle
  <1>3. CASE CallGoesOn(c)
    <2>1. CASE \/ VerifyLock(c) \/ VerifyEnd(c) \/ FallbackEnd(c) \/ StartLock(c) \/ CheckPackage(c)
               \/ ConfigureBoot(c) \/ VerifyGrubEntry(c) \/ UpdateCheck(c) \/ ArmOnce(c) \/ ClearOnce(c)
               \/ RegenerateAtEnd(c) \/ DeleteLock(c) \/ DeleteCheck(c) \/ DeleteEnd(c)
      BY <2>1 DEF VerifyLock, VerifyEnd, FallbackEnd, StartLock, CheckPackage, ConfigureBoot, VerifyGrubEntry,
         UpdateCheck, ArmOnce, ClearOnce, RegenerateAtEnd, DeleteLock, DeleteCheck, DeleteEnd, storeVars
    <2>2. CASE FallbackLock(c)
      BY <2>2 DEF FallbackLock
    <2>3. CASE CreateTransaction(c)
      BY <2>3 DEF CreateTransaction
    <2>4. CASE UpdateWrite(c)
      BY <2>4 DEF UpdateWrite
    <2>5. CASE RemoveTransaction(c)
      BY <2>5 DEF RemoveTransaction
    <2>6. CASE ArchiveTransaction(c)
      BY <1>1, <2>6 DEF ArchiveTransaction, Return, Idle
    <2> QED BY <1>3, <2>1, <2>2, <2>3, <2>4, <2>5, <2>6 DEF CallGoesOn
  <1> QED BY <1>2, <1>3

-----------------------------------------------------------------------------
\* Which operation is where, and what copy it carries: a schedule never carries
\* the rollback that early boot left, and a reconcile only decided ones.
OpInv ==
  \A c \in Callers :
    /\ call[c].op = "schedule" => call[c].mine.id # Old
    /\ call[c].op = "reconcile" => call[c].mine.phase = "terminal"
    /\ call[c].pc \in Preparing => call[c].op = "schedule"
    /\ call[c].pc \in {"update", "write"} => call[c].op \in {"schedule", "reconcile"}
    /\ call[c].pc \in {"clear", "remove", "regenerate"} => call[c].op \in {"schedule", "cancel", "reconcile"}
    /\ call[c].pc = "archive" => call[c].op = "reconcile"

\* If early boot applied the rollback Old, it is pending and past the point
\* where it could be cancelled, or its outcome is in the history; and whoever
\* may remove or replace a record knows the latter, or carries Old itself and
\* has archived it before the removal.
OldInv ==
  Old \in used /\ requested = None =>
    /\ record.id = Old \/ Old \in history
    /\ record.id = Old => record.phase \in {"unconfirmed", "terminal"}
    /\ \A c \in Callers :
         /\ call[c].op \in {"schedule", "cancel"} => Old \in history
         /\ call[c].op = "reconcile" /\ call[c].mine.id # Old => Old \in history
         /\ call[c].op = "reconcile" /\ call[c].pc = "remove" => call[c].mine.id \in history

\* A step of one call leaves the others as they are.
LEMMA OneCall ==
  ASSUME IInv, NEW c \in Callers, CallStarts(c) \/ CallGoesOn(c)
  PROVE  \E k \in AnyCall : Turns(c, k) /\ \A a \in Callers : call'[a] = IF a = c THEN k ELSE call[a]
  BY StartTurns, StepTurns DEF IInv, TypeInv

\* Every call keeps to its operation.
LEMMA OpCall == ASSUME IInv, OpInv, NEW c \in Callers, CallStarts(c) \/ CallGoesOn(c) PROVE OpInv'
  <1>1. PICK k \in AnyCall : Turns(c, k) /\ \A a \in Callers : call'[a] = IF a = c THEN k ELSE call[a]
    BY OneCall
  <1>2. NoRecord.id # Old
    BY IdsAssumption DEF NoRecord
  <1> DEFINE Good(x) ==
        /\ x.op = "schedule" => x.mine.id # Old
        /\ x.op = "reconcile" => x.mine.phase = "terminal"
        /\ x.pc \in Preparing => x.op = "schedule"
        /\ x.pc \in {"update", "write"} => x.op \in {"schedule", "reconcile"}
        /\ x.pc \in {"clear", "remove", "regenerate"} => x.op \in {"schedule", "cancel", "reconcile"}
        /\ x.pc = "archive" => x.op = "reconcile"
  <1>3. Good(call[c])
    BY DEF OpInv
  <1>4. Good(k)
    <2>1. CASE Ends(k)
      BY <2>1 DEF Ends, Preparing
    <2>2. CASE Undoes(c, k)
      BY <1>2, <2>2 DEF Undoes, Preparing
    <2>3. CASE GoesOn(c, k)
      BY <1>3, <2>3 DEF GoesOn, Onward, Preparing
    <2>4. CASE Names(c, k)
      BY <1>3, <2>4 DEF Names, Preparing
    <2>5. CASE Arms(c, k)
      BY <1>3, <2>5 DEF Arms, Preparing
    <2>6. CASE Begins(k)
      BY <1>2, <2>6 DEF Begins, Preparing
    <2> QED BY <1>1, <2>1, <2>2, <2>3, <2>4, <2>5, <2>6 DEF Turns
  <1> QED BY <1>1, <1>4 DEF OpInv

\* Whoever writes or removes the pending rollback leaves Old pending or archived.
LEMMA OldCall == ASSUME IInv, OpInv, OldInv, NEW c \in Callers, CallStarts(c) \/ CallGoesOn(c) PROVE OldInv'
  <1>1. PICK k \in AnyCall : Turns(c, k) /\ \A a \in Callers : call'[a] = IF a = c THEN k ELSE call[a]
    BY OneCall
  <1>2. NoRecord.id # Old /\ (~Pending => record.id # Old)
    BY IdsAssumption DEF NoRecord, Pending
  <1>3. call'[c] = k
    BY <1>1
  <1> SUFFICES ASSUME Old \in used', requested' = None
               PROVE  /\ record'.id = Old \/ Old \in history'
                      /\ record'.id = Old => record'.phase \in {"unconfirmed", "terminal"}
                      /\ \A a \in Callers :
                           /\ call'[a].op \in {"schedule", "cancel"} => Old \in history'
                           /\ call'[a].op = "reconcile" /\ call'[a].mine.id # Old => Old \in history'
                           /\ call'[a].op = "reconcile" /\ call'[a].pc = "remove" => call'[a].mine.id \in history'
    BY DEF OldInv
  <1>4. Old \in used /\ requested = None
    BY CallWrites
  <1>5. /\ record.id = Old \/ Old \in history
        /\ record.id = Old => record.phase \in {"unconfirmed", "terminal"}
    BY <1>4 DEF OldInv
  <1>6. \A a \in Callers :
          /\ call[a].op \in {"schedule", "cancel"} => Old \in history
          /\ call[a].op = "reconcile" /\ call[a].mine.id # Old => Old \in history
          /\ call[a].op = "reconcile" /\ call[a].pc = "remove" => call[a].mine.id \in history
    BY <1>4 DEF OldInv
  <1>7. history \subseteq history'
    BY CallWrites
  <1>8. /\ record'.id = Old \/ Old \in history'
        /\ record'.id = Old => record'.phase \in {"unconfirmed", "terminal"}
    <2>1. CASE record' = record
      BY <1>5, <1>7, <2>1
    <2>2. CASE call[c].pc = "claim" /\ ~Pending /\ record' = call[c].mine
      <3>1. call[c].op = "schedule" /\ call[c].mine.id # Old
        BY <2>2 DEF OpInv, Preparing
      <3> QED BY <1>6, <1>7, <2>2, <3>1
    <2>3. CASE call[c].pc = "remove" /\ record' = NoRecord
      <3>1. call[c].op \in {"schedule", "cancel", "reconcile"}
        BY <2>3 DEF OpInv
      <3> QED BY <1>2, <1>6, <1>7, <2>3, <3>1
    <2>4. CASE call[c].pc = "write" /\ record' = call[c].mine
      <3>1. \/ call[c].op = "schedule" /\ call[c].mine.id # Old
            \/ call[c].op = "reconcile" /\ call[c].mine.phase = "terminal"
        BY <2>4 DEF OpInv
      <3> QED BY <1>6, <1>7, <2>4, <3>1
    <2> QED BY <2>1, <2>2, <2>3, <2>4, CallWrites
  <1>9. /\ k.op \in {"schedule", "cancel"} => Old \in history
        /\ k.op = "reconcile" /\ k.mine.id # Old => Old \in history
        /\ k.op = "reconcile" /\ k.pc = "remove" => k.mine.id \in history'
    <2>1. CASE Ends(k)
      BY <2>1 DEF Ends
    <2>2. CASE Undoes(c, k)
      BY <1>6, <2>2 DEF Undoes, OpInv
    <2>3. CASE GoesOn(c, k)
      <3>1. k.op = call[c].op /\ k.mine = call[c].mine
        BY <2>3 DEF GoesOn
      <3>2. k.pc = "remove" /\ k.op = "reconcile" => call[c].pc = "archive"
        BY <2>3 DEF GoesOn, Onward
      <3>3. k.pc = "remove" /\ k.op = "reconcile" => history' = history \cup {call[c].mine.id}
        BY <1>3, <3>2, CallWrites
      <3> QED BY <1>6, <3>1, <3>3
    <2>4. CASE Names(c, k)
      <3>1. call[c].op = "schedule"
        BY <2>4 DEF Names, OpInv, Preparing
      <3> QED BY <1>6, <2>4, <3>1 DEF Names
    <2>5. CASE Arms(c, k)
      <3>1. call[c].op = "schedule"
        BY <2>5 DEF Arms, OpInv, Preparing
      <3> QED BY <1>6, <2>5, <3>1 DEF Arms
    <2>6. CASE Begins(k)
      BY <1>2, <1>5, <2>6 DEF Begins
    <2> QED BY <1>1, <2>1, <2>2, <2>3, <2>4, <2>5, <2>6 DEF Turns
  <1> QED BY <1>1, <1>6, <1>7, <1>8, <1>9

-----------------------------------------------------------------------------
\* A package transaction that was begun is either the pending one or archived,
\* and the hook creates one only when none is pending.
PackageInv ==
  /\ begun \subseteq PackageIds /\ archived \subseteq begun
  /\ package.id \in begun \cup {None} /\ (PackagePending => package.id \in begun)
  /\ \A i \in begun : (i \in archived) # (package.id = i)
  /\ hook.pc = "create" => ~PackagePending

\* The steps of the hook that keep the pending transaction, or there is none.
LEMMA KeepsPackage ==
  ASSUME PackageInv, UNCHANGED <<begun, archived>>, package'.id = package.id,
         PackagePending' => PackagePending, hook'.pc = "create" => hook.pc = "create"
  PROVE  PackageInv'
  BY DEF PackageInv

\* No step of the hook loses a package transaction.
LEMMA PackageHook == ASSUME IInv, PackageInv, HookStarts \/ HookGoesOn \/ HookKilled PROVE PackageInv'
  <1>1. /\ package \in AnyPackage /\ hook \in AnyHook
        /\ (hook.pc \in Owning => PackagePending) /\ (~PackagePending => package.id = None)
    BY DEF IInv, TypeInv, OwnerInv, PackagePending, NoPackage
  <1>2. NoPackage.id = None
    BY DEF NoPackage
  <1>3. \A pc \in HookSteps : HookGoto(pc) => hook'.pc = pc
    BY HookAt
  <1>4. HookReturn \/ RunsDpkg => hook'.pc \in {"idle", "dpkg"}
    BY HookTypes DEF HookReturn, RunsDpkg
  <1>5. CASE HookStarts
    <2>1. UNCHANGED <<begun, archived, package>> /\ hook'.pc # "create"
      BY <1>4, <1>5 DEF HookStarts, HookPre, helperVars, NoHook
    <2> QED BY <2>1, KeepsPackage DEF PackagePending
  <1>6. CASE HookLock \/ HookSnapshot \/ HookSnapshotEnd \/ (\E after \in BOOLEAN : HookPost(after)) \/ HookKilled
    <2>1. UNCHANGED <<begun, archived, package>>
      BY <1>6 DEF HookLock, HookSnapshot, HookSnapshotEnd, HookPost, HookKilled
    <2>2. hook'.pc # "create"
      <3>1. CASE HookLock
        BY <1>3, <3>1 DEF HookLock, HookSteps
      <3>2. CASE HookSnapshot
        BY <1>1, <3>2 DEF HookSnapshot, HookGoto, AnyHook
      <3>3. CASE HookSnapshotEnd
        BY <1>1, <3>3 DEF HookSnapshotEnd, HookGoto, AnyHook
      <3>4. CASE \E after \in BOOLEAN : HookPost(after)
        BY <1>3, <1>4, <3>4 DEF HookPost, HookSteps
      <3>5. CASE HookKilled
        BY <1>4, <3>5 DEF HookKilled
      <3> QED BY <1>6, <3>1, <3>2, <3>3, <3>4, <3>5
    <2> QED BY <2>1, <2>2, KeepsPackage DEF PackagePending
  <1>7. CASE HookBegin
    <2>1. UNCHANGED <<begun, archived>> /\ hook'.pc # "create"
      BY <1>3, <1>4, <1>7 DEF HookBegin, HookSteps
    <2>2. package' = package \/ (PackagePending /\ package' = [package EXCEPT !.phase = "terminal"])
      BY <1>7 DEF HookBegin
    <2>3. package'.id = package.id /\ (PackagePending' => PackagePending)
      BY <1>1, <2>2 DEF AnyPackage, PackagePending
    <2> QED BY <2>1, <2>3, KeepsPackage
  <1>8. CASE HookSave \/ HookArchive
    <2>1. UNCHANGED <<begun, archived>> /\ hook'.pc # "create" /\ PackagePending
      BY <1>1, <1>3, <1>4, <1>8 DEF HookSave, HookArchive, HookSteps, Owning
    <2>2. package'.id = package.id
      BY <1>1, <1>8 DEF HookSave, HookArchive, AnyPackage
    <2> QED BY <2>1, <2>2, KeepsPackage
  <1>9. CASE HookStale
    <2>1. /\ archived' = archived \cup (IF PackagePending THEN {package.id} ELSE {}) /\ package' = NoPackage
          /\ begun' = begun
      BY <1>9 DEF HookStale
    <2>2. package'.id = None /\ ~PackagePending'
      BY <2>1, <1>2 DEF PackagePending, NoPackage
    <2> QED BY <1>1, <2>1, <2>2, IdsAssumption DEF PackageInv
  <1>10. CASE HookRename
    <2>1. archived' = archived \cup {package.id} /\ package' = NoPackage /\ begun' = begun /\ PackagePending
      BY <1>1, <1>10 DEF HookRename, Owning
    <2>2. package'.id = None /\ ~PackagePending'
      BY <2>1, <1>2 DEF PackagePending, NoPackage
    <2> QED BY <2>1, <2>2, IdsAssumption DEF PackageInv
  <1>11. CASE HookCreate
    <2>1. PICK i \in PackageIds \ begun :
            begun' = begun \cup {i} /\ package' = [id |-> i, names |-> {}, phase |-> "preparing"]
      BY <1>11 DEF HookCreate
    <2>2. package'.id = i
      BY <2>1
    <2>3. hook'.pc # "create" /\ archived' = archived /\ ~PackagePending
      BY <1>3, <1>11 DEF HookCreate, HookSteps, PackageInv
    <2>4. \A j \in begun : j \in archived
      BY <1>1, <2>3, IdsAssumption DEF PackageInv
    <2> QED BY <2>1, <2>2, <2>3, <2>4 DEF PackageInv
  <1> QED BY <1>5, <1>6, <1>7, <1>8, <1>9, <1>10, <1>11 DEF HookGoesOn

\* A killed program knows nothing any more.
LEMMA KilledCalls ==
  ASSUME NEW programs \in SUBSET Callers, Killed(programs)
  PROVE  /\ \A c \in Callers : call'[c] = call[c] \/ (call'[c] = Idle /\ Ends(call'[c]))
         /\ UNCHANGED <<record, history, package, archived, requested, hook, used, begun, snaps, overrun>>
         /\ browsed' \subseteq browsed
  <1>1. Ends(Idle)
    BY DEF Ends, Idle
  <1>2. call' = [c \in Callers |-> IF c \in programs THEN Idle ELSE call[c]]
    BY DEF Killed
  <1>3. \A c \in Callers : call'[c] = call[c] \/ call'[c] = Idle
    BY <1>2
  <1> QED BY <1>1, <1>3 DEF Killed

\* The steps of the hook and of a browser leave the calls and the rollback alone.
LEMMA OtherSteps ==
  ASSUME \/ HookStarts \/ HookGoesOn \/ HookKilled
         \/ (\E d \in Snapshots : Browse(d) \/ EndBrowse(d)) \/ UNCHANGED vars
  PROVE  UNCHANGED <<call, record, history, requested, used, overrun>>
  BY DEF HookStarts, HookGoesOn, HookKilled, HookPre, HookLock, HookBegin, HookStale, HookCreate, HookSnapshot,
     HookSnapshotEnd, HookSave, HookArchive, HookRename, HookPost, helperVars, Browse, EndBrowse, vars, storeVars

RecordedInv == OpInv /\ OldInv /\ PackageInv

\* A booted system has its rollback pending, and at most one package transaction.
LEMMA RecordedInit == Init => RecordedInv
  <1> SUFFICES ASSUME Init PROVE RecordedInv
    OBVIOUS
  <1>1. \A c \in Callers : call[c].op = "none" /\ call[c].pc = "idle"
    BY DEF Init, Idle
  <1>2. OpInv
    BY <1>1 DEF OpInv, Preparing
  <1>3. OldInv
    <2>1. CASE record = NoRecord
      BY <2>1 DEF Init, OldInv
    <2>2. CASE record # NoRecord
      <3>1. PICK d \in Kept, f \in Kept, p \in {"armed", "unconfirmed", "terminal"} :
              /\ record = [id |-> Old, target |-> d, fallback |-> f, phase |-> p]
              /\ requested = IF p = "armed" THEN Old ELSE None
        BY <2>2 DEF Init
      <3>2. record.id = Old /\ record.phase = p /\ (requested = None => p # "armed")
        BY <3>1, IdsAssumption
      <3> QED BY <1>1, <3>2 DEF OldInv
    <2> QED BY <2>1, <2>2
  <1>4. PackageInv
    <2>1. hook.pc = "idle" /\ archived = {}
      BY DEF Init
    <2>2. CASE package = NoPackage
      BY <2>1, <2>2 DEF Init, PackageInv, PackagePending, NoPackage
    <2>3. CASE package # NoPackage
      <3>1. package.id \in PackageIds /\ begun = {package.id}
        BY <2>3 DEF Init
      <3> QED BY <2>1, <3>1 DEF PackageInv
    <2> QED BY <2>2, <2>3
  <1> QED BY <1>2, <1>3, <1>4 DEF RecordedInv

\* No step of anybody loses an outcome.
LEMMA RecordedNext == IInv /\ RecordedInv /\ [Next]_vars => RecordedInv'
  <1> SUFFICES ASSUME IInv, RecordedInv, [Next]_vars PROVE RecordedInv'
    OBVIOUS
  <1> USE DEF RecordedInv
  <1>1. ASSUME NEW c \in Callers, CallStarts(c) \/ CallGoesOn(c) PROVE RecordedInv'
    <2>1. UNCHANGED <<package, archived, hook, begun>>
      BY <1>1, CallWrites
    <2>2. PackageInv'
      BY <2>1 DEF PackageInv, PackagePending
    <2> QED BY <1>1, <2>2, OpCall, OldCall
  <1>2. ASSUME NEW programs \in SUBSET Callers, Killed(programs) PROVE RecordedInv'
    <2>1. PackageInv'
      BY <1>2, KilledCalls DEF PackageInv, PackagePending
    <2>2. OpInv'
      BY <1>2, KilledCalls DEF OpInv, Ends, Preparing
    <2>3. OldInv'
      BY <1>2, KilledCalls DEF OldInv, Ends
    <2> QED BY <2>1, <2>2, <2>3
  <1>3. ASSUME UNCHANGED <<call, record, history, requested, used>>, PackageInv' PROVE RecordedInv'
    <2>1. OpInv'
      BY <1>3 DEF OpInv
    <2>2. OldInv'
      BY <1>3 DEF OldInv
    <2> QED BY <1>3, <2>1, <2>2
  <1>4. CASE HookStarts \/ HookGoesOn \/ HookKilled
    BY <1>3, <1>4, PackageHook, OtherSteps
  <1>5. CASE (\E d \in Snapshots : Browse(d) \/ EndBrowse(d)) \/ UNCHANGED vars
    <2>1. UNCHANGED <<package, archived, hook, begun>>
      BY <1>5 DEF Browse, EndBrowse, vars, storeVars
    <2>2. PackageInv'
      BY <2>1 DEF PackageInv, PackagePending
    <2> QED BY <1>3, <1>5, <2>2, OtherSteps
  <1> QED BY <1>1, <1>2, <1>4, <1>5 DEF Next, Callers

\* The outcome of the rollback that early boot applied is never lost, whoever
\* else schedules, cancels or reconciles (ConfirmationEngine archives before it
\* removes); and a package transaction is pending or in its history, and not in
\* both, at every point of the hook.
THEOREM OutcomesAlwaysRecorded == Spec => []OutcomesAreRecorded
  <1>1. RecordedInv => OutcomesAreRecorded
    BY DEF RecordedInv, OldInv, PackageInv, OutcomesAreRecorded
  <1> QED BY <1>1, InitInv, NextInv, RecordedInit, RecordedNext, PTL DEF Spec

-----------------------------------------------------------------------------
\* Copies of one rollback name the same snapshots, wherever they are: an id is
\* given out once, and nobody changes what its record names.
Same(a, b) == a.id = b.id /\ a.id # None => a.target = b.target /\ a.fallback = b.fallback

AgreeInv ==
  /\ record.id \in used \cup {None}
  /\ \A c \in Callers : call[c].mine.id \in used \cup {None} /\ Same(call[c].mine, record)
  /\ \A a, b \in Callers : Same(call[a].mine, call[b].mine)

\* What a deletion has found out under its locks holds to its end: nobody
\* browses the snapshot, and the pending rollback does not name it.
DeletingInv ==
  \A c \in Callers : call[c].pc = "dremove" =>
    /\ call[c].snap \notin browsed
    /\ ~overrun => call[c].snap \notin {record.target, record.fallback} \ {None}

StaysInv == snaps \in [Snapshots -> SnapStates] /\ AgreeInv /\ DeletingInv

\* The states of the snapshots after any step.
LEMMA SnapsNext == snaps \in [Snapshots -> SnapStates] /\ [Next]_vars => snaps' \in [Snapshots -> SnapStates]
  <1> SUFFICES ASSUME snaps \in [Snapshots -> SnapStates], [Next]_vars PROVE snaps' \in [Snapshots -> SnapStates]
    OBVIOUS
  <1> USE DEF SnapStates
  <1>1. ASSUME NEW c \in Callers, CallStarts(c) PROVE snaps' \in [Snapshots -> SnapStates]
    BY <1>1 DEF CallStarts, Schedule, Delete, Cancel, Reconcile, storeVars
  <1>2. ASSUME NEW c \in Callers, CallGoesOn(c) PROVE snaps' \in [Snapshots -> SnapStates]
    <2>1. CASE FallbackLock(c) \/ FallbackEnd(c) \/ DeleteCheck(c) \/ DeleteEnd(c)
      BY <2>1 DEF FallbackLock, FallbackEnd, DeleteCheck, DeleteEnd, Creating, Created
    <2>2. CASE ~(FallbackLock(c) \/ FallbackEnd(c) \/ DeleteCheck(c) \/ DeleteEnd(c))
      BY <1>2, <2>2 DEF CallGoesOn, VerifyLock, VerifyEnd, StartLock, CheckPackage, CreateTransaction, ConfigureBoot,
         VerifyGrubEntry, UpdateCheck, UpdateWrite, ArmOnce, ClearOnce, ArchiveTransaction, RemoveTransaction,
         RegenerateAtEnd, DeleteLock, storeVars
    <2> QED BY <2>1, <2>2
  <1>3. CASE HookStarts \/ HookGoesOn \/ HookKilled
    BY <1>3 DEF HookStarts, HookGoesOn, HookKilled, HookPre, HookLock, HookBegin, HookStale, HookCreate,
       HookSnapshot, HookSnapshotEnd, HookSave, HookArchive, HookRename, HookPost, Creating, Created
  <1>4. CASE \/ (\E d \in Snapshots : Browse(d) \/ EndBrowse(d)) \/ UNCHANGED vars
             \/ Killed(Tasks) \/ Killed({Unit})
    BY <1>4 DEF Browse, EndBrowse, vars, storeVars, Killed
  <1> QED BY <1>1, <1>2, <1>3, <1>4 DEF Next

\* The copy that a call carries after a step is one there was, the record, none,
\* or that of a new rollback.
LEMMA CopyStep ==
  ASSUME IInv, AgreeInv, NEW c \in Callers, NEW k \in AnyCall, Turns(c, k)
  PROVE  \/ k.mine.id = None
         \/ /\ k.mine.id = call[c].mine.id
            /\ k.mine.target = call[c].mine.target /\ k.mine.fallback = call[c].mine.fallback
         \/ k.mine.id = record.id /\ k.mine.target = record.target /\ k.mine.fallback = record.fallback
         \/ k.mine.id \notin used /\ used' = used \cup {k.mine.id} /\ call[c].pc = "fallback"
  BY DEF Turns, Ends, Undoes, GoesOn, Names, Arms, Begins, NoRecord

\* Copies agree after every step of a call.
LEMMA AgreeCall == ASSUME IInv, AgreeInv, NEW c \in Callers, CallStarts(c) \/ CallGoesOn(c) PROVE AgreeInv'
  <1>1. PICK k \in AnyCall : Turns(c, k) /\ \A a \in Callers : call'[a] = IF a = c THEN k ELSE call[a]
    BY OneCall
  <1>2. used \subseteq used'
    BY CallWrites
  <1> DEFINE m == k.mine
  <1>3. \/ m.id = None
        \/ m.id = call[c].mine.id /\ m.target = call[c].mine.target /\ m.fallback = call[c].mine.fallback
        \/ m.id = record.id /\ m.target = record.target /\ m.fallback = record.fallback
        \/ m.id \notin used /\ used' = used \cup {m.id} /\ call[c].pc = "fallback"
    BY <1>1, CopyStep
  <1> HIDE DEF m
  <1>4. m.id \in used' \cup {None} /\ Same(m, record) /\ \A a \in Callers : Same(m, call[a].mine) /\ Same(call[a].mine, m)
    BY <1>2, <1>3 DEF AgreeInv, Same
  <1>5. \/ record' = record
        \/ record' = call[c].mine /\ call[c].pc # "fallback"
        \/ record' = NoRecord
    BY CallWrites
  <1>6. record'.id \in used' \cup {None}
    BY <1>2, <1>5 DEF AgreeInv, NoRecord
  <1>7. \A a \in Callers : Same(call[a].mine, record')
    BY <1>5 DEF AgreeInv, Same, NoRecord
  <1>8. Same(m, record')
    BY <1>4, <1>5 DEF Same, NoRecord
  <1>9. \A a \in Callers : call'[a].mine = m \/ call'[a].mine = call[a].mine
    BY <1>1 DEF m
  <1>10. Same(m, m)
    BY DEF Same
  <1>11. \A a, b \in Callers : Same(call'[a].mine, call'[b].mine)
    BY <1>4, <1>9, <1>10 DEF AgreeInv
  <1>12. \A a \in Callers : call'[a].mine.id \in used' \cup {None} /\ Same(call'[a].mine, record')
    BY <1>2, <1>4, <1>7, <1>8, <1>9 DEF AgreeInv
  <1> QED BY <1>6, <1>11, <1>12 DEF AgreeInv, Same

\* The start lock keeps a new record away from a running deletion, and an update
\* names what the record named before, or is an overrun.
LEMMA DeletingCall ==
  ASSUME IInv, AgreeInv, DeletingInv, NEW c \in Callers, CallStarts(c) \/ CallGoesOn(c)
  PROVE  DeletingInv'
  <1>1. PICK k \in AnyCall : Turns(c, k) /\ \A a \in Callers : call'[a] = IF a = c THEN k ELSE call[a]
    BY OneCall
  <1> SUFFICES ASSUME NEW a \in Callers, call'[a].pc = "dremove"
               PROVE  /\ call'[a].snap \notin browsed'
                      /\ ~overrun' => call'[a].snap \notin {record'.target, record'.fallback} \ {None}
    BY DEF DeletingInv
  <1>2. browsed' = browsed
    BY CallWrites
  <1>3. CASE a = c
    <2>1. GoesOn(c, k) /\ call'[a] = k
      BY <1>1, <1>3 DEF Turns, Ends, Undoes, Names, Arms, Begins
    <2>2. call[c].pc = "dcheck" /\ call'[a].snap = call[c].snap
      BY <1>3, <2>1 DEF GoesOn, Onward
    <2>3. DeleteCheck(c)
      <3>1. call[c] # Idle
        BY <2>2 DEF Idle
      <3> QED BY <2>2, <3>1 DEF CallStarts, Schedule, Delete, Cancel, Reconcile, CallGoesOn, VerifyLock, VerifyEnd,
           FallbackLock, FallbackEnd, StartLock, CheckPackage, CreateTransaction, ConfigureBoot, VerifyGrubEntry,
           UpdateCheck, UpdateWrite, ArmOnce, ClearOnce, ArchiveTransaction, RemoveTransaction, RegenerateAtEnd,
           DeleteLock, DeleteEnd
    <2>4. call[c].snap \notin browsed /\ ~Referenced(call[c].snap)
      <3>1. call'[c].pc # "idle"
        BY <1>3
      <3>2. ~Return(c)
        BY <3>1 DEF Return, Idle, IInv, TypeInv
      <3> QED BY <2>3, <3>2 DEF DeleteCheck
    <2>5. record' = record
      BY <2>3 DEF DeleteCheck
    <2> QED BY <1>2, <2>2, <2>4, <2>5 DEF Referenced
  <1>4. CASE a # c
    <2>1. call'[a] = call[a] /\ call[c].pc # "claim"
      <3>1. call'[a] = call[a]
        BY <1>1, <1>4
      <3>2. startLock = a
        BY <3>1 DEF IInv, LockInv
      <3> QED BY <1>4, <3>1, <3>2 DEF IInv, LockInv
    <2>2. /\ call[a].snap \notin browsed
          /\ ~overrun => call[a].snap \notin {record.target, record.fallback} \ {None}
      BY <2>1 DEF DeletingInv
    <2>3. CASE record' = record /\ overrun' = overrun
      BY <1>2, <2>1, <2>2, <2>3
    <2>4. CASE record' = NoRecord
      BY <1>2, <2>1, <2>2, <2>4 DEF NoRecord
    <2>5. CASE /\ call[c].pc = "write" /\ record' \in {record, call[c].mine}
               /\ overrun' = (overrun \/ record'.id # record.id)
      <3>1. call[c].mine.id # None /\ Same(call[c].mine, record)
        BY <2>5 DEF IInv, NameInv, Writing, AgreeInv
      <3>2. overrun' \/ (~overrun /\ record'.target = record.target /\ record'.fallback = record.fallback)
        BY <2>5, <3>1 DEF Same
      <3> QED BY <1>2, <2>1, <2>2, <3>2
    <2> QED BY <2>1, <2>3, <2>4, <2>5, CallWrites
  <1> QED BY <1>3, <1>4

\* A booted system.
LEMMA StaysInit == Init => StaysInv
  <1> SUFFICES ASSUME Init PROVE StaysInv
    OBVIOUS
  <1>1. snaps \in [Snapshots -> SnapStates]
    BY DEF Init, SnapStates
  <1>2. \A c \in Callers : call[c].mine = NoRecord /\ call[c].pc = "idle"
    BY DEF Init, Idle
  <1>3. record.id \in used \cup {None}
    BY DEF Init, NoRecord
  <1> QED BY <1>1, <1>2, <1>3 DEF StaysInv, AgreeInv, DeletingInv, Same, NoRecord

\* The invariant holds after every step.
LEMMA StaysNext == IInv /\ StaysInv /\ [Next]_vars => StaysInv'
  <1> SUFFICES ASSUME IInv, StaysInv, [Next]_vars PROVE StaysInv'
    OBVIOUS
  <1> USE DEF StaysInv
  <1>1. snaps' \in [Snapshots -> SnapStates]
    BY SnapsNext
  <1>2. ASSUME NEW c \in Callers, CallStarts(c) \/ CallGoesOn(c) PROVE StaysInv'
    BY <1>1, <1>2, AgreeCall, DeletingCall
  <1>3. ASSUME NEW programs \in SUBSET Callers, Killed(programs) PROVE StaysInv'
    <2>1. /\ \A c \in Callers : call'[c] = call[c] \/ (call'[c].pc = "idle" /\ call'[c].mine.id = None)
          /\ UNCHANGED <<record, used, overrun>> /\ browsed' \subseteq browsed
      BY <1>3, KilledCalls DEF Ends, NoRecord
    <2>2. AgreeInv'
      BY <2>1 DEF AgreeInv, Same
    <2>3. DeletingInv'
      BY <2>1 DEF DeletingInv
    <2> QED BY <1>1, <2>2, <2>3
  <1>4. ASSUME UNCHANGED <<call, record, used, overrun>>,
               \A c \in Callers : call[c].pc = "dremove" /\ call[c].snap \in browsed' => call[c].snap \in browsed
        PROVE  StaysInv'
    <2>1. AgreeInv'
      BY <1>4 DEF AgreeInv, Same
    <2>2. DeletingInv'
      BY <1>4 DEF DeletingInv
    <2> QED BY <1>1, <2>1, <2>2
  <1>5. CASE HookStarts \/ HookGoesOn \/ HookKilled
    <2>1. browsed' = browsed
      BY <1>5 DEF HookStarts, HookGoesOn, HookKilled, HookPre, HookLock, HookBegin, HookStale, HookCreate,
         HookSnapshot, HookSnapshotEnd, HookSave, HookArchive, HookRename, HookPost, helperVars
    <2> QED BY <1>4, <1>5, <2>1, OtherSteps
  <1>6. CASE (\E d \in Snapshots : Browse(d) \/ EndBrowse(d)) \/ UNCHANGED vars
    <2>1. \A c \in Callers : call[c].pc = "dremove" /\ call[c].snap \in browsed' => call[c].snap \in browsed
      BY <1>6 DEF Browse, EndBrowse, vars, storeVars
    <2> QED BY <1>4, <1>6, <2>1, OtherSteps
  <1> QED BY <1>2, <1>3, <1>5, <1>6 DEF Next, Callers

\* Only a deletion takes a snapshot away, and only one that is not in use.
LEMMA StaysStep ==
  ASSUME IInv, StaysInv, [Next]_vars, NEW d \in Snapshots,
         d \in {record.target, record.fallback} \cup browsed, ~overrun
  PROVE  snaps'[d] = snaps[d] \/ snaps'[d] \notin {"deleting", "gone"}
  <1>1. snaps \in [Snapshots -> SnapStates] /\ d # None
    BY IdsAssumption DEF StaysInv
  <1> DEFINE Stays == snaps'[d] = snaps[d] \/ snaps'[d] \notin {"deleting", "gone"}
  <1>2. ASSUME NEW c \in Callers, CallStarts(c) PROVE Stays
    BY <1>2 DEF CallStarts, Schedule, Delete, Cancel, Reconcile, storeVars
  <1>3. ASSUME NEW c \in Callers, CallGoesOn(c) PROVE Stays
    <2>1. CASE FallbackLock(c) \/ FallbackEnd(c)
      BY <1>1, <2>1 DEF FallbackLock, FallbackEnd, Creating, Created
    <2>2. CASE DeleteCheck(c)
      <3>1. snaps' = snaps \/ (~Referenced(call[c].snap) /\ call[c].snap \notin browsed
                                 /\ snaps' = [snaps EXCEPT ![call[c].snap] = "deleting"])
        BY <2>2 DEF DeleteCheck, Created
      <3> QED BY <1>1, <3>1 DEF Referenced
    <2>3. CASE DeleteEnd(c)
      <3>1. snaps' = snaps \/ snaps' = [snaps EXCEPT ![call[c].snap] = "gone"]
        BY <2>3 DEF DeleteEnd, Created
      <3>2. call[c].snap # d
        BY <1>1, <2>3 DEF DeleteEnd, StaysInv, DeletingInv
      <3> QED BY <1>1, <3>1, <3>2
    <2>4. CASE ~(FallbackLock(c) \/ FallbackEnd(c) \/ DeleteCheck(c) \/ DeleteEnd(c))
      BY <1>3, <2>4 DEF CallGoesOn, VerifyLock, VerifyEnd, StartLock, CheckPackage, CreateTransaction, ConfigureBoot,
         VerifyGrubEntry, UpdateCheck, UpdateWrite, ArmOnce, ClearOnce, ArchiveTransaction, RemoveTransaction,
         RegenerateAtEnd, DeleteLock, storeVars
    <2> QED BY <2>1, <2>2, <2>3, <2>4
  <1>4. CASE HookStarts \/ HookGoesOn \/ HookKilled
    BY <1>1, <1>4 DEF HookStarts, HookGoesOn, HookKilled, HookPre, HookLock, HookBegin, HookStale, HookCreate,
       HookSnapshot, HookSnapshotEnd, HookSave, HookArchive, HookRename, HookPost, Creating, Created
  <1>5. CASE \/ (\E e \in Snapshots : Browse(e) \/ EndBrowse(e)) \/ UNCHANGED vars
             \/ Killed(Tasks) \/ Killed({Unit})
    BY <1>5 DEF Browse, EndBrowse, vars, storeVars, Killed
  <1> QED BY <1>2, <1>3, <1>4, <1>5 DEF Next

\* No deletion takes away a snapshot that a pending rollback names or that
\* somebody browses (OperationEngine::delete under its three locks), whatever
\* runs beside it and whoever is killed.
THEOREM ReferencedAlwaysStays == Spec => ReferencedStays
  <1>1. IInv /\ StaysInv /\ [Next]_vars =>
          [\A d \in Snapshots :
             d \in {record.target, record.fallback} \cup browsed /\ ~overrun
               => snaps'[d] \notin {"deleting", "gone"} \ {snaps[d]}]_vars
    BY StaysStep
  <1> QED BY <1>1, InitInv, NextInv, StaysInit, StaysNext, PTL DEF Spec, ReferencedStays
=============================================================================
