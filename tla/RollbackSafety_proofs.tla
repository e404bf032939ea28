----------------------- MODULE RollbackSafety_proofs ------------------------
(***************************************************************************)
(* Proofs about RollbackRecovery and what is built on it, for every set of *)
(* transactions, every attempt limit, any number of disruptions and every  *)
(* boot layout. First its types and where each program may be. Then that   *)
(* the protected system survives: the shape of the Btrfs top level always  *)
(* fits the phase of the transaction record, on disk as in memory; what    *)
(* follows from it for power losses and for the early boot engine; that    *)
(* the records tell the truth, that all of it is one atomic exchange to    *)
(* whoever looks from outside, and that a restored system that lost power  *)
(* unconfirmed is never reported as a success.                             *)
(***************************************************************************)
EXTENDS RollbackRecovery, RollbackRefinement, PowerLossMatrix, TLAPS

Finishing == {"lineage", "schedule", "clear", "archive", "remove", "grub"}

\* Where each program may be, and what the record looks like when it is there.
ControlInv ==
    /\ machine = "user" => view[Root] # None
    /\ machine = "menu" => MenuOwner \in System
    /\ machine # "user" => helper.at = "idle" /\ confirm.at = "idle"
    /\ machine \in InEngine => pending \in Records
    /\ machine \in {"entered", "validate"} =>
           /\ pending.phase \in {"Armed", "Applying"}
           /\ pending.applyAttempts < pending.initramfsAttempts
    /\ machine = "apply" => pending.phase = "Applying"
    /\ machine = "revert" => pending.phase = "Reverting"
    /\ machine \in {"sync", "mark"} => /\ pending.phase \in {"Applying", "Reverting"}
                                       /\ mark # "none"
    /\ pending.applyAttempts =< pending.initramfsAttempts
    /\ helper.at # "idle" => helper.tx \in Tx
    /\ helper.at # "idle" => pending.phase \in {"none", "Preparing", "Armed", "Failed"}
    /\ helper.at = "create" => helper.tx \notin used
    /\ confirm.at \in Finishing =>
           confirm.tx \in Records /\ confirm.tx.phase \in Terminal
    /\ confirm.at \in {"lineage", "schedule"} => confirm.tx.phase \in {"Confirmed", "Reverted"}

-----------------------------------------------------------------------------
(* Lemmas about the subvolume names and the operations on layouts *)

\* The root, old-root and new-root names of the transactions never coincide.
LEMMA SlotNames ==
    /\ Root \in Slots
    /\ \A t \in Tx : /\ Old(t) \in Slots /\ New(t) \in Slots
                     /\ Old(t) # Root /\ New(t) # Root
    /\ \A t, u \in Tx : /\ Old(t) # New(u)
                        /\ t # u => Old(t) # Old(u) /\ New(t) # New(u)
<1>1. Root \in Slots /\ \A t \in Tx : Old(t) \in Slots /\ New(t) \in Slots
  BY DEF Slots
<1>2. \A t \in Tx : Old(t) # Root /\ New(t) # Root
  BY DEF Root, Old, New
<1>3. \A t, u \in Tx : Old(t) # New(u) /\ (t # u => Old(t) # Old(u) /\ New(t) # New(u))
  BY DEF Old, New
<1> QED BY <1>1, <1>2, <1>3

\* Creating, deleting and renaming subvolumes yields a layout again, and changes
\* only the names it mentions.
LEMMA LayoutOperations ==
    ASSUME NEW layout \in Layouts, NEW a \in Slots, NEW b \in Slots, a # b
    PROVE  /\ \A system \in System :
                 /\ Place(layout, a, system) \in Layouts
                 /\ Place(layout, a, system)[a] = system
                 /\ \A s \in Slots \ {a} : Place(layout, a, system)[s] = layout[s]
           /\ Delete(layout, a) \in Layouts
           /\ Delete(layout, a)[a] = None
           /\ \A s \in Slots \ {a} : Delete(layout, a)[s] = layout[s]
           /\ Rename(layout, a, b) \in Layouts
           /\ Rename(layout, a, b)[a] = None
           /\ Rename(layout, a, b)[b] = layout[a]
           /\ \A s \in Slots \ {a, b} : Rename(layout, a, b)[s] = layout[s]
BY DEF Layouts, Place, Delete, Rename

-----------------------------------------------------------------------------
(* Lemmas about the operations on the transaction record *)

\* What transaction.rs writes is a valid record, as long as the counters that it
\* increments are below their limit.
LEMMA RecordOperations ==
    ASSUME NEW p \in Records
    PROVE  /\ \A c \in Checkpoints : RecordCheckpoint(p, c) \in Records
           /\ \A phase \in Phases : Transition(p, phase) \in Records
           /\ RecordFailure(p) \in Records
           /\ p.initramfsAttempts < MaxApplyAttempts =>
                  RecordInitramfsEntry(p) \in Records
           /\ p.applyAttempts < MaxApplyAttempts => BeginApply(p) \in Records
           /\ AgeBoots(p) \in Records
<1>1. \A c \in Checkpoints : RecordCheckpoint(p, c) \in Records
  BY DEF Records, RecordCheckpoint
<1>2. \A phase \in Phases : Transition(p, phase) \in Records
  BY DEF Records, Transition
<1>3. RecordFailure(p) \in Records
  BY DEF Records, RecordFailure, Phases
<1>4. ASSUME p.initramfsAttempts < MaxApplyAttempts
      PROVE  RecordInitramfsEntry(p) \in Records
  <2>1. p.initramfsAttempts + 1 \in 0..MaxApplyAttempts
    BY <1>4, AttemptsAssumption DEF Records
  <2>2. "initramfs-entered" \in Checkpoints /\ "this" \in BootIds
    BY DEF Checkpoints, BootIds
  <2> QED BY <2>1, <2>2 DEF Records, RecordInitramfsEntry
<1>5. ASSUME p.applyAttempts < MaxApplyAttempts
      PROVE  BeginApply(p) \in Records
  <2>1. p.applyAttempts + 1 \in 0..MaxApplyAttempts
    BY <1>5, AttemptsAssumption DEF Records
  <2>2. "apply-started" \in Checkpoints /\ "this" \in BootIds /\ "Applying" \in Phases
    BY DEF Checkpoints, BootIds, Phases
  <2> QED BY <2>1, <2>2 DEF Records, BeginApply
<1>6. AgeBoots(p) \in Records
  <2>1. \A boot \in BootIds : Aged(boot) \in BootIds
    BY DEF Aged, BootIds
  <2> QED BY <2>1 DEF Records, AgeBoots
<1> QED BY <1>1, <1>2, <1>3, <1>4, <1>5, <1>6

\* The fields that each write leaves alone, and the ones it sets.
LEMMA RecordFields ==
    ASSUME NEW p \in Records, NEW c, NEW phase
    PROVE  /\ RecordCheckpoint(p, c).id = p.id
           /\ RecordCheckpoint(p, c).phase = p.phase
           /\ RecordCheckpoint(p, c).fallback = p.fallback
           /\ RecordCheckpoint(p, c).applyAttempts = p.applyAttempts
           /\ RecordCheckpoint(p, c).initramfsAttempts = p.initramfsAttempts
           /\ Transition(p, phase).id = p.id
           /\ Transition(p, phase).phase = phase
           /\ Transition(p, phase).fallback = p.fallback
           /\ Transition(p, phase).applyAttempts = p.applyAttempts
           /\ Transition(p, phase).initramfsAttempts = p.initramfsAttempts
           /\ RecordFailure(p).id = p.id
           /\ RecordFailure(p).phase = "Failed"
           /\ RecordFailure(p).fallback = p.fallback
           /\ RecordFailure(p).applyAttempts = p.applyAttempts
           /\ RecordFailure(p).initramfsAttempts = p.initramfsAttempts
           /\ RecordInitramfsEntry(p).id = p.id
           /\ RecordInitramfsEntry(p).phase = p.phase
           /\ RecordInitramfsEntry(p).fallback = p.fallback
           /\ RecordInitramfsEntry(p).applyAttempts = p.applyAttempts
           /\ RecordInitramfsEntry(p).initramfsAttempts = p.initramfsAttempts + 1
           /\ BeginApply(p).id = p.id
           /\ BeginApply(p).phase = "Applying"
           /\ BeginApply(p).fallback = p.fallback
           /\ BeginApply(p).applyAttempts = p.applyAttempts + 1
           /\ BeginApply(p).initramfsAttempts = p.initramfsAttempts
BY DEF Records, RecordCheckpoint, Transition, RecordFailure, RecordInitramfsEntry,
    BeginApply

\* A new record is valid; an absent one has no phase.
LEMMA FreshRecords ==
    /\ \A t \in Tx, system \in System :
           LET p == NewTransaction(t, system) IN
           /\ p \in Records
           /\ p.id = t /\ p.phase = "Preparing" /\ p.fallback = system
           /\ p.applyAttempts = 0 /\ p.initramfsAttempts = 0
    /\ NoTransaction.id = None /\ NoTransaction.phase = "none"
    /\ NoTransaction.applyAttempts = 0 /\ NoTransaction.initramfsAttempts = 0
    /\ NoTransaction \notin Records
<1>1. \A t \in Tx, system \in System : NewTransaction(t, system) \in Records
  BY AttemptsAssumption DEF NewTransaction, Records, Phases, Checkpoints, BootIds
<1>2. \A t \in Tx, system \in System :
           LET p == NewTransaction(t, system) IN
           /\ p.id = t /\ p.phase = "Preparing" /\ p.fallback = system
           /\ p.applyAttempts = 0 /\ p.initramfsAttempts = 0
  BY DEF NewTransaction
<1>3. /\ NoTransaction.id = None /\ NoTransaction.phase = "none"
      /\ NoTransaction.applyAttempts = 0 /\ NoTransaction.initramfsAttempts = 0
  BY DEF NoTransaction
<1>4. NoTransaction \notin Records
  BY <1>3, TxAssumption DEF Records
<1> QED BY <1>1, <1>2, <1>3, <1>4

\* What a well-typed pending slot can hold.
LEMMA PendingSlot ==
    ASSUME pending \in Records \cup {NoTransaction}
    PROVE  /\ pending.id # None <=> pending \in Records
           /\ pending.phase # "none" <=> pending \in Records
           /\ pending \in Records => /\ pending.id \in Tx /\ pending.fallback \in System
                                     /\ pending.phase \in Phases
           /\ pending.applyAttempts \in 0..MaxApplyAttempts
           /\ pending.initramfsAttempts \in 0..MaxApplyAttempts
<1>1. pending \in Records => /\ pending.id \in Tx /\ pending.fallback \in System
                             /\ pending.phase \in Phases
                             /\ pending.applyAttempts \in 0..MaxApplyAttempts
                             /\ pending.initramfsAttempts \in 0..MaxApplyAttempts
  BY DEF Records
<1>2. "none" \notin Phases
  BY DEF Phases
<1> QED BY <1>1, <1>2, FreshRecords, TxAssumption, AttemptsAssumption

\* Restarting leaves an absent record absent and changes only recorded boots.
LEMMA AgeingFacts ==
    /\ AgeBoots(NoTransaction) = NoTransaction
    /\ \A p \in Records \cup {NoTransaction} :
           /\ AgeBoots(p) \in Records \cup {NoTransaction}
           /\ AgeBoots(p).id = p.id /\ AgeBoots(p).phase = p.phase
           /\ AgeBoots(p).fallback = p.fallback
           /\ AgeBoots(p).checkpoint = p.checkpoint
           /\ AgeBoots(p).applyAttempts = p.applyAttempts
           /\ AgeBoots(p).initramfsAttempts = p.initramfsAttempts
<1>1. AgeBoots(NoTransaction) = NoTransaction
  BY DEF AgeBoots, Aged, NoTransaction
<1>2. \A p \in Records \cup {NoTransaction} : AgeBoots(p) \in Records \cup {NoTransaction}
  BY <1>1, RecordOperations
<1>3. \A p \in Records \cup {NoTransaction} :
           /\ AgeBoots(p).id = p.id /\ AgeBoots(p).phase = p.phase
           /\ AgeBoots(p).fallback = p.fallback
           /\ AgeBoots(p).checkpoint = p.checkpoint
           /\ AgeBoots(p).applyAttempts = p.applyAttempts
           /\ AgeBoots(p).initramfsAttempts = p.initramfsAttempts
  BY DEF AgeBoots, Records, NoTransaction
<1> QED BY <1>1, <1>2, <1>3

-----------------------------------------------------------------------------
(* Type correctness *)

TypeInv == TypeOK /\ ControlInv

\* A freshly installed machine starts well-typed.
LEMMA TypeInit == Init => TypeInv
<1> SUFFICES ASSUME Init PROVE TypeInv
  OBVIOUS
<1> USE TxAssumption, AttemptsAssumption, DisruptionsAssumption, SlotNames
<1>1. view \in Layouts /\ view[Root] = Original
  BY DEF Init, Layouts, System
<1>2. pending = NoTransaction /\ pending.applyAttempts = 0 /\ pending.initramfsAttempts = 0
      /\ pending.phase = "none"
  BY DEF Init, NoTransaction
<1>3. helper \in [at : HelperSteps, tx : Tx \cup {None}] /\ helper.at = "idle"
  BY DEF Init, HelperIdle, HelperSteps
<1>4. /\ confirm \in [at : ConfirmSteps, tx : Records \cup {NoTransaction}, todo : SUBSET Tx]
      /\ confirm.at = "idle"
  BY DEF Init, ConfirmIdle, ConfirmSteps
<1>5. TypeOK
  BY <1>1, <1>2, <1>3, <1>4 DEF Init, TypeOK, System, Terminal
<1>6. ControlInv
  BY <1>1, <1>2, <1>3, <1>4 DEF Init, ControlInv, InEngine, Finishing
<1> QED BY <1>5, <1>6 DEF TypeInv

\* Each step of the four programs keeps every value in its type.
LEMMA TypeNext == TypeInv /\ [Next]_vars => TypeInv'
<1> SUFFICES ASSUME TypeInv, [Next]_vars PROVE TypeInv'
  OBVIOUS
<1> USE TxAssumption, AttemptsAssumption, DisruptionsAssumption, LayoutAssumption, SlotNames
<1> USE DEF TypeInv
<1> DEFINE CountersKept == /\ pending'.applyAttempts = pending.applyAttempts
                           /\ pending'.initramfsAttempts = pending.initramfsAttempts
<1>0. /\ pending.id # None <=> pending \in Records
      /\ pending.phase # "none" <=> pending \in Records
      /\ pending \in Records => pending.id \in Tx
      /\ pending.applyAttempts \in Nat /\ pending.initramfsAttempts \in Nat
  BY PendingSlot DEF TypeOK
<1>2. CASE Engine
  <2> USE DEF EngineUnchanged, InEngine, MenuOwner
  <2>1. CASE HookStart
    BY <2>1, <1>0 DEF HookStart, TypeOK, ControlInv, LeaveInitramfs, Exists, IsPending
  <2>2. CASE HookFails
    BY <2>2, <1>0 DEF HookFails, TypeOK, ControlInv, LeaveInitramfs, Exists, Disrupt
  <2>3. CASE HookBypassed
    BY <2>3, <1>0 DEF HookBypassed, TypeOK, ControlInv, LeaveInitramfs, Exists, Disrupt
  <2>4. CASE ExecuteNoAction
    BY <2>4, <1>0 DEF ExecuteNoAction, TypeOK, ControlInv, LeaveInitramfs, Exists
  <2>5. CASE ExecuteFailSafe
    <3>1. pending \in Records
      BY <2>5, <1>0 DEF ExecuteFailSafe, ControlInv, InEngine
    <3>2. pending' \in Records /\ pending'.phase = "Failed" /\ CountersKept
      BY <2>5, <1>0, <3>1, RecordOperations, RecordFields DEF ExecuteFailSafe
    <3>3. TypeOK'
      BY <2>5, <3>1, <3>2 DEF ExecuteFailSafe, TypeOK, LeaveInitramfs, Exists
    <3>4. ControlInv'
      BY <2>5, <1>0, <3>1, <3>2 DEF ExecuteFailSafe, TypeOK, ControlInv, LeaveInitramfs,
          Exists
    <3> QED BY <3>3, <3>4
  <2>6. CASE ExecuteEnter
    <3>1. pending \in Records
      BY <2>6, <1>0 DEF ExecuteEnter, ControlInv, InEngine
    <3>2. /\ pending.initramfsAttempts < MaxApplyAttempts
          /\ pending.phase \in {"Armed", "Applying"}
      BY <2>6, <1>0 DEF ExecuteEnter, EntersApply
    <3>3. /\ pending' \in Records
          /\ pending'.phase = pending.phase
          /\ pending'.applyAttempts = pending.applyAttempts
          /\ pending'.initramfsAttempts = pending.initramfsAttempts + 1
      BY <2>6, <1>0, <3>1, <3>2, RecordOperations, RecordFields DEF ExecuteEnter
    <3>4. TypeOK'
      BY <2>6, <3>1, <3>2, <3>3 DEF ExecuteEnter, TypeOK
    <3>5. ControlInv'
      BY <2>6, <1>0, <3>1, <3>2, <3>3 DEF ExecuteEnter, TypeOK, ControlInv
    <3> QED BY <3>4, <3>5
  <2>7. CASE ExecuteRevert
    <3>1. pending \in Records
      BY <2>7, <1>0 DEF ExecuteRevert, ControlInv, InEngine
    <3>2. "Reverting" \in Phases /\ "revert-started" \in Checkpoints
      BY DEF Phases, Checkpoints
    <3>3. Transition(pending, "Reverting") \in Records
      BY <2>7, <1>0, <3>1, <3>2, RecordOperations
    <3>4. pending' \in Records /\ pending'.phase = "Reverting" /\ CountersKept
      BY <2>7, <1>0, <3>1, <3>2, <3>3, RecordOperations, RecordFields DEF ExecuteRevert
    <3>5. TypeOK'
      BY <2>7, <3>1, <3>2, <3>3, <3>4 DEF ExecuteRevert, TypeOK
    <3>6. ControlInv'
      BY <2>7, <1>0, <3>1, <3>2, <3>3, <3>4 DEF ExecuteRevert, TypeOK, ControlInv
    <3> QED BY <3>5, <3>6
  <2>8. CASE ExecuteResumeRevert
    BY <2>8, <1>0 DEF ExecuteResumeRevert, TypeOK, ControlInv
  <2>9. CASE RecordValidating
    <3>1. pending \in Records
      BY <2>9, <1>0 DEF RecordValidating, ControlInv, InEngine
    <3>2. "validating" \in Checkpoints
      BY DEF Checkpoints
    <3>3. pending' \in Records /\ pending'.phase = pending.phase /\ CountersKept
      BY <2>9, <1>0, <3>1, <3>2, RecordOperations, RecordFields DEF RecordValidating
    <3>4. TypeOK'
      BY <2>9, <3>1, <3>2, <3>3 DEF RecordValidating, TypeOK
    <3>5. ControlInv'
      BY <2>9, <1>0, <3>1, <3>2, <3>3 DEF RecordValidating, TypeOK, ControlInv
    <3> QED BY <3>4, <3>5
  <2>10. CASE ValidateAndBegin
    <3>1. pending \in Records
      BY <2>10, <1>0 DEF ValidateAndBegin, ControlInv, InEngine
    <3>2. /\ pending.applyAttempts < pending.initramfsAttempts
          /\ pending.initramfsAttempts =< MaxApplyAttempts
      BY <2>10, <1>0, PendingSlot DEF ValidateAndBegin, ControlInv, TypeOK
    <3>3. /\ pending' \in Records
          /\ pending'.phase = "Applying"
          /\ pending'.applyAttempts = pending.applyAttempts + 1
          /\ pending'.initramfsAttempts = pending.initramfsAttempts
      BY <2>10, <1>0, <3>1, <3>2, RecordOperations, RecordFields DEF ValidateAndBegin
    <3>4. TypeOK'
      BY <2>10, <3>1, <3>2, <3>3 DEF ValidateAndBegin, TypeOK
    <3>5. ControlInv'
      BY <2>10, <1>0, <3>1, <3>2, <3>3 DEF ValidateAndBegin, TypeOK, ControlInv
    <3> QED BY <3>4, <3>5
  <2>11. CASE ValidationFails
    <3>1. pending \in Records
      BY <2>11, <1>0 DEF ValidationFails, ControlInv, InEngine
    <3>2. /\ pending' \in Records
          /\ pending'.phase \in {"Failed", pending.phase}
          /\ CountersKept
      BY <2>11, <1>0, <3>1, RecordOperations, RecordFields DEF ValidationFails
    <3>3. TypeOK'
      BY <2>11, <3>1, <3>2 DEF ValidationFails, TypeOK, LeaveInitramfs, Exists, Disrupt
    <3>4. ControlInv'
      BY <2>11, <1>0, <3>1, <3>2 DEF ValidationFails, TypeOK, ControlInv, LeaveInitramfs,
          Exists, Disrupt
    <3> QED BY <3>3, <3>4
  <2>12. CASE ApplyStep
    <3>1. pending \in Records
      BY <2>12, <1>0 DEF ApplyStep, ControlInv, InEngine
    <3>2. pending.id \in System /\ view \in Layouts
      BY <2>12, <1>0, <3>1 DEF TypeOK, System
    <3>3. /\ Root \in Slots /\ Old(pending.id) \in Slots /\ New(pending.id) \in Slots
          /\ Root # Old(pending.id) /\ Root # New(pending.id)
      BY <2>12, <1>0, <3>1
    <3>4. /\ Place(view, New(pending.id), pending.id) \in Layouts
          /\ Rename(view, Root, Old(pending.id)) \in Layouts
          /\ Rename(view, New(pending.id), Root) \in Layouts
      BY <2>12, <1>0, <3>2, <3>3, LayoutOperations
    <3>5. view' \in Layouts
      BY <2>12, <1>0, <3>4 DEF ApplyStep
    <3>6. mark' \in ApplyMarks
      BY <2>12, <1>0 DEF ApplyStep, ApplyMarks
    <3>7. "none" \notin ApplyMarks
      BY DEF ApplyMarks
    <3>8. TypeOK'
      BY <2>12, <3>1, <3>2, <3>3, <3>4, <3>5, <3>6, <3>7 DEF ApplyStep, TypeOK
    <3>9. ControlInv'
      BY <2>12, <1>0, <3>1, <3>2, <3>3, <3>4, <3>5, <3>6, <3>7 DEF ApplyStep, TypeOK,
          ControlInv
    <3> QED BY <3>8, <3>9
  <2>13. CASE ApplyDone
    <3>1. pending \in Records
      BY <2>13, <1>0 DEF ApplyDone, ControlInv, InEngine
    <3>2. "BootedUnconfirmed" \in Phases /\ "booted-unconfirmed-recorded" \in Checkpoints
      BY DEF Phases, Checkpoints
    <3>3. Transition(pending, "BootedUnconfirmed") \in Records
      BY <2>13, <1>0, <3>1, <3>2, RecordOperations
    <3>4. pending' \in Records /\ pending'.phase = "BootedUnconfirmed" /\ CountersKept
      BY <2>13, <1>0, <3>1, <3>2, <3>3, RecordOperations, RecordFields DEF ApplyDone
    <3>5. TypeOK'
      BY <2>13, <3>1, <3>2, <3>3, <3>4 DEF ApplyDone, TypeOK, LeaveInitramfs, Exists
    <3>6. ControlInv'
      BY <2>13, <1>0, <3>1, <3>2, <3>3, <3>4 DEF ApplyDone, TypeOK, ControlInv,
          LeaveInitramfs, Exists
    <3> QED BY <3>5, <3>6
  <2>14. CASE RevertStep
    <3>1. pending \in Records
      BY <2>14, <1>0 DEF RevertStep, ControlInv, InEngine
    <3>2. pending.id \in System /\ view \in Layouts
      BY <2>14, <1>0, <3>1 DEF TypeOK, System
    <3>3. /\ Root \in Slots /\ Old(pending.id) \in Slots /\ New(pending.id) \in Slots
          /\ Root # Old(pending.id) /\ Root # New(pending.id)
      BY <2>14, <1>0, <3>1
    <3>4. /\ Delete(view, New(pending.id)) \in Layouts
          /\ Rename(view, Old(pending.id), Root) \in Layouts
          /\ Rename(view, Root, New(pending.id)) \in Layouts
      BY <2>14, <1>0, <3>2, <3>3, LayoutOperations
    <3>5. view' \in Layouts
      BY <2>14, <1>0, <3>4 DEF RevertStep
    <3>6. mark' \in RevertMarks
      BY <2>14, <1>0 DEF RevertStep, RevertMarks
    <3>7. "none" \notin RevertMarks
      BY DEF RevertMarks
    <3>8. TypeOK'
      BY <2>14, <3>1, <3>2, <3>3, <3>4, <3>5, <3>6, <3>7 DEF RevertStep, TypeOK
    <3>9. ControlInv'
      BY <2>14, <1>0, <3>1, <3>2, <3>3, <3>4, <3>5, <3>6, <3>7 DEF RevertStep, TypeOK,
          ControlInv
    <3> QED BY <3>8, <3>9
  <2>15. CASE RevertDone
    <3>1. pending \in Records
      BY <2>15, <1>0 DEF RevertDone, ControlInv, InEngine
    <3>2. "Reverted" \in Phases /\ "reverted-recorded" \in Checkpoints
      BY DEF Phases, Checkpoints
    <3>3. Transition(pending, "Reverted") \in Records
      BY <2>15, <1>0, <3>1, <3>2, RecordOperations
    <3>4. pending' \in Records /\ pending'.phase = "Reverted" /\ CountersKept
      BY <2>15, <1>0, <3>1, <3>2, <3>3, RecordOperations, RecordFields DEF RevertDone
    <3>5. TypeOK'
      BY <2>15, <3>1, <3>2, <3>3, <3>4 DEF RevertDone, TypeOK, LeaveInitramfs, Exists
    <3>6. ControlInv'
      BY <2>15, <1>0, <3>1, <3>2, <3>3, <3>4 DEF RevertDone, TypeOK, ControlInv,
          LeaveInitramfs, Exists
    <3> QED BY <3>5, <3>6
  <2>16. CASE FilesystemSync
    BY <2>16, <1>0 DEF FilesystemSync, TypeOK, ControlInv
  <2>17. CASE PersistCheckpoint
    <3>1. pending \in Records
      BY <2>17, <1>0 DEF PersistCheckpoint, ControlInv, InEngine
    <3>2. mark \in Checkpoints
      BY <2>17, <1>0 DEF TypeOK, Checkpoints
    <3>3. pending' \in Records /\ pending'.phase = pending.phase /\ CountersKept
      BY <2>17, <1>0, <3>1, <3>2, RecordOperations, RecordFields DEF PersistCheckpoint
    <3>4. TypeOK'
      BY <2>17, <3>1, <3>2, <3>3 DEF PersistCheckpoint, TypeOK
    <3>5. ControlInv'
      BY <2>17, <1>0, <3>1, <3>2, <3>3 DEF PersistCheckpoint, TypeOK, ControlInv
    <3> QED BY <3>4, <3>5
  <2>18. CASE EngineFails
    BY <2>18, <1>0 DEF EngineFails, TypeOK, ControlInv, LeaveInitramfs, Exists, Disrupt
  <2> QED BY <1>2, <2>1, <2>2, <2>3, <2>4, <2>5, <2>6, <2>7, <2>8, <2>9, <2>10, <2>11,
      <2>12, <2>13, <2>14, <2>15, <2>16, <2>17, <2>18 DEF Engine
<1>1. CASE Grub
  <2> USE DEF InEngine, MenuOwner
  <2>1. CASE GrubStart
    <3>1. view[Root] \in System \cup {None}
      BY <2>1, <1>0 DEF TypeOK, Layouts
    <3>2. MenuOwner # None => MenuOwner \in System
      BY <2>1, <1>0, <3>1 DEF MenuOwner, System
    <3>3. requested' \in Tx \cup {None}
      BY <2>1, <1>0, <3>2 DEF GrubStart, DefaultEntry, TypeOK
    <3>4. UNCHANGED <<MenuOwner, pending>>
      BY <2>1, <1>0 DEF GrubStart, MenuOwner
    <3>5. TypeOK'
      BY <2>1, <3>1, <3>2, <3>3, <3>4 DEF GrubStart, TypeOK
    <3>6. ControlInv'
      BY <2>1, <1>0, <3>1, <3>2, <3>3, <3>4 DEF GrubStart, TypeOK, ControlInv
    <3> QED BY <3>5, <3>6
  <2>2. CASE GrubBootDefault
    <3>1. requested \in Tx \cup {None}
      BY <2>2, <1>0 DEF TypeOK
    <3>2. TypeOK'
      BY <2>2, <3>1 DEF GrubBootDefault, TypeOK, BootEntry
    <3>3. ControlInv'
      BY <2>2, <1>0, <3>1 DEF GrubBootDefault, TypeOK, ControlInv, BootEntry
    <3> QED BY <3>2, <3>3
  <2>3. CASE GrubPickOther
    <3>1. PICK entry \in {None, menu[MenuOwner]} \ {requested} : BootEntry(entry)
      BY <2>3, <1>0 DEF GrubPickOther
    <3>2. menu[MenuOwner] \in Tx \cup {None}
      BY <2>3, <1>0 DEF GrubPickOther, ControlInv, TypeOK
    <3>3. entry \in Tx \cup {None}
      BY <2>3, <1>0, <3>2
    <3>4. TypeOK'
      BY <2>3, <3>1, <3>2, <3>3 DEF GrubPickOther, TypeOK, BootEntry, Disrupt
    <3>5. ControlInv'
      BY <2>3, <1>0, <3>1, <3>2, <3>3 DEF GrubPickOther, TypeOK, ControlInv, BootEntry,
          Disrupt
    <3> QED BY <3>4, <3>5
  <2> QED BY <1>1, <2>1, <2>2, <2>3 DEF Grub
<1>3. CASE Helper
  <2> USE DEF HelperUnchanged, InEngine, MenuOwner, HelperAt, HelperGoto, HelperDone,
      HelperIdle, HelperSteps, Finishing
  <2>1. CASE \E t \in Tx : ScheduleStart(t)
    <3>1. PICK t \in Tx : ScheduleStart(t)
      BY <2>1, <1>0
    <3>2. TypeOK'
      BY <2>1, <3>1 DEF TypeOK, ScheduleStart, IsPending
    <3>3. ControlInv'
      BY <2>1, <1>0, <3>1 DEF TypeOK, ControlInv, ScheduleStart, IsPending
    <3> QED BY <3>2, <3>3
  <2>2. CASE ScheduleCreate
    <3>1. view[Root] \in System /\ helper.tx \in Tx
      BY <2>2, <1>0 DEF ScheduleCreate, TypeOK, ControlInv, Layouts, HelperAt
    <3>2. /\ pending' \in Records
          /\ pending'.phase = "Preparing"
          /\ pending'.applyAttempts = 0
          /\ pending'.initramfsAttempts = 0
      BY <2>2, <1>0, <3>1, FreshRecords DEF ScheduleCreate
    <3>3. TypeOK'
      BY <2>2, <3>1, <3>2 DEF ScheduleCreate, TypeOK
    <3>4. ControlInv'
      BY <2>2, <1>0, <3>1, <3>2 DEF ScheduleCreate, TypeOK, ControlInv
    <3> QED BY <3>3, <3>4
  <2>3. CASE ScheduleConfigureBoot
    <3>1. menu' \in [System -> Tx \cup {None}]
      BY <2>3, <1>0 DEF ScheduleConfigureBoot, RegenerateGrub, TypeOK
    <3>2. TypeOK'
      BY <2>3, <3>1 DEF ScheduleConfigureBoot, TypeOK
    <3>3. ControlInv'
      BY <2>3, <1>0, <3>1 DEF ScheduleConfigureBoot, TypeOK, ControlInv
    <3> QED BY <3>2, <3>3
  <2>4. CASE ScheduleArm
    <3>1. view[Root] \in System /\ helper.tx \in Tx /\ "Armed" \in Phases
      BY <2>4, <1>0 DEF ScheduleArm, TypeOK, ControlInv, Layouts, HelperAt, Phases
    <3>2. /\ NewTransaction(helper.tx, view[Root]) \in Records
          /\ NewTransaction(helper.tx, view[Root]).applyAttempts = 0
          /\ NewTransaction(helper.tx, view[Root]).initramfsAttempts = 0
      BY <2>4, <1>0, <3>1, FreshRecords
    <3>3. \/ pending' = pending
          \/ /\ pending' \in Records /\ pending'.phase = "Armed"
             /\ pending'.applyAttempts = 0 /\ pending'.initramfsAttempts = 0
      BY <2>4, <1>0, <3>1, <3>2, RecordOperations, RecordFields DEF ScheduleArm
    <3>4. TypeOK'
      BY <2>4, <3>1, <3>2, <3>3 DEF ScheduleArm, TypeOK
    <3>5. ControlInv'
      BY <2>4, <1>0, <3>1, <3>2, <3>3 DEF ScheduleArm, TypeOK, ControlInv
    <3> QED BY <3>4, <3>5
  <2>5. CASE ScheduleSelect
    <3>1. pending.phase = "Armed" => pending.id \in Tx
      BY <2>5, <1>0
    <3>2. TypeOK'
      BY <2>5, <3>1 DEF ScheduleSelect, TypeOK
    <3>3. ControlInv'
      BY <2>5, <1>0, <3>1 DEF ScheduleSelect, TypeOK, ControlInv
    <3> QED BY <3>2, <3>3
  <2>6. CASE ScheduleFails
    <3>1. TypeOK'
      BY <2>6 DEF ScheduleFails, TypeOK, Disrupt
    <3>2. ControlInv'
      BY <2>6, <1>0 DEF ScheduleFails, TypeOK, ControlInv, Disrupt
    <3> QED BY <3>1, <3>2
  <2>7. CASE CancelStart
    <3>1. pending.id \in Tx
      BY <2>7, <1>0 DEF CancelStart
    <3>2. TypeOK'
      BY <2>7, <3>1 DEF CancelStart, TypeOK
    <3>3. ControlInv'
      BY <2>7, <1>0, <3>1 DEF CancelStart, TypeOK, ControlInv
    <3> QED BY <3>2, <3>3
  <2>8. CASE CancelFails
    <3>1. TypeOK'
      BY <2>8 DEF CancelFails, TypeOK, Disrupt
    <3>2. ControlInv'
      BY <2>8, <1>0 DEF CancelFails, TypeOK, ControlInv, Disrupt
    <3> QED BY <3>1, <3>2
  <2>9. CASE UndoCallFails
    <3>1. TypeOK'
      BY <2>9 DEF UndoCallFails, TypeOK, Disrupt
    <3>2. ControlInv'
      BY <2>9, <1>0 DEF UndoCallFails, TypeOK, ControlInv, Disrupt
    <3> QED BY <3>1, <3>2
  <2>10. CASE HelperClearOnce
    <3>1. TypeOK'
      BY <2>10 DEF HelperClearOnce, TypeOK
    <3>2. ControlInv'
      BY <2>10, <1>0 DEF HelperClearOnce, TypeOK, ControlInv
    <3> QED BY <3>1, <3>2
  <2>11. CASE HelperRemove
    <3>1. /\ pending' = NoTransaction
          /\ pending'.phase = "none"
          /\ pending'.applyAttempts = 0
          /\ pending'.initramfsAttempts = 0
      BY <2>11, <1>0, FreshRecords DEF HelperRemove
    <3>2. TypeOK'
      BY <2>11, <3>1 DEF HelperRemove, TypeOK
    <3>3. ControlInv'
      BY <2>11, <1>0, <3>1 DEF HelperRemove, TypeOK, ControlInv
    <3> QED BY <3>2, <3>3
  <2>12. CASE HelperRegenerateGrub
    <3>1. menu' \in [System -> Tx \cup {None}]
      BY <2>12, <1>0 DEF HelperRegenerateGrub, RegenerateGrub, TypeOK
    <3>2. TypeOK'
      BY <2>12, <3>1 DEF HelperRegenerateGrub, TypeOK
    <3>3. ControlInv'
      BY <2>12, <1>0, <3>1 DEF HelperRegenerateGrub, TypeOK, ControlInv
    <3> QED BY <3>2, <3>3
  <2> QED BY <1>3, <2>1, <2>2, <2>3, <2>4, <2>5, <2>6, <2>7, <2>8, <2>9, <2>10, <2>11,
      <2>12 DEF Helper
<1>4. CASE Confirmation
  <2> USE DEF ConfirmUnchanged, InEngine, MenuOwner, ConfirmAt, ConfirmGoto, ConfirmIdle,
      ConfirmSteps, Finishing
  <2>1. CASE ReconcileNotEntered
    <3>1. pending \in Records
      BY <2>1, <1>0 DEF ReconcileNotEntered
    <3>2. /\ pending' \in Records /\ pending'.phase = "Failed" /\ CountersKept
      BY <2>1, <1>0, <3>1, RecordOperations, RecordFields DEF ReconcileNotEntered
    <3>3. confirm' = [at |-> "clear", tx |-> pending', todo |-> {}]
      BY <2>1, <1>0 DEF ReconcileNotEntered, FinishFailed
    <3>4. TypeOK'
      BY <2>1, <3>1, <3>2, <3>3 DEF ReconcileNotEntered, TypeOK, Terminal
    <3>5. ControlInv'
      BY <2>1, <1>0, <3>1, <3>2, <3>3 DEF ReconcileNotEntered, TypeOK, ControlInv, Terminal
    <3> QED BY <3>4, <3>5
  <2>2. CASE ReconcileConfirm
    <3>1. pending \in Records /\ "Confirmed" \in Phases
      BY <2>2, <1>0 DEF ReconcileConfirm, Phases
    <3>2. /\ pending' \in Records /\ pending'.phase = "Confirmed" /\ CountersKept
      BY <2>2, <1>0, <3>1, RecordOperations, RecordFields DEF ReconcileConfirm
    <3>3. confirm' = [at |-> "lineage", tx |-> pending', todo |-> {}]
      BY <2>2, <1>0 DEF ReconcileConfirm, FinishConfirmedOrReverted
    <3>4. helper.at = "idle"
      BY <2>2, <1>0 DEF ReconcileConfirm, ControlInv
    <3>5. TypeOK'
      BY <2>2, <3>1, <3>2, <3>3, <3>4 DEF ReconcileConfirm, TypeOK, Terminal
    <3>6. ControlInv'
      BY <2>2, <1>0, <3>1, <3>2, <3>3, <3>4 DEF ReconcileConfirm, TypeOK, ControlInv,
          Terminal
    <3> QED BY <3>5, <3>6
  <2>3. CASE ReconcileTerminal
    <3>1. pending \in Records
      BY <2>3, <1>0 DEF ReconcileTerminal, Terminal
    <3>2. /\ \/ confirm' = [at |-> "lineage", tx |-> pending, todo |-> {}]
          /\ pending.phase # "Failed"
          \/ confirm' = [at |-> "clear", tx |-> pending, todo |-> {}]
      BY <2>3, <1>0 DEF ReconcileTerminal, FinishConfirmedOrReverted, FinishFailed
    <3>3. pending' = pending
      BY <2>3, <1>0 DEF ReconcileTerminal
    <3>4. TypeOK'
      BY <2>3, <3>1, <3>2, <3>3 DEF ReconcileTerminal, TypeOK, Terminal
    <3>5. ControlInv'
      BY <2>3, <1>0, <3>1, <3>2, <3>3 DEF ReconcileTerminal, TypeOK, ControlInv, Terminal
    <3> QED BY <3>4, <3>5
  <2>4. CASE ReconcileCleanups
    <3>1. TypeOK'
      BY <2>4 DEF ReconcileCleanups, TypeOK
    <3>2. ControlInv'
      BY <2>4, <1>0 DEF ReconcileCleanups, TypeOK, ControlInv
    <3> QED BY <3>1, <3>2
  <2>5. CASE RecordLineage
    <3>1. /\ confirm.tx \in Records
          /\ confirm.tx.id \in System
          /\ confirm.tx.fallback \in System
      BY <2>5, <1>0 DEF RecordLineage, ConfirmAt, ControlInv, Finishing, Records, System
    <3>2. TypeOK'
      BY <2>5, <3>1 DEF RecordLineage, TypeOK
    <3>3. ControlInv'
      BY <2>5, <1>0, <3>1 DEF RecordLineage, TypeOK, ControlInv
    <3> QED BY <3>2, <3>3
  <2>6. CASE ScheduleOldRootCleanup
    <3>1. confirm.tx \in Records /\ confirm.tx.id \in Tx
      BY <2>6, <1>0 DEF ScheduleOldRootCleanup, ConfirmAt, ControlInv, Finishing, Records
    <3>2. TypeOK'
      BY <2>6, <3>1 DEF ScheduleOldRootCleanup, TypeOK
    <3>3. ControlInv'
      BY <2>6, <1>0, <3>1 DEF ScheduleOldRootCleanup, TypeOK, ControlInv
    <3> QED BY <3>2, <3>3
  <2>7. CASE ConfirmClearOnce
    <3>1. TypeOK'
      BY <2>7 DEF ConfirmClearOnce, TypeOK
    <3>2. ControlInv'
      BY <2>7, <1>0 DEF ConfirmClearOnce, TypeOK, ControlInv
    <3> QED BY <3>1, <3>2
  <2>8. CASE ArchiveTransaction
    <3>1. confirm.tx \in Records /\ confirm.tx.phase \in Terminal
      BY <2>8, <1>0 DEF ArchiveTransaction, ConfirmAt, ControlInv, Finishing
    <3>2. TypeOK'
      BY <2>8, <3>1 DEF ArchiveTransaction, TypeOK
    <3>3. ControlInv'
      BY <2>8, <1>0, <3>1 DEF ArchiveTransaction, TypeOK, ControlInv
    <3> QED BY <3>2, <3>3
  <2>9. CASE ConfirmRemove
    <3>1. /\ pending' = NoTransaction
          /\ pending'.phase = "none"
          /\ pending'.applyAttempts = 0
          /\ pending'.initramfsAttempts = 0
      BY <2>9, <1>0, FreshRecords DEF ConfirmRemove
    <3>2. TypeOK'
      BY <2>9, <3>1 DEF ConfirmRemove, TypeOK
    <3>3. ControlInv'
      BY <2>9, <1>0, <3>1 DEF ConfirmRemove, TypeOK, ControlInv
    <3> QED BY <3>2, <3>3
  <2>10. CASE ConfirmRegenerateGrub
    <3>1. menu' \in [System -> Tx \cup {None}]
      BY <2>10, <1>0 DEF ConfirmRegenerateGrub, RegenerateGrub, TypeOK
    <3>2. \/ confirm' = [at |-> "retry", tx |-> confirm.tx, todo |-> cleanup]
          \/ confirm' = ConfirmIdle
      BY <2>10, <1>0 DEF ConfirmRegenerateGrub
    <3>3. /\ confirm' \in [at : ConfirmSteps, tx : Records \cup {NoTransaction}, todo : SUBSET Tx]
          /\ confirm'.at \in {"retry", "idle"}
      BY <2>10, <1>0, <3>2 DEF TypeOK, ConfirmIdle, ConfirmSteps
    <3>4. TypeOK'
      BY <2>10, <3>1, <3>2, <3>3 DEF ConfirmRegenerateGrub, TypeOK
    <3>5. ControlInv'
      BY <2>10, <1>0, <3>1, <3>2, <3>3 DEF ConfirmRegenerateGrub, TypeOK, ControlInv
    <3> QED BY <3>4, <3>5
  <2>11. CASE \E t \in Tx : DeleteOldRoot(t)
    <3>1. PICK t \in Tx : DeleteOldRoot(t)
      BY <2>11, <1>0
    <3>2. Root \in Slots /\ Old(t) \in Slots /\ Root # Old(t) /\ view \in Layouts
      BY <2>11, <1>0 DEF TypeOK
    <3>3. Delete(view, Old(t)) \in Layouts /\ Delete(view, Old(t))[Root] = view[Root]
      BY <2>11, <1>0, <3>2, LayoutOperations
    <3>4. TypeOK'
      BY <2>11, <3>1, <3>2, <3>3 DEF TypeOK, DeleteOldRoot
    <3>5. ControlInv'
      BY <2>11, <1>0, <3>1, <3>2, <3>3 DEF TypeOK, ControlInv, DeleteOldRoot
    <3> QED BY <3>4, <3>5
  <2>12. CASE \E t \in Tx : CompleteOldRootCleanup(t)
    <3>1. PICK t \in Tx : CompleteOldRootCleanup(t)
      BY <2>12, <1>0
    <3>2. TypeOK'
      BY <2>12, <3>1 DEF TypeOK, CompleteOldRootCleanup
    <3>3. ControlInv'
      BY <2>12, <1>0, <3>1 DEF TypeOK, ControlInv, CompleteOldRootCleanup
    <3> QED BY <3>2, <3>3
  <2>13. CASE \E t \in Tx : DeferOldRootCleanup(t)
    <3>1. PICK t \in Tx : DeferOldRootCleanup(t)
      BY <2>13, <1>0
    <3>2. TypeOK'
      BY <2>13, <3>1 DEF TypeOK, DeferOldRootCleanup, Disrupt
    <3>3. ControlInv'
      BY <2>13, <1>0, <3>1 DEF TypeOK, ControlInv, DeferOldRootCleanup, Disrupt
    <3> QED BY <3>2, <3>3
  <2>14. CASE CleanupPassDone
    <3>1. TypeOK'
      BY <2>14 DEF CleanupPassDone, TypeOK
    <3>2. ControlInv'
      BY <2>14, <1>0 DEF CleanupPassDone, TypeOK, ControlInv
    <3> QED BY <3>1, <3>2
  <2>15. CASE ConfirmFails
    <3>1. TypeOK'
      BY <2>15 DEF ConfirmFails, TypeOK, Disrupt
    <3>2. ControlInv'
      BY <2>15, <1>0 DEF ConfirmFails, TypeOK, ControlInv, Disrupt
    <3> QED BY <3>1, <3>2
  <2> QED BY <1>4, <2>1, <2>2, <2>3, <2>4, <2>5, <2>6, <2>7, <2>8, <2>9, <2>10, <2>11,
      <2>12, <2>13, <2>14, <2>15 DEF Confirmation
<1>5. CASE Restart
  <2>1. PICK layout \in {disk, view} : RestartInto(layout)
    BY <1>5 DEF Restart, Reboot, PowerCycle, PowerLoss
  <2>2. disruptions' \in 0..MaxDisruptions /\ stray' \subseteq Tx
    <3>1. disruptions' \in 0..MaxDisruptions
      BY <1>5 DEF Restart, Reboot, PowerCycle, PowerLoss, Disrupt, TypeOK
    <3>2. stray' = stray \/ \E t \in Tx : stray' = stray \cup {t}
      BY <1>5 DEF Restart, Reboot, PowerCycle, PowerLoss
    <3> QED BY <3>1, <3>2 DEF TypeOK
  <2>3. /\ pending' \in Records \cup {NoTransaction}
        /\ pending'.applyAttempts = pending.applyAttempts
        /\ pending'.initramfsAttempts = pending.initramfsAttempts
    BY <2>1, AgeingFacts DEF RestartInto, TypeOK
  <2>4. TypeOK'
    BY <2>1, <2>2, <2>3 DEF RestartInto, TypeOK, HelperIdle, ConfirmIdle, HelperSteps,
        ConfirmSteps
  <2>5. ControlInv'
    BY <2>1, <2>3 DEF RestartInto, ControlInv, InEngine, HelperIdle, ConfirmIdle, Finishing
  <2> QED BY <2>4, <2>5
<1>6. CASE UNCHANGED vars
  BY <1>6 DEF TypeOK, ControlInv, MenuOwner, vars, durable, volatile
<1> QED BY <1>1, <1>2, <1>3, <1>4, <1>5, <1>6 DEF Next

\* The values on disk and in memory keep their types in every behaviour; above
\* all, the attempt counters never pass MAX_APPLY_ATTEMPTS, so that the pending
\* file can always be loaded again.
THEOREM TypeCorrect == Spec => []TypeOK
<1>1. TypeInv => TypeOK
  BY DEF TypeInv
<1> QED BY <1>1, TypeInit, TypeNext, PTL DEF Spec

-----------------------------------------------------------------------------
(* The protected system survives *)

Idle == {"none", "Preparing", "Armed", "Failed"}

\* The four shapes of an exchange, and the names that it may touch.
Shaped(layout, t, fallback) ==
    \/ Untouched(layout, t, fallback) \/ Staged(layout, t, fallback)
    \/ Protected(layout, t, fallback) \/ Activated(layout, t, fallback)

Within(before, after, t) ==
    \A s \in Slots \ {Root, Old(t), New(t)} : after[s] = before[s]

\* The shapes of the top level that go with each phase of the record.
Fits(layout, p) ==
    /\ p.phase = "none" => layout[Root] # None
    /\ p.phase \in {"Preparing", "Armed", "Failed", "Reverted"} =>
           Untouched(layout, p.id, p.fallback)
    /\ p.phase \in {"Applying", "Reverting"} =>
           Shaped(layout, p.id, p.fallback)
    /\ p.phase \in {"BootedUnconfirmed", "Confirmed"} =>
           Activated(layout, p.id, p.fallback)

\* No subvolume carries the name of a transaction that was never created.
Fresh(layout) ==
    \A t \in Tx \ used : layout[Old(t)] = None /\ layout[New(t)] = None

\* Only the pending transaction's subvolumes, and @root while there is one, may
\* differ between the disk and the running kernel.
CommittedAlike ==
    /\ pending.id = None => disk[Root] = view[Root]
    /\ \A t \in Tx : t # pending.id =>
           disk[Old(t)] = view[Old(t)] /\ disk[New(t)] = view[New(t)]

LayoutInv ==
    /\ Fits(disk, pending) /\ Fits(view, pending)
    /\ Fresh(disk) /\ Fresh(view)
    /\ CommittedAlike
    /\ pending.id # None => pending.id \in used

\* What the kernel sees is committed before early boot looks at it, and after
\* each of the engine's commands.
SyncedInv == machine \notin {"sync", "user", "halted"} => disk = view

\* Cleanup records name old transactions, or the pending one once confirmed.
CleanupInv ==
    /\ cleanup \subseteq used
    /\ pending.id \in cleanup => pending.phase = "Confirmed"
    /\ \A t \in confirm.todo : t \in used /\ t # pending.id
    /\ confirm.at # "retry" => confirm.todo = {}

\* What the copies in the hands of the two userspace programs say of the record.
CopiesInv ==
    /\ helper.at \in {"configure", "arm", "select"} =>
           helper.tx \in used /\ pending.id \in {None, helper.tx}
    /\ helper.at \in {"configure", "arm"} => pending.phase \in {"none", "Preparing"}
    /\ confirm.at \in {"grub", "retry"} => pending.phase \in {"none", "Preparing", "Armed"}
    /\ confirm.at \in Finishing => confirm.tx.id \in used
    /\ confirm.at \in Finishing \ {"grub"} =>
           IF confirm.tx.phase = "Failed" THEN pending.phase \in Idle
                                          ELSE pending = confirm.tx
    /\ confirm.at = "schedule" => confirm.tx.phase = "Confirmed"

SafetyInv == LayoutInv /\ CleanupInv /\ CopiesInv

-----------------------------------------------------------------------------
(* Lemmas *)

\* apply stages, protects and activates; revert takes back the same moves; and
\* none of them touches a name outside the transaction's.
LEMMA Moves ==
    ASSUME NEW layout \in Layouts, NEW t \in Tx, NEW fallback \in System
    PROVE  /\ Untouched(layout, t, fallback) =>
                 LET after == Place(layout, New(t), t)
                 IN  Staged(after, t, fallback) /\ Within(layout, after, t)
           /\ Staged(layout, t, fallback) =>
                 LET after == Rename(layout, Root, Old(t))
                 IN  Protected(after, t, fallback) /\ Within(layout, after, t)
           /\ Protected(layout, t, fallback) =>
                 LET after == Rename(layout, New(t), Root)
                 IN  Activated(after, t, fallback) /\ Within(layout, after, t)
           /\ Activated(layout, t, fallback) =>
                 LET after == Rename(layout, Root, New(t))
                 IN  Protected(after, t, fallback) /\ Within(layout, after, t)
           /\ Protected(layout, t, fallback) =>
                 LET after == Rename(layout, Old(t), Root)
                 IN  Staged(after, t, fallback) /\ Within(layout, after, t)
           /\ Staged(layout, t, fallback) =>
                 LET after == Delete(layout, New(t))
                 IN  Untouched(after, t, fallback) /\ Within(layout, after, t)
<1>1. /\ Root \in Slots /\ Old(t) \in Slots /\ New(t) \in Slots
      /\ Root # Old(t) /\ Root # New(t) /\ Old(t) # New(t)
  BY SlotNames
<1>2. t \in System
  BY DEF System
<1> USE <1>1, <1>2 DEF Layouts, Place, Delete, Rename, Within, Untouched, Staged, Protected, Activated
<1>3. Untouched(layout, t, fallback) =>
          LET after == Place(layout, New(t), t)
          IN  Staged(after, t, fallback) /\ Within(layout, after, t)
  OBVIOUS
<1>4. Staged(layout, t, fallback) =>
          LET after == Rename(layout, Root, Old(t))
          IN  Protected(after, t, fallback) /\ Within(layout, after, t)
  OBVIOUS
<1>5. Protected(layout, t, fallback) =>
          LET after == Rename(layout, New(t), Root)
          IN  Activated(after, t, fallback) /\ Within(layout, after, t)
  OBVIOUS
<1>6. Activated(layout, t, fallback) =>
          LET after == Rename(layout, Root, New(t))
          IN  Protected(after, t, fallback) /\ Within(layout, after, t)
  OBVIOUS
<1>7. Protected(layout, t, fallback) =>
          LET after == Rename(layout, Old(t), Root)
          IN  Staged(after, t, fallback) /\ Within(layout, after, t)
  OBVIOUS
<1>8. Staged(layout, t, fallback) =>
          LET after == Delete(layout, New(t))
          IN  Untouched(after, t, fallback) /\ Within(layout, after, t)
  OBVIOUS
<1> QED BY <1>3, <1>4, <1>5, <1>6, <1>7, <1>8

\* The engine recognizes the shape it finds by which of the three names exist.
LEMMA ShapeOf ==
    ASSUME NEW layout, NEW t \in Tx, NEW fallback \in System, Shaped(layout, t, fallback)
    PROVE  /\ Untouched(layout, t, fallback) <=>
                 Exists(layout, Root) /\ ~Exists(layout, Old(t)) /\ ~Exists(layout, New(t))
           /\ Staged(layout, t, fallback) <=>
                 Exists(layout, Root) /\ ~Exists(layout, Old(t)) /\ Exists(layout, New(t))
           /\ Protected(layout, t, fallback) <=>
                 ~Exists(layout, Root) /\ Exists(layout, Old(t)) /\ Exists(layout, New(t))
           /\ Activated(layout, t, fallback) <=>
                 Exists(layout, Root) /\ Exists(layout, Old(t)) /\ ~Exists(layout, New(t))
           /\ ~Exists(layout, Root) => Exists(layout, New(t))
<1>1. t # None /\ fallback # None
  BY TxAssumption DEF System
<1> QED BY <1>1 DEF Exists, Shaped, Untouched, Staged, Protected, Activated

\* Whether a layout fits a record depends on three fields of the record only.
LEMMA FitsFields ==
    ASSUME NEW layout, NEW p, NEW q, Fits(layout, p),
           q.id = p.id, q.phase = p.phase, q.fallback = p.fallback
    PROVE  Fits(layout, q)
BY DEF Fits, Shaped, Untouched, Staged, Protected, Activated

\* An untouched root fits every phase before the exchange and after its undoing,
\* and an exchange that is under way may be in any of its four shapes.
LEMMA FitsPhases ==
    ASSUME NEW layout, NEW p, NEW q, Fits(layout, p),
           q.id = p.id, q.fallback = p.fallback,
           \/ /\ p.phase \in {"Preparing", "Armed"}
              /\ q.phase \in {"Armed", "Failed", "Applying"}
           \/ /\ p.phase \in {"Applying", "BootedUnconfirmed", "Reverting"}
              /\ q.phase \in {"Applying", "Reverting"}
           \/ p.phase = "BootedUnconfirmed" /\ q.phase = "Confirmed"
    PROVE  Fits(layout, q)
BY DEF Fits, Shaped, Untouched, Staged, Protected, Activated

\* A step that leaves the layouts, the record and both userspace copies alone
\* keeps the invariant.
LEMMA SafetyStutter ==
    ASSUME SafetyInv, UNCHANGED <<disk, view, pending, used, cleanup, confirm>>,
           \/ helper' = helper
           \/ helper'.at \notin {"configure", "arm", "select"}
           \/ /\ helper.at \in {"configure", "arm", "select"}
              /\ helper'.tx = helper.tx
              /\ helper'.at = "arm" => helper.at = "configure"
              /\ helper'.at # "configure"
    PROVE  SafetyInv'
BY DEF SafetyInv, LayoutInv, CleanupInv, CopiesInv, CommittedAlike, Fits, Fresh,
       Shaped, Untouched, Staged, Protected, Activated

\* A write of the record by the engine, which runs alone.
LEMMA EngineWrite ==
    ASSUME SafetyInv, UNCHANGED <<disk, view, used, cleanup, confirm, helper>>,
           confirm.at = "idle", helper.at = "idle",
           pending'.id = pending.id, pending.phase # "Confirmed",
           Fits(disk, pending)', Fits(view, pending)'
    PROVE  SafetyInv'
<1>1. LayoutInv'
  BY DEF SafetyInv, LayoutInv, CommittedAlike, Fresh
<1>2. CleanupInv'
  BY DEF SafetyInv, CleanupInv
<1>3. CopiesInv'
  BY DEF SafetyInv, CopiesInv, Finishing
<1> QED BY <1>1, <1>2, <1>3 DEF SafetyInv

\* One Btrfs command of the engine, on the subvolumes of the pending transaction.
LEMMA EngineMove ==
    ASSUME TypeInv, SafetyInv, UNCHANGED <<disk, pending, used, cleanup, confirm, helper>>,
           pending \in Records, Fits(view, pending)',
           \A s \in Slots \ {Root, Old(pending.id), New(pending.id)} : view'[s] = view[s]
    PROVE  SafetyInv'
<1>1. pending.id \in Tx /\ pending.id \in used /\ pending.id # None
  BY TxAssumption DEF SafetyInv, LayoutInv, Records
<1>2. \A t \in Tx : t # pending.id => view'[Old(t)] = view[Old(t)] /\ view'[New(t)] = view[New(t)]
  BY <1>1, SlotNames
<1>3. LayoutInv'
  <2>1. Fits(disk, pending)'
    BY DEF SafetyInv, LayoutInv, Fits, Shaped, Untouched, Staged, Protected, Activated
  <2>2. Fresh(disk)' /\ Fresh(view)'
    BY <1>1, <1>2 DEF SafetyInv, LayoutInv, Fresh
  <2>3. CommittedAlike'
    BY <1>1, <1>2 DEF SafetyInv, LayoutInv, CommittedAlike
  <2> QED BY <1>1, <2>1, <2>2, <2>3 DEF LayoutInv
<1>4. CleanupInv' /\ CopiesInv'
  BY DEF SafetyInv, CleanupInv, CopiesInv
<1> QED BY <1>3, <1>4 DEF SafetyInv

-----------------------------------------------------------------------------
(* The invariant *)

\* The invariant holds of a freshly installed machine.
LEMMA SafetyInit == Init => SafetyInv
<1> SUFFICES ASSUME Init PROVE SafetyInv
  OBVIOUS
<1>1. /\ view[Root] = Original /\ disk[Root] = Original
      /\ \A t \in Tx : /\ view[Old(t)] = None /\ view[New(t)] = None
                       /\ disk[Old(t)] = None /\ disk[New(t)] = None
  BY SlotNames DEF Init
<1>2. pending.id = None /\ pending.phase = "none"
  BY FreshRecords DEF Init
<1>3. helper.at = "idle" /\ confirm.at = "idle" /\ confirm.todo = {} /\ cleanup = {}
  BY DEF Init, HelperIdle, ConfirmIdle
<1>4. LayoutInv
  BY <1>1, <1>2, TxAssumption DEF LayoutInv, Fits, Fresh, CommittedAlike
<1>5. CleanupInv /\ CopiesInv
  BY <1>3 DEF CleanupInv, CopiesInv, Finishing
<1> QED BY <1>4, <1>5 DEF SafetyInv

\* GRUB only touches the selector and the request.
LEMMA GrubSafety == ASSUME TypeInv, SafetyInv, Grub PROVE SafetyInv'
<1>1. UNCHANGED <<disk, view, pending, used, cleanup, confirm, helper>>
  BY DEF Grub, GrubStart, GrubBootDefault, GrubPickOther, BootEntry
<1> QED BY <1>1, SafetyStutter

\* The early boot engine moves the root through the four shapes and records each
\* phase only when the layout fits it, on disk too.
LEMMA EngineSafety == ASSUME TypeInv, SyncedInv, SafetyInv, Engine PROVE SafetyInv'
<1> USE DEF EngineUnchanged
<1> DEFINE t == pending.id
           fallback == pending.fallback
<1>0. /\ pending.phase # "none" <=> pending \in Records
      /\ Fits(disk, pending) /\ Fits(view, pending)
  BY PendingSlot DEF TypeInv, TypeOK, SafetyInv, LayoutInv
<1>1. CASE HookStart \/ HookFails \/ HookBypassed \/ ExecuteNoAction
           \/ ExecuteResumeRevert \/ EngineFails
  <2>1. UNCHANGED <<disk, view, pending, used, cleanup, confirm, helper>>
    BY <1>1 DEF HookStart, HookFails, HookBypassed, ExecuteNoAction,
                ExecuteResumeRevert, EngineFails
  <2> QED BY <2>1, SafetyStutter
<1>2. CASE ExecuteFailSafe \/ ExecuteEnter \/ ExecuteRevert \/ RecordValidating
           \/ ValidateAndBegin \/ ValidationFails \/ ApplyDone \/ RevertDone
           \/ PersistCheckpoint
  <2>1. /\ pending \in Records /\ confirm.at = "idle" /\ helper.at = "idle"
        /\ UNCHANGED <<disk, view, used, cleanup, confirm, helper>>
    BY <1>2 DEF TypeInv, ControlInv, InEngine, ExecuteFailSafe, ExecuteEnter,
                ExecuteRevert, RecordValidating, ValidateAndBegin, ValidationFails,
                ApplyDone, RevertDone, PersistCheckpoint
  <2>2. pending' \in {RecordFailure(pending), RecordInitramfsEntry(pending), pending,
                      RecordCheckpoint(Transition(pending, "Reverting"), "revert-started"),
                      RecordCheckpoint(pending, "validating"), BeginApply(pending),
                      RecordCheckpoint(Transition(pending, "BootedUnconfirmed"),
                                       "booted-unconfirmed-recorded"),
                      RecordCheckpoint(Transition(pending, "Reverted"), "reverted-recorded"),
                      RecordCheckpoint(pending, mark)}
    BY <1>2 DEF ExecuteFailSafe, ExecuteEnter,
                ExecuteRevert, RecordValidating, ValidateAndBegin, ValidationFails,
                ApplyDone, RevertDone, PersistCheckpoint
  <2>3. \A phase \in Phases : Transition(pending, phase) \in Records
    BY <2>1, RecordOperations
  <2>4. pending'.id = t /\ pending'.fallback = fallback
    BY <2>1, <2>2, <2>3, RecordFields DEF Phases
  <2>5. \A layout \in {disk, view} : Fits(layout, pending')
    <3>1. CASE ExecuteFailSafe
      <4>1. pending.phase = "Armed" /\ pending'.phase = "Failed"
        BY <3>1, <2>1, RecordFields DEF ExecuteFailSafe, GivesUpArmed
      <4> QED BY <4>1, <2>4, <1>0, FitsPhases
    <3>2. CASE ExecuteEnter \/ RecordValidating \/ PersistCheckpoint
      <4>1. pending'.phase = pending.phase
        BY <3>2, <2>1, RecordFields DEF ExecuteEnter, RecordValidating, PersistCheckpoint
      <4> QED BY <4>1, <2>4, <1>0, FitsFields
    <3>3. CASE ExecuteRevert
      <4>1. /\ pending.phase \in {"Applying", "BootedUnconfirmed"}
            /\ pending'.phase = "Reverting"
        BY <3>3, <2>1, <2>3, RecordFields DEF ExecuteRevert, StartsRevert, Phases
      <4> QED BY <4>1, <2>4, <1>0, FitsPhases
    <3>4. CASE ValidateAndBegin
      <4>1. pending.phase \in {"Armed", "Applying"} /\ pending'.phase = "Applying"
        BY <3>4, <2>1, RecordFields DEF ValidateAndBegin, TypeInv, ControlInv
      <4> QED BY <4>1, <2>4, <1>0, FitsPhases
    <3>5. CASE ValidationFails
      <4>1. \/ pending' = pending
            \/ pending.phase = "Armed" /\ pending'.phase = "Failed"
        BY <3>5, <2>1, RecordFields DEF ValidationFails
      <4> QED BY <4>1, <2>4, <1>0, FitsPhases
    <3>6. CASE ApplyDone
      <4>1. pending.phase = "Applying" /\ pending'.phase = "BootedUnconfirmed"
        BY <3>6, <2>1, <2>3, RecordFields DEF ApplyDone, TypeInv, ControlInv, Phases
      <4>2. Activated(view, t, fallback)
        BY <1>0, <2>1, <4>1, <3>6, ShapeOf DEF ApplyDone, Fits, Records
      <4>3. Activated(disk, t, fallback)
        BY <3>6, <4>2 DEF ApplyDone, SyncedInv
      <4> QED BY <4>1, <4>2, <4>3, <2>4 DEF Fits, Activated
    <3>7. CASE RevertDone
      <4>1. pending.phase = "Reverting" /\ pending'.phase = "Reverted"
        BY <3>7, <2>1, <2>3, RecordFields DEF RevertDone, TypeInv, ControlInv, Phases
      <4>2. Untouched(view, t, fallback)
        BY <1>0, <2>1, <4>1, <3>7, ShapeOf DEF RevertDone, Fits, Records
      <4>3. Untouched(disk, t, fallback)
        BY <3>7, <4>2 DEF RevertDone, SyncedInv
      <4> QED BY <4>1, <4>2, <4>3, <2>4 DEF Fits, Untouched
    <3> QED BY <1>2, <3>1, <3>2, <3>3, <3>4, <3>5, <3>6, <3>7
  <2>6. Fits(disk, pending)' /\ Fits(view, pending)'
    BY <2>1, <2>5 DEF Fits, Shaped, Untouched, Staged, Protected, Activated
  <2>7. pending.phase # "Confirmed"
    BY <1>2 DEF TypeInv, ControlInv, ExecuteFailSafe, GivesUpArmed, ExecuteEnter,
                EntersApply, ExecuteRevert, StartsRevert, RecordValidating,
                ValidateAndBegin, ValidationFails, ApplyDone, RevertDone, PersistCheckpoint
  <2> QED BY <2>1, <2>4, <2>6, <2>7, EngineWrite
<1>3. CASE ApplyStep \/ RevertStep
  <2>1. /\ pending \in Records /\ t \in Tx /\ fallback \in System /\ view \in Layouts
        /\ pending.phase \in {"Applying", "Reverting"}
        /\ UNCHANGED <<disk, pending, used, cleanup, confirm, helper>>
    BY <1>3 DEF ApplyStep, RevertStep, TypeInv, TypeOK, ControlInv, InEngine, Records
  <2>2. Shaped(view, t, fallback)
    BY <1>0, <2>1 DEF Fits, Shaped
  <2>3. Shaped(view', t, fallback) /\ Within(view, view', t)
    <3>1. CASE ApplyStep
      BY <3>1, <2>1, <2>2, Moves, ShapeOf DEF ApplyStep, Shaped
    <3>2. CASE RevertStep
      BY <3>2, <2>1, <2>2, Moves, ShapeOf DEF RevertStep, Shaped
    <3> QED BY <1>3, <3>1, <3>2
  <2>4. Fits(view, pending)'
    BY <2>1, <2>3 DEF Fits, Shaped
  <2> QED BY <2>1, <2>3, <2>4, EngineMove DEF Within
<1>4. CASE FilesystemSync
  <2>1. disk' = view /\ UNCHANGED <<view, pending, used, cleanup, confirm, helper>>
    BY <1>4 DEF FilesystemSync
  <2>2. LayoutInv'
    BY <2>1 DEF SafetyInv, LayoutInv, CommittedAlike, Fits, Fresh,
                Shaped, Untouched, Staged, Protected, Activated
  <2>3. CleanupInv' /\ CopiesInv'
    BY <2>1 DEF SafetyInv, CleanupInv, CopiesInv
  <2> QED BY <2>2, <2>3 DEF SafetyInv
<1> QED BY <1>1, <1>2, <1>3, <1>4 DEF Engine

\* A restart, orderly or not, comes up with one of two layouts that both fit.
LEMMA RestartSafety == ASSUME TypeInv, SafetyInv, Restart PROVE SafetyInv'
<1>1. PICK layout \in {disk, view} : RestartInto(layout)
  BY DEF Restart, Reboot, PowerCycle, PowerLoss
<1>2. /\ pending'.id = pending.id /\ pending'.phase = pending.phase
      /\ pending'.fallback = pending.fallback
  BY <1>1, AgeingFacts DEF RestartInto, TypeInv, TypeOK
<1>3. /\ disk' = layout /\ view' = layout /\ UNCHANGED <<used, cleanup>>
      /\ helper'.at = "idle" /\ confirm'.at = "idle" /\ confirm'.todo = {}
  BY <1>1 DEF RestartInto, HelperIdle, ConfirmIdle
<1>4. LayoutInv'
  <2>1. Fits(layout, pending') /\ Fresh(layout)
    BY <1>2, FitsFields DEF SafetyInv, LayoutInv
  <2>2. Fits(disk, pending)' /\ Fits(view, pending)' /\ Fresh(disk)' /\ Fresh(view)'
    BY <1>3, <2>1 DEF Fits, Fresh, Shaped, Untouched, Staged, Protected, Activated
  <2> QED BY <1>2, <1>3, <2>2 DEF SafetyInv, LayoutInv, CommittedAlike
<1>5. CleanupInv' /\ CopiesInv'
  BY <1>2, <1>3 DEF SafetyInv, CleanupInv, CopiesInv, Finishing
<1> QED BY <1>4, <1>5 DEF SafetyInv

\* Removing the pending file is safe whenever the exchange is not under way.
LEMMA RemoveSafety ==
    ASSUME TypeInv, SafetyInv, pending' = NoTransaction,
           UNCHANGED <<disk, view, used, cleanup>>,
           pending.phase \in Idle \cup {"Reverted", "Confirmed"}
    PROVE  LayoutInv'
<1>1. pending'.id = None /\ pending'.phase = "none"
  BY FreshRecords
<1>2. pending.phase # "none" => /\ pending.id \in Tx /\ pending.fallback \in System
                                /\ pending.id \in used
  BY PendingSlot, TxAssumption DEF TypeInv, TypeOK, SafetyInv, LayoutInv
<1>3. pending.phase = "none" => pending.id = None
  BY PendingSlot DEF TypeInv, TypeOK
<1>4. \/ pending.phase = "none"
      \/ /\ Untouched(disk, pending.id, pending.fallback)
         /\ Untouched(view, pending.id, pending.fallback)
      \/ /\ Activated(disk, pending.id, pending.fallback)
         /\ Activated(view, pending.id, pending.fallback)
  BY DEF SafetyInv, LayoutInv, Fits, Idle
<1>5. disk[Root] # None /\ view[Root] # None /\ disk[Root] = view[Root]
  BY <1>2, <1>3, <1>4, TxAssumption
     DEF SafetyInv, LayoutInv, CommittedAlike, Fits, Untouched, Activated, System
<1>6. \A t \in Tx : disk[Old(t)] = view[Old(t)] /\ disk[New(t)] = view[New(t)]
  BY <1>3, <1>4, TxAssumption DEF SafetyInv, LayoutInv, CommittedAlike, Untouched, Activated
<1>7. Fits(disk, pending)' /\ Fits(view, pending)'
  BY <1>1, <1>5 DEF Fits
<1>8. Fresh(disk)' /\ Fresh(view)'
  BY DEF SafetyInv, LayoutInv, Fresh
<1>9. CommittedAlike'
  BY <1>5, <1>6 DEF CommittedAlike
<1> QED BY <1>1, <1>7, <1>8, <1>9 DEF LayoutInv

\* Scheduling starts from a fresh name, arming rewrites the same transaction, and
\* cancelling removes only what has not touched the root.
LEMMA HelperSafety == ASSUME TypeInv, SafetyInv, Helper PROVE SafetyInv'
<1> USE DEF HelperUnchanged, HelperAt, HelperGoto, HelperDone, HelperIdle
<1>0. /\ pending.id # None <=> pending \in Records
      /\ pending.phase # "none" <=> pending \in Records
      /\ helper \in [at : HelperSteps, tx : Tx \cup {None}]
      /\ view[Root] \in System \cup {None}
  BY PendingSlot, SlotNames DEF TypeInv, TypeOK, Layouts
<1>1. CASE (\E t \in Tx : ScheduleStart(t)) \/ CancelStart \/ CancelFails \/ UndoCallFails
           \/ HelperClearOnce \/ HelperRegenerateGrub \/ ScheduleFails
           \/ ScheduleConfigureBoot \/ ScheduleSelect
  <2>1. UNCHANGED <<disk, view, pending, used, cleanup, confirm>>
    BY <1>1 DEF ScheduleStart, CancelStart, CancelFails, UndoCallFails, HelperClearOnce,
                HelperRegenerateGrub, ScheduleFails, ScheduleConfigureBoot, ScheduleSelect
  <2>2. \/ helper'.at \notin {"configure", "arm", "select"}
        \/ /\ helper.at \in {"configure", "arm", "select"} /\ helper'.tx = helper.tx
           /\ helper'.at = "arm" => helper.at = "configure"
           /\ helper'.at # "configure"
    BY <1>0, <1>1 DEF ScheduleStart, CancelStart, CancelFails, UndoCallFails,
        HelperClearOnce,
                HelperRegenerateGrub, ScheduleFails, ScheduleConfigureBoot, ScheduleSelect
  <2> QED BY <2>1, <2>2, SafetyStutter
<1>2. CASE ScheduleCreate
  <2> DEFINE t == helper.tx
  <2>1. /\ t \in Tx /\ t \notin used /\ view[Root] \in System /\ pending.id = None
        /\ pending.phase = "none"
    BY <1>0, <1>2 DEF ScheduleCreate, IsPending, TypeInv, TypeOK, ControlInv, Layouts
  <2>2. /\ pending'.id = t /\ pending'.phase = "Preparing" /\ pending'.fallback = view[Root]
        /\ UNCHANGED <<disk, view, cleanup, confirm>> /\ used' = used \cup {t}
        /\ helper'.tx = t
    BY <1>0, <1>2, <2>1, FreshRecords DEF ScheduleCreate
  <2>3. disk[Root] = view[Root]
    BY <2>1 DEF SafetyInv, LayoutInv, CommittedAlike
  <2>4. /\ Untouched(disk, t, view[Root]) /\ Untouched(view, t, view[Root])
    BY <2>1, <2>3 DEF SafetyInv, LayoutInv, Fresh, Untouched
  <2>5. LayoutInv'
    <3>1. Fits(disk, pending)' /\ Fits(view, pending)'
      BY <2>2, <2>4 DEF Fits, Untouched
    <3>2. Fresh(disk)' /\ Fresh(view)'
      BY <2>2 DEF SafetyInv, LayoutInv, Fresh
    <3>3. CommittedAlike'
      BY <2>1, <2>2, TxAssumption DEF SafetyInv, LayoutInv, CommittedAlike
    <3> QED BY <2>2, <3>1, <3>2, <3>3 DEF LayoutInv
  <2>6. CleanupInv'
    BY <2>1, <2>2 DEF SafetyInv, CleanupInv
  <2>7. CopiesInv'
    BY <1>0, <2>1, <2>2 DEF SafetyInv, CopiesInv, TypeInv, ControlInv, Finishing, Idle
  <2> QED BY <2>5, <2>6, <2>7 DEF SafetyInv
<1>3. CASE ScheduleArm
  <2> DEFINE t == helper.tx
  <2>1. CASE ~IsPending
    <3>1. /\ UNCHANGED <<disk, view, pending, used, cleanup, confirm>>
          /\ helper'.at \notin {"configure", "arm", "select"}
      BY <1>0, <1>3, <2>1 DEF ScheduleArm
    <3> QED BY <3>1, SafetyStutter
  <2>2. CASE IsPending
    <3>1. /\ t \in Tx /\ pending.id = t /\ t \in used /\ view[Root] \in System
          /\ pending.phase \in Idle \ {"none"}
      BY <1>0, <1>3, <2>2 DEF ScheduleArm, IsPending, TypeInv, TypeOK, ControlInv, Layouts,
                              SafetyInv, CopiesInv, Idle
    <3>2. NewTransaction(t, view[Root]) \in Records
      BY <3>1, FreshRecords
    <3>3. /\ pending'.id = t /\ pending'.phase = "Armed" /\ pending'.fallback = view[Root]
      BY <1>3, <2>2, <3>1, <3>2, FreshRecords, RecordFields DEF ScheduleArm
    <3>4. /\ UNCHANGED <<disk, view, cleanup, confirm, used>>
          /\ helper'.tx = t
          /\ helper'.at = "select"
      BY <1>0, <1>3, <2>2 DEF ScheduleArm
    <3>5. pending.fallback = view[Root] /\ Fits(disk, pending) /\ Fits(view, pending)
          /\ Untouched(disk, t, view[Root]) /\ Untouched(view, t, view[Root])
      BY <3>1 DEF SafetyInv, LayoutInv, Fits, Untouched, Idle
    <3>6. LayoutInv'
      <4>1. Fits(disk, pending)' /\ Fits(view, pending)'
        BY <3>3, <3>4, <3>5 DEF Fits, Untouched
      <4>2. Fresh(disk)' /\ Fresh(view)'
        BY <3>4 DEF SafetyInv, LayoutInv, Fresh
      <4>3. CommittedAlike'
        BY <3>1, <3>3, <3>4, TxAssumption DEF SafetyInv, LayoutInv, CommittedAlike
      <4> QED BY <3>1, <3>3, <3>4, <4>1, <4>2, <4>3 DEF LayoutInv
    <3>7. CleanupInv'
      BY <3>1, <3>3, <3>4 DEF SafetyInv, CleanupInv, Idle
    <3>8. CopiesInv'
      BY <1>0, <3>1, <3>3, <3>4 DEF SafetyInv, CopiesInv, TypeInv, ControlInv, Finishing,
          Idle, Terminal
    <3> QED BY <3>6, <3>7, <3>8 DEF SafetyInv
  <2> QED BY <2>1, <2>2
<1>4. CASE HelperRemove
  <2>1. /\ pending' = NoTransaction /\ UNCHANGED <<disk, view, used, cleanup, confirm>>
        /\ pending.phase \in Idle /\ helper'.at \notin {"configure", "arm", "select"}
    BY <1>0, <1>4 DEF HelperRemove, TypeInv, ControlInv, Idle
  <2>2. pending'.id = None /\ pending'.phase = "none"
    BY <2>1, FreshRecords
  <2>3. LayoutInv'
    BY <2>1, RemoveSafety
  <2>4. CleanupInv'
    BY <2>1, <2>2, TxAssumption DEF SafetyInv, CleanupInv, TypeInv, TypeOK
  <2>5. CopiesInv'
    BY <2>1, <2>2 DEF SafetyInv, CopiesInv, TypeInv, ControlInv, Finishing, Idle, Terminal
  <2> QED BY <2>3, <2>4, <2>5 DEF SafetyInv
<1> QED BY <1>1, <1>2, <1>3, <1>4 DEF Helper

\* A step of the confirmation that leaves the layouts and the record alone.
LEMMA ConfirmStutter ==
    ASSUME SafetyInv, UNCHANGED <<disk, view, pending, used, helper>>,
           CleanupInv',
           confirm'.at \in {"grub", "retry"} => pending.phase \in {"none", "Preparing", "Armed"},
           confirm'.at \in Finishing =>
               /\ confirm'.tx.id \in used
               /\ confirm'.at # "grub" => IF confirm'.tx.phase = "Failed"
                                          THEN pending.phase \in Idle
                                          ELSE pending = confirm'.tx,
           confirm'.at = "schedule" => confirm'.tx.phase = "Confirmed"
    PROVE  SafetyInv'
<1>1. LayoutInv'
  BY DEF SafetyInv, LayoutInv, CommittedAlike, Fits, Fresh,
         Shaped, Untouched, Staged, Protected, Activated
<1>2. CopiesInv'
  BY DEF SafetyInv, CopiesInv
<1> QED BY <1>1, <1>2 DEF SafetyInv

\* Confirming needs the activated layout, and cleanups never delete the old root
\* of the pending transaction.
LEMMA ConfirmationSafety == ASSUME TypeInv, SafetyInv, Confirmation PROVE SafetyInv'
<1> USE DEF ConfirmUnchanged, ConfirmAt, ConfirmGoto, ConfirmIdle
<1>0. /\ pending.id # None <=> pending \in Records
      /\ pending.phase # "none" <=> pending \in Records
      /\ pending.id # None => pending.id \in used
      /\ confirm \in [at : ConfirmSteps, tx : Records \cup {NoTransaction}, todo : SUBSET Tx]
      /\ Fits(disk, pending) /\ Fits(view, pending)
  BY PendingSlot DEF TypeInv, TypeOK, SafetyInv, LayoutInv
<1>1. CASE ReconcileNotEntered \/ ReconcileConfirm
  <2>1. pending \in Records /\ confirm.at = "idle" /\ machine = "user"
    BY <1>0, <1>1 DEF ReconcileNotEntered, ReconcileConfirm
  <2>2. /\ pending'.id = pending.id /\ pending'.fallback = pending.fallback
        /\ \/ pending.phase = "Armed" /\ pending'.phase = "Failed" /\ confirm'.at = "clear"
           \/ /\ pending.phase = "BootedUnconfirmed" /\ pending'.phase = "Confirmed"
              /\ confirm'.at = "lineage"
        /\ confirm'.tx = pending' /\ confirm'.todo = {}
        /\ UNCHANGED <<disk, view, used, cleanup, helper>>
    BY <1>1, <2>1, RecordFields DEF ReconcileNotEntered, ReconcileConfirm,
                                     FinishFailed, FinishConfirmedOrReverted
  <2>3. Fits(disk, pending') /\ Fits(view, pending')
    BY <1>0, <2>2, FitsPhases
  <2>4. LayoutInv'
    <3>1. Fits(disk, pending)' /\ Fits(view, pending)'
      BY <2>2, <2>3 DEF Fits, Shaped, Untouched, Staged, Protected, Activated
    <3> QED BY <2>2, <3>1 DEF SafetyInv, LayoutInv, CommittedAlike, Fresh
  <2>5. CleanupInv'
    BY <2>2 DEF SafetyInv, CleanupInv
  <2>6. CopiesInv'
    BY <1>0, <2>1, <2>2 DEF SafetyInv, CopiesInv, Finishing, Idle
  <2> QED BY <2>4, <2>5, <2>6 DEF SafetyInv
<1>2. CASE ReconcileTerminal
  <2>1. /\ pending \in Records /\ confirm'.tx = pending /\ confirm'.todo = {}
        /\ confirm'.at \in {"lineage", "clear"}
        /\ UNCHANGED <<disk, view, pending, used, cleanup, helper>>
    BY <1>0, <1>2 DEF ReconcileTerminal, FinishFailed, FinishConfirmedOrReverted, Terminal
  <2>2. CleanupInv'
    BY <2>1 DEF SafetyInv, CleanupInv
  <2> QED BY <1>0, <2>1, <2>2, ConfirmStutter DEF Idle
<1>3. CASE ReconcileCleanups
  <2>1. /\ pending.phase = "none" /\ pending.id = None /\ confirm'.todo = cleanup
        /\ confirm'.at = "retry" /\ cleanup \subseteq Tx
        /\ UNCHANGED <<disk, view, pending, used, cleanup, helper>>
    BY <1>0, <1>3 DEF ReconcileCleanups, IsPending, TypeInv, TypeOK
  <2>2. CleanupInv'
    BY <2>1, TxAssumption DEF SafetyInv, CleanupInv
  <2> QED BY <2>1, <2>2, ConfirmStutter DEF Finishing
<1>4. CASE RecordLineage \/ ConfirmClearOnce \/ ArchiveTransaction
  <2>1. /\ confirm.at \in {"lineage", "clear", "archive"}
        /\ confirm'.at \in {"schedule", "clear", "archive", "remove"}
        /\ confirm'.at = "schedule" => confirm.tx.phase = "Confirmed"
        /\ confirm'.tx = confirm.tx /\ confirm'.todo = confirm.todo
        /\ UNCHANGED <<disk, view, pending, used, cleanup, helper>>
    BY <1>0, <1>4 DEF RecordLineage, ConfirmClearOnce, ArchiveTransaction
  <2>2. CleanupInv'
    BY <2>1 DEF SafetyInv, CleanupInv
  <2>3. IF confirm.tx.phase = "Failed" THEN pending.phase \in Idle ELSE pending = confirm.tx
    BY <2>1 DEF SafetyInv, CopiesInv, Finishing
  <2>4. confirm.tx.id \in used
    BY <2>1 DEF SafetyInv, CopiesInv, Finishing
  <2> QED BY <2>1, <2>2, <2>3, <2>4, ConfirmStutter
<1>5. CASE ScheduleOldRootCleanup
  <2>1. /\ confirm.at = "schedule" /\ confirm'.at = "clear"
        /\ confirm'.tx = confirm.tx /\ confirm'.todo = confirm.todo
        /\ cleanup' = cleanup \cup {confirm.tx.id}
        /\ UNCHANGED <<disk, view, pending, used, helper>>
    BY <1>0, <1>5 DEF ScheduleOldRootCleanup
  <2>2. /\ confirm.tx.phase = "Confirmed" /\ pending = confirm.tx /\ confirm.tx.id \in used
    BY <2>1 DEF SafetyInv, CopiesInv, Finishing
  <2>3. CleanupInv'
    BY <2>1, <2>2 DEF SafetyInv, CleanupInv
  <2> QED BY <2>1, <2>2, <2>3, ConfirmStutter
<1>6. CASE ConfirmRemove
  <2>1. /\ pending' = NoTransaction /\ UNCHANGED <<disk, view, used, cleanup, helper>>
        /\ confirm.at = "remove" /\ confirm'.at = "grub"
        /\ confirm'.tx = confirm.tx /\ confirm'.todo = confirm.todo
    BY <1>0, <1>6 DEF ConfirmRemove
  <2>2. /\ pending.phase \in Idle \cup {"Reverted", "Confirmed"} /\ confirm.tx.id \in used
    BY <2>1 DEF SafetyInv, CopiesInv, Finishing, TypeInv, ControlInv, Terminal
  <2>3. pending'.id = None /\ pending'.phase = "none"
    BY <2>1, FreshRecords
  <2>4. LayoutInv'
    BY <2>1, <2>2, RemoveSafety
  <2>5. CleanupInv'
    BY <1>0, <2>1, <2>3, TxAssumption DEF SafetyInv, CleanupInv, TypeInv, TypeOK
  <2>6. CopiesInv'
    BY <2>1, <2>2, <2>3 DEF SafetyInv, CopiesInv
  <2> QED BY <2>4, <2>5, <2>6 DEF SafetyInv
<1>7. CASE ConfirmRegenerateGrub
  <2>1. /\ confirm.at = "grub" /\ UNCHANGED <<disk, view, pending, used, cleanup, helper>>
        /\ \/ confirm'.at = "retry" /\ confirm'.todo = cleanup
           \/ confirm'.at = "idle" /\ confirm'.todo = {}
    BY <1>7 DEF ConfirmRegenerateGrub
  <2>2. pending.phase \in {"none", "Preparing", "Armed"}
    BY <2>1 DEF SafetyInv, CopiesInv
  <2>3. CleanupInv'
    BY <2>1, <2>2 DEF SafetyInv, CleanupInv
  <2> QED BY <2>1, <2>2, <2>3, ConfirmStutter DEF Finishing
<1>8. CASE \E t \in Tx : DeleteOldRoot(t)
  <2>1. PICK t \in Tx : DeleteOldRoot(t)
    BY <1>8
  <2>2. /\ confirm.at = "retry" /\ t # pending.id /\ t \in used
        /\ pending.phase \in {"none", "Preparing", "Armed"}
        /\ disk' = Delete(view, Old(t)) /\ view' = Delete(view, Old(t))
        /\ UNCHANGED <<pending, used, cleanup, confirm, helper>>
    BY <2>1 DEF DeleteOldRoot, SafetyInv, CleanupInv, CopiesInv
  <2>3. /\ view \in Layouts /\ Root \in Slots /\ Old(t) \in Slots /\ Root # Old(t)
        /\ pending.phase # "none" => pending.id \in Tx
    BY <1>0, SlotNames DEF TypeInv, TypeOK, Records
  <2>4. \A s \in Slots \ {Old(t)} : view'[s] = view[s] /\ disk'[s] = view[s]
    BY <2>2, <2>3 DEF Delete, Layouts
  <2>5. view'[Old(t)] = None /\ disk'[Old(t)] = None
    BY <2>2, <2>3 DEF Delete, Layouts
  <2>6. Fits(disk, pending)' /\ Fits(view, pending)'
    <3>1. CASE pending.phase = "none"
      BY <1>0, <2>2, <2>3, <2>4, <3>1 DEF Fits
    <3>2. CASE pending.phase \in {"Preparing", "Armed"}
      <4>1. Untouched(view, pending.id, pending.fallback)
        BY <1>0, <3>2 DEF Fits
      <4>2. Old(pending.id) \in Slots \ {Old(t)} /\ New(pending.id) \in Slots \ {Old(t)}
        BY <2>2, <2>3, <3>2, SlotNames
      <4>3. /\ Untouched(view', pending.id, pending.fallback)
            /\ Untouched(disk', pending.id, pending.fallback)
        BY <2>3, <2>4, <4>1, <4>2 DEF Untouched
      <4> QED BY <2>2, <3>2, <4>3 DEF Fits, Untouched
    <3> QED BY <2>2, <3>1, <3>2
  <2>7. Fresh(disk)' /\ Fresh(view)'
    BY <2>2, <2>3, <2>4, <2>5, SlotNames DEF SafetyInv, LayoutInv, Fresh
  <2>8. CommittedAlike'
    BY <2>2 DEF CommittedAlike
  <2>9. LayoutInv'
    BY <1>0, <2>2, <2>6, <2>7, <2>8 DEF LayoutInv
  <2>10. CleanupInv' /\ CopiesInv'
    BY <2>2 DEF SafetyInv, CleanupInv, CopiesInv
  <2> QED BY <2>9, <2>10 DEF SafetyInv
<1>9. CASE (\E t \in Tx : CompleteOldRootCleanup(t) \/ DeferOldRootCleanup(t))
           \/ CleanupPassDone \/ ConfirmFails
  <2>1. /\ confirm'.at \in {"retry", "idle"} /\ confirm'.todo \subseteq confirm.todo
        /\ confirm'.at = "retry" => confirm.at = "retry"
        /\ confirm'.at = "idle" => confirm'.todo = {}
        /\ cleanup' \subseteq cleanup /\ UNCHANGED <<disk, view, pending, used, helper>>
    BY <1>0, <1>9 DEF CompleteOldRootCleanup, DeferOldRootCleanup, CleanupPassDone,
        ConfirmFails
  <2>2. CleanupInv'
    BY <2>1 DEF SafetyInv, CleanupInv
  <2>3. confirm'.at = "retry" => pending.phase \in {"none", "Preparing", "Armed"}
    BY <2>1 DEF SafetyInv, CopiesInv
  <2> QED BY <2>1, <2>2, <2>3, ConfirmStutter DEF Finishing
<1> QED BY <1>1, <1>2, <1>3, <1>4, <1>5, <1>6, <1>7, <1>8, <1>9 DEF Confirmation

\* Only the engine's Btrfs commands run ahead of the disk; a sync, a restart or
\* the deletion of an old root brings the two together again.
LEMMA SyncedNext == SyncedInv /\ [Next]_vars => SyncedInv'
<1> SUFFICES ASSUME SyncedInv, [Next]_vars PROVE SyncedInv'
  OBVIOUS
<1> USE DEF SyncedInv
<1>1. CASE Grub
  BY <1>1 DEF Grub, GrubStart, GrubBootDefault, GrubPickOther, BootEntry
<1>2. CASE Engine
  BY <1>2 DEF Engine, EngineUnchanged, LeaveInitramfs, InEngine, HookStart, HookFails,
              HookBypassed, ExecuteNoAction, ExecuteFailSafe, ExecuteEnter, ExecuteRevert,
              ExecuteResumeRevert, RecordValidating, ValidateAndBegin, ValidationFails,
              ApplyStep, ApplyDone, RevertStep, RevertDone, FilesystemSync,
              PersistCheckpoint, EngineFails
<1>3. CASE Helper
  BY <1>3 DEF Helper, HelperUnchanged, HelperAt, ScheduleStart, ScheduleCreate,
              ScheduleConfigureBoot, ScheduleArm, ScheduleSelect, ScheduleFails, CancelStart,
              CancelFails, UndoCallFails, HelperClearOnce, HelperRemove, HelperRegenerateGrub
<1>4. CASE Confirmation
  BY <1>4 DEF Confirmation, ConfirmUnchanged, ConfirmAt, ReconcileNotEntered,
              ReconcileConfirm, ReconcileTerminal, ReconcileCleanups, RecordLineage,
              ScheduleOldRootCleanup, ConfirmClearOnce, ArchiveTransaction, ConfirmRemove,
              ConfirmRegenerateGrub, DeleteOldRoot, CompleteOldRootCleanup,
              DeferOldRootCleanup, CleanupPassDone, ConfirmFails
<1>5. CASE Restart
  BY <1>5 DEF Restart, Reboot, PowerCycle, PowerLoss, RestartInto
<1>6. CASE UNCHANGED vars
  BY <1>6 DEF vars, durable, volatile
<1> QED BY <1>1, <1>2, <1>3, <1>4, <1>5, <1>6 DEF Next

IndInv == TypeInv /\ SyncedInv /\ SafetyInv

\* The inductive invariant holds initially.
LEMMA IndInit == Init => IndInv
BY TypeInit, SafetyInit DEF IndInv, SyncedInv, Init

\* The inductive invariant is kept by every step.
LEMMA IndNext == IndInv /\ [Next]_vars => IndInv'
<1> SUFFICES ASSUME IndInv, [Next]_vars PROVE IndInv'
  OBVIOUS
<1>1. TypeInv' /\ SyncedInv'
  BY TypeNext, SyncedNext DEF IndInv
<1>2. ASSUME UNCHANGED vars PROVE SafetyInv'
  BY <1>2, SafetyStutter DEF IndInv, vars, durable, volatile
<1>3. SafetyInv'
  BY <1>2, GrubSafety, EngineSafety, HelperSafety, ConfirmationSafety, RestartSafety
     DEF IndInv, Next
<1> QED BY <1>1, <1>3 DEF IndInv

-----------------------------------------------------------------------------
(* What follows *)

\* In every layout that fits the record @root is there, except between two
\* renames, and the protected system has kept one of its two names.
LEMMA FitsProtects ==
    ASSUME TypeInv, NEW layout, Fits(layout, pending)
    PROVE  /\ ~Exists(layout, Root) => pending.phase \in {"Applying", "Reverting"}
           /\ pending.phase \in Phases \ {"Confirmed"} =>
                  pending.fallback \in {layout[Root], layout[Old(pending.id)]}
<1>1. \/ pending.phase = "none"
      \/ /\ pending.phase \in Phases /\ pending.id # None /\ pending.fallback # None
  BY PendingSlot, TxAssumption DEF TypeInv, TypeOK, System
<1> QED BY <1>1 DEF Fits, Shaped, Untouched, Staged, Protected, Activated, Exists, Phases

\* For any number of transactions, power losses and failures: the system that a
\* rollback started from is never lost before the target is confirmed, and the
\* machine lacks an @root only between the engine's two renames.
THEOREM FallbackNeverLost == Spec => []FallbackProtected
<1>1. IndInv => FallbackProtected
  BY FitsProtects DEF IndInv, SafetyInv, LayoutInv, FallbackProtected
<1> QED BY <1>1, IndInit, IndNext, PTL DEF Spec

\* However often it was interrupted before, the engine never meets a top level
\* that apply or revert would refuse as unsafe.
THEOREM EngineAlwaysResumes == Spec => []EngineNeverUnsafe
<1>1. IndInv => EngineNeverUnsafe
  BY DEF IndInv, TypeInv, ControlInv, SafetyInv, LayoutInv, Fits, Shaped, EngineNeverUnsafe
<1> QED BY <1>1, IndInit, IndNext, PTL DEF Spec

\* A step that keeps the same transaction moves its phase along can_transition_to,
\* although the coordinator writes its own copy over the pending file.
LEMMA PhaseStep ==
    ASSUME IndInv, [Next]_vars, pending'.id = pending.id, pending'.phase # pending.phase
    PROVE  CanTransitionTo(pending.phase, pending'.phase)
<1>0. /\ pending.id # None <=> pending \in Records
      /\ pending.phase # "none" <=> pending \in Records
      /\ helper.at # "idle" => helper.tx \in Tx
      /\ view[Root] \in System \cup {None}
  BY PendingSlot, SlotNames DEF IndInv, TypeInv, TypeOK, ControlInv, Layouts
<1>1. CASE Engine
  <2> USE DEF EngineUnchanged
  <2>1. CASE HookStart \/ HookFails \/ HookBypassed \/ ExecuteNoAction
             \/ ExecuteResumeRevert \/ ApplyStep \/ RevertStep \/ FilesystemSync \/ EngineFails
    BY <2>1 DEF HookStart, HookFails, HookBypassed, ExecuteNoAction,
                ExecuteResumeRevert, ApplyStep, RevertStep, FilesystemSync, EngineFails
  <2>2. machine \in InEngine => pending \in Records
    BY DEF IndInv, TypeInv, ControlInv
  <2>3. CASE ExecuteEnter \/ RecordValidating \/ PersistCheckpoint
    <3>1. pending'.phase = pending.phase
      BY <2>2, <2>3, RecordFields
         DEF ExecuteEnter, RecordValidating, PersistCheckpoint, InEngine
    <3> QED BY <3>1
  <2>4. CASE ExecuteFailSafe \/ ValidationFails
    <3>1. \/ pending' = pending
          \/ pending.phase = "Armed" /\ pending' = RecordFailure(pending)
      BY <2>4 DEF ExecuteFailSafe, GivesUpArmed, ValidationFails
    <3>2. \/ pending' = pending
          \/ pending.phase = "Armed" /\ pending'.phase = "Failed"
      BY <1>0, <3>1, RecordFields
    <3> QED BY <3>2 DEF CanTransitionTo
  <2>5. CASE ExecuteRevert
    <3>1. pending.phase \in {"Applying", "BootedUnconfirmed"} /\ pending \in Records
      BY <1>0, <2>5 DEF ExecuteRevert, StartsRevert
    <3>2. Transition(pending, "Reverting") \in Records
      BY <3>1, RecordOperations DEF Phases
    <3>3. pending'.phase = "Reverting"
      BY <2>5, <3>1, <3>2, RecordFields DEF ExecuteRevert
    <3> QED BY <3>1, <3>3 DEF CanTransitionTo
  <2>6. CASE ValidateAndBegin
    <3>1. pending.phase \in {"Armed", "Applying"} /\ pending \in Records
      BY <1>0, <2>6 DEF ValidateAndBegin, IndInv, TypeInv, ControlInv
    <3>2. pending'.phase = "Applying"
      BY <2>6, <3>1, RecordFields DEF ValidateAndBegin
    <3> QED BY <3>1, <3>2 DEF CanTransitionTo
  <2>7. CASE ApplyDone
    <3>1. pending.phase = "Applying" /\ pending \in Records
      BY <1>0, <2>7 DEF ApplyDone, IndInv, TypeInv, ControlInv
    <3>2. Transition(pending, "BootedUnconfirmed") \in Records
      BY <3>1, RecordOperations DEF Phases
    <3>3. pending'.phase = "BootedUnconfirmed"
      BY <2>7, <3>1, <3>2, RecordFields DEF ApplyDone
    <3> QED BY <3>1, <3>3 DEF CanTransitionTo
  <2>8. CASE RevertDone
    <3>1. pending.phase = "Reverting" /\ pending \in Records
      BY <1>0, <2>8 DEF RevertDone, IndInv, TypeInv, ControlInv
    <3>2. Transition(pending, "Reverted") \in Records
      BY <3>1, RecordOperations DEF Phases
    <3>3. pending'.phase = "Reverted"
      BY <2>8, <3>1, <3>2, RecordFields DEF RevertDone
    <3> QED BY <3>1, <3>3 DEF CanTransitionTo
  <2> QED BY <1>1, <2>1, <2>3, <2>4, <2>5, <2>6, <2>7, <2>8 DEF Engine
<1>2. CASE Helper
  <2>1. CASE ScheduleCreate
    <3>1. pending.id = None /\ pending'.id \in Tx
      BY <1>0, <2>1, FreshRecords, SlotNames
         DEF ScheduleCreate, IsPending, HelperAt, IndInv, TypeInv, ControlInv
    <3> QED BY <3>1, TxAssumption
  <2>2. CASE ScheduleArm
    <3>1. pending' = pending \/ /\ pending.phase = "Preparing" /\ view[Root] \in System
                                /\ helper.tx \in Tx
                                /\ pending' = Transition(NewTransaction(helper.tx, view[Root]), "Armed")
      BY <1>0, <2>2
         DEF ScheduleArm, IsPending, HelperAt, IndInv, TypeInv, ControlInv, SafetyInv, CopiesInv
    <3>2. CASE pending' = pending
      BY <3>2
    <3>3. CASE pending' # pending
      <4>1. NewTransaction(helper.tx, view[Root]) \in Records
        BY <3>1, <3>3, FreshRecords
      <4>2. pending.phase = "Preparing" /\ pending'.phase = "Armed"
        BY <3>1, <3>3, <4>1, RecordFields
      <4> QED BY <4>2 DEF CanTransitionTo
    <3> QED BY <3>2, <3>3
  <2>3. CASE HelperRemove
    BY <1>0, <2>3, FreshRecords DEF HelperRemove
  <2>4. CASE pending' = pending
    BY <2>4
  <2> QED BY <1>2, <2>1, <2>2, <2>3, <2>4
          DEF Helper, ScheduleStart, ScheduleConfigureBoot, ScheduleSelect, ScheduleFails,
              CancelStart, CancelFails, UndoCallFails, HelperClearOnce, HelperRegenerateGrub
<1>3. CASE Confirmation
  <2>1. CASE ReconcileNotEntered
    BY <1>0, <2>1, RecordFields DEF ReconcileNotEntered, CanTransitionTo
  <2>2. CASE ReconcileConfirm
    BY <1>0, <2>2, RecordFields DEF ReconcileConfirm, CanTransitionTo
  <2>3. CASE ConfirmRemove
    BY <1>0, <2>3, FreshRecords DEF ConfirmRemove
  <2>4. CASE pending' = pending
    BY <2>4
  <2> QED BY <1>3, <2>1, <2>2, <2>3, <2>4
          DEF Confirmation, ReconcileTerminal, ReconcileCleanups, RecordLineage,
              ScheduleOldRootCleanup, ConfirmClearOnce, ArchiveTransaction,
              ConfirmRegenerateGrub, DeleteOldRoot, CompleteOldRootCleanup,
              DeferOldRootCleanup, CleanupPassDone, ConfirmFails
<1>4. CASE Restart
  <2>1. pending' = AgeBoots(pending)
    BY <1>4 DEF Restart, Reboot, PowerCycle, PowerLoss, RestartInto
  <2> QED BY <2>1, AgeingFacts DEF IndInv, TypeInv, TypeOK
<1>5. CASE Grub \/ UNCHANGED vars
  <2>1. pending' = pending
    BY <1>5 DEF Grub, GrubStart, GrubBootDefault, GrubPickOther, BootEntry,
                vars, durable, volatile
  <2> QED BY <2>1
<1> QED BY <1>1, <1>2, <1>3, <1>4, <1>5 DEF Next

\* The programs never move the record against can_transition_to, although the
\* coordinator writes its own copy over the pending file.
THEOREM TransitionsRespected == Spec => PhasesFollowTransitions
<1>1. IndInv /\ [Next]_vars =>
          (pending'.id = pending.id /\ pending'.phase # pending.phase
               => CanTransitionTo(pending.phase, pending'.phase))
  BY PhaseStep
<1> QED BY <1>1, IndInit, IndNext, PTL DEF Spec, PhasesFollowTransitions

-----------------------------------------------------------------------------
(***************************************************************************)
(* The records tell the truth.  What was written down is compared with the *)
(* disk at the end of an exchange only, so the invariant has to follow the *)
(* checkpoints, the lineage head, the cleanup records and the history      *)
(* through every step in between.                                          *)
(***************************************************************************)

\* What a checkpoint says of the progress of the exchange.
Claims(checkpoint, done) ==
    /\ checkpoint = "writable-target-created" => done >= 1
    /\ checkpoint = "current-root-protected" => done >= 2
    /\ checkpoint \in {"target-root-activated", "booted-unconfirmed-recorded"} => done >= 3
    /\ checkpoint = "restored-root-moved-aside" => done <= 2
    /\ checkpoint = "fallback-root-activated" => done <= 1
    /\ checkpoint \in {"discarded-root-deleted", "reverted-recorded"} => done = 0

\* The recorded checkpoint is true of the disk, the one that waits for the sync is
\* true of the kernel's view, and the view is never behind in the engine's direction.
CheckpointInv ==
    LET onDisk == Progress(disk, pending.id)
        inMemory == Progress(view, pending.id) IN
    /\ Claims(pending.checkpoint, onDisk)
    /\ pending.phase = "Applying" => onDisk <= inMemory
    /\ pending.phase = "Reverting" => inMemory <= onDisk
    /\ machine \in {"sync", "mark"} =>
           /\ Claims(mark, inMemory)
           /\ mark \in ApplyMarks => pending.phase = "Applying"
           /\ mark \in RevertMarks => pending.phase = "Reverting"
    /\ pending.checkpoint \in ApplyMarks => pending.phase = "Applying"
    /\ pending.checkpoint \in RevertMarks => pending.phase = "Reverting"
    /\ pending.checkpoint = "booted-unconfirmed-recorded" =>
           pending.phase \in {"BootedUnconfirmed", "Confirmed"}
    /\ pending.checkpoint = "reverted-recorded" => pending.phase = "Reverted"

\* The lineage head is the fallback until the outcome is recorded.
HeadInv ==
    /\ pending.phase = "none" => head = view[Root]
    /\ pending.phase \in Phases \ {"Confirmed"} => head = pending.fallback
    /\ confirm.at \in {"schedule", "clear", "archive", "remove"}
           /\ confirm.tx.phase = "Confirmed" => head = confirm.tx.id

\* Only the pending transaction has subvolumes that no cleanup record names.
OrphanInv ==
    /\ \A t \in Tx : t # pending.id =>
           view[New(t)] = None /\ (view[Old(t)] # None => t \in cleanup)
    /\ confirm.at \in {"clear", "archive", "remove"}
           /\ confirm.tx.phase = "Confirmed" => confirm.tx.id \in cleanup

\* The archive agrees with the record, with the confirmation's copy of it and with
\* the cleanup records.
HistoryInv ==
    /\ \A t \in Tx : history[t] # "none" => t \in used
    /\ pending.id # None => history[pending.id] \in {"none", pending.phase}
    /\ confirm.at \in Finishing =>
           /\ history[confirm.tx.id] \in {"none", confirm.tx.phase}
           /\ pending.id = confirm.tx.id => pending.phase = confirm.tx.phase
    /\ confirm.at \in {"remove", "grub"} => history[confirm.tx.id] = confirm.tx.phase
    /\ \A t \in cleanup : t # pending.id => history[t] = "Confirmed"
    /\ \A t \in confirm.todo : history[t] = "Confirmed"

TruthInv == CheckpointInv /\ HeadInv /\ OrphanInv /\ HistoryInv

-----------------------------------------------------------------------------
(* Lemmas about steps *)

\* Which programs write what.
LEMMA Writers ==
    ASSUME [Next]_vars
    PROVE  /\ disk' = disk \/ FilesystemSync \/ Restart \/ \E t \in Tx : DeleteOldRoot(t)
           /\ view' = view \/ ApplyStep \/ RevertStep \/ Restart \/ \E t \in Tx : DeleteOldRoot(t)
           /\ \/ pending' = pending \/ Engine \/ Restart \/ ScheduleCreate \/ HelperRemove
              \/ ConfirmRemove \/ ReconcileNotEntered \/ ReconcileConfirm
              \/ ScheduleArm /\ IsPending
           /\ head' = head \/ RecordLineage
           /\ history' = history \/ ArchiveTransaction
           /\ \/ cleanup' = cleanup \/ ScheduleOldRootCleanup
              \/ \E t \in Tx : CompleteOldRootCleanup(t)
           /\ used' = used \/ ScheduleCreate
           /\ confirm' = confirm \/ Confirmation \/ Restart
           /\ \/ machine' \notin {"sync", "mark"} \/ ApplyStep \/ RevertStep \/ FilesystemSync
              \/ machine' = machine /\ mark' = mark /\ UNCHANGED vars
<1>1. CASE Grub \/ UNCHANGED vars
  BY <1>1 DEF Grub, GrubStart, GrubBootDefault, GrubPickOther, BootEntry, vars, durable, volatile
<1>2. CASE Engine
  BY <1>2 DEF Engine, EngineUnchanged, LeaveInitramfs, HookStart, HookFails,
              HookBypassed, ExecuteNoAction, ExecuteFailSafe, ExecuteEnter, ExecuteRevert,
              ExecuteResumeRevert, RecordValidating, ValidateAndBegin, ValidationFails,
              ApplyDone, RevertDone, FilesystemSync,
              PersistCheckpoint, EngineFails, ApplyStep, RevertStep
<1>3. CASE Helper
  BY <1>3 DEF Helper, HelperUnchanged, HelperAt, ScheduleStart,
              ScheduleConfigureBoot, ScheduleArm, ScheduleSelect, ScheduleFails, CancelStart,
              CancelFails, UndoCallFails, HelperClearOnce, HelperRemove, HelperRegenerateGrub,
              ScheduleCreate
<1>4. CASE Confirmation
  BY <1>4 DEF Confirmation, ConfirmUnchanged, ConfirmAt, ReconcileNotEntered,
              ReconcileConfirm, ReconcileTerminal, ReconcileCleanups, RecordLineage,
              ScheduleOldRootCleanup, ConfirmClearOnce, ArchiveTransaction, ConfirmRemove,
              ConfirmRegenerateGrub, DeleteOldRoot, CompleteOldRootCleanup,
              DeferOldRootCleanup, CleanupPassDone, ConfirmFails
<1>5. CASE Restart
  BY <1>5 DEF Restart, Reboot, PowerCycle, PowerLoss, RestartInto
<1> QED BY <1>1, <1>2, <1>3, <1>4, <1>5 DEF Next

\* A step keeps the transaction in the pending slot, creates one in a free slot, or
\* removes what is there.
LEMMA SlotStep ==
    ASSUME IndInv, [Next]_vars
    PROVE  \/ /\ pending'.id = pending.id /\ pending'.fallback = pending.fallback
              /\ used' = used
           \/ /\ ScheduleCreate /\ pending.id = None /\ pending.phase = "none"
              /\ pending'.id \in Tx \ used /\ pending'.phase = "Preparing"
              /\ pending'.fallback = view[Root] /\ pending'.checkpoint = "none"
              /\ used' = used \cup {pending'.id}
           \/ /\ HelperRemove \/ ConfirmRemove
              /\ pending'.id = None /\ pending'.phase = "none"
              /\ pending'.checkpoint = "none" /\ used' = used
              /\ pending.phase \in Idle \cup {"Reverted", "Confirmed"}
<1>0. /\ pending \in Records \cup {NoTransaction}
      /\ pending.id # None <=> pending \in Records
      /\ pending.phase # "none" <=> pending \in Records
      /\ helper \in [at : HelperSteps, tx : Tx \cup {None}]
      /\ helper.at # "idle" => helper.tx \in Tx
      /\ machine = "user" => view[Root] \in System
  BY PendingSlot, SlotNames DEF IndInv, TypeInv, TypeOK, ControlInv, Layouts
<1>1. CASE ScheduleCreate
  <2>1. /\ helper.tx \in Tx \ used /\ pending.id = None /\ pending.phase = "none"
        /\ pending' = NewTransaction(helper.tx, view[Root]) /\ view[Root] \in System
        /\ used' = used \cup {helper.tx}
    BY <1>0, <1>1 DEF ScheduleCreate, HelperAt, IsPending, IndInv, TypeInv, ControlInv
  <2>2. pending'.checkpoint = "none"
    BY <2>1 DEF NewTransaction
  <2> QED BY <1>1, <2>1, <2>2, FreshRecords
<1>2. CASE HelperRemove \/ ConfirmRemove
  <2>1. pending' = NoTransaction /\ used' = used
    BY <1>2 DEF HelperRemove, HelperUnchanged, ConfirmRemove, ConfirmUnchanged
  <2>2. pending'.checkpoint = "none"
    BY <2>1 DEF NoTransaction
  <2>3. pending.phase \in Idle \cup {"Reverted", "Confirmed"}
    BY <1>2 DEF HelperRemove, HelperAt, ConfirmRemove, ConfirmAt, IndInv, TypeInv, ControlInv,
                SafetyInv, CopiesInv, Finishing, Idle, Terminal
  <2> QED BY <1>2, <2>1, <2>2, <2>3, FreshRecords
<1>3. CASE ScheduleArm /\ IsPending
  <2>1. /\ helper.tx \in Tx /\ pending.id = helper.tx /\ view[Root] \in System
        /\ pending.phase = "Preparing" /\ used' = used
        /\ pending' = Transition(NewTransaction(helper.tx, view[Root]), "Armed")
    BY <1>0, <1>3 DEF ScheduleArm, IsPending, HelperAt, HelperUnchanged, IndInv, TypeInv,
                      ControlInv, SafetyInv, CopiesInv
  <2>2. NewTransaction(helper.tx, view[Root]) \in Records
    BY <2>1, FreshRecords
  <2>3. pending'.id = helper.tx /\ pending'.fallback = view[Root]
    BY <2>1, <2>2, RecordFields, FreshRecords
  <2>4. pending.fallback = view[Root]
    BY <2>1 DEF IndInv, SafetyInv, LayoutInv, Fits, Untouched
  <2> QED BY <2>1, <2>3, <2>4
<1>4. CASE Restart
  <2>1. pending' = AgeBoots(pending) /\ used' = used
    BY <1>4 DEF Restart, Reboot, PowerCycle, PowerLoss, RestartInto
  <2> QED BY <1>0, <2>1, AgeingFacts
<1>5. CASE pending' = pending /\ used' = used
  BY <1>5
<1>6. CASE Engine
  <2>1. used' = used
    BY <1>6 DEF Engine, EngineUnchanged, HookStart, HookFails, HookBypassed, ExecuteNoAction,
                ExecuteFailSafe, ExecuteEnter, ExecuteRevert, ExecuteResumeRevert,
                RecordValidating, ValidateAndBegin, ValidationFails, ApplyStep, ApplyDone,
                RevertStep, RevertDone, FilesystemSync, PersistCheckpoint, EngineFails
  <2>2. machine \in InEngine => pending \in Records
    BY DEF IndInv, TypeInv, ControlInv
  <2>3. \/ pending' = pending
        \/ /\ pending \in Records
           /\ \/ pending' \in {RecordFailure(pending), RecordInitramfsEntry(pending),
                               BeginApply(pending)}
              \/ \E c \in Checkpoints : pending' = RecordCheckpoint(pending, c)
              \/ \E c \in Checkpoints, p \in Phases :
                     pending' = RecordCheckpoint(Transition(pending, p), c)
    BY <1>6, <2>2 DEF Engine, InEngine, HookStart, HookFails, HookBypassed, ExecuteNoAction,
                ExecuteFailSafe, ExecuteEnter, ExecuteRevert, ExecuteResumeRevert,
                RecordValidating, ValidateAndBegin, ValidationFails, ApplyStep, ApplyDone,
                RevertStep, RevertDone, FilesystemSync, PersistCheckpoint, EngineFails,
                Phases, Checkpoints, IndInv, TypeInv, TypeOK
  <2>4. pending \in Records => \A p \in Phases : Transition(pending, p) \in Records
    BY RecordOperations
  <2> QED BY <2>1, <2>3, <2>4, RecordFields
<1>7. CASE ReconcileNotEntered \/ ReconcileConfirm
  <2>1. /\ pending \in Records /\ used' = used
        /\ pending' \in {RecordFailure(pending), Transition(pending, "Confirmed")}
    BY <1>0, <1>7 DEF ReconcileNotEntered, ReconcileConfirm, ConfirmUnchanged
  <2> QED BY <2>1, RecordFields
<1> QED BY <1>1, <1>2, <1>3, <1>4, <1>5, <1>6, <1>7
        DEF Next, Grub, GrubStart, GrubBootDefault, GrubPickOther, BootEntry,
            Helper, HelperUnchanged, ScheduleStart, ScheduleConfigureBoot, ScheduleArm,
            ScheduleSelect,
            ScheduleFails, CancelStart, CancelFails, UndoCallFails, HelperClearOnce,
            HelperRegenerateGrub, Confirmation, ConfirmUnchanged, ReconcileTerminal,
            ReconcileCleanups, RecordLineage, ScheduleOldRootCleanup, ConfirmClearOnce,
            ArchiveTransaction, ConfirmRegenerateGrub, DeleteOldRoot, CompleteOldRootCleanup,
            DeferOldRootCleanup, CleanupPassDone, ConfirmFails, vars, durable, volatile

-----------------------------------------------------------------------------
(* Checkpoints *)

\* The checkpoint that each write of the record leaves behind.
LEMMA CheckpointFields ==
    ASSUME NEW p \in Records, NEW c, NEW phase
    PROVE  /\ RecordCheckpoint(p, c).checkpoint = c
           /\ Transition(p, phase).checkpoint = p.checkpoint
           /\ RecordFailure(p).checkpoint = p.checkpoint
           /\ RecordInitramfsEntry(p).checkpoint = "initramfs-entered"
           /\ BeginApply(p).checkpoint = "apply-started"
BY DEF Records, RecordCheckpoint, Transition, RecordFailure, RecordInitramfsEntry, BeginApply

\* Each shape of an exchange is one more step of progress.
LEMMA ProgressOf ==
    ASSUME NEW layout, NEW t \in Tx, NEW fallback \in System
    PROVE  /\ Progress(layout, t) \in 0..3
           /\ Untouched(layout, t, fallback) => Progress(layout, t) = 0
           /\ Staged(layout, t, fallback) => Progress(layout, t) = 1
           /\ Protected(layout, t, fallback) => Progress(layout, t) = 2
           /\ Activated(layout, t, fallback) => Progress(layout, t) = 3
<1>1. t # None /\ fallback # None
  BY TxAssumption DEF System
<1> QED BY <1>1 DEF Progress, Exists, Untouched, Staged, Protected, Activated

\* What the recorded checkpoint claims is true of the kernel's view too, so it
\* survives both a sync and a restart into either layout.
LEMMA ClaimHoldsInView ==
    ASSUME IndInv, CheckpointInv
    PROVE  Claims(pending.checkpoint, Progress(view, pending.id))
<1>1. CASE pending.phase = "none"
  <2>1. pending.checkpoint \notin ApplyMarks \cup RevertMarks \cup
                                  {"booted-unconfirmed-recorded", "reverted-recorded"}
    BY <1>1 DEF CheckpointInv
  <2> QED BY <2>1 DEF Claims, ApplyMarks, RevertMarks
<1>2. CASE pending.phase # "none"
  <2>1. pending.id \in Tx /\ pending.fallback \in System
    BY <1>2, PendingSlot DEF IndInv, TypeInv, TypeOK
  <2>2. Progress(disk, pending.id) \in 0..3 /\ Progress(view, pending.id) \in 0..3
    BY <2>1, ProgressOf
  <2>3. CASE pending.checkpoint \in ApplyMarks
    BY <2>2, <2>3 DEF CheckpointInv, Claims, ApplyMarks
  <2>4. CASE pending.checkpoint \in RevertMarks
    BY <2>2, <2>4 DEF CheckpointInv, Claims, RevertMarks
  <2>5. CASE pending.checkpoint = "booted-unconfirmed-recorded"
    <3>1. Activated(view, pending.id, pending.fallback)
      BY <2>5 DEF CheckpointInv, IndInv, SafetyInv, LayoutInv, Fits
    <3> QED BY <2>1, <2>5, <3>1, ProgressOf DEF Claims
  <2>6. CASE pending.checkpoint = "reverted-recorded"
    <3>1. Untouched(view, pending.id, pending.fallback)
      BY <2>6 DEF CheckpointInv, IndInv, SafetyInv, LayoutInv, Fits
    <3> QED BY <2>1, <2>6, <3>1, ProgressOf DEF Claims
  <2> QED BY <2>3, <2>4, <2>5, <2>6 DEF Claims, ApplyMarks, RevertMarks
<1> QED BY <1>1, <1>2

\* A write of the record away from the engine's sync points.
LEMMA CheckpointWrite ==
    ASSUME CheckpointInv, UNCHANGED <<disk, view>>, machine' \notin {"sync", "mark"},
           pending'.id = pending.id,
           pending'.phase = "Applying" =>
               Progress(disk, pending.id) <= Progress(view, pending.id),
           pending'.phase = "Reverting" =>
               Progress(view, pending.id) <= Progress(disk, pending.id),
           \/ pending'.checkpoint \notin ApplyMarks \cup RevertMarks \cup
                                  {"booted-unconfirmed-recorded", "reverted-recorded"}
           \/ /\ pending'.checkpoint = pending.checkpoint
              /\ \/ pending'.phase = pending.phase
                 \/ pending.phase \notin {"Applying", "Reverting", "BootedUnconfirmed",
                                          "Reverted", "Confirmed"}
                 \/ pending.phase = "BootedUnconfirmed" /\ pending'.phase = "Confirmed"
    PROVE  CheckpointInv'
<1>1. /\ Progress(disk, pending.id)' = Progress(disk, pending.id)
      /\ Progress(view, pending.id)' = Progress(view, pending.id)
  BY DEF Progress, Exists
<1>2. Claims(pending'.checkpoint, Progress(disk, pending.id))
  BY DEF CheckpointInv, Claims, ApplyMarks, RevertMarks
<1> HIDE DEF Progress
<1>3. Claims(pending.checkpoint, Progress(disk, pending.id))'
  BY <1>1, <1>2 DEF Claims
<1> QED BY <1>1, <1>3 DEF CheckpointInv

\* Early boot records a checkpoint only after the sync.
LEMMA CheckpointEngine ==
    ASSUME IndInv, CheckpointInv, Engine
    PROVE  CheckpointInv'
<1> USE DEF EngineUnchanged
<1> DEFINE t == pending.id
           fallback == pending.fallback
<1>0. /\ pending.phase # "none" <=> pending \in Records
      /\ machine \in InEngine => pending \in Records
      /\ \A p \in Records : \A phase \in Phases : Transition(p, phase) \in Records
      /\ mark \in ApplyMarks \cup RevertMarks \cup {"none"}
  BY PendingSlot, RecordOperations DEF IndInv, TypeInv, TypeOK, ControlInv
<1>1. CASE HookStart \/ HookFails \/ HookBypassed \/ ExecuteNoAction
           \/ ExecuteResumeRevert \/ EngineFails
  <2>1. UNCHANGED <<disk, view, pending>> /\ machine' \notin {"sync", "mark"}
    BY <1>1 DEF HookStart, HookFails, HookBypassed, ExecuteNoAction, ExecuteResumeRevert,
                EngineFails, LeaveInitramfs
  <2> QED BY <2>1, CheckpointWrite DEF CheckpointInv
<1>2. CASE ExecuteFailSafe \/ ExecuteEnter \/ ExecuteRevert \/ RecordValidating
           \/ ValidateAndBegin \/ ValidationFails
  <2>1. /\ pending \in Records /\ UNCHANGED <<disk, view>> /\ machine' \notin {"sync", "mark"}
        /\ disk = view
    BY <1>0, <1>2 DEF ExecuteFailSafe, ExecuteEnter, ExecuteRevert, RecordValidating,
                      ValidateAndBegin, ValidationFails, LeaveInitramfs, InEngine,
                      IndInv, SyncedInv
  <2>2. Progress(disk, pending.id) = Progress(view, pending.id) /\ Progress(view, pending.id) \in 0..3
    BY <2>1, ProgressOf DEF Records
  <2>3. /\ pending'.id = pending.id
        /\ \/ pending'.checkpoint \in {"initramfs-entered", "revert-started", "validating",
                                       "apply-started"}
           \/ pending'.checkpoint = pending.checkpoint /\ pending'.phase = pending.phase
           \/ pending'.checkpoint = pending.checkpoint /\ pending.phase = "Armed"
    <3>1. CASE ExecuteFailSafe
      BY <2>1, <3>1, RecordFields, CheckpointFields DEF ExecuteFailSafe, GivesUpArmed
    <3>2. CASE ExecuteEnter \/ RecordValidating \/ ValidateAndBegin
      BY <2>1, <3>2, RecordFields, CheckpointFields
         DEF ExecuteEnter, RecordValidating, ValidateAndBegin
    <3>3. CASE ExecuteRevert
      BY <1>0, <2>1, <3>3, RecordFields, CheckpointFields DEF ExecuteRevert, Phases
    <3>4. CASE ValidationFails
      BY <2>1, <3>4, RecordFields, CheckpointFields DEF ValidationFails
    <3> QED BY <1>2, <3>1, <3>2, <3>3, <3>4
  <2> QED BY <2>1, <2>2, <2>3, CheckpointWrite DEF ApplyMarks, RevertMarks
<1>3. CASE ApplyDone
  <2>1. /\ pending \in Records /\ pending.phase = "Applying" /\ disk = view
        /\ UNCHANGED <<disk, view>> /\ machine' \notin {"sync", "mark"}
    BY <1>0, <1>3 DEF ApplyDone, LeaveInitramfs, InEngine, IndInv, SyncedInv, TypeInv, ControlInv
  <2>2. /\ pending'.id = t /\ pending'.phase = "BootedUnconfirmed"
        /\ pending'.checkpoint = "booted-unconfirmed-recorded"
    BY <1>0, <1>3, <2>1, RecordFields, CheckpointFields DEF ApplyDone, Phases
  <2>3. Progress(disk, t) = 3
    BY <1>3, <2>1 DEF ApplyDone, Progress
  <2>4. Progress(disk, pending.id)' = 3
    BY <2>1, <2>2, <2>3 DEF Progress, Exists
  <2> QED BY <2>1, <2>2, <2>4 DEF CheckpointInv, Claims, ApplyMarks, RevertMarks
<1>4. CASE RevertDone
  <2>1. /\ pending \in Records /\ pending.phase = "Reverting" /\ disk = view
        /\ UNCHANGED <<disk, view>> /\ machine' \notin {"sync", "mark"}
    BY <1>0, <1>4 DEF RevertDone, LeaveInitramfs, InEngine, IndInv, SyncedInv, TypeInv, ControlInv
  <2>2. /\ pending'.id = t /\ pending'.phase = "Reverted"
        /\ pending'.checkpoint = "reverted-recorded"
    BY <1>0, <1>4, <2>1, RecordFields, CheckpointFields DEF RevertDone, Phases
  <2>3. Progress(disk, t) = 0
    BY <1>4, <2>1 DEF RevertDone, Progress
  <2>4. Progress(disk, pending.id)' = 0
    BY <2>1, <2>2, <2>3 DEF Progress, Exists
  <2> QED BY <2>1, <2>2, <2>4 DEF CheckpointInv, Claims, ApplyMarks, RevertMarks
<1>5. CASE PersistCheckpoint
  <2>1. /\ pending \in Records /\ disk = view /\ UNCHANGED <<disk, view>>
        /\ machine = "mark" /\ machine' \in {"apply", "revert"} /\ mark # "none"
        /\ pending.phase \in {"Applying", "Reverting"}
    BY <1>0, <1>5 DEF PersistCheckpoint, InEngine, IndInv, SyncedInv, TypeInv, ControlInv
  <2>2. /\ pending'.id = t /\ pending'.phase = pending.phase /\ pending'.checkpoint = mark
    BY <1>5, <2>1, RecordFields, CheckpointFields DEF PersistCheckpoint
  <2>3. /\ Progress(disk, pending.id)' = Progress(view, t)
        /\ Progress(view, pending.id)' = Progress(view, t)
        /\ Progress(view, t) \in 0..3
    BY <2>1, <2>2, ProgressOf DEF Progress, Exists, Records
  <2>4. Claims(mark, Progress(view, t))
    BY <2>1 DEF CheckpointInv
  <2>5. Claims(pending.checkpoint, Progress(disk, pending.id))'
    BY <2>2, <2>3, <2>4 DEF Claims
  <2> QED BY <1>0, <2>1, <2>2, <2>3, <2>5 DEF CheckpointInv, ApplyMarks, RevertMarks
<1>6. CASE ApplyStep \/ RevertStep
  <2>1. /\ pending \in Records /\ t \in Tx /\ fallback \in System /\ view \in Layouts
        /\ UNCHANGED <<disk, pending>> /\ disk = view /\ machine' = "sync"
        /\ pending.phase = IF machine = "apply" THEN "Applying" ELSE "Reverting"
    BY <1>0, <1>6 DEF ApplyStep, RevertStep, IndInv, SyncedInv, TypeInv, TypeOK, ControlInv,
                      InEngine, Records
  <2>2. Shaped(view, t, fallback)
    BY <2>1 DEF IndInv, SafetyInv, LayoutInv, Fits, Shaped
  <2>3. /\ Progress(disk, pending.id)' = Progress(disk, t)
        /\ Progress(view, pending.id)' = Progress(view', t)
        /\ Progress(disk, t) \in 0..3
    BY <2>1, ProgressOf DEF Progress, Exists
  <2>4. /\ Claims(mark', Progress(view', t))
        /\ \/ /\ pending.phase = "Applying" /\ mark' \in ApplyMarks
              /\ Progress(view', t) = Progress(disk, t) + 1
           \/ /\ pending.phase = "Reverting" /\ mark' \in RevertMarks
              /\ Progress(view', t) = Progress(disk, t) - 1
    <3>1. CASE ApplyStep
      <4>1. \/ /\ Untouched(view, t, fallback) /\ Staged(view', t, fallback)
               /\ mark' = "writable-target-created"
            \/ /\ Staged(view, t, fallback) /\ Protected(view', t, fallback)
               /\ mark' = "current-root-protected"
            \/ /\ Protected(view, t, fallback) /\ Activated(view', t, fallback)
               /\ mark' = "target-root-activated"
        BY <3>1, <2>1, <2>2, Moves, ShapeOf DEF ApplyStep, Shaped
      <4> QED BY <2>1, <3>1, <4>1, ProgressOf DEF ApplyStep, Claims, ApplyMarks
    <3>2. CASE RevertStep
      <4>1. \/ /\ Staged(view, t, fallback) /\ Untouched(view', t, fallback)
               /\ mark' = "discarded-root-deleted"
            \/ /\ Protected(view, t, fallback) /\ Staged(view', t, fallback)
               /\ mark' = "fallback-root-activated"
            \/ /\ Activated(view, t, fallback) /\ Protected(view', t, fallback)
               /\ mark' = "restored-root-moved-aside"
        BY <3>2, <2>1, <2>2, Moves, ShapeOf DEF RevertStep, Shaped
      <4> QED BY <2>1, <3>2, <4>1, ProgressOf DEF RevertStep, Claims, RevertMarks
    <3> QED BY <1>6, <3>1, <3>2
  <2>5. Claims(pending.checkpoint, Progress(disk, pending.id))'
    BY <2>1, <2>3 DEF CheckpointInv, Claims
  <2>6. Claims(mark, Progress(view, pending.id))'
    BY <2>3, <2>4 DEF Claims
  <2>7. ApplyMarks \cap RevertMarks = {}
    BY DEF ApplyMarks, RevertMarks
  <2> QED BY <2>1, <2>3, <2>4, <2>5, <2>6, <2>7 DEF CheckpointInv
<1>7. CASE FilesystemSync
  <2>1. /\ pending \in Records /\ disk' = view /\ UNCHANGED <<view, pending, mark>>
        /\ machine = "sync" /\ machine' = "mark"
    BY <1>0, <1>7 DEF FilesystemSync, InEngine
  <2>2. /\ Progress(disk, pending.id)' = Progress(view, t)
        /\ Progress(view, pending.id)' = Progress(view, t)
        /\ Progress(view, t) \in 0..3
    BY <2>1, ProgressOf DEF Progress, Exists, Records
  <2>3. Claims(pending.checkpoint, Progress(view, t))
    BY ClaimHoldsInView
  <2>4. Claims(mark, Progress(view, t))
    BY <2>1 DEF CheckpointInv
  <2>5. /\ Claims(pending.checkpoint, Progress(disk, pending.id))'
        /\ Claims(mark, Progress(view, pending.id))'
    BY <2>1, <2>2, <2>3, <2>4 DEF Claims
  <2> QED BY <2>1, <2>2, <2>5 DEF CheckpointInv
<1> QED BY <1>1, <1>2, <1>3, <1>4, <1>5, <1>6, <1>7 DEF Engine

\* Outside early boot the record and the subvolumes of the pending transaction do
\* not move, except by a restart into either of the two layouts.
LEMMA CheckpointNext ==
    ASSUME IndInv, CheckpointInv, [Next]_vars
    PROVE  CheckpointInv'
<1>1. CASE Engine
  BY <1>1, CheckpointEngine
<1>2. CASE Restart
  <2>1. PICK layout \in {disk, view} : RestartInto(layout)
    BY <1>2 DEF Restart, Reboot, PowerCycle, PowerLoss
  <2>2. /\ pending'.id = pending.id /\ pending'.phase = pending.phase
        /\ pending'.checkpoint = pending.checkpoint
        /\ disk' = layout /\ view' = layout /\ machine' = "grub"
    BY <2>1, AgeingFacts DEF RestartInto, IndInv, TypeInv, TypeOK
  <2>3. /\ Progress(disk, pending.id)' = Progress(layout, pending.id)
        /\ Progress(view, pending.id)' = Progress(layout, pending.id)
        /\ Progress(layout, pending.id) \in 0..3
    BY <2>2 DEF Progress, Exists
  <2>4. Claims(pending.checkpoint, Progress(layout, pending.id))
    BY ClaimHoldsInView DEF CheckpointInv
  <2>5. Claims(pending.checkpoint, Progress(disk, pending.id))'
    BY <2>2, <2>3, <2>4 DEF Claims
  <2> QED BY <2>2, <2>3, <2>5 DEF CheckpointInv
<1>3. CASE \E t \in Tx : DeleteOldRoot(t)
  <2>1. PICK t \in Tx : DeleteOldRoot(t)
    BY <1>3
  <2>2. /\ t # pending.id /\ pending.phase \in {"none", "Preparing", "Armed"}
        /\ machine' \notin {"sync", "mark"} /\ pending' = pending
    BY <2>1 DEF DeleteOldRoot, ConfirmAt, ConfirmUnchanged, IndInv, SafetyInv, CleanupInv,
        CopiesInv
  <2>3. pending.checkpoint \notin ApplyMarks \cup RevertMarks \cup
                                  {"booted-unconfirmed-recorded", "reverted-recorded"}
    BY <2>2 DEF CheckpointInv
  <2> QED BY <2>2, <2>3 DEF CheckpointInv, Claims, ApplyMarks, RevertMarks
<1>4. CASE /\ ~Engine /\ ~Restart /\ ~(\E t \in Tx : DeleteOldRoot(t))
  <2>1. UNCHANGED <<disk, view>>
    BY <1>4, Writers DEF Engine
  <2>2. UNCHANGED vars \/ machine' \notin {"sync", "mark"}
    BY <1>4, Writers DEF Engine
  <2>3. CASE UNCHANGED vars
    BY <2>3 DEF vars, durable, volatile, CheckpointInv, Claims, Progress, Exists
  <2>4. CASE machine' \notin {"sync", "mark"}
    <3>1. CASE pending' = pending
      BY <2>1, <2>4, <3>1, CheckpointWrite DEF CheckpointInv
    <3>2. CASE ScheduleCreate \/ HelperRemove \/ ConfirmRemove \/ (ScheduleArm /\ IsPending)
      <4>1. pending'.checkpoint = "none" /\ pending'.phase \in {"none", "Preparing", "Armed"}
        BY <3>2 DEF ScheduleCreate, HelperRemove, ConfirmRemove, ScheduleArm, IsPending,
                    NewTransaction, NoTransaction, Transition
      <4> QED BY <2>4, <4>1 DEF CheckpointInv, Claims, ApplyMarks, RevertMarks
    <3>3. CASE ReconcileNotEntered \/ ReconcileConfirm
      <4>1. pending \in Records
        BY <3>3, PendingSlot DEF ReconcileNotEntered, ReconcileConfirm, IndInv, TypeInv, TypeOK
      <4>2. /\ pending'.id = pending.id /\ pending'.checkpoint = pending.checkpoint
            /\ \/ pending.phase = "Armed" /\ pending'.phase = "Failed"
               \/ pending.phase = "BootedUnconfirmed" /\ pending'.phase = "Confirmed"
        BY <3>3, <4>1, RecordFields, CheckpointFields DEF ReconcileNotEntered, ReconcileConfirm
      <4> QED BY <2>1, <2>4, <4>2, CheckpointWrite
    <3> QED BY <1>4, <3>1, <3>2, <3>3, Writers
  <2> QED BY <2>2, <2>3, <2>4
<1> QED BY <1>1, <1>2, <1>3, <1>4

-----------------------------------------------------------------------------
(* Lineage, cleanup records and history *)

\* How the confirmation's place, copy and list change.
LEMMA ConfirmStep ==
    ASSUME IndInv, [Next]_vars
    PROVE  \/ confirm' = confirm
           \/ confirm'.at = "idle" /\ confirm'.todo = {}
           \/ /\ confirm.at = "idle" /\ confirm'.at \in {"lineage", "clear"}
              /\ confirm'.todo = {} /\ confirm'.tx = pending'
              /\ pending'.phase \in Terminal /\ pending'.id = pending.id
              /\ confirm'.at = "clear" => pending'.phase = "Failed"
           \/ /\ RecordLineage /\ confirm.at = "lineage"
              /\ confirm'.tx = confirm.tx /\ confirm'.todo = confirm.todo
              /\ confirm'.at = IF confirm.tx.phase = "Confirmed" THEN "schedule" ELSE "clear"
           \/ /\ ScheduleOldRootCleanup /\ confirm.at = "schedule"
              /\ confirm'.tx = confirm.tx /\ confirm'.todo = confirm.todo
              /\ confirm'.at = "clear"
           \/ /\ ConfirmClearOnce /\ confirm.at = "clear"
              /\ confirm'.tx = confirm.tx /\ confirm'.todo = confirm.todo
              /\ confirm'.at = "archive"
           \/ /\ ArchiveTransaction /\ confirm.at = "archive"
              /\ confirm'.tx = confirm.tx /\ confirm'.todo = confirm.todo
              /\ confirm'.at = "remove"
           \/ /\ ConfirmRemove /\ confirm.at = "remove"
              /\ confirm'.tx = confirm.tx /\ confirm'.todo = confirm.todo
              /\ confirm'.at = "grub"
           \/ /\ confirm'.at = "retry" /\ confirm'.todo \subseteq cleanup
              /\ UNCHANGED <<cleanup, pending, history>>
           \/ /\ confirm.at = "retry" /\ confirm'.at = "retry"
              /\ confirm'.todo \subseteq confirm.todo
<1>0. /\ confirm \in [at : ConfirmSteps, tx : Records \cup {NoTransaction}, todo : SUBSET Tx]
      /\ pending.id # None <=> pending \in Records
      /\ pending.phase # "none" <=> pending \in Records
  BY PendingSlot DEF IndInv, TypeInv, TypeOK
<1>1. CASE Restart
  BY <1>1 DEF Restart, Reboot, PowerCycle, PowerLoss, RestartInto, ConfirmIdle
<1>2. CASE Confirmation
  <2>1. CASE ReconcileNotEntered \/ ReconcileConfirm
    <3>1. pending \in Records
      BY <1>0, <2>1 DEF ReconcileNotEntered, ReconcileConfirm
    <3>2. /\ confirm.at = "idle" /\ confirm'.tx = pending' /\ confirm'.todo = {}
          /\ \/ confirm'.at = "clear" /\ pending' = RecordFailure(pending)
             \/ confirm'.at = "lineage" /\ pending' = Transition(pending, "Confirmed")
      BY <2>1 DEF ReconcileNotEntered, ReconcileConfirm, ConfirmAt, FinishFailed,
                  FinishConfirmedOrReverted
    <3> QED BY <3>1, <3>2, RecordFields DEF Terminal
  <2>2. CASE ReconcileTerminal
    BY <2>2 DEF ReconcileTerminal, ConfirmAt, FinishFailed, FinishConfirmedOrReverted
  <2>3. CASE ReconcileCleanups
    BY <2>3 DEF ReconcileCleanups
  <2>4. CASE RecordLineage \/ ScheduleOldRootCleanup \/ ConfirmClearOnce
             \/ ArchiveTransaction \/ ConfirmRemove
    BY <1>0, <2>4 DEF RecordLineage, ScheduleOldRootCleanup, ConfirmClearOnce,
                      ArchiveTransaction, ConfirmRemove, ConfirmAt, ConfirmGoto
  <2>5. CASE ConfirmRegenerateGrub
    BY <2>5 DEF ConfirmRegenerateGrub, ConfirmIdle
  <2>6. CASE \E t \in Tx : \/ DeleteOldRoot(t) \/ CompleteOldRootCleanup(t)
                           \/ DeferOldRootCleanup(t)
    BY <1>0, <2>6 DEF DeleteOldRoot, CompleteOldRootCleanup, DeferOldRootCleanup, ConfirmAt
  <2>7. CASE CleanupPassDone \/ ConfirmFails
    BY <2>7 DEF CleanupPassDone, ConfirmFails, ConfirmIdle
  <2> QED BY <1>2, <2>1, <2>2, <2>3, <2>4, <2>5, <2>6, <2>7 DEF Confirmation
<1> QED BY <1>1, <1>2, Writers

\* Once the pending slot is emptied, the root is the system that the outcome names.
LEMMA RootAtRemoval ==
    ASSUME IndInv, pending.phase \in Idle \cup {"Reverted", "Confirmed"}
    PROVE  /\ pending.phase \in {"Preparing", "Armed", "Failed", "Reverted"} =>
                  /\ Untouched(view, pending.id, pending.fallback)
                  /\ Untouched(disk, pending.id, pending.fallback)
           /\ pending.phase = "Confirmed" =>
                  /\ Activated(view, pending.id, pending.fallback)
                  /\ Activated(disk, pending.id, pending.fallback)
BY DEF IndInv, SafetyInv, LayoutInv, Fits, Idle

\* What the confirmation removes is what it has finished, or an open transaction
\* that has not touched the root.
LEMMA RemovedByConfirm ==
    ASSUME IndInv, ConfirmRemove
    PROVE  /\ confirm.at = "remove"
           /\ pending.phase \in Idle \/ pending = confirm.tx
BY DEF ConfirmRemove, ConfirmAt, IndInv, SafetyInv, CopiesInv, Finishing

\* The lineage head follows the outcome.
LEMMA HeadNext ==
    ASSUME IndInv, IndInv', HeadInv, [Next]_vars
    PROVE  HeadInv'
<1>0. /\ pending.id # None <=> pending.phase # "none"
      /\ pending.phase # "none" => pending.phase \in Phases
      /\ "none" \notin Phases /\ "Confirmed" \in Phases /\ "Reverted" \in Phases
      /\ pending'.id # None <=> pending'.phase # "none"
      /\ pending'.phase # "none" => pending'.phase \in Phases
  <2>1. pending' \in Records \cup {NoTransaction}
    BY DEF IndInv, TypeInv, TypeOK
  <2> QED BY <2>1, PendingSlot, FreshRecords, TxAssumption
             DEF IndInv, TypeInv, TypeOK, Phases, Records
<1>1. CASE RecordLineage
  <2>1. /\ confirm.at = "lineage" /\ UNCHANGED <<pending, view>>
        /\ head' = IF confirm.tx.phase = "Confirmed" THEN confirm.tx.id ELSE confirm.tx.fallback
        /\ confirm'.tx = confirm.tx
        /\ confirm.tx.phase \in {"Confirmed", "Reverted"} /\ pending = confirm.tx
    BY <1>1 DEF RecordLineage, ConfirmAt, ConfirmGoto, IndInv, TypeInv, TypeOK, ControlInv,
                SafetyInv, CopiesInv, Finishing
  <2> QED BY <1>0, <2>1 DEF HeadInv
<1>2. CASE ~RecordLineage
  <2>1. head' = head
    BY <1>2, Writers
  <2>2. pending'.phase = "none" => head = view'[Root]
    <3>1. CASE pending.phase = "none"
      <4>1. head = view[Root] /\ pending.id = None /\ disk[Root] = view[Root]
        BY <1>0, <3>1 DEF HeadInv, IndInv, SafetyInv, LayoutInv, CommittedAlike
      <4>2. CASE view' = view
        BY <4>1, <4>2
      <4>3. CASE ApplyStep \/ RevertStep
        BY <3>1, <4>3 DEF ApplyStep, RevertStep, IndInv, TypeInv, ControlInv
      <4>4. CASE Restart
        BY <4>1, <4>4 DEF Restart, Reboot, PowerCycle, PowerLoss, RestartInto
      <4>5. CASE \E t \in Tx : DeleteOldRoot(t)
        <5>1. PICK t \in Tx : view' = Delete(view, Old(t))
          BY <4>5 DEF DeleteOldRoot
        <5>2. view'[Root] = view[Root]
          BY <5>1, SlotNames DEF Delete, IndInv, TypeInv, TypeOK, Layouts
        <5> QED BY <4>1, <5>2
      <4> QED BY <4>2, <4>3, <4>4, <4>5, Writers
    <3>2. CASE pending.phase # "none" /\ pending'.phase = "none"
      <4>1. /\ HelperRemove \/ ConfirmRemove
            /\ pending.phase \in Idle \cup {"Reverted", "Confirmed"}
        BY <1>0, <3>2, SlotStep
      <4>2. view' = view
        BY <4>1 DEF HelperRemove, HelperUnchanged, ConfirmRemove, ConfirmUnchanged
      <4>3. CASE pending.phase # "Confirmed"
        BY <1>0, <3>2, <4>1, <4>2, <4>3, RootAtRemoval DEF Idle, HeadInv, Untouched
      <4>4. CASE pending.phase = "Confirmed"
        <5>1. ConfirmRemove
          BY <4>1, <4>4 DEF HelperRemove, HelperAt, IndInv, TypeInv, ControlInv
        <5>2. head = pending.id
          BY <4>4, <5>1, RemovedByConfirm DEF HeadInv, Idle
        <5> QED BY <4>1, <4>2, <4>4, <5>2, RootAtRemoval DEF Activated
      <4> QED BY <4>3, <4>4
    <3> QED BY <3>1, <3>2
  <2>3. pending'.phase \in Phases \ {"Confirmed"} => head = pending'.fallback
    <3>1. CASE pending'.id = pending.id /\ pending'.fallback = pending.fallback
      <4>1. pending'.phase = pending.phase \/ CanTransitionTo(pending.phase, pending'.phase)
        BY <3>1, PhaseStep
      <4>2. pending'.phase \in Phases \ {"Confirmed"} => pending.phase \in Phases \ {"Confirmed"}
        BY <1>0, <3>1, <4>1 DEF CanTransitionTo
      <4> QED BY <3>1, <4>2 DEF HeadInv
    <3>2. CASE pending.phase = "none" /\ pending'.fallback = view[Root]
      BY <3>2 DEF HeadInv
    <3>3. CASE pending'.phase = "none"
      BY <1>0, <3>3
    <3> QED BY <3>1, <3>2, <3>3, SlotStep
  <2>4. confirm'.at \in {"schedule", "clear", "archive", "remove"}
            /\ confirm'.tx.phase = "Confirmed" => head = confirm'.tx.id
    BY <1>2, ConfirmStep DEF HeadInv
  <2> QED BY <2>1, <2>2, <2>3, <2>4 DEF HeadInv
<1> QED BY <1>1, <1>2

\* No step leaves a subvolume behind that neither the pending record nor a cleanup
\* record names.
LEMMA OrphanNext ==
    ASSUME IndInv, IndInv', OrphanInv, [Next]_vars
    PROVE  OrphanInv'
<1>0. /\ pending.id # None <=> pending.phase # "none"
      /\ pending.id # None => pending.id \in Tx
      /\ view \in Layouts
  BY PendingSlot DEF IndInv, TypeInv, TypeOK
<1>1. ASSUME NEW t \in Tx, t # pending'.id
      PROVE  view'[New(t)] = None /\ (view'[Old(t)] # None => t \in cleanup')
  <2>1. CASE t = pending.id
    <3>1. /\ HelperRemove \/ ConfirmRemove
          /\ pending.phase \in Idle \cup {"Reverted", "Confirmed"}
      BY <1>0, <1>1, <2>1, SlotStep, TxAssumption
    <3>2. UNCHANGED <<view, cleanup>>
      BY <3>1 DEF HelperRemove, HelperUnchanged, ConfirmRemove, ConfirmUnchanged
    <3>3. CASE pending.phase # "Confirmed"
      BY <1>0, <2>1, <3>1, <3>2, <3>3, RootAtRemoval, TxAssumption DEF Idle, Untouched
    <3>4. CASE pending.phase = "Confirmed"
      <4>1. ConfirmRemove
        BY <3>1, <3>4 DEF HelperRemove, HelperAt, IndInv, TypeInv, ControlInv
      <4>2. t \in cleanup
        BY <2>1, <3>4, <4>1, RemovedByConfirm DEF OrphanInv, Idle
      <4> QED BY <2>1, <3>1, <3>2, <3>4, <4>2, RootAtRemoval DEF Activated
    <3> QED BY <3>3, <3>4
  <2>2. CASE t # pending.id
    <3>1. view[New(t)] = None /\ (view[Old(t)] # None => t \in cleanup)
      BY <1>1, <2>2 DEF OrphanInv
    <3>2. view'[New(t)] = None /\ (view'[Old(t)] # None => view[Old(t)] # None)
      <4>1. CASE view' = view
        BY <3>1, <4>1
      <4>2. CASE ApplyStep \/ RevertStep
        <5>1. pending.id \in Tx
          BY <1>0, <4>2 DEF ApplyStep, RevertStep, IndInv, TypeInv, ControlInv
        <5>2. view'[New(t)] = view[New(t)] /\ view'[Old(t)] = view[Old(t)]
          BY <1>0, <2>2, <4>2, <5>1, SlotNames
             DEF ApplyStep, RevertStep, Place, Delete, Rename, Layouts
        <5> QED BY <3>1, <5>2
      <4>3. CASE Restart
        BY <1>1, <2>2, <3>1, <4>3 DEF Restart, Reboot, PowerCycle, PowerLoss, RestartInto,
              IndInv, SafetyInv, LayoutInv, CommittedAlike
      <4>4. CASE \E u \in Tx : DeleteOldRoot(u)
        <5>1. PICK u \in Tx : view' = Delete(view, Old(u))
          BY <4>4 DEF DeleteOldRoot
        <5> QED BY <1>0, <1>1, <3>1, <5>1, SlotNames DEF Delete, Layouts
      <4> QED BY <4>1, <4>2, <4>3, <4>4, Writers
    <3>3. t \in cleanup => t \in cleanup' \/ view'[Old(t)] = None
      <4>1. CASE cleanup' = cleanup
        BY <4>1
      <4>2. CASE ScheduleOldRootCleanup
        BY <4>2 DEF ScheduleOldRootCleanup
      <4>3. CASE \E u \in Tx : CompleteOldRootCleanup(u)
        BY <4>3 DEF CompleteOldRootCleanup, Exists
      <4> QED BY <4>1, <4>2, <4>3, Writers
    <3> QED BY <3>1, <3>2, <3>3
  <2> QED BY <2>1, <2>2
<1>2. ASSUME confirm'.at \in {"clear", "archive", "remove"}, confirm'.tx.phase = "Confirmed"
      PROVE  confirm'.tx.id \in cleanup'
  <2>1. CASE ScheduleOldRootCleanup
    BY <2>1, ConfirmStep DEF ScheduleOldRootCleanup, ConfirmGoto, IndInv, TypeInv, TypeOK
  <2>2. CASE ~ScheduleOldRootCleanup
    <3>1. /\ confirm'.tx = confirm.tx
          /\ confirm.at \in {"clear", "archive", "remove"}
      BY <1>2, <2>2, ConfirmStep
    <3>2. ~(\E t \in Tx : CompleteOldRootCleanup(t))
      BY <3>1 DEF CompleteOldRootCleanup, ConfirmAt
    <3>3. cleanup' = cleanup
      BY <2>2, <3>2, Writers
    <3> QED BY <1>2, <3>1, <3>3 DEF OrphanInv
  <2> QED BY <2>1, <2>2
<1> QED BY <1>1, <1>2 DEF OrphanInv

\* The archive is written once for each transaction, with its outcome, before its
\* record leaves the pending slot.
LEMMA HistoryNext ==
    ASSUME IndInv, IndInv', HistoryInv, [Next]_vars
    PROVE  HistoryInv'
<1>0. /\ pending.id # None <=> pending.phase # "none"
      /\ pending.id # None => pending.id \in Tx
      /\ history \in [Tx -> Terminal \cup {"none"}]
      /\ confirm.at \in Finishing => /\ confirm.tx.id \in Tx /\ confirm.tx.id \in used
                                     /\ confirm.tx.phase \in Terminal
      /\ used \subseteq Tx /\ used \subseteq used'
      /\ "none" \notin Terminal
  <2>1. used \subseteq used'
    BY SlotStep
  <2> QED BY <2>1, PendingSlot DEF IndInv, TypeInv, TypeOK, ControlInv, SafetyInv, CopiesInv,
                                   Records, Terminal
<1>1. \/ history' = history
      \/ /\ ArchiveTransaction /\ confirm.at = "archive"
         /\ history[confirm.tx.id] \in {"none", confirm.tx.phase}
         /\ history' = [history EXCEPT ![confirm.tx.id] = confirm.tx.phase]
         /\ UNCHANGED <<pending, cleanup, used>>
  BY Writers DEF ArchiveTransaction, ConfirmAt, ConfirmUnchanged, HistoryInv, Finishing
<1>2. \A t \in Tx : history[t] # "none" => history'[t] = history[t]
  BY <1>0, <1>1
<1>3. \A t \in Tx : history'[t] # "none" => t \in used'
  BY <1>0, <1>1 DEF HistoryInv, Finishing
<1>4. pending'.id # None => history'[pending'.id] \in {"none", pending'.phase}
  <2>1. CASE ArchiveTransaction
    BY <1>0, <1>1, <2>1 DEF ArchiveTransaction, HistoryInv, Finishing
  <2>2. CASE pending'.id = pending.id /\ history' = history
    <3>1. CASE pending'.phase = pending.phase
      BY <2>2, <3>1 DEF HistoryInv
    <3>2. CASE pending'.phase # pending.phase
      <4>1. pending.phase \notin Terminal
        BY <2>2, <3>2, PhaseStep DEF CanTransitionTo, Terminal
      <4> QED BY <1>0, <2>2, <4>1 DEF HistoryInv
    <3> QED BY <3>1, <3>2
  <2>3. CASE pending'.id \in Tx \ used /\ history' = history
    BY <2>3 DEF HistoryInv
  <2>4. CASE pending'.id = None
    BY <2>4
  <2> QED BY <2>1, <2>2, <2>3, <2>4, SlotStep, Writers
<1>5. ASSUME confirm'.at \in Finishing
      PROVE  /\ history'[confirm'.tx.id] \in {"none", confirm'.tx.phase}
             /\ pending'.id = confirm'.tx.id => pending'.phase = confirm'.tx.phase
  <2>1. CASE confirm'.tx = pending'
    <3>1. pending'.id # None
      <4>1. confirm'.tx \in Records
        BY <1>5 DEF IndInv, TypeInv, ControlInv, Finishing
      <4> QED BY <2>1, <4>1, TxAssumption DEF Records
    <3> QED BY <1>4, <2>1, <3>1
  <2>2. CASE confirm'.tx = confirm.tx /\ confirm.at \in Finishing
    <3>1. history'[confirm.tx.id] \in {"none", confirm.tx.phase}
      BY <1>0, <1>1, <2>2 DEF HistoryInv
    <3>2. pending'.id = confirm.tx.id => pending'.phase = confirm.tx.phase
      <4>1. CASE pending'.id = pending.id
        <5>1. pending.id = confirm.tx.id => pending'.phase = pending.phase
          BY <1>0, <2>2, <4>1, PhaseStep DEF HistoryInv, CanTransitionTo, Terminal
        <5> QED BY <2>2, <4>1, <5>1 DEF HistoryInv
      <4>2. CASE pending'.id \notin used
        BY <1>0, <2>2, <4>2
      <4>3. CASE pending'.id = None
        BY <1>0, <2>2, <4>3, TxAssumption
      <4> QED BY <4>1, <4>2, <4>3, SlotStep
    <3> QED BY <2>2, <3>1, <3>2
  <2> QED BY <1>5, <2>1, <2>2, ConfirmStep DEF Finishing
<1>6. confirm'.at \in {"remove", "grub"} => history'[confirm'.tx.id] = confirm'.tx.phase
  <2>1. CASE ArchiveTransaction
    BY <1>0, <1>1, <2>1, ConfirmStep
       DEF ArchiveTransaction, ConfirmAt, ConfirmGoto, Finishing, IndInv, TypeInv, TypeOK
  <2>2. CASE ~ArchiveTransaction
    <3>1. history' = history
      BY <2>2, Writers
    <3>2. confirm'.at \in {"remove", "grub"} =>
              confirm'.tx = confirm.tx /\ confirm.at \in {"remove", "grub"}
      BY <2>2, ConfirmStep
    <3> QED BY <3>1, <3>2 DEF HistoryInv
  <2> QED BY <2>1, <2>2
<1>7. ASSUME NEW t \in cleanup', t # pending'.id
      PROVE  history'[t] = "Confirmed"
  <2>1. t \in Tx
    BY <1>7 DEF IndInv, TypeInv, TypeOK
  <2>2. CASE t \in cleanup /\ t # pending.id
    BY <1>2, <2>1, <2>2 DEF HistoryInv
  <2>3. CASE t \notin cleanup
    <3>1. ScheduleOldRootCleanup
      BY <1>7, <2>3, Writers DEF CompleteOldRootCleanup
    <3>2. t = pending'.id
      BY <1>7, <2>3, <3>1 DEF ScheduleOldRootCleanup, ConfirmAt, IndInv, SafetyInv, CopiesInv,
                              Finishing
    <3> QED BY <1>7, <3>2
  <2>4. CASE t \in cleanup /\ t = pending.id
    <3>1. pending.phase = "Confirmed"
      BY <2>4 DEF IndInv, SafetyInv, CleanupInv
    <3>2. HelperRemove \/ ConfirmRemove
      BY <1>7, <2>4, <3>1, SlotStep
    <3>3. ConfirmRemove
      BY <3>1, <3>2 DEF HelperRemove, HelperAt, IndInv, TypeInv, ControlInv
    <3>4. history[t] = "Confirmed"
      BY <2>4, <3>1, <3>3, RemovedByConfirm DEF HistoryInv, Idle
    <3> QED BY <1>2, <2>1, <3>4
  <2> QED BY <2>2, <2>3, <2>4
<1>8. ASSUME NEW t \in confirm'.todo
      PROVE  history'[t] = "Confirmed"
  <2>1. t \in Tx /\ t # pending'.id
    BY <1>8 DEF IndInv, TypeInv, TypeOK, SafetyInv, CleanupInv
  <2>2. CASE t \in confirm.todo
    BY <1>2, <2>1, <2>2 DEF HistoryInv
  <2>3. CASE confirm'.todo \subseteq cleanup /\ UNCHANGED <<cleanup, pending, history>>
    BY <1>8, <2>1, <2>3 DEF HistoryInv
  <2> QED BY <1>8, <2>2, <2>3, ConfirmStep
<1> QED BY <1>3, <1>4, <1>5, <1>6, <1>7, <1>8 DEF HistoryInv

\* A freshly installed machine has nothing recorded.
LEMMA TruthInit == Init => TruthInv
<1> SUFFICES ASSUME Init PROVE TruthInv
  OBVIOUS
<1>1. /\ view[Root] = Original /\ head = Original
      /\ \A t \in Tx : view[Old(t)] = None /\ view[New(t)] = None /\ history[t] = "none"
  BY SlotNames DEF Init
<1>2. pending.id = None /\ pending.phase = "none" /\ pending.checkpoint = "none"
  BY DEF Init, NoTransaction
<1>3. confirm.at = "idle" /\ confirm.todo = {} /\ cleanup = {} /\ machine = "user"
  BY DEF Init, ConfirmIdle
<1>4. CheckpointInv
  BY <1>2, <1>3 DEF CheckpointInv, Claims, ApplyMarks, RevertMarks
<1>5. HeadInv /\ OrphanInv
  BY <1>1, <1>2, <1>3 DEF HeadInv, OrphanInv, Phases
<1>6. HistoryInv
  BY <1>1, <1>2, <1>3 DEF HistoryInv, Finishing
<1> QED BY <1>4, <1>5, <1>6 DEF TruthInv

\* The stronger inductive invariant is kept by every step.
LEMMA TruthNext == IndInv /\ TruthInv /\ [Next]_vars => IndInv' /\ TruthInv'
<1> SUFFICES ASSUME IndInv, TruthInv, [Next]_vars PROVE IndInv' /\ TruthInv'
  OBVIOUS
<1>1. IndInv'
  BY IndNext
<1>2. CheckpointInv' /\ HeadInv' /\ OrphanInv' /\ HistoryInv'
  BY <1>1, CheckpointNext, HeadNext, OrphanNext, HistoryNext DEF TruthInv
<1> QED BY <1>1, <1>2 DEF TruthInv

-----------------------------------------------------------------------------
(* What follows from the records *)

\* For any number of transactions, power losses and failures: a recorded checkpoint
\* is on the disk, no subvolume is left without a record to reclaim it, and the
\* lineage head of a machine at rest is the system at its @root.
THEOREM RecordsAlwaysTrue == Spec => []RecordsTellTruth
<1>1. ASSUME IndInv, TruthInv PROVE RecordsTellTruth
  <2>1. CheckpointIsDurable
    BY <1>1 DEF TruthInv, CheckpointInv, Claims, CheckpointIsDurable
  <2>2. ~IsPending => pending.phase = "none" /\ pending.id = None
    BY <1>1, PendingSlot DEF IsPending, IndInv, TypeInv, TypeOK
  <2>3. NoOrphanRoots
    <3>1. ASSUME ~IsPending, NEW t \in Tx
          PROVE  /\ view[New(t)] = None /\ disk[New(t)] = None
                 /\ view[Old(t)] = disk[Old(t)]
                 /\ view[Old(t)] # None => t \in cleanup
      BY <1>1, <2>2, <3>1, TxAssumption DEF TruthInv, OrphanInv, IndInv, SafetyInv, LayoutInv,
                                CommittedAlike
    <3> QED BY <3>1 DEF NoOrphanRoots, Exists
  <2>4. HeadMatchesRoot
    BY <1>1, <2>2 DEF HeadMatchesRoot, TruthInv, HeadInv, IndInv, SafetyInv, LayoutInv,
                      CommittedAlike
  <2> QED BY <2>1, <2>3, <2>4 DEF RecordsTellTruth
<1> QED BY <1>1, IndInit, TruthInit, TruthNext, PTL DEF Spec

\* On the way to a new committed layout the old root of a transaction disappears only
\* by becoming @root again, or with its outcome archived.
LEMMA OldRootStep ==
    ASSUME IndInv, IndInv', TruthInv, [Next]_vars
    PROVE  OldRootKept
<1> SUFFICES ASSUME NEW t \in Tx, disk[Old(t)] # None, disk'[Old(t)] = None
             PROVE  disk'[Root] = disk[Old(t)] \/ history[t] = "Confirmed"
  BY DEF OldRootKept, Exists
<1>0. view \in Layouts /\ \A p \in Records : p.id \in Tx /\ p.fallback \in System
  BY DEF IndInv, TypeInv, TypeOK, Records
<1>1. CASE disk' = view
  <2>1. t = pending.id /\ pending \in Records
    <3>1. t = pending.id
      BY <1>1 DEF IndInv, SafetyInv, LayoutInv, CommittedAlike
    <3> QED BY <3>1, PendingSlot, TxAssumption DEF IndInv, TypeInv, TypeOK
  <2>2. pending.phase \in {"Applying", "Reverting"}
    <3>1. pending.phase \in Phases
      BY <2>1 DEF Records
    <3> QED BY <1>1, <2>1, <3>1, <1>0, TxAssumption
            DEF IndInv, SafetyInv, LayoutInv, Fits, Untouched, Activated, Phases, System
  <2>3. Shaped(disk, t, pending.fallback) /\ Shaped(view, t, pending.fallback)
    BY <2>1, <2>2 DEF IndInv, SafetyInv, LayoutInv, Fits
  <2>4. disk[Old(t)] = pending.fallback /\ view[Root] = pending.fallback
    BY <1>0, <1>1, <2>1, <2>3, TxAssumption DEF Shaped, Untouched, Staged, Protected, Activated,
                                                System
  <2> QED BY <1>1, <2>4
<1>2. CASE \E u \in Tx : DeleteOldRoot(u)
  <2>1. PICK u \in Tx : DeleteOldRoot(u)
    BY <1>2
  <2>2. CASE t = u
    BY <2>1, <2>2 DEF DeleteOldRoot, TruthInv, HistoryInv
  <2>3. CASE t # u
    <3>1. /\ disk'[Old(t)] = view[Old(t)] /\ disk'[Root] = view[Root]
          /\ pending.phase \in {"none", "Preparing", "Armed"}
      BY <1>0, <2>1, <2>3, SlotNames DEF DeleteOldRoot, ConfirmAt, Delete, Layouts, IndInv, SafetyInv,
                                   CopiesInv
    <3>2. CASE t # pending.id
      BY <3>1, <3>2 DEF IndInv, SafetyInv, LayoutInv, CommittedAlike
    <3>3. CASE t = pending.id
      <4>1. pending.phase # "none"
        BY <3>3, PendingSlot, TxAssumption DEF IndInv, TypeInv, TypeOK
      <4>2. Untouched(disk, t, pending.fallback)
        BY <3>1, <3>3, <4>1 DEF IndInv, SafetyInv, LayoutInv, Fits
      <4> QED BY <4>2 DEF Untouched
    <3> QED BY <3>2, <3>3
  <2> QED BY <2>2, <2>3
<1>3. CASE disk' = disk
  BY <1>3
<1> QED BY <1>1, <1>2, <1>3, Writers
        DEF FilesystemSync, Restart, Reboot, PowerCycle, PowerLoss, RestartInto

\* For any number of transactions, power losses and failures: what a rollback
\* replaced is kept until its outcome is archived, the outcome is archived before
\* the record goes, and the archive never changes.
THEOREM OutcomesAlwaysKept == Spec => OutcomesAreKept
<1>1. ASSUME IndInv, TruthInv, [Next]_vars PROVE OldRootKept /\ OutcomeArchived
  <2>1. OldRootKept
    BY <1>1, IndNext, OldRootStep
  <2>2. ASSUME pending.phase \in {"Confirmed", "Reverted"}, pending'.id # pending.id
        PROVE  history[pending.id] = pending.phase
    <3>1. HelperRemove \/ ConfirmRemove
      BY <1>1, <2>2, SlotStep
    <3>2. ConfirmRemove
      BY <1>1, <2>2, <3>1 DEF HelperRemove, HelperAt, IndInv, TypeInv, ControlInv
    <3> QED BY <1>1, <2>2, <3>2, RemovedByConfirm DEF TruthInv, HistoryInv, Idle
  <2>3. \A t \in Tx : history[t] # "none" => history'[t] = history[t]
    <3>1. CASE history' = history
      BY <3>1
    <3>2. CASE ArchiveTransaction
      BY <1>1, <3>2 DEF ArchiveTransaction, ConfirmAt, TruthInv, HistoryInv, Finishing,
                        IndInv, TypeInv, TypeOK
    <3> QED BY <1>1, <3>1, <3>2, Writers
  <2> QED BY <2>1, <2>2, <2>3 DEF OutcomeArchived
<1> QED BY <1>1, IndInit, IndNext, TruthInit, TruthNext, PTL DEF Spec, OutcomesAreKept

-----------------------------------------------------------------------------
(***************************************************************************)
(* The refinement: every step of the four programs, and every restart, is  *)
(* a step of the atomic rollback or leaves its state alone.                *)
(***************************************************************************)

\* The active system that a layout and a record describe.
ActiveIn(layout, p) == IF Exists(layout, Root) THEN layout[Root] ELSE p.fallback

\* The phase of the record decides which system is active, except in an exchange.
LEMMA ActiveOf ==
    ASSUME NEW layout, NEW p \in Records \cup {NoTransaction}, Fits(layout, p)
    PROVE  /\ p.phase = "none" => ActiveIn(layout, p) = layout[Root]
           /\ p.phase \in {"Preparing", "Armed", "Failed", "Reverted"} =>
                  ActiveIn(layout, p) = p.fallback /\ layout[Root] = p.fallback
           /\ p.phase \in {"BootedUnconfirmed", "Confirmed"} =>
                  ActiveIn(layout, p) = p.id /\ layout[Root] = p.id
           /\ p.phase \in {"Applying", "Reverting"} =>
                  ActiveIn(layout, p) \in {p.fallback, p.id}
<1>1. p.phase # "none" => p.id # None /\ p.fallback # None
  BY TxAssumption, FreshRecords DEF Records, System
<1> QED BY <1>1 DEF ActiveIn, Exists, Fits, Shaped, Untouched, Staged, Protected, Activated

\* The transactions outside the pending slot keep their outcome, even when a failed
\* one is archived late.
LEMMA OutcomeElsewhere ==
    ASSUME IndInv, TruthInv, [Next]_vars,
           NEW t \in Tx, t # pending.id, t # pending'.id
    PROVE  Outcome(t)' = Outcome(t)
<1>1. t \in used' <=> t \in used
  BY SlotStep
<1>2. history'[t] = "Confirmed" <=> history[t] = "Confirmed"
  <2>1. CASE history' = history
    BY <2>1
  <2>2. CASE ArchiveTransaction
    <3>1. /\ confirm.tx.id \in Tx /\ history \in [Tx -> Terminal \cup {"none"}]
          /\ history' = [history EXCEPT ![confirm.tx.id] = confirm.tx.phase]
          /\ history[confirm.tx.id] \in {"none", confirm.tx.phase}
          /\ confirm.tx.phase = "Failed" \/ pending = confirm.tx
      BY <2>2 DEF ArchiveTransaction, ConfirmAt, IndInv, TypeInv, TypeOK, ControlInv, Records,
                  SafetyInv, CopiesInv, TruthInv, HistoryInv, Finishing
    <3> QED BY <3>1
  <2> QED BY <2>1, <2>2, Writers
<1> QED BY <1>1, <1>2 DEF Outcome

\* A step of the programs is a step of the atomic rollback.
LEMMA AbstractStep ==
    ASSUME IndInv, IndInv', TruthInv, TruthInv', [Next]_vars
    PROVE  [Abstract!ANext]_(Abstract!avars)
<1>id. PICK id : id = pending.id
  OBVIOUS
<1> USE <1>id
<1>0. /\ pending \in Records \cup {NoTransaction} /\ pending' \in Records \cup {NoTransaction}
      /\ pending.id # None <=> pending.phase # "none"
      /\ pending.phase # "none" => pending.phase \in Phases /\ id \in Tx
      /\ pending'.id # None <=> pending'.phase # "none"
      /\ pending'.phase # "none" => pending'.phase \in Phases /\ pending'.id \in Tx
  <2>1. pending' \in Records \cup {NoTransaction}
    BY DEF IndInv, TypeInv, TypeOK
  <2>2. "none" \notin Phases
    BY DEF Phases
  <2> QED BY <2>1, <2>2, PendingSlot, FreshRecords, TxAssumption
             DEF IndInv, TypeInv, TypeOK, Records
<1>1. /\ ActiveSystem = ActiveIn(disk, pending) /\ ActiveSystem' = ActiveIn(disk', pending')
      /\ Fits(disk, pending) /\ Fits(disk', pending')
  BY DEF ActiveSystem, ActiveIn, Exists, IndInv, SafetyInv, LayoutInv, Fits, Shaped, Untouched,
         Staged, Protected, Activated
<1>2. pending'.phase # pending.phase \/ pending'.id # pending.id => disk' = disk
  BY Writers, AgeingFacts, <1>0
     DEF FilesystemSync, DeleteOldRoot, Restart, Reboot, PowerCycle, PowerLoss, RestartInto
<1>3. pending.phase = "none" => ActiveSystem = head /\ disk[Root] = view[Root]
  BY <1>0, <1>1, ActiveOf DEF TruthInv, HeadInv, IndInv, SafetyInv, LayoutInv, CommittedAlike
<1>4. pending'.phase = "none" => ActiveSystem' = head' /\ disk'[Root] = view'[Root]
  BY <1>0, <1>1, ActiveOf DEF TruthInv, HeadInv, IndInv, SafetyInv, LayoutInv, CommittedAlike
<1>5. CASE pending'.id = id /\ pending'.fallback = pending.fallback /\ used' = used
  <2>1. pending'.phase = pending.phase \/ CanTransitionTo(pending.phase, pending'.phase)
    BY <1>5, PhaseStep
  <2>2. \A t \in Tx : t # id => Outcome(t)' = Outcome(t)
    BY <1>5, OutcomeElsewhere
  <2>3. CASE pending.phase \in OpenPhases /\ pending'.phase \in OpenPhases
    <3>1. /\ OpenTransaction = id /\ OpenTransaction' = id /\ id # None
          /\ BaseSystem = pending.fallback /\ BaseSystem' = pending.fallback
      BY <1>0, <1>5, <2>3 DEF OpenTransaction, BaseSystem, OpenPhases, Phases
    <3>2. ActiveSystem' \in {pending.fallback, id}
      BY <1>0, <1>1, <1>5, <2>3, ActiveOf DEF OpenPhases, Phases, Terminal
    <3>3. \A t \in Tx : Outcome(t)' = Outcome(t)
      BY <1>0, <1>5, <2>2, <2>3 DEF Outcome, OpenPhases, Phases, Terminal
    <3>4. Abstract!Switch
      BY <3>1, <3>2, <3>3 DEF Abstract!Switch
    <3> QED BY <3>4 DEF Abstract!ANext
  <2>4. CASE pending'.phase = pending.phase /\ pending.phase \notin OpenPhases
    <3>1. ActiveSystem' = ActiveSystem
      <4>1. CASE pending.phase = "none"
        <5>1. ~RecordLineage
          BY <4>1 DEF RecordLineage, ConfirmAt, IndInv, SafetyInv, CopiesInv, Finishing,
                      TypeInv, ControlInv
        <5> QED BY <1>3, <1>4, <2>4, <4>1, <5>1, Writers
      <4>2. CASE pending.phase \in Terminal
        BY <1>0, <1>1, <1>5, <2>4, <4>2, ActiveOf DEF Terminal
      <4> QED BY <1>0, <2>4, <4>1, <4>2 DEF OpenPhases
    <3>2. /\ OpenTransaction' = OpenTransaction /\ BaseSystem' = BaseSystem
      BY <2>4, <3>1 DEF OpenTransaction, BaseSystem
    <3>3. \A t \in Tx : Outcome(t)' = Outcome(t)
      BY <1>5, <2>2, <2>4 DEF Outcome
    <3> QED BY <3>1, <3>2, <3>3 DEF Abstract!avars
  <2>5. CASE pending'.phase # pending.phase /\ pending'.phase \notin OpenPhases
    <3>1. /\ pending.phase \in OpenPhases /\ pending'.phase \in Terminal /\ id \in Tx
          /\ pending'.phase = "Confirmed" => pending.phase = "BootedUnconfirmed"
      BY <1>0, <2>1, <2>5 DEF CanTransitionTo, OpenPhases, Phases, Terminal
    <3>2. ActiveSystem' = ActiveSystem
      BY <1>1, <1>2, <1>5, <2>5 DEF ActiveIn
    <3>3. /\ OpenTransaction = id /\ OpenTransaction' = None
          /\ BaseSystem = pending.fallback /\ BaseSystem' = ActiveSystem'
      BY <2>5, <3>1 DEF OpenTransaction, BaseSystem
    <3>4. CASE pending'.phase = "Confirmed"
      <4>1. ActiveSystem = id
        BY <1>0, <1>1, <3>1, <3>4, ActiveOf
      <4>2. Outcome(id)' = "committed"
        BY <1>5, <3>4 DEF Outcome
      <4>3. Abstract!Commit(id)
        BY <2>2, <3>1, <3>2, <3>3, <4>1, <4>2 DEF Abstract!Commit
      <4> QED BY <3>1, <4>3 DEF Abstract!ANext
    <3>5. CASE pending'.phase # "Confirmed"
      <4>1. ActiveSystem' = pending.fallback
        BY <1>0, <1>1, <1>5, <3>1, <3>5, ActiveOf DEF Terminal
      <4>2. Outcome(id)' = "aborted"
        BY <1>5, <3>1, <3>5 DEF Outcome, Terminal
      <4>3. Abstract!Abort(id)
        BY <2>2, <3>1, <3>2, <3>3, <4>1, <4>2 DEF Abstract!Abort
      <4> QED BY <3>1, <4>3 DEF Abstract!ANext
    <3> QED BY <3>4, <3>5
  <2>6. CASE pending'.phase # pending.phase /\ pending.phase \notin OpenPhases
    BY <1>0, <2>1, <2>6 DEF CanTransitionTo, OpenPhases, Phases, Terminal
  <2> QED BY <2>3, <2>4, <2>5, <2>6
<1>6. CASE /\ ScheduleCreate /\ id = None /\ pending.phase = "none"
           /\ pending'.id \in Tx \ used /\ pending'.phase = "Preparing"
           /\ pending'.fallback = view[Root] /\ used' = used \cup {pending'.id}
  <2>t. PICK t : t = pending'.id
    OBVIOUS
  <2> USE <2>t
  <2>1. t \in Tx /\ t # None /\ t # id
    BY <1>6, TxAssumption
  <2>2. OpenTransaction = None /\ OpenTransaction' = t
    BY <1>6 DEF OpenTransaction, OpenPhases, Phases, Terminal
  <2>3. /\ ActiveSystem = disk[Root] /\ ActiveSystem' = view[Root] /\ disk[Root] = view[Root]
    BY <1>0, <1>1, <1>3, <1>6, ActiveOf
  <2>4. BaseSystem = disk[Root] /\ BaseSystem' = view[Root]
    BY <1>6, <2>3 DEF BaseSystem, OpenPhases, Phases, Terminal
  <2>5. Outcome(t) = "none" /\ Outcome(t)' = "none"
    BY <1>6, <2>1 DEF Outcome, TruthInv, HistoryInv
  <2>6. \A u \in Tx : Outcome(u)' = Outcome(u)
    BY <1>6, <2>5, OutcomeElsewhere, TxAssumption
  <2>7. Abstract!Begin(t)
    BY <2>1, <2>2, <2>3, <2>4, <2>5, <2>6 DEF Abstract!Begin
  <2> QED BY <2>1, <2>7 DEF Abstract!ANext
<1>7. CASE /\ HelperRemove \/ ConfirmRemove
           /\ pending'.id = None /\ pending'.phase = "none" /\ used' = used
           /\ pending.phase \in Idle \cup {"Reverted", "Confirmed"}
  <2>1. disk' = disk /\ history' = history
    BY <1>7 DEF HelperRemove, HelperUnchanged, ConfirmRemove, ConfirmUnchanged
  <2>2. OpenTransaction' = None /\ BaseSystem' = ActiveSystem'
    BY <1>7 DEF OpenTransaction, BaseSystem, OpenPhases, Phases
  <2>3. ActiveSystem' = ActiveSystem
    BY <1>0, <1>1, <1>7, <2>1, ActiveOf DEF Idle
  <2>4. \A t \in Tx : t # id => Outcome(t)' = Outcome(t)
    BY <1>7, OutcomeElsewhere, TxAssumption
  <2>5. pending.phase # "none" =>
            Outcome(id)' = IF pending.phase = "Confirmed" THEN "committed" ELSE "aborted"
    <3>1. pending.phase # "none" => id \in used /\ id # None
      BY <1>0 DEF IndInv, SafetyInv, LayoutInv
    <3>2. pending.phase # "none" =>
              (history[id] = "Confirmed" <=> pending.phase = "Confirmed")
      <4>1. CASE pending.phase = "Confirmed"
        <5>1. ConfirmRemove
          BY <1>7, <4>1 DEF HelperRemove, HelperAt, IndInv, TypeInv, ControlInv
        <5> QED BY <4>1, <5>1, RemovedByConfirm DEF TruthInv, HistoryInv, Idle
      <4>2. CASE pending.phase # "Confirmed"
        BY <3>1, <4>2 DEF TruthInv, HistoryInv
      <4> QED BY <4>1, <4>2
    <3> QED BY <1>7, <2>1, <3>1, <3>2 DEF Outcome
  <2>6. CASE pending.phase \in {"Preparing", "Armed"}
    <3>1. /\ id \in Tx /\ OpenTransaction = id /\ BaseSystem = pending.fallback
          /\ ActiveSystem = pending.fallback
      BY <1>0, <1>1, <2>6, ActiveOf DEF OpenTransaction, BaseSystem, OpenPhases, Phases,
          Terminal
    <3>2. Abstract!Abort(id)
      BY <2>2, <2>3, <2>4, <2>5, <2>6, <3>1 DEF Abstract!Abort
    <3> QED BY <3>1, <3>2 DEF Abstract!ANext
  <2>7. CASE pending.phase \notin {"Preparing", "Armed"}
    <3>1. OpenTransaction = None /\ BaseSystem = ActiveSystem
      BY <1>7, <2>7 DEF Idle, OpenTransaction, BaseSystem, OpenPhases, Phases, Terminal
    <3>2. \A t \in Tx : Outcome(t)' = Outcome(t)
      <4>1. CASE pending.phase = "none"
        BY <1>0, <2>4, <4>1, TxAssumption
      <4>2. CASE pending.phase # "none"
        <5>1. Outcome(id) = IF pending.phase = "Confirmed" THEN "committed" ELSE "aborted"
          BY <1>7, <2>7, <4>2 DEF Outcome, Idle
        <5> QED BY <2>4, <2>5, <4>2, <5>1
      <4> QED BY <4>1, <4>2
    <3> QED BY <2>2, <2>3, <3>1, <3>2 DEF Abstract!avars
  <2> QED BY <2>6, <2>7
<1> QED BY <1>5, <1>6, <1>7, SlotStep

\* For any number of transactions, power losses and failures, the whole machinery of
\* subvolume renames, checkpoints and boots implements the atomic rollback: the active
\* system changes only while a rollback is open, and each rollback ends once, with the
\* system that its outcome names.
THEOREM RollbackIsAtomic == Spec => ImplementsAtomicRollback
<1>1. Init => Abstract!AInit
  <2> SUFFICES ASSUME Init PROVE Abstract!AInit
    OBVIOUS
  <2>1. disk[Root] = Original /\ Original # None
    BY SlotNames, TxAssumption DEF Init
  <2>2. pending.id = None /\ pending.phase = "none" /\ pending.phase \notin OpenPhases
    BY DEF Init, NoTransaction, OpenPhases, Phases
  <2>3. ActiveSystem = Original /\ BaseSystem = Original /\ OpenTransaction = None
    BY <2>1, <2>2 DEF ActiveSystem, BaseSystem, OpenTransaction, Exists
  <2>4. \A t \in Tx : Outcome(t) = "none"
    BY <2>2, TxAssumption DEF Outcome, Init
  <2> QED BY <2>3, <2>4 DEF Abstract!AInit
<1>2. IndInv /\ IndInv' /\ TruthInv /\ TruthInv' /\ [Next]_vars
          => [Abstract!ANext]_(Abstract!avars)
  BY AbstractStep
<1> QED BY <1>1, <1>2, IndInit, IndNext, TruthInit, TruthNext, PTL
        DEF Spec, ImplementsAtomicRollback, Abstract!ASpec

-----------------------------------------------------------------------------
(***************************************************************************)
(* The power-loss matrix.  A restored system whose power was cut before it *)
(* was confirmed is doomed: its record says so, or names a boot that is    *)
(* over, and the confirmation compares the boot.                           *)
(***************************************************************************)

Unconfirmed(t) == <<t, "BootedUnconfirmed", "booted-unconfirmed-recorded">>

Doomed(p) ==
    \/ p.phase \in {"Reverting", "Reverted", "Failed"}
    \/ p.phase = "BootedUnconfirmed" /\ p.applyingBoot # "this"

CutInv ==
    \A t \in Tx : Unconfirmed(t) \in cuts =>
        /\ t \in used /\ history[t] # "Confirmed"
        /\ pending.id = t => Doomed(pending)

\* A record that a restart has aged names no boot that still runs.
LEMMA AgedBoot ==
    ASSUME NEW p \in Records PROVE AgeBoots(p).applyingBoot # "this"
BY DEF AgeBoots, Aged, Records

\* Nothing saves a doomed transaction: the engine takes it back, the confirmation
\* refuses it, and neither a restart nor a failed engine makes its boot current.
LEMMA DoomedStep ==
    ASSUME IndInv, [Next]_vars, pending \in Records, Doomed(pending), pending'.id = pending.id
    PROVE  Doomed(pending')
<1>1. pending.phase \in {"Reverting", "Reverted", "Failed", "BootedUnconfirmed"}
  BY DEF Doomed
<1>2. CASE pending.phase # "BootedUnconfirmed"
  <2>1. CASE pending'.phase = pending.phase
    BY <1>1, <1>2, <2>1 DEF Doomed
  <2>2. CASE pending'.phase # pending.phase
    <3>1. CanTransitionTo(pending.phase, pending'.phase)
      BY <2>2, PhaseStep
    <3> QED BY <1>1, <1>2, <3>1 DEF CanTransitionTo, Doomed
  <2> QED BY <2>1, <2>2
<1>3. CASE pending.phase = "BootedUnconfirmed"
  <2>1. pending.applyingBoot # "this"
    BY <1>3 DEF Doomed
  <2>2. CASE pending' = pending
    BY <1>3, <2>1, <2>2 DEF Doomed
  <2>3. CASE Engine
    <3>1. machine \notin {"entered", "validate", "apply", "revert", "mark"}
      BY <1>3 DEF IndInv, TypeInv, ControlInv
    <3>2. pending' = pending \/ ExecuteRevert
      BY <1>3, <2>3, <3>1 DEF Engine, HookStart, HookFails, HookBypassed, ExecuteNoAction, ExecuteFailSafe,
         GivesUpArmed, ExecuteEnter, EntersApply, ExecuteResumeRevert, RecordValidating, ValidateAndBegin,
         ValidationFails, ApplyStep, ApplyDone, RevertStep, RevertDone, FilesystemSync, PersistCheckpoint,
         EngineFails
    <3>3. CASE ExecuteRevert
      <4>1. Transition(pending, "Reverting") \in Records
        BY RecordOperations DEF Phases
      <4>2. pending'.phase = "Reverting"
        BY <3>3, <4>1, RecordFields DEF ExecuteRevert
      <4> QED BY <4>2 DEF Doomed
    <3> QED BY <2>2, <3>2, <3>3
  <2>4. CASE Restart
    <3>1. pending' = AgeBoots(pending)
      BY <2>4 DEF Restart, Reboot, PowerCycle, PowerLoss, RestartInto
    <3> QED BY <1>3, <3>1, AgedBoot, AgeingFacts DEF Doomed
  <2>5. ~ScheduleCreate /\ ~ReconcileNotEntered /\ ~ReconcileConfirm
    BY <1>3, <2>1, TxAssumption
       DEF ScheduleCreate, IsPending, Records, ReconcileNotEntered, ReconcileConfirm
  <2>6. ~HelperRemove /\ ~ConfirmRemove
    BY TxAssumption, FreshRecords DEF HelperRemove, ConfirmRemove, Records
  <2>7. ~ScheduleArm
    BY <1>3 DEF ScheduleArm, HelperAt, IndInv, SafetyInv, CopiesInv
  <2> QED BY <2>2, <2>3, <2>4, <2>5, <2>6, <2>7, Writers
<1> QED BY <1>2, <1>3

\* A cut that finds a restored system unconfirmed dooms it; one that was doomed
\* before stays doomed, or leaves the slot with another outcome than success.
LEMMA CutNext == IndInv /\ TruthInv /\ CutInv /\ [MatrixNext]_<<vars, cuts>> => CutInv'
<1> SUFFICES ASSUME IndInv, TruthInv, CutInv, [MatrixNext]_<<vars, cuts>>, NEW t \in Tx, Unconfirmed(t) \in cuts'
             PROVE  /\ t \in used' /\ history'[t] # "Confirmed"
                    /\ pending'.id = t => Doomed(pending')
  BY DEF CutInv
<1>1. [Next]_vars
  BY DEF MatrixNext
<1>2. /\ pending.id # None <=> pending \in Records
      /\ history \in [Tx -> Terminal \cup {"none"}]
  BY PendingSlot DEF IndInv, TypeInv, TypeOK
<1>3. used \subseteq used'
  BY <1>1, SlotStep
<1>4. CASE Unconfirmed(t) \in cuts
  <2>1. t \in used /\ history[t] # "Confirmed" /\ (pending.id = t => Doomed(pending))
    BY <1>4 DEF CutInv
  <2>2. history'[t] # "Confirmed"
    <3>1. CASE history' = history
      BY <2>1, <3>1
    <3>2. CASE ArchiveTransaction
      <4>1. confirm.at = "archive" /\ history' = [history EXCEPT ![confirm.tx.id] = confirm.tx.phase]
        BY <3>2 DEF ArchiveTransaction, ConfirmAt
      <4>2. confirm.tx.phase = "Confirmed" => pending = confirm.tx
        BY <4>1 DEF IndInv, SafetyInv, CopiesInv, Finishing
      <4>3. confirm.tx.id = t => confirm.tx.phase # "Confirmed"
        BY <2>1, <4>2 DEF Doomed
      <4> QED BY <1>2, <2>1, <4>1, <4>3
    <3> QED BY <1>1, <3>1, <3>2, Writers
  <2>3. pending'.id = t => Doomed(pending')
    <3>1. pending'.id = t => pending.id = t
      BY <1>1, <2>1, SlotStep, TxAssumption
    <3> QED BY <1>1, <1>2, <2>1, <3>1, DoomedStep, TxAssumption
  <2> QED BY <1>3, <2>1, <2>2, <2>3
<1>5. CASE Unconfirmed(t) \notin cuts
  <2>1. PowerLoss /\ Unconfirmed(t) = <<pending.id, pending.phase, pending.checkpoint>>
    BY <1>5 DEF MatrixNext, RecordCuts
  <2>2. pending.id = t /\ pending.phase = "BootedUnconfirmed"
    BY <2>1 DEF Unconfirmed
  <2>3. pending \in Records /\ t \in used /\ history[t] # "Confirmed"
    BY <1>2, <2>2, TxAssumption DEF IndInv, SafetyInv, LayoutInv, TruthInv, HistoryInv
  <2>4. pending' = AgeBoots(pending) /\ history' = history
    BY <2>1 DEF PowerLoss, RestartInto
  <2>5. Doomed(pending')
    BY <2>2, <2>3, <2>4, AgedBoot, AgeingFacts DEF Doomed
  <2> QED BY <1>3, <2>3, <2>4, <2>5
<1> QED BY <1>4, <1>5

\* A restored system that lost power before verify_running_target confirmed it is
\* never reported as a success, however often the power fails and whatever the
\* recovery engine and the confirmation do afterwards.
THEOREM UnconfirmedAlwaysReverts == MatrixSpec => []UnconfirmedBootReverts
<1>1. MatrixInit => IndInv /\ TruthInv /\ CutInv
  BY IndInit, TruthInit DEF MatrixInit, CutInv
<1>2. IndInv /\ TruthInv /\ [MatrixNext]_<<vars, cuts>> => IndInv' /\ TruthInv'
  BY TruthNext DEF MatrixNext
<1>3. CutInv => UnconfirmedBootReverts
  BY DEF CutInv, UnconfirmedBootReverts, Unconfirmed, ReportedSuccess, Doomed
<1> QED BY <1>1, <1>2, <1>3, CutNext, PTL DEF MatrixSpec
=============================================================================
