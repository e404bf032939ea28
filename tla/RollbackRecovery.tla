-------------------------- MODULE RollbackRecovery --------------------------
(***************************************************************************)
(* The system rollback of the Disk Snapshots Manager: how the machine's    *)
(* @root subvolume is exchanged for a writable snapshot of a chosen        *)
(* deployment, across at least one reboot, and how the exchange is         *)
(* confirmed or undone.  Four programs share the work and never talk to    *)
(* each other except through durable state:                                *)
(*                                                                         *)
(*   helper     (rollback.rs)      writes the transaction, the GRUB entry  *)
(*                                 and the one-shot selector, or cancels;  *)
(*   GRUB       (boot.rs, 01_env)  turns the selector into a request on    *)
(*                                 the kernel command line;                *)
(*   initramfs  (recovery.rs, the  moves the root subvolumes, one rename   *)
(*               dracut hook)      at a time, with a checkpoint after each;*)
(*   confirm    (confirmation.rs)  decides in userspace, records history   *)
(*                                 and lineage, reclaims the old root.     *)
(*                                                                         *)
(* Power may fail between any two steps, and any command may fail.         *)
(***************************************************************************)
EXTENDS Naturals, FiniteSets

CONSTANTS
    Tx,                 \* rollback transaction ids; t also names t's target system
    Original,           \* the system installed before the first rollback
    None,               \* an absent subvolume, file, request or menu entry
    MaxApplyAttempts,   \* MAX_APPLY_ATTEMPTS of transaction.rs
    MaxDisruptions,     \* bound: power losses, failed commands, operator overrides
    BootInRoot,         \* /boot/grub lives inside @root (no separate /boot)
    FirstEntryDefault   \* GRUB_DEFAULT=0: 09_synos... puts its entry first

ASSUME TxAssumption == Original \notin Tx /\ None \notin Tx /\ None # Original
ASSUME AttemptsAssumption == MaxApplyAttempts \in Nat \ {0}
ASSUME DisruptionsAssumption == MaxDisruptions \in Nat
ASSUME LayoutAssumption == BootInRoot \in BOOLEAN /\ FirstEntryDefault \in BOOLEAN

VARIABLES
    disk,        \* the Btrfs top level as of the last committed transaction
    view,        \* the Btrfs top level the running kernel sees
    pending,     \* transactions/pending-rollback.json
    selector,    \* btrfs_snapshots_manager_next_entry in the ESP grubenv
    menu,        \* the recovery entry in each system's grub.cfg
    machine,     \* where the boot has got to
    requested,   \* synos.btrfs_snapshots_manager= on the kernel command line
    mark,        \* the checkpoint the initramfs engine records after its sync
    helper,      \* the D-Bus helper's schedule or cancel call
    confirm,     \* the userspace confirmation run
    used,        \* transaction ids ever created (UUIDs are never reused)
    cleanup,     \* cleanup-pending/<id>.json records
    stray,       \* cleanup-pending/.<id>.<uuid>.tmp files that a power loss left behind
    history,     \* rollback-history/<id>.json
    head,        \* current_head of the lineage, as the system it describes
    disruptions  \* how many disruptions are still to come

durable == <<disk, pending, selector, menu, used, cleanup, stray, history, head>>
volatile == <<view, machine, requested, mark, helper, confirm, disruptions>>
vars == <<durable, volatile>>

-----------------------------------------------------------------------------
(* Subvolumes of the Btrfs top level *)

System == {Original} \cup Tx

Root == <<"@root">>
Old(t) == <<"@root.snapshots-manager-old", t>>
New(t) == <<"@root.snapshots-manager-new", t>>
Slots == {Root} \cup {Old(t) : t \in Tx} \cup {New(t) : t \in Tx}

Layouts == [Slots -> System \cup {None}]

Exists(layout, slot) == layout[slot] # None
Place(layout, slot, system) == [layout EXCEPT ![slot] = system]
Delete(layout, slot) == [layout EXCEPT ![slot] = None]
Rename(layout, from, to) == [layout EXCEPT ![to] = layout[from], ![from] = None]

\* The four shapes that an exchange of t for the fallback system goes through.
Untouched(layout, t, fallback) ==
    layout[Root] = fallback /\ layout[Old(t)] = None /\ layout[New(t)] = None
Staged(layout, t, fallback) ==
    layout[Root] = fallback /\ layout[Old(t)] = None /\ layout[New(t)] = t
Protected(layout, t, fallback) ==
    layout[Root] = None /\ layout[Old(t)] = fallback /\ layout[New(t)] = t
Activated(layout, t, fallback) ==
    layout[Root] = t /\ layout[Old(t)] = fallback /\ layout[New(t)] = None

-----------------------------------------------------------------------------
(* The transaction record *)

Phases == {"Preparing", "Armed", "Applying", "BootedUnconfirmed", "Reverting",
           "Reverted", "Confirmed", "Failed"}
Terminal == {"Reverted", "Confirmed", "Failed"}

CanTransitionTo(phase, next) ==
    <<phase, next>> \in ({"Preparing"} \X {"Armed", "Failed"})
                   \cup ({"Armed"} \X {"Applying", "Failed"})
                   \cup ({"Applying"} \X {"BootedUnconfirmed", "Reverting", "Failed"})
                   \cup ({"BootedUnconfirmed"} \X {"Confirmed", "Reverting"})
                   \cup ({"Reverting"} \X {"Reverted", "Failed"})

ApplyMarks == {"writable-target-created", "current-root-protected",
               "target-root-activated"}
RevertMarks == {"restored-root-moved-aside", "fallback-root-activated",
                "discarded-root-deleted"}
Checkpoints == ApplyMarks \cup RevertMarks \cup
               {"none", "initramfs-entered", "validating", "apply-started",
                "booted-unconfirmed-recorded", "revert-started",
                "reverted-recorded"}

\* The code only ever compares a recorded boot id with the current one.
BootIds == {"none", "this", "earlier"}

Records == [id : Tx, phase : Phases, fallback : System, checkpoint : Checkpoints,
            initramfsAttempts : 0..MaxApplyAttempts, initramfsBoot : BootIds,
            applyAttempts : 0..MaxApplyAttempts, applyingBoot : BootIds]

NoTransaction == [id |-> None, phase |-> "none", fallback |-> None,
                  checkpoint |-> "none", initramfsAttempts |-> 0,
                  initramfsBoot |-> "none", applyAttempts |-> 0,
                  applyingBoot |-> "none"]

NewTransaction(t, fallback) ==
    [id |-> t, phase |-> "Preparing", fallback |-> fallback,
     checkpoint |-> "none", initramfsAttempts |-> 0, initramfsBoot |-> "none",
     applyAttempts |-> 0, applyingBoot |-> "none"]

IsPending == pending.id # None

RecordInitramfsEntry(p) ==
    [p EXCEPT !.initramfsAttempts = @ + 1, !.initramfsBoot = "this",
              !.checkpoint = "initramfs-entered"]
RecordCheckpoint(p, checkpoint) == [p EXCEPT !.checkpoint = checkpoint]
Transition(p, next) == [p EXCEPT !.phase = next]
BeginApply(p) ==
    [p EXCEPT !.phase = "Applying", !.applyAttempts = @ + 1,
              !.applyingBoot = "this", !.checkpoint = "apply-started"]
RecordFailure(p) == [p EXCEPT !.phase = "Failed"]

\* A boot id recorded in this boot belongs to an earlier one after a restart.
Aged(boot) == IF boot = "this" THEN "earlier" ELSE boot
AgeBoots(p) == [p EXCEPT !.initramfsBoot = Aged(@), !.applyingBoot = Aged(@)]

-----------------------------------------------------------------------------
(* Boot menu *)

\* The system whose grub.cfg GRUB reads: the one at @root, or (with a separate
\* /boot, shared by all systems and written once) a fixed one.
MenuOwner == IF BootInRoot THEN view[Root] ELSE Original

\* update-grub: 09_synos_btrfs_snapshots_manager prints the recovery entry only
\* for a transaction that early boot has not begun.
RegenerateGrub ==
    menu' = [menu EXCEPT ![MenuOwner] =
                IF pending.phase \in {"Preparing", "Armed"} THEN pending.id ELSE None]

\* What GRUB boots unattended: the selected entry, or the first one when the
\* selector names no entry of this menu; without a selector, GRUB_DEFAULT.
DefaultEntry ==
    IF selector # None \/ FirstEntryDefault THEN menu[MenuOwner] ELSE None

HelperIdle == [at |-> "idle", tx |-> None]
ConfirmIdle == [at |-> "idle", tx |-> NoTransaction, todo |-> {}]

Disrupt == disruptions > 0 /\ disruptions' = disruptions - 1

-----------------------------------------------------------------------------
Init ==
    /\ view = [s \in Slots |-> IF s = Root THEN Original ELSE None]
    /\ disk = view
    /\ pending = NoTransaction
    /\ selector = None
    /\ menu = [s \in System |-> None]
    /\ machine = "user"
    /\ requested = None
    /\ mark = "none"
    /\ helper = HelperIdle
    /\ confirm = ConfirmIdle
    /\ used = {}
    /\ cleanup = {}
    /\ stray = {}
    /\ history = [t \in Tx |-> "none"]
    /\ head = Original
    /\ disruptions = MaxDisruptions

-----------------------------------------------------------------------------
(* GRUB *)

\* GRUB starts.  Without an @root there is no grub.cfg to read and GRUB stops at
\* its rescue prompt.  Otherwise the selector is consumed and saved as empty.
GrubStart ==
    /\ machine = "grub"
    /\ IF MenuOwner = None
       THEN machine' = "rescue" /\ UNCHANGED <<selector, requested>>
       ELSE /\ machine' = "menu"
            /\ requested' = DefaultEntry
            /\ selector' = None
    /\ UNCHANGED <<disk, view, pending, menu, mark, helper, confirm, used,
                   cleanup, stray, history, head, disruptions>>

\* An entry is executed: the recovery entry re-arms the selector before it loads
\* the kernel, so that the request survives a power loss in the initramfs.
BootEntry(entry) ==
    /\ machine = "menu"
    /\ machine' = "hook"
    /\ requested' = entry
    /\ selector' = IF entry # None THEN entry ELSE selector
    /\ UNCHANGED <<disk, view, pending, menu, mark, helper, confirm, used,
                   cleanup, stray, history, head>>

GrubBootDefault == BootEntry(requested) /\ UNCHANGED disruptions

\* The operator picks another entry of the menu by hand.
GrubPickOther ==
    /\ machine = "menu"
    /\ \E entry \in {None, menu[MenuOwner]} \ {requested} : BootEntry(entry)
    /\ Disrupt

-----------------------------------------------------------------------------
(* The dracut hook and the recovery engine it runs before @root is mounted *)

\* The hook is over.  With no @root to mount dracut drops to its emergency shell.
LeaveInitramfs ==
    /\ machine' = IF Exists(view, Root) THEN "user" ELSE "halted"
    /\ mark' = "none"

EngineUnchanged ==
    UNCHANGED <<selector, menu, requested, helper, confirm, used, cleanup,
                stray, history, head>>

\* Without a pending transaction the hook returns at once; otherwise it stages
\* the confirmation engine and runs the recovery engine.
HookStart ==
    /\ machine = "hook"
    /\ IF IsPending THEN machine' = "engine" /\ UNCHANGED mark ELSE LeaveInitramfs
    /\ EngineUnchanged /\ UNCHANGED <<disk, view, pending, disruptions>>

\* fail_or_skip: a requested recovery dies (also when its confirmation engine cannot
\* be staged), any other boot only warns and goes on without the engine.
HookFails ==
    /\ machine = "hook"
    /\ Disrupt
    /\ IF requested # None THEN machine' = "halted" /\ UNCHANGED mark ELSE LeaveInitramfs
    /\ EngineUnchanged /\ UNCHANGED <<disk, view, pending>>

\* A broken premount hook never invokes the engine, whatever was requested.
HookBypassed ==
    /\ machine = "hook"
    /\ Disrupt
    /\ LeaveInitramfs
    /\ EngineUnchanged /\ UNCHANGED <<disk, view, pending>>

RequestedThis == requested = pending.id

\* Mutant: a target that was booted is left alone in later boots as well.
NoActionOnceBooted ==
    \/ pending.phase \in {"Preparing"} \cup Terminal
    \/ /\ pending.phase = "Armed"
       /\ ~RequestedThis
       /\ pending.initramfsAttempts = 0 \/ pending.initramfsBoot = "this"
    \/ pending.phase = "BootedUnconfirmed"

\* Phases in which early boot has nothing to do.
NoActionInBoot ==
    \/ pending.phase \in {"Preparing"} \cup Terminal
    \/ /\ pending.phase = "Armed"
       /\ ~RequestedThis
       /\ pending.initramfsAttempts = 0 \/ pending.initramfsBoot = "this"
    \/ pending.phase = "BootedUnconfirmed" /\ pending.applyingBoot = "this"

\* An armed transaction whose requested boot was tried before and went nowhere,
\* or was tried too often, fails while the root is still untouched.
GivesUpArmed ==
    /\ pending.phase = "Armed"
    /\ \/ ~RequestedThis /\ pending.initramfsAttempts > 0
                         /\ pending.initramfsBoot # "this"
       \/ RequestedThis /\ pending.initramfsAttempts >= MaxApplyAttempts

\* Mutant: the attempt limits are not consulted.
EntersApplyUnlimited ==
    RequestedThis /\ pending.phase \in {"Armed", "Applying"}

EntersApply ==
    /\ RequestedThis
    /\ \/ /\ pending.phase = "Armed"
          /\ pending.initramfsAttempts < MaxApplyAttempts
       \/ /\ pending.phase = "Applying"
          /\ pending.applyAttempts < MaxApplyAttempts
          /\ pending.initramfsAttempts < MaxApplyAttempts

StartsRevert ==
    \/ pending.phase = "Applying" /\ ~EntersApply
    \/ pending.phase = "BootedUnconfirmed" /\ pending.applyingBoot # "this"

\* RecoveryEngine::execute_with_observer, up to its first durable write.
ExecuteNoAction ==
    /\ machine = "engine"
    /\ NoActionInBoot
    /\ LeaveInitramfs
    /\ EngineUnchanged /\ UNCHANGED <<disk, view, pending, disruptions>>

ExecuteFailSafe ==
    /\ machine = "engine"
    /\ GivesUpArmed
    /\ pending' = RecordFailure(pending)
    /\ LeaveInitramfs
    /\ EngineUnchanged /\ UNCHANGED <<disk, view, disruptions>>

ExecuteEnter ==
    /\ machine = "engine"
    /\ EntersApply
    /\ pending' = RecordInitramfsEntry(pending)
    /\ machine' = "entered"
    /\ EngineUnchanged /\ UNCHANGED <<disk, view, mark, disruptions>>

ExecuteRevert ==
    /\ machine = "engine"
    /\ StartsRevert
    /\ pending' = RecordCheckpoint(Transition(pending, "Reverting"), "revert-started")
    /\ machine' = "revert"
    /\ EngineUnchanged /\ UNCHANGED <<disk, view, mark, disruptions>>

ExecuteResumeRevert ==
    /\ machine = "engine"
    /\ pending.phase = "Reverting"
    /\ machine' = "revert"
    /\ EngineUnchanged /\ UNCHANGED <<disk, view, pending, mark, disruptions>>

RecordValidating ==
    /\ machine = "entered"
    /\ pending' = RecordCheckpoint(pending, "validating")
    /\ machine' = "validate"
    /\ EngineUnchanged /\ UNCHANGED <<disk, view, mark, disruptions>>

\* validate_deployments succeeds and begin_apply is committed.
ValidateAndBegin ==
    /\ machine = "validate"
    /\ pending' = BeginApply(pending)
    /\ machine' = "apply"
    /\ EngineUnchanged /\ UNCHANGED <<disk, view, mark, disruptions>>

\* A damaged target fails an armed transaction, and leaves an interrupted one as
\* it is: the next boot decides.
ValidationFails ==
    /\ machine = "validate"
    /\ Disrupt
    /\ pending' = IF pending.phase = "Armed" THEN RecordFailure(pending) ELSE pending
    /\ LeaveInitramfs
    /\ EngineUnchanged /\ UNCHANGED <<disk, view>>

\* One turn of the loop in RecoveryEngine::apply, up to its Btrfs command.
ApplyStep ==
    LET t == pending.id
        root == Exists(view, Root)
        old == Exists(view, Old(t))
        new == Exists(view, New(t)) IN
    /\ machine = "apply"
    /\ \/ root /\ ~old /\ ~new /\ view' = Place(view, New(t), t)
                               /\ mark' = "writable-target-created"
       \/ root /\ ~old /\ new  /\ view' = Rename(view, Root, Old(t))
                               /\ mark' = "current-root-protected"
       \/ ~root /\ old /\ new  /\ view' = Rename(view, New(t), Root)
                               /\ mark' = "target-root-activated"
    /\ machine' = "sync"
    /\ EngineUnchanged /\ UNCHANGED <<disk, pending, disruptions>>

\* The target is at @root and the previous system is protected: apply is over.
ApplyDone ==
    /\ machine = "apply"
    /\ Exists(view, Root) /\ Exists(view, Old(pending.id)) /\ ~Exists(view, New(pending.id))
    /\ pending' = RecordCheckpoint(Transition(pending, "BootedUnconfirmed"),
                                   "booted-unconfirmed-recorded")
    /\ LeaveInitramfs
    /\ EngineUnchanged /\ UNCHANGED <<disk, view, disruptions>>

\* Mutant: the restored root is deleted in place instead of moved aside.
RevertStepInPlace ==
    LET t == pending.id
        root == Exists(view, Root)
        old == Exists(view, Old(t))
        new == Exists(view, New(t)) IN
    /\ machine = "revert"
    /\ \/ root /\ ~old /\ new /\ view' = Delete(view, New(t))
                              /\ mark' = "discarded-root-deleted"
       \/ ~root /\ old        /\ view' = Rename(view, Old(t), Root)
                              /\ mark' = "fallback-root-activated"
       \/ root /\ old /\ ~new /\ view' = Delete(view, Root)
                              /\ mark' = "restored-root-moved-aside"
    /\ machine' = "sync"
    /\ EngineUnchanged /\ UNCHANGED <<disk, pending, disruptions>>

\* One turn of the loop in RecoveryEngine::revert, up to its Btrfs command.
RevertStep ==
    LET t == pending.id
        root == Exists(view, Root)
        old == Exists(view, Old(t))
        new == Exists(view, New(t)) IN
    /\ machine = "revert"
    /\ \/ root /\ ~old /\ new /\ view' = Delete(view, New(t))
                              /\ mark' = "discarded-root-deleted"
       \/ ~root /\ old        /\ view' = Rename(view, Old(t), Root)
                              /\ mark' = "fallback-root-activated"
       \/ root /\ old /\ ~new /\ view' = Rename(view, Root, New(t))
                              /\ mark' = "restored-root-moved-aside"
    /\ machine' = "sync"
    /\ EngineUnchanged /\ UNCHANGED <<disk, pending, disruptions>>

RevertDone ==
    /\ machine = "revert"
    /\ Exists(view, Root) /\ ~Exists(view, Old(pending.id)) /\ ~Exists(view, New(pending.id))
    /\ pending' = RecordCheckpoint(Transition(pending, "Reverted"), "reverted-recorded")
    /\ LeaveInitramfs
    /\ EngineUnchanged /\ UNCHANGED <<disk, view, disruptions>>

\* Mutant: the checkpoint is recorded without a sync.
FilesystemSyncSkipped ==
    /\ machine = "sync"
    /\ machine' = "mark"
    /\ EngineUnchanged /\ UNCHANGED <<disk, view, pending, mark, disruptions>>

\* 'btrfs filesystem sync' makes the preceding command durable.
FilesystemSync ==
    /\ machine = "sync"
    /\ disk' = view
    /\ machine' = "mark"
    /\ EngineUnchanged /\ UNCHANGED <<view, pending, mark, disruptions>>

\* persist_checkpoint, then the next turn of the loop.
PersistCheckpoint ==
    /\ machine = "mark"
    /\ pending' = RecordCheckpoint(pending, mark)
    /\ machine' = IF pending.phase = "Applying" THEN "apply" ELSE "revert"
    /\ mark' = "none"
    /\ EngineUnchanged /\ UNCHANGED <<disk, view, disruptions>>

InEngine == {"engine", "entered", "validate", "apply", "revert", "sync", "mark"}

\* A command or a write fails: the engine exits with an error, the hook warns, and
\* the boot goes on if there is an @root to go on with.
EngineFails ==
    /\ machine \in InEngine
    /\ Disrupt
    /\ LeaveInitramfs
    /\ EngineUnchanged /\ UNCHANGED <<disk, view, pending>>

-----------------------------------------------------------------------------
(* The D-Bus helper: RollbackCoordinator::schedule and ::cancel *)

HelperAt(step) == machine = "user" /\ helper.at = step
HelperGoto(step) == helper' = [helper EXCEPT !.at = step]
HelperDone == helper' = HelperIdle
HelperUnchanged ==
    UNCHANGED <<disk, view, machine, requested, mark, confirm, cleanup, stray,
                history, head>>

\* The checks, the recovery boot artifacts and the fallback deployment.
ScheduleStart(t) ==
    /\ HelperAt("idle")
    /\ ~IsPending
    /\ t \notin used
    /\ helper' = [at |-> "create", tx |-> t]
    /\ HelperUnchanged /\ UNCHANGED <<pending, selector, menu, used, disruptions>>

\* create_transaction: refused while a transaction is pending.
ScheduleCreate ==
    /\ HelperAt("create")
    /\ ~IsPending
    /\ pending' = NewTransaction(helper.tx, view[Root])
    /\ used' = used \cup {helper.tx}
    /\ HelperGoto("configure")
    /\ HelperUnchanged /\ UNCHANGED <<selector, menu, disruptions>>

\* regenerate_grub and verify_grub_entry.
ScheduleConfigureBoot ==
    /\ HelperAt("configure")
    /\ RegenerateGrub
    /\ HelperGoto(IF pending.id = helper.tx THEN "arm" ELSE "undoClear")
    /\ HelperUnchanged /\ UNCHANGED <<pending, selector, used, disruptions>>

\* update_transaction writes the coordinator's own copy over the pending file,
\* and fails when there is no pending file to update.
ScheduleArm ==
    /\ HelperAt("arm")
    /\ IF IsPending
       THEN /\ pending' = Transition(NewTransaction(helper.tx, view[Root]), "Armed")
            /\ HelperGoto("select")
       ELSE UNCHANGED pending /\ HelperGoto("undoClear")
    /\ HelperUnchanged /\ UNCHANGED <<selector, menu, used, disruptions>>

\* arm_pending_once selects the entry of whatever armed transaction is pending.
ScheduleSelect ==
    /\ HelperAt("select")
    /\ IF pending.phase = "Armed"
       THEN /\ selector' = pending.id
            /\ IF pending.id = helper.tx THEN HelperDone ELSE HelperGoto("undoClear")
       ELSE UNCHANGED selector /\ HelperGoto("undoClear")
    /\ HelperUnchanged /\ UNCHANGED <<pending, menu, used, disruptions>>

\* Any other error of a schedule call leads to cleanup_failed_schedule.
ScheduleFails ==
    /\ \E step \in {"create", "configure", "arm", "select"} : HelperAt(step)
    /\ Disrupt
    /\ HelperGoto("undoClear")
    /\ HelperUnchanged /\ UNCHANGED <<pending, selector, menu, used>>

\* Mutant: any unfinished transaction can be cancelled.
CancelStartAnyPhase ==
    /\ HelperAt("idle")
    /\ IsPending /\ pending.phase \notin Terminal
    /\ helper' = [at |-> "cancelClear", tx |-> pending.id]
    /\ HelperUnchanged /\ UNCHANGED <<pending, selector, menu, used, disruptions>>

\* cancel is refused once early boot has begun.
CancelStart ==
    /\ HelperAt("idle")
    /\ pending.phase \in {"Preparing", "Armed"}
    /\ helper' = [at |-> "cancelClear", tx |-> pending.id]
    /\ HelperUnchanged /\ UNCHANGED <<pending, selector, menu, used, disruptions>>

\* clear_once, remove_transaction, regenerate_grub: the same three calls end a
\* cancellation and undo a failed schedule.
HelperClearOnce ==
    /\ HelperAt("cancelClear") \/ HelperAt("undoClear")
    /\ selector' = None
    /\ HelperGoto(IF helper.at = "cancelClear" THEN "cancelRemove" ELSE "undoRemove")
    /\ HelperUnchanged /\ UNCHANGED <<pending, menu, used, disruptions>>

HelperRemove ==
    /\ HelperAt("cancelRemove") \/ HelperAt("undoRemove")
    /\ pending' = NoTransaction
    /\ HelperGoto(IF helper.at = "cancelRemove" THEN "cancelGrub" ELSE "undoGrub")
    /\ HelperUnchanged /\ UNCHANGED <<selector, menu, used, disruptions>>

HelperRegenerateGrub ==
    /\ HelperAt("cancelGrub") \/ HelperAt("undoGrub")
    /\ RegenerateGrub
    /\ HelperDone
    /\ HelperUnchanged /\ UNCHANGED <<pending, selector, used, disruptions>>

\* A failing call ends a cancellation; cleanup_failed_schedule goes on with the
\* next of its three calls.
CancelFails ==
    /\ \E step \in {"cancelClear", "cancelRemove", "cancelGrub"} : HelperAt(step)
    /\ Disrupt
    /\ HelperDone
    /\ HelperUnchanged /\ UNCHANGED <<pending, selector, menu, used>>

UndoCallFails ==
    /\ Disrupt
    /\ \/ HelperAt("undoClear") /\ HelperGoto("undoRemove")
       \/ HelperAt("undoRemove") /\ HelperGoto("undoGrub")
       \/ HelperAt("undoGrub") /\ HelperDone
    /\ HelperUnchanged /\ UNCHANGED <<pending, selector, menu, used>>

-----------------------------------------------------------------------------
(* Userspace confirmation: ConfirmationEngine::reconcile *)

ConfirmAt(step) == machine = "user" /\ confirm.at = step
ConfirmGoto(step) == confirm' = [confirm EXCEPT !.at = step]
ConfirmUnchanged == UNCHANGED <<machine, requested, mark, helper, used, stray>>

FinishConfirmedOrReverted(p) == [at |-> "lineage", tx |-> p, todo |-> {}]
FinishFailed(p) == [at |-> "clear", tx |-> p, todo |-> {}]

\* Mutant: every requested transaction that is not confirmed is failed.
ReconcileNotEnteredAnyPhase ==
    /\ ConfirmAt("idle")
    /\ IsPending /\ pending.phase \notin Terminal /\ requested = pending.id
    /\ pending' = RecordFailure(pending)
    /\ confirm' = FinishFailed(RecordFailure(pending))
    /\ ConfirmUnchanged
    /\ UNCHANGED <<disk, view, selector, menu, cleanup, history, head, disruptions>>

\* A requested recovery reached userspace although the engine never entered.
ReconcileNotEntered ==
    /\ ConfirmAt("idle")
    /\ pending.phase = "Armed" /\ requested = pending.id
    /\ pending' = RecordFailure(pending)
    /\ confirm' = FinishFailed(RecordFailure(pending))
    /\ ConfirmUnchanged
    /\ UNCHANGED <<disk, view, selector, menu, cleanup, history, head, disruptions>>

\* Mutant: the boot that applied the target is not compared with this one.
ReconcileConfirmAnyBoot ==
    /\ ConfirmAt("idle")
    /\ pending.phase = "BootedUnconfirmed"
    /\ view[Root] = pending.id
    /\ pending' = Transition(pending, "Confirmed")
    /\ confirm' = FinishConfirmedOrReverted(Transition(pending, "Confirmed"))
    /\ ConfirmUnchanged
    /\ UNCHANGED <<disk, view, selector, menu, cleanup, history, head, disruptions>>

\* verify_running_target: this is the boot that applied the target, and the
\* mounted root is a snapshot of it.
ReconcileConfirm ==
    /\ ConfirmAt("idle")
    /\ pending.phase = "BootedUnconfirmed"
    /\ pending.applyingBoot = "this"
    /\ view[Root] = pending.id
    /\ pending' = Transition(pending, "Confirmed")
    /\ confirm' = FinishConfirmedOrReverted(Transition(pending, "Confirmed"))
    /\ ConfirmUnchanged
    /\ UNCHANGED <<disk, view, selector, menu, cleanup, history, head, disruptions>>

\* An earlier run, or the initramfs, has decided already.
ReconcileTerminal ==
    /\ ConfirmAt("idle")
    /\ pending.phase \in Terminal
    /\ confirm' = IF pending.phase = "Failed" THEN FinishFailed(pending)
                                              ELSE FinishConfirmedOrReverted(pending)
    /\ ConfirmUnchanged
    /\ UNCHANGED <<disk, view, pending, selector, menu, cleanup, history, head, disruptions>>

\* RootCleanupStore::list refuses a directory with any entry that is not a record,
\* and the pass over the records ends before it has begun.
CanListCleanups == stray = {}

ReconcileCleanups ==
    /\ ConfirmAt("idle")
    /\ ~IsPending /\ CanListCleanups /\ cleanup # {}
    /\ confirm' = [at |-> "retry", tx |-> NoTransaction, todo |-> cleanup]
    /\ ConfirmUnchanged
    /\ UNCHANGED <<disk, view, pending, selector, menu, cleanup, history, head, disruptions>>

\* record_lineage_activation moves the lineage head to the system that won.
RecordLineage ==
    /\ ConfirmAt("lineage")
    /\ head' = IF confirm.tx.phase = "Confirmed" THEN confirm.tx.id ELSE confirm.tx.fallback
    /\ ConfirmGoto(IF confirm.tx.phase = "Confirmed" THEN "schedule" ELSE "clear")
    /\ ConfirmUnchanged
    /\ UNCHANGED <<disk, view, pending, selector, menu, cleanup, history, disruptions>>

\* Mutant: the old root is deleted before the outcome is archived.
ScheduleOldRootCleanupAtOnce ==
    /\ ConfirmAt("schedule")
    /\ view' = Delete(view, Old(confirm.tx.id))
    /\ disk' = Delete(view, Old(confirm.tx.id))
    /\ ConfirmGoto("clear")
    /\ ConfirmUnchanged
    /\ UNCHANGED <<pending, selector, menu, cleanup, history, head, disruptions>>

ScheduleOldRootCleanup ==
    /\ ConfirmAt("schedule")
    /\ cleanup' = cleanup \cup {confirm.tx.id}
    /\ ConfirmGoto("clear")
    /\ ConfirmUnchanged
    /\ UNCHANGED <<disk, view, pending, selector, menu, history, head, disruptions>>

ConfirmClearOnce ==
    /\ ConfirmAt("clear")
    /\ selector' = None
    /\ ConfirmGoto("archive")
    /\ ConfirmUnchanged
    /\ UNCHANGED <<disk, view, pending, menu, cleanup, history, head, disruptions>>

ArchiveTransaction ==
    /\ ConfirmAt("archive")
    /\ history' = [history EXCEPT ![confirm.tx.id] = confirm.tx.phase]
    /\ ConfirmGoto("remove")
    /\ ConfirmUnchanged
    /\ UNCHANGED <<disk, view, pending, selector, menu, cleanup, head, disruptions>>

\* remove() unlinks the pending file, whichever transaction it holds.
ConfirmRemove ==
    /\ ConfirmAt("remove")
    /\ pending' = NoTransaction
    /\ ConfirmGoto("grub")
    /\ ConfirmUnchanged
    /\ UNCHANGED <<disk, view, selector, menu, cleanup, history, head, disruptions>>

ConfirmRegenerateGrub ==
    /\ ConfirmAt("grub")
    /\ RegenerateGrub
    /\ confirm' = IF confirm.tx.phase = "Confirmed" /\ CanListCleanups
                  THEN [at |-> "retry", tx |-> confirm.tx, todo |-> cleanup]
                  ELSE ConfirmIdle
    /\ ConfirmUnchanged
    /\ UNCHANGED <<disk, view, pending, selector, cleanup, history, head, disruptions>>

\* cleanup_old_root_at: 'btrfs subvolume delete --commit-after'.
DeleteOldRoot(t) ==
    /\ ConfirmAt("retry") /\ t \in confirm.todo
    /\ Exists(view, Old(t))
    /\ view' = Delete(view, Old(t))
    /\ disk' = Delete(view, Old(t))
    /\ ConfirmUnchanged
    /\ UNCHANGED <<pending, selector, menu, confirm, cleanup, history, head, disruptions>>

\* The old root is gone (just now, or before a crash): its record goes too.
CompleteOldRootCleanup(t) ==
    /\ ConfirmAt("retry") /\ t \in confirm.todo
    /\ ~Exists(view, Old(t))
    /\ cleanup' = cleanup \ {t}
    /\ confirm' = [confirm EXCEPT !.todo = @ \ {t}]
    /\ ConfirmUnchanged
    /\ UNCHANGED <<disk, view, pending, selector, menu, history, head, disruptions>>

\* cleanup_old_root is blocked or fails (before or after it deleted the old root):
\* the record is updated and stays for a later pass.
DeferOldRootCleanup(t) ==
    /\ ConfirmAt("retry") /\ t \in confirm.todo
    /\ Disrupt
    /\ confirm' = [confirm EXCEPT !.todo = @ \ {t}]
    /\ ConfirmUnchanged
    /\ UNCHANGED <<disk, view, pending, selector, menu, cleanup, history, head>>

CleanupPassDone ==
    /\ ConfirmAt("retry") /\ confirm.todo = {}
    /\ confirm' = ConfirmIdle
    /\ ConfirmUnchanged
    /\ UNCHANGED <<disk, view, pending, selector, menu, cleanup, history, head, disruptions>>

\* Any call fails: the run ends with an error and a later run starts over.
ConfirmFails ==
    /\ machine = "user" /\ confirm.at # "idle"
    /\ Disrupt
    /\ confirm' = ConfirmIdle
    /\ ConfirmUnchanged
    /\ UNCHANGED <<disk, view, pending, selector, menu, cleanup, history, head>>

-----------------------------------------------------------------------------
(* Restarts *)

RestartInto(layout) ==
    /\ machine' = "grub"
    /\ disk' = layout
    /\ view' = layout
    /\ pending' = AgeBoots(pending)
    /\ requested' = None
    /\ mark' = "none"
    /\ helper' = HelperIdle
    /\ confirm' = ConfirmIdle
    /\ UNCHANGED <<selector, menu, used, cleanup, history, head>>

\* An orderly restart stops no call half way and commits the filesystem.
Reboot ==
    /\ machine = "user" /\ helper.at = "idle" /\ confirm.at = "idle"
    /\ RestartInto(view)
    /\ UNCHANGED <<stray, disruptions>>

\* Someone power-cycles a machine that stopped by itself.
PowerCycle ==
    /\ machine \in {"halted", "rescue"}
    /\ RestartInto(view) \/ RestartInto(disk)
    /\ UNCHANGED <<stray, disruptions>>

\* RootCleanupStore::write_atomic is under way for t's record: a new record, or the
\* update of a deferred one, goes to a temporary file that is renamed at the end.
WritesCleanupRecord(t) ==
    \/ ConfirmAt("schedule") /\ t = confirm.tx.id /\ t \notin cleanup
    \/ ConfirmAt("retry") /\ t \in confirm.todo

\* Power fails anywhere; what was not synchronized may or may not have reached
\* the disk, and a temporary file may be left over.
PowerLoss ==
    /\ machine \notin {"grub", "halted", "rescue"}
    /\ RestartInto(view) \/ RestartInto(disk)
    /\ \/ UNCHANGED stray
       \/ \E t \in Tx : WritesCleanupRecord(t) /\ stray' = stray \cup {t}
    /\ Disrupt

-----------------------------------------------------------------------------
Grub == GrubStart \/ GrubBootDefault \/ GrubPickOther

Engine ==
    \/ HookStart \/ HookFails \/ HookBypassed
    \/ ExecuteNoAction \/ ExecuteFailSafe \/ ExecuteEnter \/ ExecuteRevert
    \/ ExecuteResumeRevert \/ RecordValidating \/ ValidateAndBegin \/ ValidationFails
    \/ ApplyStep \/ ApplyDone \/ RevertStep \/ RevertDone
    \/ FilesystemSync \/ PersistCheckpoint \/ EngineFails

Helper ==
    \/ \E t \in Tx : ScheduleStart(t)
    \/ ScheduleCreate \/ ScheduleConfigureBoot \/ ScheduleArm \/ ScheduleSelect
    \/ ScheduleFails \/ CancelStart \/ CancelFails \/ UndoCallFails
    \/ HelperClearOnce \/ HelperRemove \/ HelperRegenerateGrub

Confirmation ==
    \/ ReconcileNotEntered \/ ReconcileConfirm \/ ReconcileTerminal \/ ReconcileCleanups
    \/ RecordLineage \/ ScheduleOldRootCleanup \/ ConfirmClearOnce
    \/ ArchiveTransaction \/ ConfirmRemove \/ ConfirmRegenerateGrub
    \/ \E t \in Tx : \/ DeleteOldRoot(t)
                     \/ CompleteOldRootCleanup(t)
                     \/ DeferOldRootCleanup(t)
    \/ CleanupPassDone \/ ConfirmFails

Restart == Reboot \/ PowerCycle \/ PowerLoss

Next == Grub \/ Engine \/ Helper \/ Confirmation \/ Restart

Spec == Init /\ [][Next]_vars

-----------------------------------------------------------------------------
HelperSteps == {"idle", "create", "configure", "arm", "select", "undoClear",
                "undoRemove", "undoGrub", "cancelClear", "cancelRemove", "cancelGrub"}
ConfirmSteps == {"idle", "lineage", "schedule", "clear", "archive", "remove",
                 "grub", "retry"}

\* Every variable holds a value the code can store.  In particular the attempt
\* counters of the record never exceed MAX_APPLY_ATTEMPTS, which validate()
\* would otherwise refuse to load.
TypeOK ==
    /\ disk \in Layouts /\ view \in Layouts
    /\ pending \in Records \cup {NoTransaction}
    /\ selector \in Tx \cup {None} /\ requested \in Tx \cup {None}
    /\ menu \in [System -> Tx \cup {None}]
    /\ machine \in InEngine \cup {"grub", "menu", "hook", "user", "halted", "rescue"}
    /\ mark \in ApplyMarks \cup RevertMarks \cup {"none"}
    /\ helper \in [at : HelperSteps, tx : Tx \cup {None}]
    /\ confirm \in [at : ConfirmSteps, tx : Records \cup {NoTransaction}, todo : SUBSET Tx]
    /\ used \subseteq Tx /\ cleanup \subseteq Tx /\ stray \subseteq Tx
    /\ history \in [Tx -> Terminal \cup {"none"}]
    /\ head \in System
    /\ disruptions \in 0..MaxDisruptions

-----------------------------------------------------------------------------
(* Safety *)

\* No power loss or failed command loses the system a rollback started from.
\* On disk and in memory @root is missing only while the engine is between two
\* renames, and until the target is confirmed the protected system is either at
\* @root or at its old-root name.
FallbackProtected ==
    \A layout \in {disk, view} :
        /\ ~Exists(layout, Root) => pending.phase \in {"Applying", "Reverting"}
        /\ pending.phase \in Phases \ {"Confirmed"} =>
               pending.fallback \in {layout[Root], layout[Old(pending.id)]}

\* How far an exchange has come: 0 untouched, 1 staged, 2 protected, 3 activated.
Progress(layout, t) ==
    IF Exists(layout, Old(t)) THEN IF Exists(layout, New(t)) THEN 2 ELSE 3
                              ELSE IF Exists(layout, New(t)) THEN 1 ELSE 0

\* A checkpoint in the record never claims a subvolume operation that a power
\* loss could still take back: the sync comes before the record.
CheckpointIsDurable ==
    LET done == Progress(disk, pending.id) IN
    /\ pending.checkpoint = "writable-target-created" => done >= 1
    /\ pending.checkpoint = "current-root-protected" => done >= 2
    /\ pending.checkpoint \in {"target-root-activated", "booted-unconfirmed-recorded"}
           => done >= 3
    /\ pending.checkpoint = "restored-root-moved-aside" => done <= 2
    /\ pending.checkpoint = "fallback-root-activated" => done <= 1
    /\ pending.checkpoint \in {"discarded-root-deleted", "reverted-recorded"}
           => done = 0

\* Whatever interrupted it before, the engine always finds the top level in a
\* shape that apply and revert handle: unsafe_state is never reported.
EngineNeverUnsafe ==
    machine \in {"apply", "revert"} =>
        \/ Untouched(view, pending.id, pending.fallback)
        \/ Staged(view, pending.id, pending.fallback)
        \/ Protected(view, pending.id, pending.fallback)
        \/ Activated(view, pending.id, pending.fallback)

\* Once no transaction is pending, no staging root is left, and an old root is
\* left only under a cleanup record that will reclaim it.
NoOrphanRoots ==
    ~IsPending => \A layout \in {disk, view}, t \in Tx :
        /\ ~Exists(layout, New(t))
        /\ Exists(layout, Old(t)) => t \in cleanup

\* Once no transaction is pending, the lineage head describes the system that is
\* really at @root, on disk too.
HeadMatchesRoot ==
    ~IsPending => head = disk[Root] /\ head = view[Root]

\* What the engine, the confirmation and the cleanup wrote down is true of the
\* disk, whichever step of theirs was interrupted or repeated.
RecordsTellTruth == CheckpointIsDurable /\ NoOrphanRoots /\ HeadMatchesRoot

\* The record moves only along can_transition_to.
PhasesFollowTransitions ==
    [][pending'.id = pending.id /\ pending'.phase # pending.phase
           => CanTransitionTo(pending.phase, pending'.phase)]_vars

\* The protected old root leaves its name only by becoming @root again, or after
\* the rollback that replaced it is archived as confirmed.
OldRootKept ==
    \A t \in Tx : Exists(disk, Old(t)) /\ ~Exists(disk', Old(t))
        => disk'[Root] = disk[Old(t)] \/ history[t] = "Confirmed"

\* A rollback that exchanged roots leaves the pending slot only with its outcome
\* in rollback-history, and the archived outcome never changes.
OutcomeArchived ==
    /\ pending.phase \in {"Confirmed", "Reverted"} /\ pending'.id # pending.id
           => history[pending.id] = pending.phase
    /\ \A t \in Tx : history[t] # "none" => history'[t] = history[t]

\* What a rollback replaced is kept until nobody needs it, and what became of the
\* rollback is kept for good.
OutcomesAreKept == [][OldRootKept /\ OutcomeArchived]_vars

-----------------------------------------------------------------------------
(* Liveness *)

GrubProgress == GrubStart \/ GrubBootDefault

EngineProgress ==
    \/ HookStart
    \/ ExecuteNoAction \/ ExecuteFailSafe \/ ExecuteEnter \/ ExecuteRevert
    \/ ExecuteResumeRevert \/ RecordValidating \/ ValidateAndBegin
    \/ ApplyStep \/ ApplyDone \/ RevertStep \/ RevertDone
    \/ FilesystemSync \/ PersistCheckpoint

HelperProgress ==
    \/ ScheduleCreate \/ ScheduleConfigureBoot \/ ScheduleArm \/ ScheduleSelect
    \/ HelperClearOnce \/ HelperRemove \/ HelperRegenerateGrub

ReconcileStart ==
    ReconcileNotEntered \/ ReconcileConfirm \/ ReconcileTerminal \/ ReconcileCleanups

ConfirmProgress ==
    \/ RecordLineage \/ ScheduleOldRootCleanup \/ ConfirmClearOnce
    \/ ArchiveTransaction \/ ConfirmRemove \/ ConfirmRegenerateGrub
    \/ \E t \in Tx : DeleteOldRoot(t) \/ CompleteOldRootCleanup(t)
    \/ CleanupPassDone

\* Programs that run make progress; the confirmation unit is started by every
\* boot, so it is not always outrun by the next restart; and a machine that has
\* nothing left to do is restarted some day.
Fairness ==
    /\ WF_vars(GrubProgress) /\ WF_vars(EngineProgress)
    /\ WF_vars(HelperProgress) /\ WF_vars(ConfirmProgress)
    /\ SF_vars(ReconcileStart)
    /\ WF_vars(Reboot) /\ WF_vars(PowerCycle)

FairSpec == Spec /\ Fairness

\* GRUB finds no grub.cfg: /boot is inside @root and power failed between the two
\* renames.  Nothing of the rollback runs again until somebody repairs the machine.
NeedsRepair == machine = "rescue"

\* A transaction whose recovery boot was entered once is resolved and leaves the
\* pending slot, however the following boots are disrupted, or the machine needs
\* repair.
EnteredTransactionResolves ==
    \A t \in Tx : (pending.id = t /\ pending.initramfsAttempts > 0)
                     ~> (pending.id # t \/ NeedsRepair)

\* An old root with a cleanup record is reclaimed in the end, provided that the
\* pending slot becomes free again and again (reconcile retries cleanups only when
\* nothing is pending, and a schedule call that power loss cut off leaves its
\* Preparing transaction there until somebody cancels it) and that no temporary
\* file is left in the directory of the records.
OldRootReclaimed ==
    []<>(~IsPending) /\ []CanListCleanups =>
        \A t \in Tx : (t \in cleanup) ~> (t \notin cleanup /\ ~Exists(disk, Old(t)))

=============================================================================
