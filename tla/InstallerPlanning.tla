-------------------------- MODULE InstallerPlanning --------------------------
(***************************************************************************)
(* From the disk page of the installer's window to the verified partition  *)
(* table: the person and the window (pages.py, frontend.py), the probes    *)
(* that run beside it, changes somebody else makes to the disks, and the   *)
(* storage step of the privileged executor (storage_steps.py).             *)
(*                                                                         *)
(*   disks  the disks as they are                                          *)
(*   volume the size of the filesystem inside each NTFS partition          *)
(*   env    firmware, architecture, firmware variables, health of the ESP  *)
(*   ui     the choices the pages share, and the page in front             *)
(*   ed     what the closures of the manual editor hold                    *)
(*   jobs   the probes that have not been delivered                        *)
(*   exec   the executor                                                   *)
(*   remaining  what is still to come: troubles, edits, returns            *)
(***************************************************************************)
EXTENDS StorageWizard

CONSTANTS
  Machines,     \* the initial states: [disks, env], and the bounds of what happens:
                \*   troubles (changes by others and failing tools), edits (of the
                \*   manual draft) and returns (rescans and steps back)
  Volumes,      \* what the NTFS tools report, by PARTUUID
  MaxBurst      \* edits between two refreshes of the editor

(* A disk as the kernel shows it: every partition has its slot, and the      *)
(* identity of an NTFS volume is its own.                                   *)
IsPartition(p) ==
  /\ DOMAIN p = {"num", "uuid", "start", "size", "type", "fs", "fsid", "mnt"}
  /\ p.num \in Nat \ {0} /\ p.start \in Nat /\ p.size \in Nat
IsDisk(disk) ==
  /\ DOMAIN disk = {"id", "path", "size", "table", "tableId", "parts", "nested"}
  /\ IsFiniteSet(disk.parts)
  /\ \A p \in disk.parts : IsPartition(p)
  /\ \A p, q \in disk.parts : p.num = q.num \/ (p.uuid = q.uuid /\ p.uuid \in DOMAIN Volumes) => p = q

ASSUME MachineAssumption ==
  /\ Target # Live
  /\ \A m \in Machines :
       /\ {Target, Live} \subseteq DOMAIN m.disks
       /\ \A d \in DOMAIN m.disks : IsDisk(m.disks[d])
       /\ \A d, e \in DOMAIN m.disks : m.disks[d].path = m.disks[e].path => d = e
  /\ \A u \in DOMAIN Volumes : Volumes[u].minimum \in Nat
  \* What the editor offers for the root: Btrfs, ext4, XFS and F2FS.
  /\ "ntfs" \notin Filesystems

VARIABLES disks, volume, env, ui, ed, jobs, exec, remaining

planningVars == <<disks, volume, env, ui, ed, jobs, exec, remaining>>

NoPlan == [mode |-> "none"]
Idle == [phase |-> "idle", plan |-> NoPlan, todo |-> <<>>, devices |-> {}, swapoff |-> {},
         snapshot |-> NoInventory, retry |-> FALSE]

NewEditor(fs) ==
  [flow |-> NoInventory, disk |-> NoInventory, draft |-> NoSelection, shown |-> NoSelection,
   fs |-> fs, open |-> FALSE, next |-> FALSE, refresh |-> FALSE, burst |-> 0,
   probe |-> NoSelection, dialog |-> NoSelection]

FreshChoices ==
  [page |-> "disk", via |-> "", pressed |-> "", list |-> NoInventory, selected |-> "", next |-> FALSE,
   strategy |-> "", mode |-> "erase", fs |-> "btrfs", swap |-> NoSwapChoice, bound |-> NoBinding,
   parts |-> FALSE, erasable |-> FALSE, draft |-> NoSelection, preview |-> NoSelection,
   dialog |-> NoPlan, refused |-> FALSE]

NtfsIn(disk) == {p \in disk.parts : p.fs = "ntfs"}

PlanningInit ==
  /\ \E m \in Machines :
       /\ disks = m.disks /\ env = m.env
       /\ remaining = [troubles |-> m.troubles, allowed |-> m.troubles, edits |-> m.edits, returns |-> m.returns]
  /\ volume = [u \in DOMAIN Volumes |->
                 LET here == {p \in NtfsIn(disks[Target]) : p.uuid = u}
                 IN IF here = {} THEN 0 ELSE (CHOOSE p \in here : TRUE).size]
  /\ ui = FreshChoices
  /\ ed = NewEditor("btrfs")
  /\ jobs = {[page |-> "disk", current |-> TRUE, result |-> NoInventory]}
  /\ exec = Idle

---------------------------------------------------------------------------
(* async_work.py: LatestBackgroundRequest.  Starting a request, and a page  *)
(* that is no longer shown, make every earlier request obsolete; an         *)
(* obsolete one is dropped when its worker ends.                            *)

Invalidated == {[j EXCEPT !.current = FALSE] : j \in jobs}
Started(page) == Invalidated \cup {[page |-> page, current |-> TRUE, result |-> NoInventory]}
Loading == \E j \in jobs : j.current

(* Deliver *)
Newest(job) == job.current

WorkerReads ==
  \E j \in jobs, parted \in BOOLEAN :
    /\ j.result = NoInventory
    /\ ~parted => remaining.troubles > 0
    /\ jobs' = (jobs \ {j}) \cup {[j EXCEPT !.result = Inspect(disks[Target], parted)]}
    /\ remaining' = IF parted THEN remaining ELSE [remaining EXCEPT !.troubles = @ - 1]
    /\ UNCHANGED <<disks, volume, env, ui, ed, exec>>

DropObsolete ==
  \E j \in jobs :
    /\ ~Newest(j)
    /\ jobs' = jobs \ {j}
    /\ UNCHANGED <<disks, volume, env, ui, ed, exec, remaining>>

---------------------------------------------------------------------------
(* The disk page *)

Return == remaining.returns > 0 /\ remaining' = [remaining EXCEPT !.returns = @ - 1]
OnPage(page) == ui.page = page /\ ui.dialog = NoPlan /\ exec.phase = "idle"

(* _populate_disks *)
DiskPage(choices) == [choices EXCEPT !.page = "disk", !.list = NoInventory, !.selected = "", !.next = FALSE]

(* _apply_workflow: the disk chosen before is chosen again if it is there. *)
DiskListed(choices, inv) ==
  LET same == choices.bound.id = inv.id /\ choices.bound.size = inv.size
  IN [(IF same THEN BindTarget(choices, inv) ELSE ClearTarget(choices)) EXCEPT
        !.list = inv, !.selected = IF same THEN Target ELSE "", !.next = same]

DeliverDisks ==
  \E j \in jobs :
    /\ j.page = "disk" /\ j.result # NoInventory /\ Newest(j)
    /\ jobs' = jobs \ {j}
    /\ ui' = DiskListed(ui, j.result)
    /\ UNCHANGED <<disks, volume, env, ed, exec, remaining>>

Rescan ==
  /\ OnPage("disk") /\ ~Loading
  /\ ui' = DiskPage(ui)
  /\ jobs' = Started("disk")
  /\ Return
  /\ UNCHANGED <<disks, volume, env, ed, exec>>

(* _on_disk_selected: the medium of the live session cannot be the target. *)
SelectDisk(disk) ==
  /\ OnPage("disk") /\ ui.list # NoInventory /\ ui.selected # disk
  /\ ui' = IF disk = Live THEN [ui EXCEPT !.selected = Live, !.next = FALSE]
           ELSE [BindTarget(ui, ui.list) EXCEPT !.selected = disk, !.next = TRUE]
  /\ UNCHANGED <<disks, volume, env, ed, jobs, exec, remaining>>

(* build_storage_strategy_page: the strategy of an earlier visit is pressed  *)
(* again; an empty disk that is large enough suggests one.                   *)
StrategyPage(choices) ==
  LET void == choices.strategy \in Strategies \ {"advanced"} /\ ~choices.erasable
      kept == IF void THEN [choices EXCEPT !.strategy = ""] ELSE choices
      pressed == IF kept.strategy # "" THEN kept.strategy
                 ELSE IF kept.erasable /\ ~kept.parts THEN "erase-btrfs" ELSE ""
      shown == [kept EXCEPT !.page = "strategy", !.pressed = pressed]
  IN IF pressed = "" THEN shown ELSE ApplyStrategy(shown, pressed)

NextFromDisk ==
  /\ OnPage("disk") /\ ui.next
  /\ ui' = [StrategyPage(ui) EXCEPT !.list = NoInventory, !.selected = "", !.next = FALSE]
  /\ jobs' = Invalidated
  /\ UNCHANGED <<disks, volume, env, ed, exec, remaining>>

---------------------------------------------------------------------------
(* The strategy page and the swap page *)

PressStrategy(strategy) ==
  /\ OnPage("strategy") /\ ui.pressed # strategy
  /\ strategy # "advanced" => ui.erasable
  /\ ui' = [ApplyStrategy(ui, strategy) EXCEPT !.pressed = strategy]
  /\ UNCHANGED <<disks, volume, env, ed, jobs, exec, remaining>>

(* The button that is pressed decides the page, the shared choices decide   *)
(* the plan.                                                                *)
StrategyOnNext(choices) == choices

NextFromStrategy ==
  /\ OnPage("strategy") /\ ui.pressed # ""
  /\ IF ui.pressed = "advanced"
     THEN /\ ui' = [StrategyOnNext(ui) EXCEPT !.page = "advanced", !.via = "advanced"]
          /\ ed' = NewEditor(StrategyOnNext(ui).fs)
          /\ jobs' = Started("advanced")
     ELSE /\ ui' = [ValidatedSwap(ui) EXCEPT !.page = "layout", !.via = "layout"]
          /\ UNCHANGED <<ed, jobs>>
  /\ UNCHANGED <<disks, volume, env, exec, remaining>>

Sizing == SwapSizing(Memory, ui.bound.size, EspMib)

ChooseSwap(swap) ==
  /\ OnPage("layout") /\ Sizing.ok /\ swap \in SwapChoices(Sizing) /\ swap # ui.swap
  /\ ui' = [ui EXCEPT !.swap = swap]
  /\ UNCHANGED <<disks, volume, env, ed, jobs, exec, remaining>>

NextFromLayout ==
  /\ OnPage("layout") /\ Sizing.ok
  /\ ui' = [ui EXCEPT !.page = "summary"]
  /\ UNCHANGED <<disks, volume, env, ed, jobs, exec, remaining>>

---------------------------------------------------------------------------
(* The manual editor *)

(* _apply_workflow.  When the topology is not the bound one only a label    *)
(* changes: the rows, the draft and the disk of the last visit stay.        *)
EditorLoaded(inv) ==
  LET changed == TargetChanged(ui, inv)
      stored  == ui.draft # NoSelection /\ ui.draft.binding = Binding(inv)
      draft   == IF stored THEN ui.draft ELSE FreshDraft(inv, ed.fs)
  IN /\ ui' = IF changed THEN BindTarget(ui, inv) ELSE [BindTarget(ui, inv) EXCEPT !.draft = draft]
     /\ ed' = IF changed THEN [ed EXCEPT !.flow = inv]
              ELSE [ed EXCEPT !.flow = inv, !.disk = inv, !.draft = draft, !.refresh = TRUE, !.burst = 0,
                      \* The rows of another topology are about to go.
                      !.shown = IF ed.disk = inv THEN @ ELSE NoSelection]

DeliverEditor ==
  \E j \in jobs :
    /\ j.page = "advanced" /\ j.result # NoInventory /\ Newest(j)
    /\ jobs' = jobs \ {j}
    /\ EditorLoaded(j.result)
    /\ UNCHANGED <<disks, volume, env, exec, remaining>>

(* _refresh.  When the layout is not valid, shared keeps whatever preview   *)
(* there is: an edit has already forgotten it.                              *)
Refresh ==
  /\ OnPage("advanced") /\ ed.refresh
  /\ LET valid == ManualPreviewable(ed.flow, env, ed.draft)
     IN /\ ui' = [ui EXCEPT !.fs = ed.draft.fs, !.preview = IF valid THEN ed.draft ELSE @]
        /\ ed' = [ed EXCEPT !.refresh = FALSE, !.burst = 0, !.shown = ed.draft, !.open = TRUE, !.next = valid]
  /\ UNCHANGED <<disks, volume, env, jobs, exec, remaining>>

\* Mutant: an edit leaves the preview of the draft before it.
StoredKeepsPreview(choices, draft) == [choices EXCEPT !.draft = draft]

(* _replace_draft: the stored draft is replaced, the preview forgotten.     *)
Stored(choices, draft) == [choices EXCEPT !.draft = draft, !.preview = NoSelection]

Editing == OnPage("advanced") /\ ed.disk # NoInventory /\ ed.shown # NoSelection
             /\ ed.dialog = NoSelection /\ ed.burst < MaxBurst

Edit(draft) ==
  /\ remaining.edits > 0
  /\ remaining' = [remaining EXCEPT !.edits = @ - 1]
  /\ ed' = [Replaced(ed, draft) EXCEPT !.burst = @ + 1]
  /\ ui' = Stored(ui, draft)
  /\ UNCHANGED <<disks, volume, env, jobs, exec>>

(* The rows show what the last refresh drew; they stay while a reload runs. *)
ToggleDelete(uuid) == Editing /\ ~ed.shown.reinit /\ Edit(Toggled(ed.draft, uuid))

ChooseEsp(uuid) ==
  /\ Editing /\ ed.open /\ uuid # ed.draft.esp
  /\ uuid # "" => /\ ~ed.shown.reinit /\ uuid \notin ed.shown.deleted
                  /\ LET p == PartOf(ed.disk, uuid) IN IsEfiCandidate(p) /\ p.fsid # ""
  /\ Edit(WithEsp(ed.draft, uuid))

RoleIn(draft, role) == \E i \in DOMAIN draft.new : draft.new[i].role = role

AddPartition(role) ==
  /\ Editing /\ ed.open /\ ~RoleIn(ed.draft, role)
  /\ \E r \in Requests(role, AvailableMib(ed.disk, ed.shown)) : Edit(WithRequest(ed.draft, r))

EditPartition(role) ==
  /\ Editing /\ RoleIn(ed.shown, role) /\ RoleIn(ed.draft, role)
  /\ \E r \in Requests(role, AvailableMib(ed.disk, WithoutRole(ed.draft, role))) :
       Edit(WithRequest(ed.draft, r))

RemovePartition(role) ==
  Editing /\ RoleIn(ed.shown, role) /\ RoleIn(ed.draft, role) /\ Edit(WithoutRole(ed.draft, role))

ToggleTable == Editing /\ ed.open /\ Edit(TableToggled(ed.draft))

ChooseFilesystem(fs) ==
  Editing /\ RoleIn(ed.shown, "root") /\ fs # ed.draft.fs /\ Edit([ed.draft EXCEPT !.fs = fs])

(* _begin_ntfs_resize *)
BeginResize(uuid) ==
  /\ Editing /\ ~ed.shown.reinit /\ uuid \notin ed.shown.deleted
  /\ PartOf(ed.disk, uuid).fs = "ntfs"
  /\ \A p \in ed.disk.parts : ~IsBitLocker(p)
  /\ ed' = [ed EXCEPT !.next = FALSE,
              !.probe = [binding |-> ed.disk.path, part |-> PartOf(ed.disk, uuid)]]
  /\ UNCHANGED <<disks, volume, env, ui, jobs, exec, remaining>>

(* The helper inspects whatever is at the path the editor was told. *)
AtPath(path, num) ==
  LET here == {d \in DOMAIN disks : disks[d].path = path}
  IN UNION {AtNumber(disks[d], num) : d \in here}

FinishResizeProbe ==
  /\ OnPage("advanced") /\ ed.probe # NoSelection
  /\ LET found == {InspectNtfs(p, Volumes[p.uuid], NoEnd) :
                     p \in {q \in AtPath(ed.probe.binding, ed.probe.part.num) : q.uuid \in DOMAIN Volumes}}
         safe == {i \in found : i.safe}
     IN ed' = [ed EXCEPT !.probe = NoSelection, !.refresh = TRUE,
                 !.dialog = IF safe = {} THEN NoSelection
                            ELSE [binding |-> ed.probe.part, range |-> CHOOSE i \in safe : TRUE]]
  /\ UNCHANGED <<disks, volume, env, ui, jobs, exec, remaining>>

(* The response of _show_resize_dialog *)
AnswerResize ==
  /\ OnPage("advanced") /\ ed.dialog # NoSelection
  /\ LET p == ed.dialog.binding
         range == ed.dialog.range
         closed == [ed EXCEPT !.dialog = NoSelection]
         OnDisk(draft) == [draft EXCEPT !.resized = {r \in @ : \E q \in ed.disk.parts : q.uuid = r.uuid}]
     IN \E draft \in {ed.draft, WithoutResize(ed.draft, p.uuid)}
                       \cup {OnDisk(WithResize(ed.draft, p, t)) : t \in {range.minimum \div MIB, range.maximum \div MIB}} :
          IF draft = ed.draft THEN ed' = closed /\ UNCHANGED <<ui, remaining>>
          ELSE /\ remaining.edits > 0
               /\ remaining' = [remaining EXCEPT !.edits = @ - 1]
               /\ ed' = Replaced(closed, draft) /\ ui' = Stored(ui, draft)
  /\ UNCHANGED <<disks, volume, env, jobs, exec>>

(* on_next: Next may still be lit after an edit, but then there is no preview. *)
NextFromAdvanced ==
  /\ OnPage("advanced") /\ ed.next /\ ed.dialog = NoSelection
  /\ ui.preview # NoSelection
  /\ ui' = [ui EXCEPT !.page = "summary"]
  /\ ed' = [ed EXCEPT !.refresh = FALSE, !.probe = NoSelection]
  /\ jobs' = Invalidated
  /\ UNCHANGED <<disks, volume, env, exec, remaining>>

EditorStep ==
  \/ DeliverEditor \/ Refresh \/ FinishResizeProbe \/ AnswerResize \/ NextFromAdvanced \/ ToggleTable
  \/ \E uuid \in {p.uuid : p \in disks[Target].parts} :
       ed.disk # NoInventory /\ uuid \in {p.uuid : p \in ed.disk.parts}
         /\ (ToggleDelete(uuid) \/ BeginResize(uuid))
  \/ \E uuid \in {p.uuid : p \in disks[Target].parts} \cup {""} :
       ed.disk # NoInventory /\ uuid \in {p.uuid : p \in ed.disk.parts} \cup {""} /\ ChooseEsp(uuid)
  \/ \E role \in {"efi-system", "root", "swap"} :
       AddPartition(role) \/ EditPartition(role) \/ RemovePartition(role)
  \/ \E fs \in Filesystems : ChooseFilesystem(fs)

---------------------------------------------------------------------------
(* The summary *)

(* on_install and _start_recheck *)
Install ==
  /\ OnPage("summary") /\ ~Loading
  /\ jobs' = Started("summary")
  /\ UNCHANGED <<disks, volume, env, ui, ed, exec, remaining>>

(* _apply_recheck: the plan is made from the disks as they are now. *)
DeliverPlanRecheck ==
  \E j \in jobs :
    /\ j.page = "summary" /\ j.result # NoInventory /\ Newest(j)
    /\ jobs' = jobs \ {j}
    /\ ui' = IF PlanAccepted(ui, j.result, env)
             THEN [ui EXCEPT !.dialog = CreatedPlan(ui, j.result, env)]
             ELSE [ui EXCEPT !.refused = TRUE]
    /\ UNCHANGED <<disks, volume, env, ed, exec, remaining>>

(* _confirmed.  The progress page has no way back: what the pages hold is    *)
(* not looked at again.                                                     *)
WindowDone == ui' = [FreshChoices EXCEPT !.page = "progress"] /\ ed' = NewEditor("btrfs") /\ jobs' = {}

Cancel ==
  /\ ui.dialog # NoPlan /\ exec.phase = "idle"
  /\ ui' = [ui EXCEPT !.dialog = NoPlan]
  /\ UNCHANGED <<disks, volume, env, ed, jobs, exec, remaining>>

ConfirmPlan ==
  /\ ui.dialog # NoPlan /\ exec.phase = "idle"
  /\ exec' = [exec EXCEPT !.phase = "confirmed", !.plan = ui.dialog]
  /\ WindowDone
  /\ UNCHANGED <<disks, volume, env, remaining>>

(* Back: the disk page and the editor probe again when they are shown, a    *)
(* page that was left is gone.                                              *)
Back ==
  /\ \/ /\ OnPage("strategy")
        /\ ui' = DiskPage(ui) /\ ed' = ed /\ jobs' = Started("disk")
     \/ /\ OnPage("layout")
        /\ ui' = [ui EXCEPT !.page = "strategy", !.via = ""] /\ UNCHANGED <<ed, jobs>>
     \/ /\ OnPage("advanced") /\ ed.dialog = NoSelection
        /\ ui' = [ui EXCEPT !.page = "strategy", !.via = ""]
        /\ ed' = NewEditor("btrfs") /\ jobs' = Invalidated
     \/ /\ OnPage("summary")
        /\ ui' = [ui EXCEPT !.page = ui.via, !.refused = FALSE]
        /\ IF ui.via = "advanced"
           THEN ed' = [ed EXCEPT !.open = FALSE, !.next = FALSE] /\ jobs' = Started("advanced")
           ELSE ed' = ed /\ jobs' = Invalidated
  /\ Return
  /\ UNCHANGED <<disks, volume, env, exec>>

(* guided_test_plan_cli.py: a plan for free space, made without the window. *)
GuidedTestPlan ==
  /\ ui = FreshChoices /\ exec.phase = "idle"
  /\ LET inv == Inspect(disks[Target], TRUE)
     IN \E extent \in inv.free, reused \in {""} \cup {p.uuid : p \in EspCandidates(inv)} :
          /\ GuidedPlannable(inv, env, extent, reused)
          /\ exec' = [exec EXCEPT !.phase = "confirmed", !.plan = GuidedPlan(inv, env, extent, reused)]
  /\ WindowDone
  /\ UNCHANGED <<disks, volume, env, remaining>>

---------------------------------------------------------------------------
(* Changes by others: another program mounts, deletes or formats a          *)
(* partition, or the kernel gives the disks each other's paths.  Only until  *)
(* the executor has looked: it does not look again.                          *)

Relocated == [disks EXCEPT ![Target].path = disks[Live].path, ![Live].path = disks[Target].path]

OtherChange ==
  /\ remaining.troubles > 0 /\ exec.phase \in {"idle", "confirmed"}
  /\ remaining' = [remaining EXCEPT !.troubles = @ - 1]
  /\ \/ \E p \in disks[Target].parts :
          \E after \in {{}, {[p EXCEPT !.mnt = "mounted"]}, {[p EXCEPT !.fs = "ext4", !.fsid = "other"]}} :
            disks' = [disks EXCEPT ![Target].parts = (@ \ {p}) \cup after]
     \/ disks' = Relocated
  /\ UNCHANGED <<volume, env, ui, ed, jobs, exec>>

---------------------------------------------------------------------------
(* The executor.  Everything is frozen in one preflight; then the commands  *)
(* run one after the other and the first failure ends the installation.     *)

ShrinkVolume(resize) ==
  [op |-> "ntfsresize", uuid |-> resize.uuid, path |-> resize.path, num |-> resize.num,
   original |-> resize.original, target |-> resize.target]
ShrinkPartition(resize) ==
  [op |-> "resizepart", uuid |-> resize.uuid, path |-> resize.path, num |-> resize.num,
   start |-> resize.start, target |-> resize.target, end |-> resize.start + resize.target]

\* Mutant: the partition first, then the filesystem.
ResizePartitionFirst(resize) == <<ShrinkPartition(resize), ShrinkVolume(resize)>>

(* _execute_ntfs_resizes: the filesystem first, then the partition *)
ResizeSteps(resize) == <<ShrinkVolume(resize), ShrinkPartition(resize)>>

\* Mutant: the filesystems are made before the table.
FormatsFirst(commands) ==
  <<[op |-> "swapoff"]>>
    \o FlattenSeq([i \in DOMAIN commands.resizes |-> ResizeSteps(commands.resizes[i])])
    \o commands.format \o commands.partition
    \o <<[op |-> "devices"], [op |-> "verify"]>>

(* PrepareStorageStep.execute and verify *)
StorageSteps(commands) ==
  <<[op |-> "swapoff"]>>
    \o FlattenSeq([i \in DOMAIN commands.resizes |-> ResizeSteps(commands.resizes[i])])
    \o commands.partition
    \o <<[op |-> "devices"]>>
    \o commands.format
    \o <<[op |-> "verify"]>>

(* verify_target_disk_environment, then PrepareStorageStep.preflight *)
Preflight ==
  /\ exec.phase = "confirmed"
  /\ LET inv == Inspect(disks[Target], TRUE)
         plan == Resolve(exec.plan, inv)
         compiled == Compile(plan, inv, env, Volumes)
     IN exec' = IF TargetVerified(plan, inv, Memory) /\ compiled.ok /\ SnapshotComplete(plan, inv)
                THEN [exec EXCEPT !.phase = "running", !.todo = StorageSteps(compiled.commands),
                        !.devices = compiled.commands.devices, !.swapoff = compiled.commands.swapoff,
                        !.snapshot = Snapshot(plan, inv), !.retry = exec.plan.mode # "manual"]
                ELSE [exec EXCEPT !.phase = "refused"]
  /\ UNCHANGED <<disks, volume, env, ui, ed, jobs, remaining>>

(* deactivate_target_swap: at most one of the candidates that are active.  *)
SwapCandidates ==
  {d.dev : d \in {e \in exec.devices : e.name = "swap"}} \cup exec.swapoff
    \cup (IF exec.plan.mode = "erase"
          THEN {<<disks[Target].path, IF exec.plan.arch = "amd64" THEN 3 ELSE 2>>} ELSE {})

ActiveSwaps(d) == {p \in disks[d].parts : p.mnt = "[SWAP]" /\ <<disks[d].path, p.num>> \in SwapCandidates}

WithoutSwap ==
  LET some == {d \in DOMAIN disks : ActiveSwaps(d) # {}}
  IN IF some = {} THEN {disks}
     ELSE UNION {{[disks EXCEPT ![d].parts = (@ \ {p}) \cup {[p EXCEPT !.mnt = ""]}] : p \in ActiveSwaps(d)} :
                   d \in some}

Step == exec.todo[1]
Running(op) == exec.phase = "running" /\ Step.op = op
NextCommand == exec' = [exec EXCEPT !.todo = Tail(@)]
Abort == exec' = [exec EXCEPT !.phase = "failed"]
IsTableCommand == exec.phase = "running" /\ Step.op \in {"mklabel", "mkpart", "flag", "rm"}

(* The disk a command reaches: the one that has its path now. *)
PathOf(command) == IF command.op = "mkfs" THEN command.dev[1] ELSE command.path
DiskAt(path) == CHOOSE d \in DOMAIN disks : disks[d].path = path
After(command) == [disks EXCEPT ![DiskAt(PathOf(command))] = Applied(@, command)]
Fits(command) == Accepted(disks[DiskAt(PathOf(command))], command)

SwapOff ==
  /\ Running("swapoff")
  /\ disks' \in WithoutSwap
  /\ NextCommand
  /\ UNCHANGED <<volume, env, ui, ed, jobs, remaining>>

(* The volume at the command's device is inspected again, then shrunk. *)
AtDevice == {p \in AtPath(Step.path, Step.num) : p.uuid \in DOMAIN Volumes}
StillSafe == \E p \in AtDevice : p.size = Step.original /\ InspectNtfs(p, Volumes[p.uuid], Step.target).safe
ShrunkVolume == [volume EXCEPT ![(CHOOSE p \in AtDevice : TRUE).uuid] = Step.target]

ResizeFilesystem ==
  /\ Running("ntfsresize")
  /\ IF StillSafe THEN NextCommand /\ volume' = ShrunkVolume ELSE Abort /\ UNCHANGED volume
  /\ UNCHANGED <<disks, env, ui, ed, jobs, remaining>>

(* resizepart, then _verify_resized_partition_geometry *)
ResizePartition ==
  /\ Running("resizepart")
  /\ IF Fits(Step)
     THEN /\ disks' = After(Step)
          /\ IF \E p \in disks'[Target].parts :
                  /\ p.uuid = Step.uuid /\ p.num = Step.num /\ p.fs = "ntfs"
                  /\ p.start = Step.start /\ p.size = Step.target
             THEN NextCommand ELSE Abort
     ELSE Abort /\ UNCHANGED disks
  /\ UNCHANGED <<volume, env, ui, ed, jobs, remaining>>

(* A failing first command is tried again once, after the swap is off and   *)
(* the table has settled, except in manual mode.                            *)
OnFailure ==
  IF exec.retry THEN exec' = [exec EXCEPT !.retry = FALSE, !.todo = <<[op |-> "swapoff"]>> \o @] ELSE Abort

TableCommand ==
  /\ IsTableCommand
  /\ IF Fits(Step)
     THEN disks' = After(Step) /\ exec' = [exec EXCEPT !.todo = Tail(@), !.retry = FALSE]
     ELSE OnFailure /\ UNCHANGED disks
  /\ UNCHANGED <<volume, env, ui, ed, jobs, remaining>>

DevicesAppear ==
  /\ Running("devices")
  /\ IF \A d \in exec.devices : AtPath(d.dev[1], d.dev[2]) # {} THEN NextCommand ELSE Abort
  /\ UNCHANGED <<disks, volume, env, ui, ed, jobs, remaining>>

Format ==
  /\ Running("mkfs")
  /\ IF Fits(Step) THEN disks' = After(Step) /\ NextCommand ELSE Abort /\ UNCHANGED disks
  /\ UNCHANGED <<volume, env, ui, ed, jobs, remaining>>

Verify ==
  /\ Running("verify")
  /\ LET commands == [devices |-> exec.devices]
         good == StorageVerified(exec.plan, commands, exec.snapshot, Inspect(disks[Target], TRUE))
     IN exec' = [exec EXCEPT !.phase = IF good THEN "verified" ELSE "failed", !.todo = <<>>]
  /\ UNCHANGED <<disks, volume, env, ui, ed, jobs, remaining>>

(* A tool fails or times out, before or after it did its work. *)
ToolFails ==
  /\ remaining.troubles > 0
  /\ \/ /\ IsTableCommand
        /\ disks' \in {disks} \cup (IF Fits(Step) THEN {After(Step)} ELSE {})
        /\ OnFailure /\ UNCHANGED volume
     \/ /\ exec.phase = "running" /\ Step.op \in {"mkfs", "resizepart"}
        /\ disks' \in {disks} \cup (IF Fits(Step) THEN {After(Step)} ELSE {})
        /\ Abort /\ UNCHANGED volume
     \/ /\ Running("ntfsresize")
        /\ volume' \in {volume} \cup (IF StillSafe THEN {ShrunkVolume} ELSE {})
        /\ Abort /\ UNCHANGED disks
  /\ remaining' = [remaining EXCEPT !.troubles = @ - 1]
  /\ UNCHANGED <<env, ui, ed, jobs>>

(* The installation has ended, or the person leaves the window alone. *)
Ended ==
  /\ exec.phase \in {"idle", "refused", "failed", "verified"}
  /\ UNCHANGED planningVars

ExecutorStep ==
  \/ Preflight \/ SwapOff \/ ResizeFilesystem \/ ResizePartition \/ TableCommand
  \/ DevicesAppear \/ Format \/ Verify \/ ToolFails

WizardStep ==
  \/ DeliverDisks \/ Rescan \/ NextFromDisk \/ NextFromStrategy \/ NextFromLayout
  \/ \E disk \in {Target, Live} : SelectDisk(disk)
  \/ \E strategy \in Strategies : PressStrategy(strategy)
  \/ \E swap \in SwapChoices(Sizing) : ChooseSwap(swap)
  \/ Install \/ DeliverPlanRecheck \/ Cancel \/ ConfirmPlan \/ Back \/ GuidedTestPlan

PlanningNext == WizardStep \/ EditorStep \/ WorkerReads \/ DropObsolete \/ OtherChange \/ ExecutorStep \/ Ended

PlanningSpec == PlanningInit /\ [][PlanningNext]_planningVars

---------------------------------------------------------------------------
(* Properties *)

(* What the person confirmed: the partitions of the disk at that time. *)
ShownParts(plan) == plan.graph.binding.digest.parts
Doomed(plan, p) ==
  \/ Targets(plan.graph, "replace-table") # {}
  \/ Existing(p.uuid) \in Targets(plan.graph, "delete")
Made(plan, p) == \E i \in DOMAIN plan.graph.new : p.uuid = FreshUuid[plan.graph.new[i].number]

(* The executor's commands name kernel paths and numbers, the person        *)
(* confirmed identities: whatever others did before the executor looked,    *)
(* and wherever a tool fails, a partition that is gone was shown and marked  *)
(* for deletion, one that was shrunk keeps its start and its content, and   *)
(* everything else is what it was, on every disk.                           *)
OnlyConfirmedChanges ==
  [][exec.phase = "running" =>
       \A d \in DOMAIN disks : \A p \in disks[d].parts :
         \/ Preserved(p) \in {Preserved(q) : q \in disks'[d].parts}
         \/ /\ d = Target
            /\ \/ Made(exec.plan, p)
               \/ Doomed(exec.plan, p) /\ Preserved(p) \in {Preserved(q) : q \in ShownParts(exec.plan)}
               \/ \E r \in exec.plan.graph.resized :
                    /\ r.uuid = p.uuid
                    /\ [Preserved(p) EXCEPT !.size = r.target] \in {Preserved(q) : q \in disks'[d].parts}]_planningVars

(* The partitions a confirmed plan leaves, whatever commands were run.      *)
LaidOut(plan, disk) ==
  LET after(r) == {[Preserved(p) EXCEPT !.size = r.target] : p \in {q \in ShownParts(plan) : q.uuid = r.uuid}}
      kept == {Preserved(p) : p \in {q \in ShownParts(plan) : ~Doomed(plan, q) /\ \A r \in plan.graph.resized : r.uuid # q.uuid}}
      made(n) == [num |-> n.number, uuid |-> FreshUuid[n.number], start |-> n.start * MIB,
                  size |-> (IF n.end = NoEnd THEN LastUnit(disk) ELSE n.end * MIB) - n.start * MIB,
                  type |-> CASE n.name = "efi-system" -> "esp" [] n.name = "bios-boot" -> "bios" [] OTHER -> "linux",
                  fs   |-> IF n.name = "bios-boot" THEN "" ELSE FilesystemOf(n.name, plan.fs),
                  fsid |-> IF n.name = "bios-boot" THEN "" ELSE FreshContent[n.number], mnt |-> ""]
  IN kept \cup UNION {after(r) : r \in plan.graph.resized}
          \cup {made(plan.graph.new[i]) : i \in DOMAIN plan.graph.new}

(* A storage step that verified has left the table that was confirmed, to   *)
(* the last partition, although in the erase mode verify only asks blkid    *)
(* for three filesystem types.                                              *)
VerifiedIsConfirmed ==
  exec.phase = "verified" =>
    {Preserved(p) : p \in disks[Target].parts} = LaidOut(exec.plan, disks[Target])

(* At every moment, also when a tool fails or the machine stops between two *)
(* commands, an NTFS partition holds its whole filesystem.                  *)
ResizeKeepsData ==
  \A p \in disks[Target].parts :
    p.fs = "ntfs" /\ p.uuid \in DOMAIN volume => volume[p.uuid] <= p.size

(* Nobody interfered, no tool failed, and the firmware accepts an entry.    *)
Undisturbed ==
  /\ remaining.troubles = remaining.allowed
  /\ env.nvram /\ env.espHealthy

(* The roots create_install_plan accepts: it validates a whole-disk plan    *)
(* with the chosen filesystem first, whatever the mode.                     *)
PlannableRoots == {"btrfs", "ext4"}

(* What only the executor looks at, when the whole disk is erased: a mounted *)
(* partition, or an active swap other than in the slot of an erase layout.   *)
ErasesWhatIsInUse ==
  /\ exec.plan.mode = "erase"
  /\ \E p \in disks[Target].parts :
       p.mnt # "" /\ (p.mnt = "[SWAP]" => p.num # IF env.arch = "amd64" THEN 3 ELSE 2)

(* Swap is switched off on one device only: more were active. *)
SeveralSwaps == Cardinality({p \in ShownParts(exec.plan) : p.mnt = "[SWAP]"}) > 1

(* The wizard, the plan's validation, the executor's preflight, its        *)
(* commands and the verification each compute the layout again: in an       *)
(* undisturbed installation none of them refuses what an earlier one        *)
(* accepted, but for three cases: the summary refuses an XFS or F2FS root    *)
(* the editor had accepted, the executor an erase of a disk that is in use,   *)
(* and a table cannot be replaced when two swaps of it were active.          *)
UndisturbedInstalls ==
  Undisturbed =>
    /\ ui.refused => ui.fs \notin PlannableRoots
    /\ exec.phase = "refused" => ErasesWhatIsInUse
    /\ exec.phase = "failed" => SeveralSwaps

(* A manual plan offered for confirmation is the draft the editor stored    *)
(* last: no preview, delayed refresh, late probe or reload leaves an older  *)
(* one behind.                                                              *)
ConfirmedIsEdited ==
  ui.dialog # NoPlan /\ ui.dialog.mode = "manual" =>
    SelectionFromGraph(ui.dialog, ui.dialog.graph.binding.digest) = ui.draft

(* Together: the table that was written is the one that was edited last.    *)
LayoutIsChosen == ConfirmedIsEdited /\ VerifiedIsConfirmed

(* What the strategy page says, "Advanced is the preservation path": a plan  *)
(* reached through the manual editor is a manual plan.                      *)
AdvancedPreserves ==
  ui.dialog # NoPlan /\ ui.via = "advanced" => ui.dialog.mode = "manual"
===========================================================================
