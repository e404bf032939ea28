--------------------------- MODULE StorageWizard ---------------------------
(***************************************************************************)
(* The storage pages of the installer's window: the disk page, the         *)
(* strategy page, the swap page, the manual editor and the summary         *)
(* (pages.py, async_work.py), the choices they share (frontend.py) and the *)
(* previews (storage_ui.py).  A page that is shown again probes the disks  *)
(* in a thread; the result is delivered later, to the page that asked and  *)
(* only if nothing newer was asked.  The pages between the storage page    *)
(* and the summary do not touch this state and are left out.               *)
(*                                                                         *)
(*   ui    the shared state and the page in front                          *)
(*   ed    what the manual editor's closures hold                          *)
(*   jobs  the probes in flight                                            *)
(***************************************************************************)
EXTENDS StoragePlan

CONSTANTS
  Target, Live,   \* the disk to install to and the medium the session runs from
  Filesystems,    \* what the editor offers for the root
  Offsets,        \* how far from an extent's start a partition is put
  Memory          \* physical memory, in units

NoInventory == [id |-> ""]
NoSelection == [binding |-> "none"]
NoBinding == [id |-> "", size |-> 0, digest |-> NoInventory]
NoSwapChoice == -1
Strategies == {"erase-btrfs", "erase-ext4", "advanced"}

---------------------------------------------------------------------------
(* frontend.py: the shared choices *)

ClearManual(ui) == [ui EXCEPT !.draft = NoSelection, !.preview = NoSelection]

(* clear_storage_strategy: swap_size_mib stays *)
ClearStrategy(ui) == [ClearManual(ui) EXCEPT !.strategy = "", !.mode = "erase", !.fs = "btrfs"]

(* clear_storage_target *)
ClearTarget(ui) == [ClearStrategy(ui) EXCEPT !.bound = NoBinding, !.parts = FALSE, !.erasable = FALSE]

(* bind_storage_target: choices made on another topology are dropped. *)
TargetChanged(ui, inv) == ui.bound # Binding(inv)
BindTarget(ui, inv) ==
  [(IF TargetChanged(ui, inv) THEN ClearStrategy(ui) ELSE ui) EXCEPT
     !.bound = Binding(inv),
     !.parts = inv.parts # {},
     !.erasable = inv.size >= MinimumDisk]

(* apply_storage_strategy *)
ApplyStrategy(ui, strategy) ==
  LET changed == ui.strategy # strategy
      cleared == IF changed THEN [ClearManual(ui) EXCEPT !.swap = NoSwapChoice] ELSE ui
  IN [cleared EXCEPT
        !.strategy = strategy,
        !.mode = IF strategy = "advanced" THEN "manual" ELSE "erase",
        !.fs = CASE strategy = "erase-btrfs" -> "btrfs"
                 [] strategy = "erase-ext4" -> "ext4"
                 [] OTHER -> IF changed THEN "btrfs" ELSE @]

(* _validated_swap_size: a stored size that does not fit gives way to the default. *)
ValidatedSwap(ui) ==
  LET sizing == SwapSizing(Memory, ui.bound.size, EspMib)
  IN [ui EXCEPT !.swap = IF @ # NoSwapChoice /\ SwapAllowed(@, sizing) THEN @ ELSE sizing.size]

---------------------------------------------------------------------------
(* Plans.  PlanOf is build_plan: it always makes and validates a whole-disk *)
(* plan first, whatever the mode.                                           *)

PlanOf(inv, env, fs, swap) ==
  LET bare == [disk |-> inv.id, size |-> inv.size, path |-> inv.path, mode |-> "erase",
               fs |-> fs, swap |-> swap, arch |-> env.arch, firmware |-> env.firmware,
               fallback |-> env.firmware = "bios", graph |-> NoInventory]
  IN [bare EXCEPT !.graph = EraseGraph(bare, Binding(inv))]

DefaultSwap(inv) == SwapSizing(Memory, inv.size, EspMib).size

BuildPlanAccepts(inv, env, fs, swap) ==
  SwapAllowed(swap, SwapSizing(Memory, inv.size, EspMib)) /\ PlanValid(PlanOf(inv, env, fs, swap))

(* The plan build_manual_storage_preview makes a graph for. *)
ManualPlan(inv, env, sel) ==
  LET bare == [PlanOf(inv, env, sel.fs, SwapOf(sel)) EXCEPT !.mode = "manual", !.fallback = FALSE]
  IN [bare EXCEPT !.graph = ManualGraph(bare, inv, sel)]

ManualPreviewable(inv, env, sel) ==
  /\ env.firmware = "uefi"
  /\ inv.id # Live
  /\ ManualValid(inv, sel)

(* create_install_plan: the fresh probe must show the bound topology, the   *)
(* base plan must be valid, and a manual selection is previewed again.      *)
PlanAccepted(ui, inv, env) ==
  LET sel == [ui.preview EXCEPT !.fs = ui.fs]
  IN /\ ui.bound.id = inv.id /\ ui.bound.size = inv.size
     /\ ui.bound.digest = Digest(inv)
     /\ BuildPlanAccepts(inv, env, ui.fs,
          IF ui.mode = "manual" \/ ui.swap = NoSwapChoice THEN DefaultSwap(inv) ELSE ui.swap)
     /\ ui.mode = "manual" =>
          /\ ui.preview # NoSelection
          /\ ManualPreviewable(inv, env, sel)
          /\ PlanValid(ManualPlan(inv, env, sel))

CreatedPlan(ui, inv, env) ==
  IF ui.mode = "manual"
  THEN ManualPlan(inv, env, [ui.preview EXCEPT !.fs = ui.fs])
  ELSE PlanOf(inv, env, ui.fs, IF ui.swap = NoSwapChoice THEN DefaultSwap(inv) ELSE ui.swap)

(* build_guided_vm_test_plan: the largest swap question aside, the preview  *)
(* of one free extent, with or without an ESP that is there.                *)
GuidedPlan(inv, env, extent, reused) ==
  LET swap == SwapSizing(Memory, extent.size, IF reused = "" THEN EspMib ELSE 0).size
      bare == [PlanOf(inv, env, "btrfs", swap) EXCEPT !.mode = "guided", !.fallback = FALSE]
  IN [bare EXCEPT !.graph = GuidedGraph(bare, inv, extent, reused)]

GuidedPlannable(inv, env, extent, reused) ==
  /\ SwapSizing(Memory, extent.size, IF reused = "" THEN EspMib ELSE 0).ok
  /\ GuidedAvailable(inv, env.firmware)
  /\ GuidedPossible(GuidedPlan(inv, env, extent, reused), inv, extent, reused)

---------------------------------------------------------------------------
(* The manual editor *)

FreshDraft(inv, fs) ==
  LET esps == {p \in inv.parts : IsEfiCandidate(p) /\ p.fsid # ""}
  IN [binding |-> Binding(inv), reinit |-> FALSE, deleted |-> {}, resized |-> {},
      esp |-> IF esps = {} THEN "" ELSE InDiskOrder(esps)[1].uuid, fs |-> fs, new |-> <<>>]

(* _replace_draft: every edit forgets the preview and drops an NTFS probe   *)
(* that is under way; _queue_refresh.                                       *)
Replaced(ed, draft) == [ed EXCEPT !.draft = draft, !.probe = NoSelection, !.refresh = TRUE]

(* toggle_partition *)
Toggled(draft, uuid) ==
  [draft EXCEPT
     !.deleted = IF uuid \in @ THEN @ \ {uuid} ELSE @ \cup {uuid},
     !.esp = IF uuid \notin draft.deleted /\ @ = uuid THEN "" ELSE @,
     !.resized = {r \in @ : r.uuid # uuid}]

(* The requests of a draft that pass a test, in their order. *)
Keep(requests, Test(_)) ==
  FlattenSeq([i \in DOMAIN requests |-> IF Test(requests[i]) THEN <<requests[i]>> ELSE <<>>])

(* _esp_changed *)
WithEsp(draft, uuid) ==
  [draft EXCEPT !.esp = uuid,
                !.new = IF uuid = "" THEN @ ELSE Keep(@, LAMBDA r : r.role # "efi-system")]

(* _add_partition, _edit_partition, remove_partition *)
WithRequest(draft, request) ==
  LET others == Keep(draft.new, LAMBDA r : r.role # request.role)
  IN [draft EXCEPT !.esp = IF request.role = "efi-system" THEN "" ELSE @,
                   !.new = Keep(others, LAMBDA r : r.start <= request.start) \o <<request>>
                             \o Keep(others, LAMBDA r : r.start > request.start)]
WithoutRole(draft, role) == [draft EXCEPT !.new = Keep(@, LAMBDA r : r.role # role)]

(* _toggle_table *)
TableToggled(draft) ==
  [draft EXCEPT !.reinit = ~@, !.deleted = {}, !.esp = "", !.new = <<>>, !.resized = {}]

(* The dialog's answer: one planned size per volume. *)
WithResize(draft, p, target) ==
  [draft EXCEPT !.resized = {r \in @ : r.uuid # p.uuid} \cup {[uuid |-> p.uuid, original |-> p.size, target |-> target]}]
WithoutResize(draft, uuid) == [draft EXCEPT !.resized = {r \in @ : r.uuid # uuid}]

(* What the spin buttons let a person enter for a role inside the extents   *)
(* shown: near the start of an extent, as small or as large as it goes.     *)
MinimumOf(role) == CASE role = "efi-system" -> MinimumNewEspMib [] role = "root" -> MinimumRootMib [] OTHER -> 1
Requests(role, free) ==
  LET starts == {s + o : s \in {m \in free : m - 1 \notin free}, o \in Offsets} \cap free
      end(s) == CHOOSE e \in s..(Max(free) + 1) : e \notin free /\ s..(e - 1) \subseteq free
      ends(s) == {e \in {s + MinimumOf(role), end(s)} : e >= s + MinimumOf(role) /\ e <= end(s)}
  IN UNION {{[role |-> role, start |-> s, end |-> e] : e \in ends(s)} : s \in starts}
===========================================================================
