------------------------- MODULE RestoreCoordination -------------------------
(***************************************************************************)
(* Who may write what of the recovery store while the system runs: the     *)
(* D-Bus calls of the helper (schedule, cancel, reconcile, delete), which  *)
(* zbus runs on threads of their own, the confirmation unit, and the APT   *)
(* hook, with the two lock files that order them.                          *)
(*                                                                         *)
(* RollbackRecovery follows one transaction through reboots and power      *)
(* losses with one call at a time; here is one boot with several. A step   *)
(* is what a program does between two moments at which another one could   *)
(* interfere. Every call may fail, and every program may be killed.        *)
(***************************************************************************)
EXTENDS Naturals, FiniteSets

CONSTANTS
  Tasks,            \* calls the helper works on at the same time
  Unit,             \* the confirmation unit
  Hook,             \* the APT hook
  Snapshots,        \* ids of system snapshots
  Kept,             \* the snapshots there are at the start
  TransactionIds,   \* ids of rollbacks
  PackageIds,       \* ids of package transactions
  Old,              \* the rollback that early boot left for confirmation
  None,
  MaxCalls,         \* bound on the calls of helper and unit
  MaxHooks,         \* bound on the runs of APT
  MaxFaults         \* bound on failing steps and killed programs

Callers == Tasks \cup {Unit}

ASSUME ActorsAssumption == Unit \notin Tasks /\ Hook \notin Callers /\ None \notin Callers \cup {Hook}
ASSUME IdsAssumption == /\ Old \in TransactionIds /\ None \notin TransactionIds
                        /\ Kept \subseteq Snapshots /\ None \notin Snapshots
                        /\ None \notin PackageIds

VARIABLES
  record,     \* transactions/pending-rollback.json
  history,    \* rollback-history
  package,    \* transactions/pending-package.json
  archived,   \* transactions/package-history
  snaps,      \* state of each snapshot's record, and what is on the disk
  browsed,    \* snapshots whose browse lock is held shared
  startLock,  \* holder of transactions/start.lock: waited for
  opLock,     \* holder of operation.lock: whoever finds it held reports busy
  menu,       \* the recovery entry in grub.cfg
  requested,  \* the rollback this boot's kernel command line names
  call,       \* what each caller is doing
  hook,       \* what the APT hook is doing
  used,       \* ids of rollbacks given out
  begun,      \* ids of package transactions given out
  calls,      \* calls so far
  hooks,      \* runs of APT so far
  faults,     \* failures and kills so far
  overrun     \* an update has written over another record, or none

storeVars == <<record, history, package, archived, snaps, browsed>>
vars == <<storeVars, startLock, opLock, menu, requested, call, hook,
          used, begun, calls, hooks, faults, overrun>>

\* The parts of RollbackTransaction that others look at. The terminal phases
\* (confirmed, reverted, failed) are one.
Phases == {"preparing", "armed", "unconfirmed", "terminal"}
Records == [id : TransactionIds, target : Snapshots, fallback : Snapshots, phase : Phases]
NoRecord == [id |-> None, target |-> None, fallback |-> None, phase |-> "none"]
Pending == record # NoRecord

PackagePhases == {"preparing", "awaiting", "terminal"}
Packages == [id : PackageIds, names : SUBSET Snapshots, phase : PackagePhases]
NoPackage == [id |-> None, names |-> {}, phase |-> "none"]
PackagePending == package # NoPackage

\* DeploymentState, and the ids that no snapshot has or has had.
SnapStates == {"unused", "creating", "ready", "incomplete", "deleting", "gone"}
OnRecord == {d \in Snapshots : snaps[d] \notin {"unused", "gone"}}

Idle == [op |-> "none", pc |-> "idle", snap |-> None, mine |-> NoRecord]

Goto(c, pc) == call' = [call EXCEPT ![c].pc = pc]
Return(c) == call' = [call EXCEPT ![c] = Idle]

\* cleanup_failed_schedule, which needs nothing of what the call knows.
Undo(c) == call' = [call EXCEPT ![c] = [Idle EXCEPT !.op = "schedule", !.pc = "clear"]]

Fault == faults < MaxFaults /\ faults' = faults + 1
NoFault == UNCHANGED faults

Init ==
  /\ \/ record = NoRecord /\ requested = None /\ package = NoPackage
     \/ \E d, f \in Kept, p \in {"armed", "unconfirmed", "terminal"} :
          /\ record = [id |-> Old, target |-> d, fallback |-> f, phase |-> p]
          /\ requested = IF p = "armed" THEN Old ELSE None
          /\ package = NoPackage
     \/ /\ record = NoRecord /\ requested = None
        /\ \E i \in PackageIds, p \in PackagePhases : package = [id |-> i, names |-> {}, phase |-> p]
  /\ used = IF record = NoRecord THEN {} ELSE {Old}
  /\ begun = IF package = NoPackage THEN {} ELSE {package.id}
  /\ history = {} /\ archived = {}
  /\ snaps = [d \in Snapshots |-> IF d \in Kept THEN "ready" ELSE "unused"]
  /\ browsed = {}
  /\ startLock = None /\ opLock = None
  /\ menu = None
  /\ call = [c \in Callers |-> Idle]
  /\ hook = [pc |-> "idle", before |-> FALSE, after |-> FALSE, snap |-> None]
  /\ calls = 0 /\ hooks = 0 /\ faults = 0 /\ overrun = FALSE

-----------------------------------------------------------------------------
\* OperationEngine::create_snapshot: the record is written as creating under
\* the operation lock, then completed or marked incomplete. Ids that are used up
\* stand for ensure_transaction_reserve, which refuses a snapshot without Room.
Room == \E d \in Snapshots : snaps[d] = "unused"
Creating(d) == snaps[d] = "unused" /\ snaps' = [snaps EXCEPT ![d] = "creating"]
Created(d, state) == snaps' = [snaps EXCEPT ![d] = state]

\* BootIntegration::recovery_menu_entry by way of update-grub: an entry for a
\* rollback that early boot has not begun, if its target can be restored.
MenuFails == record.phase \in {"preparing", "armed"} /\ snaps[record.target] # "ready"
MenuEntry == IF record.phase \in {"preparing", "armed"} THEN record.id ELSE None
RegenerateGrub == ~MenuFails /\ menu' = MenuEntry

-----------------------------------------------------------------------------
\* RollbackCoordinator::schedule. A call that finds either kind of transaction
\* pending ends at once and is left out.
Schedule(c, d) ==
  /\ call[c] = Idle /\ c # Unit /\ calls < MaxCalls
  /\ ~Pending /\ ~PackagePending
  /\ calls' = calls + 1
  /\ call' = [call EXCEPT ![c] = [Idle EXCEPT !.op = "schedule", !.pc = "verify", !.snap = d]]
  /\ UNCHANGED <<storeVars, startLock, opLock, menu, requested, hook, used, begun,
                 hooks, faults, overrun>>

\* verify_target holds the operation lock while it compares digests.
VerifyLock(c) ==
  /\ call[c].pc = "verify"
  /\ IF opLock = None THEN opLock' = c /\ Goto(c, "verifying")
                      ELSE UNCHANGED opLock /\ Return(c)
  /\ UNCHANGED <<storeVars, startLock, menu, requested, hook, used, begun, calls, hooks,
                 faults, overrun>>

\* Whatever of the target, the layout, GRUB or the recovery artifacts is not in
\* order ends the call.
VerifyEnd(c) ==
  /\ call[c].pc = "verifying"
  /\ opLock' = None
  /\ \/ snaps[call[c].snap] = "ready" /\ Goto(c, "fallback") /\ NoFault
     \/ snaps[call[c].snap] # "ready" /\ Return(c) /\ NoFault
     \/ Return(c) /\ Fault
  /\ UNCHANGED <<storeVars, startLock, menu, requested, hook, used, begun, calls, hooks, overrun>>

\* create_fallback, and the transaction that will name it.
FallbackLock(c) ==
  /\ call[c].pc = "fallback"
  /\ \/ /\ opLock = None /\ opLock' = c
        /\ \E d \in Snapshots, i \in TransactionIds \ (used \cup {Old}) :
             /\ Creating(d)
             /\ used' = used \cup {i}
             /\ call' = [call EXCEPT ![c].pc = "protecting",
                           ![c].mine = [id |-> i, target |-> call[c].snap, fallback |-> d,
                                        phase |-> "preparing"]]
     \/ /\ opLock # None \/ ~Room \/ used \cup {Old} = TransactionIds
        /\ Return(c)
        /\ UNCHANGED <<snaps, opLock, used>>
  /\ UNCHANGED <<record, history, package, archived, browsed, startLock, menu,
                 requested, hook, begun, calls, hooks, faults, overrun>>

FallbackEnd(c) ==
  /\ call[c].pc = "protecting"
  /\ opLock' = None
  /\ \/ Created(call[c].mine.fallback, "ready") /\ Goto(c, "lock") /\ NoFault
     \/ Created(call[c].mine.fallback, "incomplete") /\ Return(c) /\ Fault
  /\ UNCHANGED <<record, history, package, archived, browsed, startLock, menu,
                 requested, hook, used, begun, calls, hooks, overrun>>

\* create_transaction waits for the start lock, looks for a package transaction
\* and creates the file, which fails when there is one.
StartLock(c) ==
  /\ call[c].pc = "lock" /\ startLock = None
  /\ startLock' = c /\ Goto(c, "check")
  /\ UNCHANGED <<storeVars, opLock, menu, requested, hook, used, begun, calls, hooks, faults,
                 overrun>>

\* Mutant: the start lock is given back before the package transaction counts.
CheckPackageUnlocked(c) ==
  /\ call[c].pc = "check"
  /\ IF PackagePending THEN Undo(c) ELSE Goto(c, "claim")
  /\ startLock' = None
  /\ UNCHANGED <<storeVars, opLock, menu, requested, hook, used, begun, calls, hooks, faults,
                 overrun>>

\* Mutant: the refusal keeps the start lock.
CheckPackageKeepsLock(c) ==
  /\ call[c].pc = "check"
  /\ IF PackagePending THEN Undo(c) ELSE Goto(c, "claim")
  /\ UNCHANGED <<storeVars, startLock, opLock, menu, requested, hook, used, begun, calls, hooks,
                 faults, overrun>>

CheckPackage(c) ==
  /\ call[c].pc = "check"
  /\ IF PackagePending THEN Undo(c) /\ startLock' = None
                       ELSE Goto(c, "claim") /\ UNCHANGED startLock
  /\ UNCHANGED <<storeVars, opLock, menu, requested, hook, used, begun, calls, hooks, faults,
                 overrun>>

CreateTransaction(c) ==
  /\ call[c].pc = "claim"
  /\ startLock' = None
  /\ \/ Pending /\ Undo(c) /\ UNCHANGED record /\ NoFault
     \/ ~Pending /\ Goto(c, "menu") /\ record' = call[c].mine /\ NoFault
     \/ ~Pending /\ Undo(c) /\ record' \in {record, call[c].mine} /\ Fault
  /\ UNCHANGED <<history, package, archived, snaps, browsed, opLock, menu, requested,
                 hook, used, begun, calls, hooks, overrun>>

\* regenerate_grub, then verify_grub_entry.
ConfigureBoot(c) ==
  /\ call[c].pc = "menu"
  /\ \/ RegenerateGrub /\ Goto(c, "entry") /\ NoFault
     \/ MenuFails /\ Undo(c) /\ UNCHANGED menu /\ NoFault
     \/ Undo(c) /\ UNCHANGED menu /\ Fault
  /\ UNCHANGED <<storeVars, startLock, opLock, requested, hook, used, begun, calls, hooks, overrun>>

VerifyGrubEntry(c) ==
  /\ call[c].pc = "entry"
  /\ IF menu = call[c].mine.id
       THEN call' = [call EXCEPT ![c].pc = "update", ![c].mine.phase = "armed"]
       ELSE Undo(c)
  /\ UNCHANGED <<storeVars, startLock, opLock, menu, requested, hook, used, begun, calls, hooks,
                 faults, overrun>>

\* TransactionStore::update looks whether there is a record; then it writes and
\* syncs a temporary file and renames it over whatever is there by then.
UpdateCheck(c) ==
  /\ call[c].pc = "update"
  /\ IF Pending THEN Goto(c, "write")
     ELSE IF call[c].op = "schedule" THEN Undo(c) ELSE Return(c)
  /\ UNCHANGED <<storeVars, startLock, opLock, menu, requested, hook, used, begun, calls, hooks,
                 faults, overrun>>

UpdateWrite(c) ==
  /\ call[c].pc = "write"
  /\ \/ /\ record' = call[c].mine /\ NoFault
        /\ IF call[c].op = "schedule" THEN Goto(c, "arm") ELSE Goto(c, "clear")
     \/ /\ record' \in {record, call[c].mine} /\ Fault
        /\ IF call[c].op = "schedule" THEN Undo(c) ELSE Return(c)
  /\ overrun' = (overrun \/ record'.id # record.id)
  /\ UNCHANGED <<history, package, archived, snaps, browsed, startLock, opLock, menu,
                 requested, hook, used, begun, calls, hooks>>

\* arm_pending_once selects the entry of whatever is armed by now. (The
\* selector itself is in RollbackRecovery.)
ArmOnce(c) ==
  /\ call[c].pc = "arm"
  /\ IF record.phase = "armed" /\ record.id = call[c].mine.id THEN Return(c) ELSE Undo(c)
  /\ UNCHANGED <<storeVars, startLock, opLock, menu, requested, hook, used, begun, calls, hooks, faults,
                 overrun>>

-----------------------------------------------------------------------------
\* cancel, with a rollback that early boot has not begun.
Cancel(c) ==
  /\ call[c] = Idle /\ c # Unit /\ calls < MaxCalls
  /\ record.phase \in {"preparing", "armed"}
  /\ calls' = calls + 1
  /\ call' = [call EXCEPT ![c] = [Idle EXCEPT !.op = "cancel", !.pc = "clear"]]
  /\ UNCHANGED <<storeVars, startLock, opLock, menu, requested, hook, used, begun,
                 hooks, faults, overrun>>

\* ConfirmationEngine::reconcile: what early boot left undecided is decided,
\* what is decided is finished. With anything else it has nothing to do here.
Reconcile(c) ==
  /\ call[c] = Idle /\ calls < MaxCalls
  /\ \/ record.phase \in {"unconfirmed", "terminal"}
     \/ record.phase = "armed" /\ requested = record.id
  /\ calls' = calls + 1
  /\ call' = [call EXCEPT ![c] =
       [Idle EXCEPT !.op = "reconcile",
                    !.pc = IF record.phase = "terminal" THEN "clear" ELSE "update",
                    !.mine = [record EXCEPT !.phase = "terminal"]]]
  /\ UNCHANGED <<storeVars, startLock, opLock, menu, requested, hook, used, begun,
                 hooks, faults, overrun>>

\* The tail that cleanup_failed_schedule, cancel and the finish functions share.
\* The first goes on after a failure, the others return. (What the last write of
\* lineage and old roots before it is in RollbackRecovery.)
Proceed(c, pc) == IF call[c].op = "schedule" THEN Goto(c, pc) ELSE Return(c)

ClearOnce(c) ==
  /\ call[c].pc = "clear"
  /\ LET next == IF call[c].op = "reconcile" THEN "archive" ELSE "remove"
     IN \/ Goto(c, next) /\ NoFault
        \/ Proceed(c, "remove") /\ Fault
  /\ UNCHANGED <<storeVars, startLock, opLock, menu, requested, hook, used, begun, calls, hooks, overrun>>

\* Mutant: the record is removed although archiving it failed.
ArchiveTransactionIgnored(c) ==
  /\ call[c].pc = "archive"
  /\ \/ history' = history \cup {call[c].mine.id} /\ Goto(c, "remove") /\ NoFault
     \/ UNCHANGED history /\ Goto(c, "remove") /\ Fault
  /\ UNCHANGED <<record, package, archived, snaps, browsed, startLock, opLock, menu,
                 requested, hook, used, begun, calls, hooks, overrun>>

ArchiveTransaction(c) ==
  /\ call[c].pc = "archive"
  /\ \/ history' = history \cup {call[c].mine.id} /\ Goto(c, "remove") /\ NoFault
     \/ UNCHANGED history /\ Return(c) /\ Fault
  /\ UNCHANGED <<record, package, archived, snaps, browsed, startLock, opLock, menu,
                 requested, hook, used, begun, calls, hooks, overrun>>

RemoveTransaction(c) ==
  /\ call[c].pc = "remove"
  /\ \/ record' = NoRecord /\ Goto(c, "regenerate") /\ NoFault
     \/ record' \in {record, NoRecord} /\ Proceed(c, "regenerate") /\ Fault
  /\ UNCHANGED <<history, package, archived, snaps, browsed, startLock, opLock, menu,
                 requested, hook, used, begun, calls, hooks, overrun>>

RegenerateAtEnd(c) ==
  /\ call[c].pc = "regenerate"
  /\ Return(c)
  /\ \/ RegenerateGrub /\ NoFault
     \/ MenuFails /\ UNCHANGED menu /\ NoFault
     \/ UNCHANGED menu /\ Fault
  /\ UNCHANGED <<storeVars, startLock, opLock, requested, hook, used, begun, calls, hooks, overrun>>

-----------------------------------------------------------------------------
\* OperationEngine::delete: operation lock, start lock, browse lock.
Delete(c, d) ==
  /\ call[c] = Idle /\ c # Unit /\ calls < MaxCalls
  /\ d \in OnRecord /\ opLock = None
  /\ opLock' = c /\ calls' = calls + 1
  /\ call' = [call EXCEPT ![c] = [Idle EXCEPT !.op = "delete", !.pc = "dlock", !.snap = d]]
  /\ UNCHANGED <<storeVars, startLock, menu, requested, hook, used, begun, hooks, faults, overrun>>

DeleteLock(c) ==
  /\ call[c].pc = "dlock" /\ startLock = None
  /\ startLock' = c /\ Goto(c, "dcheck")
  /\ UNCHANGED <<storeVars, opLock, menu, requested, hook, used, begun, calls, hooks, faults,
                 overrun>>

\* Mutant: only the target of a pending rollback is looked for.
ReferencedTargetOnly(d) == d = record.target \/ d \in package.names

\* ensure_not_transaction_referenced
Referenced(d) == d \in {record.target, record.fallback} \/ d \in package.names

DeleteCheck(c) ==
  /\ call[c].pc = "dcheck"
  /\ LET d == call[c].snap
     IN IF d \in browsed \/ Referenced(d)
          THEN Return(c) /\ startLock' = None /\ opLock' = None /\ UNCHANGED snaps
          ELSE Goto(c, "dremove") /\ Created(d, "deleting") /\ UNCHANGED <<startLock, opLock>>
  /\ UNCHANGED <<record, history, package, archived, browsed, menu, requested, hook,
                 used, begun, calls, hooks, faults, overrun>>

DeleteEnd(c) ==
  /\ call[c].pc = "dremove"
  /\ Return(c) /\ startLock' = None /\ opLock' = None
  /\ \/ Created(call[c].snap, "gone") /\ NoFault
     \/ UNCHANGED snaps /\ Fault
  /\ UNCHANGED <<record, history, package, archived, browsed, menu, requested, hook,
                 used, begun, calls, hooks, overrun>>

\* A call that lists or exports files of a snapshot. SystemSnapshotBrowser::open
\* waits for a deletion that holds the browse lock, and finds the files of one
\* that failed meanwhile.
Browse(d) ==
  /\ calls < MaxCalls /\ calls' = calls + 1
  /\ snaps[d] \in {"ready", "deleting"} /\ d \notin browsed
  /\ ~\E c \in Callers : call[c].pc = "dremove" /\ call[c].snap = d
  /\ browsed' = browsed \cup {d}
  /\ UNCHANGED <<record, history, package, archived, snaps, startLock, opLock, menu,
                 requested, call, hook, used, begun, hooks, faults, overrun>>

EndBrowse(d) ==
  /\ d \in browsed /\ browsed' = browsed \ {d}
  /\ UNCHANGED <<record, history, package, archived, snaps, startLock, opLock, menu,
                 requested, call, hook, used, begun, calls, hooks, faults, overrun>>

-----------------------------------------------------------------------------
\* The APT hook. dpkg runs between pre and post, whatever pre reports.
helperVars == <<record, history, browsed, menu, requested, call, used, calls, overrun>>

HookGoto(pc) == hook' = [hook EXCEPT !.pc = pc]

NoHook == [pc |-> "idle", before |-> FALSE, after |-> FALSE, snap |-> None]
HookReturn == hook' = NoHook
RunsDpkg == hook' = [NoHook EXCEPT !.pc = "dpkg"]

\* before_packages_with_policy
HookPre(before, after) ==
  /\ hook.pc = "idle" /\ hooks < MaxHooks /\ begun # PackageIds
  /\ hooks' = hooks + 1
  /\ IF before \/ after
       THEN hook' = [NoHook EXCEPT !.pc = "lock", !.before = before, !.after = after]
       ELSE RunsDpkg
  /\ UNCHANGED <<helperVars, package, archived, snaps, startLock, opLock, begun, faults>>

HookLock ==
  /\ hook.pc = "lock" /\ startLock = None
  /\ startLock' = Hook /\ HookGoto("begin")
  /\ UNCHANGED <<helperVars, hooks, package, archived, snaps, opLock, begun, faults>>

\* A pending rollback ends the hook; a package transaction that was left behind
\* is interrupted, then archived.
HookBegin ==
  /\ hook.pc = "begin"
  /\ IF Pending
       THEN RunsDpkg /\ startLock' = None /\ UNCHANGED package
       ELSE /\ HookGoto("stale") /\ UNCHANGED startLock
            /\ package' = IF PackagePending THEN [package EXCEPT !.phase = "terminal"] ELSE package
  /\ UNCHANGED <<helperVars, hooks, archived, snaps, opLock, begun, faults>>

HookStale ==
  /\ hook.pc = "stale"
  /\ archived' = archived \cup (IF PackagePending THEN {package.id} ELSE {})
  /\ package' = NoPackage /\ HookGoto("create")
  /\ UNCHANGED <<helperVars, hooks, snaps, startLock, opLock, begun, faults>>

HookCreate ==
  /\ hook.pc = "create"
  /\ \E i \in PackageIds \ begun : /\ begun' = begun \cup {i}
                                   /\ package' = [id |-> i, names |-> {}, phase |-> "preparing"]
  /\ startLock' = None
  /\ HookGoto(IF hook.before THEN "pre" ELSE "save")
  /\ UNCHANGED <<helperVars, hooks, archived, snaps, opLock, faults>>

\* create_pre and create_post take the operation lock or fail.
HookSnapshot ==
  /\ hook.pc \in {"pre", "post"}
  /\ \/ /\ opLock = None /\ opLock' = Hook
        /\ \E d \in Snapshots :
             Creating(d) /\ hook' = [hook EXCEPT !.snap = d,
                               !.pc = IF hook.pc = "pre" THEN "pre runs" ELSE "post runs"]
     \/ /\ opLock # None \/ ~Room
        /\ HookGoto(IF hook.pc = "pre" THEN "archive pre" ELSE "archive")
        /\ UNCHANGED <<opLock, snaps>>
  /\ UNCHANGED <<helperVars, hooks, package, archived, startLock, begun, faults>>

HookSnapshotEnd ==
  /\ hook.pc \in {"pre runs", "post runs"}
  /\ opLock' = None
  /\ \/ /\ Created(hook.snap, "ready") /\ NoFault
        /\ HookGoto(CASE hook.pc = "post runs" -> "archive"
                      [] hook.pc = "pre runs" /\ hook.after -> "save"
                      [] OTHER -> "archive pre")
     \/ /\ Created(hook.snap, "incomplete") /\ Fault
        /\ hook' = [hook EXCEPT !.snap = None,
                               !.pc = IF hook.pc = "pre runs" THEN "archive pre" ELSE "archive"]
  /\ UNCHANGED <<helperVars, hooks, package, archived, startLock, begun>>

\* record_pre or skip_pre, and the update of the file.
HookSave ==
  /\ hook.pc = "save"
  /\ package' = [package EXCEPT !.phase = "awaiting", !.names = {hook.snap} \ {None}]
  /\ RunsDpkg
  /\ UNCHANGED <<helperVars, hooks, archived, snaps, startLock, opLock, begun, faults>>

\* archive: the terminal phase is written to the pending file, which is then
\* renamed into the history.
HookArchive ==
  /\ hook.pc \in {"archive pre", "archive"}
  /\ package' = [package EXCEPT !.phase = "terminal",
                                !.names = @ \cup ({hook.snap} \ {None})]
  /\ HookGoto(IF hook.pc = "archive" THEN "rename" ELSE "rename pre")
  /\ UNCHANGED <<helperVars, hooks, archived, snaps, startLock, opLock, begun, faults>>

HookRename ==
  /\ hook.pc \in {"rename pre", "rename"}
  /\ archived' = archived \cup {package.id} /\ package' = NoPackage
  /\ IF hook.pc = "rename" THEN HookReturn ELSE RunsDpkg
  /\ UNCHANGED <<helperVars, hooks, snaps, startLock, opLock, begun, faults>>

\* after_packages_with_policy: what awaits its end is completed or interrupted,
\* what never got its first snapshot is interrupted if a second one is asked for.
HookPost(after) ==
  /\ hook.pc = "dpkg"
  /\ CASE package.phase = "awaiting" -> HookGoto(IF after THEN "post" ELSE "archive")
       [] package.phase = "preparing" /\ after -> HookGoto("archive")
       [] OTHER -> HookReturn
  /\ UNCHANGED <<helperVars, hooks, package, archived, snaps, startLock, opLock, begun, faults>>

-----------------------------------------------------------------------------
\* The kernel gives back the locks of a program that ends.
Released(holder, programs) == IF holder \in programs THEN None ELSE holder

Killed(programs) ==
  /\ (\E c \in programs : call[c] # Idle) \/ (programs = Tasks /\ browsed # {})
  /\ Fault
  /\ call' = [c \in Callers |-> IF c \in programs THEN Idle ELSE call[c]]
  /\ startLock' = Released(startLock, programs)
  /\ opLock' = Released(opLock, programs)
  /\ browsed' = IF programs = Tasks THEN {} ELSE browsed
  /\ UNCHANGED <<record, history, package, archived, snaps, menu, requested, hook, used, begun,
                 calls, hooks, overrun>>

HookKilled ==
  /\ hook.pc \notin {"idle", "dpkg"}
  /\ Fault
  /\ HookReturn \/ RunsDpkg
  /\ startLock' = Released(startLock, {Hook})
  /\ opLock' = Released(opLock, {Hook})
  /\ UNCHANGED <<helperVars, hooks, package, archived, snaps, begun>>

CallStarts(c) ==
  \/ \E d \in OnRecord : Schedule(c, d) \/ Delete(c, d)
  \/ Cancel(c) \/ Reconcile(c)

CallGoesOn(c) ==
  \/ VerifyLock(c) \/ VerifyEnd(c) \/ FallbackLock(c) \/ FallbackEnd(c)
  \/ StartLock(c) \/ CheckPackage(c) \/ CreateTransaction(c)
  \/ ConfigureBoot(c) \/ VerifyGrubEntry(c)
  \/ UpdateCheck(c) \/ UpdateWrite(c) \/ ArmOnce(c)
  \/ ClearOnce(c) \/ ArchiveTransaction(c) \/ RemoveTransaction(c) \/ RegenerateAtEnd(c)
  \/ DeleteLock(c) \/ DeleteCheck(c) \/ DeleteEnd(c)

HookStarts == \E before, after \in BOOLEAN : HookPre(before, after)

HookGoesOn ==
  \/ HookLock \/ HookBegin \/ HookStale \/ HookCreate
  \/ HookSnapshot \/ HookSnapshotEnd \/ HookSave
  \/ HookArchive \/ HookRename
  \/ \E after \in BOOLEAN : HookPost(after)

Next ==
  \/ \E c \in Callers : CallStarts(c) \/ CallGoesOn(c)
  \/ \E d \in Snapshots : Browse(d) \/ EndBrowse(d)
  \/ HookStarts \/ HookGoesOn
  \/ Killed(Tasks) \/ Killed({Unit}) \/ HookKilled

Spec == Init /\ [][Next]_vars

-----------------------------------------------------------------------------
\* A rollback and a package transaction never own the recovery boundary at the
\* same time: each side looks for the other under the start lock, and creates
\* its own record before it gives the lock back. (An update that renames its
\* record over an empty place does not take the lock.)
BoundaryHasOneOwner == ~overrun => ~(Pending /\ PackagePending)

\* What a pending rollback names, and what somebody browses, is not deleted
\* from under it: the deletion holds the start lock from its check to its end,
\* and a deletion that a killed helper left half done is not resumed. (README
\* of the snapshots manager, of the safety snapshot: "protected while its
\* transaction is pending".)
ReferencedStays ==
  [][\A d \in Snapshots :
       d \in {record.target, record.fallback} \cup browsed /\ ~overrun
         => snaps'[d] \notin {"deleting", "gone"} \ {snaps[d]}]_vars

\* The rollback that early boot applied leaves the pending file only when its
\* outcome is in the history, whoever else reconciles, schedules or cancels;
\* and each package transaction is pending or in its history, whichever step
\* its hook was killed at.
OutcomesAreRecorded ==
  /\ Old \in used /\ requested = None => record.id = Old \/ Old \in history
  /\ \A i \in begun : (i \in archived) # (package.id = i)

\* Nobody waits for good: whoever holds the start lock, which others wait for,
\* is between taking it and giving it back and waits for nothing itself, and the
\* same holds of the operation lock but for a deletion that waits for the first.
NoLockIsLeft ==
  /\ \/ startLock = None
     \/ startLock = Hook /\ hook.pc \in {"begin", "stale", "create"}
     \/ startLock \in Callers /\ call[startLock].pc \in {"check", "claim", "dcheck", "dremove"}
  /\ \/ opLock = None
     \/ opLock = Hook /\ hook.pc \in {"pre runs", "post runs"}
     \/ /\ opLock \in Callers
        /\ call[opLock].pc \in {"verifying", "protecting", "dlock", "dcheck", "dremove"}
=============================================================================
