-------------------------- MODULE PowerLossMatrix ---------------------------
(***************************************************************************)
(* The hard power-loss matrix of the release qualification, as properties: *)
(* RollbackRecovery with a history variable that remembers at which phase  *)
(* and checkpoint the power of the machine was cut.                        *)
(***************************************************************************)
EXTENDS RollbackRecovery

VARIABLE cuts   \* <<id, phase, checkpoint>> of the record at each power loss

RecordCuts ==
    cuts' = IF PowerLoss
            THEN cuts \cup {<<pending.id, pending.phase, pending.checkpoint>>}
            ELSE cuts

MatrixInit == Init /\ cuts = {}
MatrixNext == Next /\ RecordCuts
MatrixSpec == MatrixInit /\ [][MatrixNext]_<<vars, cuts>> /\ Fairness

\* Transaction t is, or was, reported as a successful rollback.
ReportedSuccess(t) ==
    \/ pending.id = t /\ pending.phase = "Confirmed"
    \/ history[t] = "Confirmed"

\* A restored system that lost power before it was confirmed is never reported as
\* a success: the following boot takes it back, even when its own recovery engine
\* fails and userspace runs the restored root once more.
UnconfirmedBootReverts ==
    \A t \in Tx : <<t, "BootedUnconfirmed", "booted-unconfirmed-recorded">> \in cuts
                      => ~ReportedSuccess(t)

\* A revert that was cut off at any of its checkpoints is completed: the fallback
\* ends up at @root, durably, with no subvolume of the transaction left, and the
\* archived outcome says so; or the machine needs repair.
InterruptedRevertCompletes ==
    \A t \in Tx :
        (\E checkpoint \in Checkpoints : <<t, "Reverting", checkpoint>> \in cuts)
            ~> \/ /\ history[t] = "Reverted"
                  /\ disk[Root] # t /\ Progress(disk, t) = 0
               \/ NeedsRepair

\* Every start of the machine ends in userspace, in the end, or at GRUB's prompt.
BootsOrNeedsRepair == (machine = "grub") ~> (machine = "user" \/ NeedsRepair)

\* The only reason for repair: /boot is part of @root, and a power loss between
\* the two renames of apply or revert left no @root for GRUB to read grub.cfg
\* from. (VM-QUALIFICATION.md has every lane of the matrix boot "without manual
\* repair".)
RepairOnlyWithoutRoot == NeedsRepair => BootInRoot /\ ~Exists(disk, Root)

\* Nothing that was begun stays half done: boots, entered transactions, interrupted
\* reverts and recorded old roots, except where the machine needs repair, for the
\* one reason above.
EverythingResolves ==
    /\ BootsOrNeedsRepair /\ EnteredTransactionResolves
    /\ InterruptedRevertCompletes /\ OldRootReclaimed
    /\ []RepairOnlyWithoutRoot

-----------------------------------------------------------------------------
(* A statement of the repository's documents that the code does not keep *)

\* "Old-root deletion is a separate, durable cleanup operation": whatever happens to
\* the machine, an old root under a cleanup record is deleted in the end, if only
\* the pending slot becomes free again and again.
CleanupIsDurable ==
    []<>(~IsPending) =>
        \A t \in Tx : (t \in cleanup) ~> ~Exists(disk, Old(t))
=============================================================================
