------------------------- MODULE RollbackRefinement -------------------------
(***************************************************************************)
(* RollbackRecovery implements AtomicRollback.  The active system is the   *)
(* one that would survive a power loss at this moment; between the two     *)
(* renames that is the protected one, under its old-root name.             *)
(***************************************************************************)
EXTENDS RollbackRecovery

OpenPhases == Phases \ Terminal

OpenTransaction == IF pending.phase \in OpenPhases THEN pending.id ELSE None

ActiveSystem == IF Exists(disk, Root) THEN disk[Root] ELSE pending.fallback

BaseSystem == IF pending.phase \in OpenPhases THEN pending.fallback ELSE ActiveSystem

\* A transaction that is neither pending nor archived as confirmed was cancelled,
\* undone, failed or reverted.
Outcome(t) ==
    IF pending.id = t
    THEN CASE pending.phase = "Confirmed" -> "committed"
           [] pending.phase \in {"Reverted", "Failed"} -> "aborted"
           [] OTHER -> "none"
    ELSE IF history[t] = "Confirmed" THEN "committed"
         ELSE IF t \in used THEN "aborted" ELSE "none"

Abstract == INSTANCE AtomicRollback
    WITH active <- ActiveSystem, base <- BaseSystem, open <- OpenTransaction,
         outcome <- [t \in Tx |-> Outcome(t)]

\* Every behaviour of GRUB, the engine, the helper and the confirmation, with any
\* disruption, is an atomic rollback: the system changes only while a rollback is
\* open, and each rollback ends once, with the system that its outcome names.
ImplementsAtomicRollback == Abstract!ASpec
=============================================================================
