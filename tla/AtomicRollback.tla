--------------------------- MODULE AtomicRollback ---------------------------
(***************************************************************************)
(* What the rollback promises, without subvolumes, files or boots.  The    *)
(* machine owns one active system.  A rollback that is open may switch the *)
(* active system to its target and back; it ends exactly once, committed   *)
(* with the target active or aborted with the system it started from, and  *)
(* between two rollbacks the active system does not change.                *)
(***************************************************************************)
CONSTANTS Tx,        \* rollbacks; t is also the system that t restores
          Original,  \* the system before any rollback
          None       \* no rollback is open

VARIABLES active,    \* the system the machine comes up with
          base,      \* the system the open rollback started from
          open,      \* the rollback in progress
          outcome    \* how each rollback ended

avars == <<active, base, open, outcome>>

AInit ==
    /\ active = Original
    /\ base = Original
    /\ open = None
    /\ outcome = [t \in Tx |-> "none"]

Begin(t) ==
    /\ open = None /\ outcome[t] = "none"
    /\ open' = t
    /\ UNCHANGED <<active, base, outcome>>

Switch ==
    /\ open # None
    /\ active' \in {base, open}
    /\ UNCHANGED <<base, open, outcome>>

Commit(t) ==
    /\ open = t /\ active = t
    /\ open' = None
    /\ base' = t
    /\ outcome' = [outcome EXCEPT ![t] = "committed"]
    /\ UNCHANGED active

Abort(t) ==
    /\ open = t /\ active = base
    /\ open' = None
    /\ outcome' = [outcome EXCEPT ![t] = "aborted"]
    /\ UNCHANGED <<active, base>>

ANext == Switch \/ \E t \in Tx : Begin(t) \/ Commit(t) \/ Abort(t)

ASpec == AInit /\ [][ANext]_avars
=============================================================================
