----------------------- MODULE MCRestoreCoordination -----------------------
(* The root module of the TLC run on RestoreCoordination. *)
EXTENDS RestoreCoordination, TLC

\* The tasks, the ids that are not in use and the snapshots are alike.
Alike == Permutations(Tasks) \cup Permutations(Snapshots \ Kept)
           \cup Permutations(TransactionIds \ {Old}) \cup Permutations(PackageIds)
=============================================================================
