--------------------------- MODULE MCBuildStatus ---------------------------
(* Two entries built on the bases their manifests pin, one of them not the   *)
(* default base.                                                             *)
EXTENDS BuildStatus, TLC

MCOwnBase == [e \in Entries |-> IF e = "cad" THEN "debian" ELSE "ubuntu"]
MCPlan == Plan
WorkerSymmetry == Permutations(Workers)
=============================================================================
