--------------------------- MODULE MCBuildMatrix ---------------------------
(* Two workers, a catalog target and a core one, two runs.                   *)
EXTENDS BuildMatrix
=============================================================================
