------------------------- MODULE MCInstallerFinish -------------------------
(* Two steps: one that prepares the disk and one that fills it. *)
EXTENDS InstallerFinish

MCSteps == <<"prepare-storage", "copy-system">>
=============================================================================
