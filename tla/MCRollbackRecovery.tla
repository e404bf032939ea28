------------------------- MODULE MCRollbackRecovery -------------------------
EXTENDS RollbackRefinement
=============================================================================
