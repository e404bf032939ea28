------------------------- MODULE MCPowerLossMatrix --------------------------
EXTENDS PowerLossMatrix
=============================================================================
