--------------------------- MODULE MCAwriseMemory ---------------------------
EXTENDS AwriseMemory
=============================================================================
