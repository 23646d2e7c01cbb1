----------------------------- MODULE MCDeepSleep -----------------------------
EXTENDS DeepSleep
=============================================================================
