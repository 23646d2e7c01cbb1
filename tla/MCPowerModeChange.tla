-------------------------- MODULE MCPowerModeChange --------------------------
EXTENDS PowerModeChange
=============================================================================
