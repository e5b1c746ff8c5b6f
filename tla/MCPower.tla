------------------------------- MODULE MCPower ------------------------------
EXTENDS Power
=============================================================================
