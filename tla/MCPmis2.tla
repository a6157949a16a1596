------------------------------ MODULE MCPmis2 ------------------------------
EXTENDS Pmis2, MCGraphs
=============================================================================
