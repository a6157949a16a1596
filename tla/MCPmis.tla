------------------------------- MODULE MCPmis -------------------------------
EXTENDS Pmis, MCGraphs
=============================================================================
