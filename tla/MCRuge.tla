------------------------------- MODULE MCRuge -------------------------------
EXTENDS Ruge, MCGraphs
=============================================================================
