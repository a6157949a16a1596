------------------------------- MODULE MCCljp -------------------------------
EXTENDS Cljp, MCGraphs
=============================================================================
