----------------------------- MODULE MCLibInit ------------------------------
EXTENDS LibInit

CONSTANTS t1, t2
=============================================================================
