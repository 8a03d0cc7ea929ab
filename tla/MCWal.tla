------------------------------- MODULE MCWal -------------------------------
EXTENDS Wal, TLC

CONSTANTS c1, c2, c3

MCPage == 1..2
Symmetric2 == Permutations({c1, c2})
NoDeaths == {}
\* A process may die before any step but the second store of walRestartHdr.
MostDeaths == Pcs \ {"idle", "restartInfo"}
\* It dies exactly there.
RestartDeath == {"restartInfo"}
=============================================================================
