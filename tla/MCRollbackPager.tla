-------------------------- MODULE MCRollbackPager --------------------------
EXTENDS RollbackPager, TLC

CONSTANTS c1, c2

\* One connection deletes its journal, the other one keeps it.
DurableModes == c1 :> "DELETE" @@ c2 :> "PERSIST"
DurableSyncs == c1 :> "EXTRA" @@ c2 :> "FULL"
\* The end of the journal is not synced.
NormalModes == c1 :> "TRUNCATE"
NormalSyncs == c1 :> "NORMAL"
\* The journal is kept.
PersistModes == c1 :> "PERSIST"
PersistSyncs == c1 :> "FULL"
=============================================================================
