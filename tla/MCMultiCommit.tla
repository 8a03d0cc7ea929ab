--------------------------- MODULE MCMultiCommit ---------------------------
EXTENDS MultiCommit, TLC

CONSTANTS c1, c2, f1, f2

DeleteModes == c1 :> "DELETE" @@ c2 :> "DELETE"
PersistModes == c1 :> "PERSIST" @@ c2 :> "PERSIST"
MixedModes == c1 :> "PERSIST" @@ c2 :> "DELETE"
Sym == Permutations({f1, f2})
=============================================================================
