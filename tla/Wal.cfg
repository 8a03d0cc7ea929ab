CONSTANTS
  c1 = c1
  c2 = c2
  c3 = c3
  Conn = {c1, c2}
  Readers = {c1, c2}
  Writers = {c1, c2}
  Checkpointers = {c1, c2}
  Page <- MCPage
  NoConn = NoConn
  NReader = 1
  MaxFrame = 3
  MaxTx = 3
  MaxSalt = 2
  Modes = {"TRUNCATE"}
  StaleCheckpoints = FALSE
  DeathPcs <- NoDeaths
SPECIFICATION Spec
SYMMETRY Symmetric2
INVARIANTS
  TypeOK
  CacheFresh
  BackfillWithinLog
PROPERTY ImplementsSnapshotStore
