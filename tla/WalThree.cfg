CONSTANTS
  c1 = c1
  c2 = c2
  c3 = c3
  Conn = {c1, c2, c3}
  Readers = {c1, c2}
  Writers = {c2}
  Checkpointers = {c3}
  Page <- MCPage
  NoConn = NoConn
  NReader = 2
  MaxFrame = 2
  MaxTx = 3
  MaxSalt = 2
  Modes = {"PASSIVE"}
  StaleCheckpoints = FALSE
  DeathPcs <- NoDeaths
SPECIFICATION Spec
INVARIANTS
  SnapshotRead
