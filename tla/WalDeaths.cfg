CONSTANTS
  c1 = c1
  c2 = c2
  c3 = c3
  Conn = {c1, c2}
  Readers = {c1, c2}
  Writers = {c1}
  Checkpointers = {c2}
  Page <- MCPage
  NoConn = NoConn
  NReader = 2
  MaxFrame = 3
  MaxTx = 3
  MaxSalt = 2
  Modes = {"PASSIVE"}
  StaleCheckpoints = FALSE
  DeathPcs <- MostDeaths
SPECIFICATION Spec
INVARIANTS
  SnapshotRead
  CommittedSurvives
