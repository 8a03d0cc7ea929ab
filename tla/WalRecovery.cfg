CONSTANTS
  c1 = c1
  c2 = c2
  c3 = c3
  Conn = {c1, c2}
  Readers = {c1, c2}
  Writers = {c1, c2}
  Checkpointers = {}
  Page <- MCPage
  NoConn = NoConn
  NReader = 1
  MaxFrame = 3
  MaxTx = 4
  MaxSalt = 1
  Modes = {"PASSIVE"}
  StaleCheckpoints = FALSE
  DeathPcs <- MostDeaths
SPECIFICATION Spec
SYMMETRY Symmetric2
INVARIANT
  CommittedSurvives
