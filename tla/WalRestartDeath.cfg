CONSTANTS
  c1 = c1
  c2 = c2
  c3 = c3
  Conn = {c1, c2}
  Readers = {c1, c2}
  Writers = {c1, c2}
  Checkpointers = {c1, c2}
  Page <- MCPage
  NoConn = NoConn
  NReader = 1
  MaxFrame = 2
  MaxTx = 3
  MaxSalt = 2
  Modes = {"PASSIVE"}
  StaleCheckpoints = FALSE
  DeathPcs <- RestartDeath
SPECIFICATION Spec
INVARIANT BackfillWithinLog
