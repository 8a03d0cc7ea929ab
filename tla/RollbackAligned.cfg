CONSTANTS
  c1 = c1
  c2 = c2
  Conn = {c1}
  NoConn = NoConn
  NoFile = NoFile
  Writers = {c1}
  NPage = 2
  NInit = 2
  MaxTx = 3
  MaxDeaths = 0
  MaxPowerLoss = 0
  MaxEvents = 2
  journalMode <- PersistModes
  synchronous <- PersistSyncs
  AlignedSegments = TRUE
  LoseUnsynced = FALSE
  UseSavepoints = FALSE
SPECIFICATION Spec
CHECK_DEADLOCK FALSE
INVARIANTS
  OldHeaderUnrecognised
