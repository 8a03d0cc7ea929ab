CONSTANTS
  c1 = c1
  c2 = c2
  Conn = {c1}
  NoConn = NoConn
  NoFile = NoFile
  Writers = {c1}
  NPage = 3
  NInit = 2
  MaxTx = 2
  MaxDeaths = 0
  MaxPowerLoss = 0
  MaxEvents = 1
  journalMode <- NormalModes
  synchronous <- NormalSyncs
  AlignedSegments = FALSE
  LoseUnsynced = FALSE
  UseSavepoints = TRUE
SPECIFICATION Spec
CHECK_DEADLOCK FALSE
INVARIANTS
  TypeOK
  RecoveryIsExact
PROPERTIES
  SavepointRestored
