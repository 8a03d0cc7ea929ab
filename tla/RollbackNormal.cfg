CONSTANTS
  c1 = c1
  c2 = c2
  Conn = {c1}
  NoConn = NoConn
  NoFile = NoFile
  Writers = {c1}
  NPage = 2
  NInit = 2
  MaxTx = 3
  MaxDeaths = 1
  MaxPowerLoss = 1
  MaxEvents = 3
  journalMode <- NormalModes
  synchronous <- NormalSyncs
  AlignedSegments = FALSE
  LoseUnsynced = TRUE
  UseSavepoints = FALSE
SPECIFICATION Spec
CHECK_DEADLOCK FALSE
INVARIANTS
  PowerLossIsAtomic
