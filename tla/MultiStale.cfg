CONSTANTS
  c1 = c1
  c2 = c2
  f1 = f1
  f2 = f2
  Conn = {c1, c2}
  File = {f1, f2}
  Writers = {c1, c2}
  NoFile = NoFile
  MaxTx = 2
  MaxDeaths = 1
  MaxPowerLoss = 0
  MaxFailures = 1
  journalMode <- PersistModes
  extraSync = TRUE
  ShortJournals = TRUE
  LoseUnsynced = FALSE
SPECIFICATION Spec
SYMMETRY Sym
INVARIANTS
  RecoveryIsExact
