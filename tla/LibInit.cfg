CONSTANTS
  t1 = t1
  t2 = t2
  Thread = {t1, t2}
  Faults = TRUE
  MaxLeaks = 1
SPECIFICATION FairSpec
INVARIANTS
  TypeOK
  InitMutexLives
  OneInitialiser
  RandomIsSeeded
  WipedWhenUnused
PROPERTY EveryCallReturns
