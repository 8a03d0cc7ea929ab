CONSTANTS
  t1 = t1
  t2 = t2
  Thread = {t1, t2}
  Faults = FALSE
  MaxLeaks = 0
SPECIFICATION Spec
INVARIANT InitializedMeansReady
