CONSTANTS
  p1 = p1
  p2 = p2
  p3 = p3
  c1 = c1
  c2 = c2
  c3 = c3
  NoConn = NoConn
  Process <- MCProcess
  Conn <- MCConn
  proc <- MCProc
  ReleaseFaults = FALSE
SPECIFICATION SpecNoOverlap
INVARIANTS
  TypeOK
  LockExclusion
  KernelBacked
  WriterIsSeen
  UnlockClosesDeferred
PROPERTY ImplementsFileLock
