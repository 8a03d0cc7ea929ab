CONSTANTS
  p1 = p1
  p2 = p2
  p3 = p3
  c1 = c1
  c2 = c2
  c3 = c3
  NoConn = NoConn
  Process <- MCProcess3
  Conn <- MCConn
  proc <- MCProc3
  ReleaseFaults = FALSE
SPECIFICATION FairSpec
PROPERTY WriterNotStarved
