CONSTANTS
  t1 = t1
  t2 = t2
  t3 = t3
  NoThread = NoThread
  Thread <- MCThread
  MaxDepth = 3
SPECIFICATION Spec
INVARIANTS
  TypeOK
  SelfNeverBlocks
  HeldWhileEntered
PROPERTY ImplementsMutexContract
