SPECIFICATION FairSpec
CONSTANTS
  s1 = s1
  s2 = s2
  s3 = s3
  NThreads = 2
  Sessions <- ThreeSessions
  NoThread = NoThread
  NoSession = NoSession
  Main = Main
  NoOne = NoOne
INVARIANTS
  NoLostWakeup
  NoSleepThroughWake
  WorkIsExclusive
  
PROPERTIES
  AddKeepsBalance
  PoolPromise
  FlushIsServed
  ShutdownCompletes
