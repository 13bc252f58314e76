SPECIFICATION FairSpec
CONSTANTS
  p1 = p1
  p2 = p2
  p3 = p3
  NTasks = 2
  Pids <- ThreePids
  NoPid = NoPid
  MaxAttempts = 2
  SecToReset = 2
  BadPid = BadPid
  StartFails = FALSE
  Platforms <- BothPlatforms
PROPERTIES
  NonRecoverableStaysDown
