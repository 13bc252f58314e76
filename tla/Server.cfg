SPECIFICATION FairSpec
CONSTANTS
  s1 = s1
  s2 = s2
  Fds <- TwoFds
  Sessions <- TwoSessions
  MaxBacklog = 1
  Configs <- AllConfigs
  Resets = TRUE
INVARIANTS
  NoUseAfterFree
  HashMatchesPool
  SessionOwnsSocket
PROPERTIES
  ConnectionPromise
  CloseIsExclusive
  ConnectionIsReleased
  DataIsReceived
  ServerEnds
