SPECIFICATION FairSpec
CONSTANTS
  s1 = s1
  s2 = s2
  Fds <- TwoFds
  Sessions <- TwoSessions
  MaxBacklog = 1
  Configs <- FailingOnRecv
  Resets = FALSE
PROPERTIES
  ClosedIsReleased
