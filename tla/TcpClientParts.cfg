SPECIFICATION FairSpec
CONSTANTS
  Fds = {3, 4}
  Addresses = 2
  Sz = 3
  Timeouts <- ShortTimeouts
  Second = 2
  MaxBytes = 4
  MaxClock = 6
INVARIANTS
  ReplyIsWhole
