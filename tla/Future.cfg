SPECIFICATION Spec
CONSTANTS
  f1 = f1
  f2 = f2
  t1 = t1
  t2 = t2
  r1 = r1
  r2 = r2
  e1 = e1
  e2 = e2
  Futures <- TwoFutures
  Tids <- TwoTids
  NoTid = NoTid
  Results <- TwoResults
  Errors <- TwoErrors
  Indeterminate = Indeterminate
  CreateFails = TRUE
  DwordOf <- Half
  Platforms <- AllPlatforms
SYMMETRY Symmetry
INVARIANTS
  AwaitTellsOutcome
  DestroyedIsUnused
