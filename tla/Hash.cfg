SPECIFICATION FairSpec
CONSTANTS
  e1 = e1
  e2 = e2
  e3 = e3
  NULL = NULL
  Entries <- ThreeEntries
  HashValue <- Hashes
  InitialBuckets = 2
  Threshold = 2
  MaxBuckets = 8
INVARIANTS
  TableIsSound
  MissedOnlyInExpansion
PROPERTIES
  LookupEnds
