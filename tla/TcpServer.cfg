SPECIFICATION FairSpec
CONSTANTS
  Configs <- SmallBatches
  Fds <- FourFds
  c1 = c1
  c2 = c2
  Clients = {c1, c2}
  Addresses = 2
INVARIANTS
  RegistryMatches
  EventsAreFresh
  NothingIsLeftOpen
PROPERTIES
  ConnectionPromise
  ClosesItsOwn
  ReadyIsReported
