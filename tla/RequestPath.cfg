SPECIFICATION FairSpec
CONSTANTS
  None = None
  NoSnapshot = NoSnapshot
  Tasks = {"t1", "t2"}
  Processes = {"p1", "p2"}
  Registries = {"p1", "p2"}
  Keys = {"k1", "k2", "k3"}
  Bootstrap <- MCBootstrap
  Homes <- MCHomes
  Files = {"a", "b", "torn"}
  ParseOf <- MCParseOf
  VersionOf <- MCVersionOf
  InitialFiles = {"a"}
  Requests <- MCRequests
  OwnPolicy <- MCOwnPolicy
  InitialRows <- MCRows
  MaxFaults = 1
  MaxRequests = 3
  MaxChanges = 1
CHECK_DEADLOCK FALSE
INVARIANT TypeOK
INVARIANT KnownKeyNever401
INVARIANT LoserFindsRows
INVARIANT CatalogIsCurrent
INVARIANT DecidedVersionIsStored
PROPERTY BlockedStaysBlocked
PROPERTY PoliciesGetStored
PROPERTY RequestsAnswered
