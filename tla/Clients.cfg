SPECIFICATION ClientsSpec

CONSTANTS
  None = None

  Mixes <- SomeMixes
  MaxUploads = 2
  MaxKills = 1

  Threads = {1, 2}
  Requests <- SomeRequests
  MaxPuts = 3
  MaxFaults = 1
  Nobody = Nobody
  Empty = Empty

  Handles = {h1, h2}
  Tree <- Directories
  Roots <- RootOrder
  MaxErrors = 2

INVARIANT RightPlace
INVARIANT WholeFiles
INVARIANT ListingComplete
PROPERTY NothingReplaced
PROPERTY NeverOverwritten
PROPERTY WorkEnds

CHECK_DEADLOCK FALSE
