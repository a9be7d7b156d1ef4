SPECIFICATION IndexSpec

CONSTANTS
  Samples = {"s1", "s2", "s3", "s4"}
  Objects = {"o1", "o2"}
  Imported <- TwoImported
  Importable = {"s2", "s3"}
  Removable = {"s2"}
  Versions = 9
  FileLimit = 20
  MaxIndex = 1
  MaxTx = 3
  MaxCrashes = 1
  Null = Null
  Threads = {t1, t2}
  MaxAsks = 2
  MaxTries = 1
  Unopened = Unopened
  Nobody = Nobody

INVARIANT CatalogueFilesExist
INVARIANT NumObjectsTrue
INVARIANT NoUpdateLost
PROPERTY PublishedUntouched
PROPERTY AtomicSpec
PROPERTY EveryRequestAnswered

CHECK_DEADLOCK FALSE
