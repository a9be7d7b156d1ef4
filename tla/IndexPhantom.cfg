SPECIFICATION Spec

CONSTANTS
  Samples = {"s1", "s2"}
  Objects = {"o1", "o2"}
  Imported <- NothingImported
  Importable = {"s1", "s2"}
  Removable = {}
  Versions = 9
  FileLimit = 20
  MaxIndex = 1
  MaxTx = 2
  MaxCrashes = 1
  Null = Null

PROPERTY AlwaysAtomic

CHECK_DEADLOCK FALSE
