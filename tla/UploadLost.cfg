SPECIFICATION Spec

CONSTANTS
  Threads = {t1, t2}
  Requests <- DataFiles
  MaxPuts = 2
  MaxFaults = 1
  Nobody = Nobody
  None = None
  Empty = Empty

INVARIANT AcknowledgedKept

CHECK_DEADLOCK FALSE
