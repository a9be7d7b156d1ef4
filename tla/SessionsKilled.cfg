SPECIFICATION Spec

CONSTANTS
  Threads = {t1, t2}
  Names = {"s1", "s2"}
  Known = {"s1"}
  MaxUpdates = 2
  MaxObjects = 3
  MaxRequests = 3
  MaxFaults = 1
  Nobody = Nobody
  Gone = Gone


PROPERTY SessionsSurvive

CHECK_DEADLOCK FALSE
