SPECIFICATION LiveSpec

CONSTANTS
  Hub = hub
  Sources = {s}
  Viewers = {v}
  Names = {"a"}
  Threads = {t1}
  Breakable = {v}
  Removes = FALSE
  MaxWait = 1
  Slots = {1, 2}
  MaxConns = 2
  MaxChanges = 1
  MaxAsks = 1
  MaxExpired = 1
  Local = Local
  Free = Free

INVARIANT FreshData
INVARIANT WaitersCounted
PROPERTY ListsConverge
PROPERTY FetchesEnd
PROPERTY ObjectsStayListed

CHECK_DEADLOCK FALSE
