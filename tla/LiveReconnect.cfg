SPECIFICATION FairSpec

CONSTANTS
  Hub = hub
  Sources = {s}
  Viewers = {v}
  Names = {"a"}
  Threads = {t1}
  Breakable = {s}
  Removes = FALSE
  MaxWait = 1
  Slots = {1, 2}
  MaxConns = 2
  MaxChanges = 1
  MaxAsks = 0
  MaxExpired = 1
  Local = Local
  Free = Free

PROPERTY Converges

CHECK_DEADLOCK FALSE
