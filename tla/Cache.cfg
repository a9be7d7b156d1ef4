SPECIFICATION FairSpec

CONSTANTS
  Fetchers = {f1, f2}
  Keys = {"a", "b"}
  Lifetimes = {0, 1}
  Sizes = {1, 2}
  ItemLimit = 1
  SizeLimit = 2
  WaitRounds = 1
  MaxTime = 2
  MaxFetches = 3
  Missing = Missing

INVARIANT BytesAccounted
INVARIANT AnnouncedIsProduced
INVARIANT NothingStale
PROPERTY WaitEnds

CHECK_DEADLOCK FALSE
