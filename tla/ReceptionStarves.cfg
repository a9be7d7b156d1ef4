SPECIFICATION FairSpec
CONSTANTS
  Mixes <- SomeMixes
  MaxUploads = 2
  MaxKills = 1
  None = None
PROPERTY KeepsGoing
CHECK_DEADLOCK FALSE
