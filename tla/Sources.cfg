SPECIFICATION SourcesSpec
CONSTANTS
  Worlds <- SomeWorlds
  TransferAsks <- SomeTransfers
  ProductionAsks <- SomeProductions
  SiteAsks <- SomeSites
  GroupAsks <- GroupSomeAsks
  Repeated <- Repetitions
  AllNames = AllNames
  NoValue = NoValue
  MaxLegend = 5
  Pause = 1200
  MaxPauses = 2
  MaxRequests = 2
  Requests = {1, 2, 3}
  MaxBusy <- OthersAtWork
  Images = {"week", "hour", "odd"}
  ImageLife = 1
  RowsLife = 0
  Drawing <- SomeDrawings
  Interval <- SomeIntervals
  Asks <- SomeAsks
  MaxClock = 2
  MaxFailures = 1
  Readers = {r1}
  DiskPlots <- DiskGroups
  rxlist <- DiskLabels
  Reports <- DiskAnswers
  Totals <- DiskSizes
  None = None

INVARIANT NothingLeftOut
INVARIANT DrawingsWhole
INVARIANT AsAsked
INVARIANT ImagesRecent
INVARIANT PagesComplete
INVARIANT ValuesWhole
PROPERTY RequestsEnd

CHECK_DEADLOCK FALSE
