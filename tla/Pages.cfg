SPECIFICATION PagesSpec

CONSTANTS
  SessionIds = {"A", "B"}
  Workspaces = {"Summary", "Tracker", "Shift", "Sample", "Play"}
  Kind <- SomeKinds
  LeftAlone = {"B"}
  Contents = {"Tracker"}
  Configs <- SomeConfigs
  Users <- SomeUsers
  Texts = {"x"}
  Unsafe = {"bad"}
  Runs = {"0", "1"}
  Junk = Junk
  MaxRestarts = 1
  Default = Default
  None = None

  MaxPlots = 3
  Wrong = Wrong

  LAYOUTS <- LayoutOrder
  MaxEdits = 2
  MaxKills = 1

INVARIANT AnsweredIsSaved
INVARIANT WayBack
INVARIANT PlotsDescribed
INVARIANT CanBeMended
INVARIANT PeriodMatches
INVARIANT LabelsKept
PROPERTY LayoutsArrive
PROPERTY ImageStays

CHECK_DEADLOCK FALSE
