SPECIFICATION PartsFairSpec
CONSTANTS
  None = None
  MaxChanges = 1
  MaxNoise = 0
  MaxFaults = 1
  MaxDirty = 1
  PageChanges = 2
  PageFaults = 1
  PageClicks = 1
  Books = {b1}
  MaxAttempts = 2
  StepSize = 2
  MaxJobs = 1
  MaxClicks = 3
  MaxOthers = 1
  LookupFaults = 1
INVARIANTS
  RowsAreOfThePath
  QuietPageIsFresh
  SearchesMatchEntries
PROPERTIES
  PageCatchesUp
  MountLossIsConfirmed
  FileIsCatalogued
  BusyEnds
CHECK_DEADLOCK FALSE
