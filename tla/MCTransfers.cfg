SPECIFICATION PartsSpec
SYMMETRY Symmetry
CONSTANTS
  MaxCopies = 3
  MaxJournal = 3
  Nobody = Nobody
  Tabs = {t1, t2}
  SendBooks = {"b1"}
  SendOrders <- OneBook
  MaxSendEdits = 3
  MaxSendFaults = 1
  MaxSendJobs = 2
  MaxKoboFiles = 2
  MaxKoboEdits = 1
  MaxKoboFaults = 1
  MaxCrashes = 1
  MaxGen = 4
  MaxSlotFaults = 3
  MaxSlotTouches = 2
  KindleBooks = {"b1", "b2"}
  KindleHandles = {1, 2}
  MaxConnects = 2
  MaxRemovals = 1
  MaxKindleEdits = 1
  MaxKindleTouches = 1
  MaxKindleFaults = 2
  Objects = {"folder", "one", "two", "twin", "sdr", "asset", "token"}
  Limits <- AFewLimits
  BatchSize = 2
  MaxRounds = 2
  MaxInventoryTouches = 1
  MaxInventoryFaults = 1
  Requests = {1, 2, 3}
  Conns = {"c1", "c2"}
  ConnOf <- TwoConns
  MaxActive = 2
  MaxBuffered = 1
  MaxStreams = 1
  MaxClients = 1
INVARIANTS
  WellFormed
  SentBooksAreRight
  NewestSlotSurvives
  LiveComparisonIsTrue
  KoboFilesAreKnown
  InventoryIsTrue
  ServerSlotsAreTrue
PROPERTIES
  KeepsACopy
  RecordsAreKept
  ReportsAreTrue
  DecisionsAreCarriedOut
CHECK_DEADLOCK FALSE
