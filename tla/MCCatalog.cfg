SPECIFICATION PartsSpec
SYMMETRY Symmetry
CONSTANTS
  None = None
  MaxChanges = 1
  MaxNoise = 1
  MaxFaults = 0
  MaxDirty = 1
  Contents = {c1, c2}
  Paths = {1, 2, 3}
  Keep = 1
  MaxBooks = 4
  MaxEvidence = 1
  MaxFileEdits = 3
  MaxFileFaults = 1
  MaxClears = 1
  Browsers = {w1, w2}
  QueueBooks = {"k1", "k2", "k3"}
  Shelves = {"s1"}
  FirstQueue <- TwoQueued
  MaxProfileEdits = 2
  MaxProfileFaults = 1
  Editors = {"w1"}
  Reviewer = "w2"
  MaxRevision = 3
  MaxContents = 2
  MaxEditorFaults = 1
INVARIANTS
  WellFormed
  WatchedChangesAreIndexed
  BooksKeepTheirIdentity
  QuietViewsAreFresh
PROPERTIES
  ChangesAreInformed
CHECK_DEADLOCK FALSE
