SPECIFICATION PartsSpec
SYMMETRY Symmetry
CONSTANTS
  None = None
  Profiles = {x1, x2}
  Roots = {1, 2, 3, 4}
  Keys = {1, 2}
  Services = {y1, y2}
  Variants <- TwoVariants
  MaxKept = 1
  MaxFolders = 2
  MaxWrites = 2
  MaxScans = 2
  Browsers = {x1, x2}
  MaxRequests = 3
  MaxProviderFaults = 1
  MaxStarts = 1
  CoverBooks = {x1, x2}
  Pictures = {y1, y2}
  Uploads = {z1, z2}
  MaxCoverRevision = 2
  MaxCoverFaults = 1
  IssueBooks = {"b1", "b2"}
  Facts <- TwoIssues
  MaxRows = 1
  MaxHistory = 1
  MaxIssueChanges = 1
  MaxDecisions = 2
  MaxIssueFaults = 1
INVARIANTS
  WellFormed
  FoldersAreSound
  CredentialsAreTrue
  CoversAreKept
  
PROPERTIES
  ConfigurationsAreAsAsked
CHECK_DEADLOCK FALSE
