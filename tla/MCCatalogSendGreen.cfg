SPECIFICATION Spec
CONSTANTS
  Books = {"b1"}
  Orders <- MCOrders
  MaxEdits = 2
  MaxFaults = 1
  MaxJobs = 2
  None = None
INVARIANT OnlyFreshRestoresGreen
CHECK_DEADLOCK FALSE
