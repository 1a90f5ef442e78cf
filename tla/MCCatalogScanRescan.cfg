SPECIFICATION Spec
CONSTANTS
  None = None
  MaxChanges = 1
  MaxNoise = 1
  MaxFaults = 0
  MaxDirty = 1
PROPERTY RescanIsDeep
