SPECIFICATION Spec
CONSTANTS
  Tabs = {t1, t2}
  NoTab = NoTab
  MaxAttempts = 2
SYMMETRY MCSymmetry
INVARIANTS
  LeaseCoversEveryCall
CHECK_DEADLOCK FALSE
