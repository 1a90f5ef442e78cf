SPECIFICATION Spec
CONSTANTS
  Tabs = {t1, t2}
  NoTab = NoTab
  MaxAttempts = 3
SYMMETRY MCSymmetry
INVARIANTS
  TypeOK
  LeaseIsKept
PROPERTIES
  ImplementsOwnership
CHECK_DEADLOCK FALSE
