SPECIFICATION Spec
CONSTANTS
  Books = {b1, b2}
  NoBook = NoBook
INVARIANTS
  CoversUseTheLatestHierarchy
CHECK_DEADLOCK FALSE
