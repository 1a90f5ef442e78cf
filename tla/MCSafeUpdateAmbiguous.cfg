CONSTANTS
  MaxCopies = 3
  MaxJournal = 3
SPECIFICATION Spec
INVARIANT NoAmbiguousTarget
