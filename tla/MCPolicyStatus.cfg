SPECIFICATION FairSpec
CONSTANTS
  Loads <- MCLoads
  Cycle = 3
  MaxLag = 2
  MaxEdits = 1
  MaxChanges = 1
  MaxRestarts = 1
INVARIANTS
  TypeOK
  ObservedWasReconciled
PROPERTIES
  ObservedAdvances
  StatusHeals
