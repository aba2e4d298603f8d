SPECIFICATION Spec
CONSTANTS
  Situations <- MCSituations
  Number <- MCNumber
INVARIANTS
  TargetsPassFilters
  NoTargetMissed
CHECK_DEADLOCK FALSE
