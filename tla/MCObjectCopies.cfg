SPECIFICATION Spec
CONSTANTS
  Kinds = {"RebalancePolicy", "NodeClass", "WorkloadSLO"}
  reconciler = reconciler
  dashboard = dashboard
  Cache = Cache
  Holders = {reconciler, dashboard}
  MaxCopies = 4
  MaxWrites = 2
INVARIANTS
  CopiesIndependent
CHECK_DEADLOCK FALSE
