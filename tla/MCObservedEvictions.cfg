SPECIFICATION ObservedSpec
CONSTANTS
  p1 = p1
  p2 = p2
  p3 = p3
  prod = prod
  dev = dev
  Pods = {p1, p2, p3}
  Namespaces = {prod, dev}
  NamespaceOf <- MCNamespaceOf
  HourlyLimits <- MCHourlyLimits
  PolicySpecs <- MCPolicySpecs
  Hour = 2
  MaxTime = 2
  MaxEvictions = 3
  MaxRestarts = 1
SYMMETRY Symmetric
INVARIANTS
  TypeOK
  PlanWithinLimits
  HourlyBudget
  MemoryCoversEvictions
  EvictionsCounted
  GaugeIsSafe
PROPERTIES
  BackoffRespected
  ImplementsGuard
