SPECIFICATION ObservedSpec
CONSTANTS
  p1 = p1
  p2 = p2
  p3 = p3
  prod = prod
  dev = dev
  Pods = {p1, p2, p3}
  Namespaces = {prod, dev}
  NamespaceOf <- MCNamespaceOf
  HourlyLimits <- OneHourlyLimit
  PolicySpecs <- MCPolicySpecs
  Hour = 2
  MaxTime = 1
  MaxEvictions = 3
  MaxRestarts = 0
INVARIANTS
  HourlyLimitAsDocumented
