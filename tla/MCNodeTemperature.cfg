SPECIFICATION Spec
CONSTANTS
  n1 = n1
  n2 = n2
  Nodes = {n1, n2}
  Shares <- MCShares
  PolicyLists <- MCPolicyLists
  CustomQueries = TRUE
  MaxEvents = 2
INVARIANTS
  ShownHotIsHot
PROPERTIES
  HotIsMeasured
