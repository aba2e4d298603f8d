SPECIFICATION Spec
CONSTANTS
  n1 = n1
  n2 = n2
  n3 = n3
  n4 = n4
  p1 = p1
  p2 = p2
  p3 = p3
  p4 = p4
  arm = arm
  Nodes = {n1, n2, n3, n4}
  Pods = {p1, p2, p3, p4}
  NodeOf <- MCNodeOf
  Requests <- MCRequests
  DefaultRequest <- MCDefaultRequest
  Priority <- MCPriority
  Fits <- MCFits
  Classes <- MCClasses
  Weights <- MCWeights
  Scale = 8
  ClassBias = 1024
  Settings <- MCSettings
INVARIANTS
  TypeOK
  UtilMatchesMoves
  WholePlanHelps
  EveryPartHelps
  PeakNeverRises
  StopsAtTarget
  HotToCold
PROPERTIES
  NothingMissed
