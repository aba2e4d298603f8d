SPECIFICATION Spec
CONSTANTS
  web = web
  db = db
  job = job
  n1 = n1
  n2 = n2
  prod = prod
  dev = dev
  ok = ok
  other = other
  b1 = b1
  any = any
  critical = critical
  Pods = {web, db, job}
  Nodes = {n1, n2}
  Namespaces = {prod, dev}
  Labels = {ok, other}
  AnyNamespace = any
  Attributes <- MCAttributes
  Budgets = {b1}
  Covers <- MCCovers
  Policies <- MCPolicies
  SLOLists <- MCSLOLists
  ClassValue <- MCClassValue
  CriticalPriority = 2
  GiB = 2
  EmptyDirLimitGi = 2
  MaxAllowance = 1
  MaxTime = 2
  MaxEdits = 2
INVARIANTS
  TypeOK
  GuardsHonoured
PROPERTIES
  NothingWithheld
