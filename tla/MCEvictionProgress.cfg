SPECIFICATION FairSpec
CONSTANTS
  stuck1 = stuck1
  web1 = web1
  web2 = web2
  free1 = free1
  stuck = stuck
  web = web
  Pods = {stuck1, web1, web2, free1}
  Rank <- MCRank
  Budgets = {stuck, web}
  Covers <- MCCovers
  Stuck = {stuck}
  RespectPDB = TRUE
  Limit = 2
  MaxDrains = 2
  MaxRecreations = 1
PROPERTIES
  FreePodsLeave
