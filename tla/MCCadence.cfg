SPECIFICATION FairSpec
CONSTANTS
  live = live
  dry = dry
  Policies = {live, dry}
  DryRun = {dry}
  RequeueAfter = 2
  MaxBackoff = 1
  MaxLag = 2
  MaxDisturbances = 0
PROPERTIES
  Cadence
