SPECIFICATION FairSpec
CONSTANTS
  fwk = fwk  s1 = s1  s2 = s2  s3 = s3  d1 = d1  w1 = w1  x1 = x1  d2 = d2  w2 = w2  d3 = d3
  SimComps <- PairComps
  Sims <- OneSims
  SimOf <- PairSimOf
  Visible <- OneVisible
  FwkList <- F
  SimList <- OneList
  Calls <- PairCalls
  Creates <- NoCreates
  TaskCores <- PairTasks
  BlockModes = {TRUE, FALSE}
  BusyMethods = {"step"}
  MayFail <- PairFails
  BadCommand <- PairBadLaunch
  BadBinary <- PairBadLaunch
  Habits = {"waits", "no_rewait", "finishes_tasks", "no_hold_and_wait"}
  MaxRequests <- PairRequests
  TotalCores = 1
PROPERTIES RunEnds
CHECK_DEADLOCK FALSE
