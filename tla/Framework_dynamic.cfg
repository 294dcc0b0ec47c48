SPECIFICATION Spec
CONSTANTS
  fwk = fwk  s1 = s1  s2 = s2  s3 = s3  d1 = d1  w1 = w1  x1 = x1  d2 = d2  w2 = w2  d3 = d3
  SimComps <- DynComps
  Sims <- DynSims
  SimOf <- DynSimOf
  Visible <- DynVisible
  FwkList <- F
  SimList <- OneList
  Calls <- DynCalls
  Creates <- DynCreates
  TaskCores <- DynTasks
  BlockModes = {TRUE}
  BusyMethods = {"step"}
  MayFail <- DynFails
  BadCommand <- NoBadLaunch
  BadBinary <- NoBadLaunch
  Habits = {"waits", "no_rewait", "finishes_tasks", "no_hold_and_wait"}
  MaxRequests <- DynRequests
  TotalCores = 1
INVARIANTS CallInOnePlace
PROPERTIES RunsAsPromised EndIsContained
