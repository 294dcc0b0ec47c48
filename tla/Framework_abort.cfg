SPECIFICATION Spec
CONSTANTS
  fwk = fwk  s1 = s1  s2 = s2  s3 = s3  d1 = d1  w1 = w1  x1 = x1  d2 = d2  w2 = w2  d3 = d3
  SimComps <- TwoComps
  Sims <- TwoSims
  SimOf <- TwoSimOf
  Visible <- TwoVisible
  FwkList <- F
  SimList <- TwoList
  Calls <- TwoCalls
  Creates <- NoCreates
  TaskCores <- TwoTasks
  BlockModes = {TRUE}
  BusyMethods = {"step"}
  MayFail <- FirstFails
  BadCommand <- NoBadLaunch
  BadBinary <- NoBadLaunch
  Habits = {"no_rewait", "no_hold_and_wait"}
  MaxRequests <- TwoRequests
  TotalCores = 1


PROPERTIES AbortIsContained
