SPECIFICATION Spec
CONSTANTS
  fwk = fwk  s1 = s1  s2 = s2  s3 = s3  d1 = d1  w1 = w1  x1 = x1  d2 = d2  w2 = w2  d3 = d3
  SimComps <- OneComps
  Sims <- OneSims
  SimOf <- OneSimOf
  Visible <- OneVisible
  FwkList <- F
  SimList <- OneList
  Calls <- OneCalls
  Creates <- NoCreates
  TaskCores <- OneTasks
  BlockModes = {TRUE}
  BusyMethods = {"step"}
  MayFail <- OneFails
  BadCommand <- OneBadCommand
  BadBinary <- OneBadBinary
  Habits = {"no_rewait", "no_hold_and_wait"}
  MaxRequests <- OneRequests
  TotalCores = 2
INVARIANTS TypeOK NoLostWakeup RequestInOnePlace CoresAccounted ResultsAreAwaited

CHECK_DEADLOCK FALSE
