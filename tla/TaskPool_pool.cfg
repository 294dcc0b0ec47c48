SPECIFICATION FairSpec
CONSTANTS
  Names = {"timed", "large", "huge"}
  Cores <- PoolCores
  BadCommand = {}
  BadBinary = {}
  MayTimeOut = {"timed"}
  MaxAdds <- PoolAdds
  TotalCores = 2
  OtherCores = 1
  DaskCores = 1
  Habits = {"unique_names", "collects"}
INVARIANT TasksAreTracked
PROPERTIES TasksRunAsPromised OperationsEnd
CHECK_DEADLOCK FALSE
