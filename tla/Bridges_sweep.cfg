SPECIFICATION FairSpec
CONSTANTS
  e1 = e1
  e2 = e2
  Evaluations <- Both
  Sites <- TwoSites
  Sims <- AllSims
  FailedConnections = 0
  TooMany = 2
INVARIANTS AnswersAreOwn NobodyIsAbandoned PortalHearsAll MonitoredToTheEnd
PROPERTY SweepEnds
CHECK_DEADLOCK FALSE
