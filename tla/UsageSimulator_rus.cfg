SPECIFICATION FairSpec
CONSTANTS
  Simulations = {1, 2}
  Phases <- TwoPlans
  NodesFor <- TwoNodes
  DependsOn <- TwoDeps
  RunTimes <- TwoTimes
  Checkpoints <- TwoCheckpoints
  AllocationSizes = {2, 3, 4}
  ResubmitOn = TRUE
  FailuresOn = TRUE
  ResubmissionThreshold = 1
INVARIANTS NodesAddUp ParentsComeFirst NothingForgotten StatusIsTrue
PROPERTIES FollowsThePlan LoopEnds
CHECK_DEADLOCK FALSE
