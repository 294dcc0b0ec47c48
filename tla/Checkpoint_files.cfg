SPECIFICATION Spec
CONSTANTS
  Workers = {v, w}
  Settings <- AllSettings
  Interval = 2
  Values = {2, 3}
  MaxStep = 4
  MaxWall = 4
  MaxRuns = 2
  Habits = {"once_per_step"}
SYMMETRY Symmetry
INVARIANTS ContributionsKept CanRestart KeepsMostRecent ProtectedRemain
PROPERTY TakenWhenDue
CHECK_DEADLOCK FALSE
