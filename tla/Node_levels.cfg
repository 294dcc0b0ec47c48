SPECIFICATION Spec
CONSTANTS
  Nobody = Nobody
  Tasks = {t1, t2, t3}
  CoresPerNode = 6
  SocketsPerNode = 2
  TotalCores = 5
  MaxListed = 3
INVARIANTS
  LevelsAgree
  ListsServeRelease
