SPECIFICATION Spec
CONSTANTS
  n1 = n1
  n2 = n2
  n3 = n3
  Nobody = Nobody
  NodeList <- Three
  Count <- FourTwoTwo
  CoresPerNode = 4
  SocketsPerNode = 2
  MaxPpn = 4
  UserPpn = 3
  Gpn = 1
  Exclusive = FALSE
  Requests <- Mixture
  Tasks = {t1, t2, t3}
SYMMETRY Symmetry
INVARIANTS
  BooksAgree
  NothingFreeIsMissed
  WholeMeansWhole
  GrantsFit
  WaitingIsWorthwhile
  RefusalIsFinal
PROPERTY
  ManagerKeepsPromise
