SPECIFICATION Spec
CONSTANTS
  c1 = c1  c2 = c2  t1 = t1  t2 = t2
  Clients = {c1, c2}
  Topics = {t1, t2}
  Events = {e1, e2}
  Uses <- Habits
  Careless = {c2}
  MaxPending <- Pendings
  MaxListeners = 3
  Closed = Closed
SYMMETRY Symmetry
INVARIANTS ListenersAgree NothingKeptInVain
PROPERTY MailboxesKept
CHECK_DEADLOCK FALSE
