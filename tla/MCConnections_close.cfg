SPECIFICATION Spec
CONSTANTS
  Conn = {c1, c2}
  Fd = {f1, f2}
  User = {u0, u1}
  NoUser = u0
  NULL = NULL
  MaxSends = 1
  MaxCqe = 2
SYMMETRY Symmetry
INVARIANTS
  TypeOK
  SlotsMatchConnections
  OpenConnectionsListen
  ClosesOnce
  SessionsAreLive
CHECK_DEADLOCK FALSE
VIEW View
