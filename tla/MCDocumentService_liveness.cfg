\* Two connections move between two names and contend for users_mutex_.
CONSTANTS
  c1 = c1
  c2 = c2
  n1 = n1
  n2 = n2
  d1 = d1
  d2 = d2
  d3 = d3
  NULL = NULL
  Conn = {c1, c2}
  Name = {n1, n2}
  Doc = {d1, d2, d3}
  Capacity = 1
  MaxRevision = 0
SPECIFICATION FairSpec
PROPERTY
  HandlerReturns
\* A null dereference ends the process.
CHECK_DEADLOCK FALSE
