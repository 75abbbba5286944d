\* Two connections close one document at the same time.
CONSTANTS
  c1 = c1
  c2 = c2
  n1 = n1
  d1 = d1
  d2 = d2
  d3 = d3
  NULL = NULL
  Conn = {c1, c2}
  Name = {n1}
  Doc = {d1, d2, d3}
  Capacity = 1
  MaxRevision = 1
SPECIFICATION Spec
INVARIANT
  RegistryIsLive
\* A null dereference ends the process.
CHECK_DEADLOCK FALSE
