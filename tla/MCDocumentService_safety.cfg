\* Three connections race on one name; the history window slides once.
CONSTANTS
  c1 = c1
  c2 = c2
  c3 = c3
  n1 = n1
  d1 = d1
  d2 = d2
  d3 = d3
  NULL = NULL
  Conn = {c1, c2, c3}
  Name = {n1}
  Doc = {d1, d2, d3}
  Capacity = 2
  MaxRevision = 3
SPECIFICATION Spec
SYMMETRY MCSymmetry
INVARIANTS
  TypeOK
  JoinedIsRegistered
  ContextRefsExact
  HistoryWindow
  NoMissedEdit
PROPERTIES
  TransformedOverGap
  ImplementsSharedDocuments
\* A null dereference ends the process.
CHECK_DEADLOCK FALSE
