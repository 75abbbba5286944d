\* Three editors of one document on two workers.
CONSTANTS
  Conn <- MCConn
  nr_threads = 2
  d1 = d1
  Doc = {d1}
  NULL = NULL
  TableSize = 3
  Budgets <- MCBudgets
SPECIFICATION Spec
INVARIANTS
  TypeOK
  SoughtWhereHeld
  ContextsExact
  EachEditorInOrder
  NoEditLost
\* The clients may stop at any time.
CHECK_DEADLOCK FALSE
PROPERTY
  EditsArrive
