\* The server is started; users that share a worker write to each other.
CONSTANTS
  Conn <- MCConn
  nr_threads = 2
  d1 = d1
  Doc = {d1}
  NULL = NULL
  TableSize = 3
  Budgets <- MCBudgets
SPECIFICATION Spec
INVARIANTS
  WorkersNeverAccept
\* The clients may stop at any time.
CHECK_DEADLOCK FALSE
