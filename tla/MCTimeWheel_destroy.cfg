\* Levels of two slots; timeouts of 1, 3, 5 and 11 ticks enter at levels 1 to 4.
CONSTANTS
  t1 = t1
  t2 = t2
  NULL = NULL
  Timer = {t1, t2}
  TVR_SIZE = 2
  TVN_SIZE = 2
  tick_ = 2
  Millis = {1, 7, 10, 22}
  MaxTick = 12
SPECIFICATION Spec
INVARIANT
  NoDanglingTimer
\* The behaviour ends after MaxTick ticks.
CHECK_DEADLOCK FALSE
