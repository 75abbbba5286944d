\* Levels of two slots; timeouts of 1 and 8 ticks enter at levels 1 and 4.
CONSTANTS
  t1 = t1
  t2 = t2
  NULL = NULL
  Timer = {t1, t2}
  TVR_SIZE = 2
  TVN_SIZE = 2
  tick_ = 2
  Millis = {1, 16}
  MaxTick = 10
SPECIFICATION Spec
SYMMETRY MCSymmetry
INVARIANT
  TypeOK
PROPERTIES
  OnlySlipsBreak
  ImplementsTimers
\* The behaviour ends after MaxTick ticks.
CHECK_DEADLOCK FALSE
