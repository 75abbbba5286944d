SPECIFICATION Spec
CONSTANTS
  kBitMapUnitSize = 2
  bit_count = 6
  kBufferCount = 2
  kBufferEntriesMax = 6
  MaxReceived = 2
  NULL = NULL
  Wild = Wild
INVARIANTS
  TypeOK
  BitsFollowLoans
  RefusedOnlyInNeed
  KernelSendsWhatWasWritten
  BuffersConserved
  RangesAreExact
PROPERTIES
  ImplementsBufferLending
CHECK_DEADLOCK FALSE
