\* A connection of a client and the server, byte by byte.
CONSTANTS
  Base = 4
  Plans <- MCPlans
SPECIFICATION Spec
INVARIANTS
  FifoInStep
  BuffersAreUsedAgain
PROPERTIES
  AllArrives
CHECK_DEADLOCK FALSE
