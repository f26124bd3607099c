SPECIFICATION Spec
CONSTANTS
  Keyboards <- MCKeyboards
  MaxNpad = 20
  MaxSuspended = 1
  Sessions <- MCSessions
  Junk = {97}
  Users <- MCUsers
  Delays = {1, 2, 3}
  AsyncDelay = 2
CHECK_DEADLOCK FALSE
INVARIANT KeysDelivered
PROPERTIES ModifiersExact LinesRead BeepsHeard
