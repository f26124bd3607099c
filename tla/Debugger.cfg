SPECIFICATION Spec
CONSTANTS
  NEip = 2
  Traps = {3, 14}
  Commands <- Malformed
  Pte <- Tables
  PageSize = 2
  TablePages = 2
  Paging = TRUE
  PhysSize = 8
  Byte = {0, 1, 2}
  Quote = 3
  BUFMAX = 6
  NSIG = 32
  Packets <- ThreeCommands
  Replies <- FewReplies
  LINE_BUFMAX = 4
  MaxRun = 98
  MaxFaults = 1
  Spoils = {127, 35, 36}
CHECK_DEADLOCK FALSE
INVARIANTS ProgramAgrees TrapsHandled
PROPERTIES IsRemoteCalls CommandsAnswered
