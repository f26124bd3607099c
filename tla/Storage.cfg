SPECIFICATION Spec
CONSTANTS
  Procs = {1}
  CYLINDERS = 2
  CYLINDER_SIZE = 2
  Values = {0, 1}
  Requests <- AllRequests
  SEEK_RETRIES = 2
  TRACK_RETRIES = 2
  CMD_TRIES = 2
  MOTOR_TICKS = 100
  CLUSTERS = 5
  ENTRIES = 2
  BPC = 2
  WORD = 64
  Bytes = {0, 1}
  Sizes = {0, 1, 3, 5}
  PartOffsets = {0, 2}
  Lens = {3}
  CHUNK = 3
CHECK_DEADLOCK FALSE
INVARIANTS DriverInStep FilesWhole
PROPERTIES IsBlockDevice WritesEnd IsFileStore
