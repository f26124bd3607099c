SPECIFICATION FloppySpec
CONSTANTS
  Procs = {1, 2}
  CYLINDERS = 2
  CYLINDER_SIZE = 2
  Values = {0, 1}
  Requests <- SharedRequests
  SEEK_RETRIES = 2
  TRACK_RETRIES = 2
  CMD_TRIES = 2
  MOTOR_TICKS = 100
PROPERTY AlreadyInBuffer
CHECK_DEADLOCK FALSE
CONSTRAINT HitsOnly
