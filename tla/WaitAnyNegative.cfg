SPECIFICATION Spec
CONSTANTS
  NBPROC = 4
  NBQUEUE = 1
  MAXPRIO = 2
  MAXCOUNT = 2
  ClockSpan = 4
  SchedPeriod = 2
  Messages = {m1}
  Prios = {1, 2}
  NewPrios = {1, 2}
  WaitPids <- AnyNegative
  SleepClocks = {1, 3}
  RetVals = {0, 7}
  Counts = {}
  UserFids = {}
  BUFFER_SIZE = 1
  StackAllocMayFail = FALSE
  MemAllocMayFail = FALSE
INVARIANT NoLostChild
