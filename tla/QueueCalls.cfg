SPECIFICATION Spec
CONSTANTS
  NBPROC = 4
  NBQUEUE = 1
  MAXPRIO = 2
  MAXCOUNT = 2
  ClockSpan = 1
  SchedPeriod = 1
  Messages = {m1, m2}
  Prios = {1, 2}
  NewPrios = {1}
  WaitPids = {}
  SleepClocks = {}
  RetVals = {}
  Counts = {1, 2}
  UserFids = {0}
  BUFFER_SIZE = 1
  StackAllocMayFail = FALSE
  MemAllocMayFail = FALSE
SYMMETRY MessageSymmetry
INVARIANTS KernelInv ListsSorted WaitersJustified QueuesCounted ReceiveTruthful
PROPERTIES NoOvertaking PriorityKept
