SPECIFICATION Spec
CONSTANTS
  Char = {0, 1, 2}
  Memories <- MCMemories
  W = 8
  BUFMAX = 4
  Numbers <- MCNumbersPlain
  Texts <- MCTexts
  Registers <- MCRegisters
  DivBits = 3
  OnesDivisors = FALSE
  Word = 65536
  mem_heap = 4100
  mem_heap_end = 4608
  PageSize = 128
  TrimThreshold = 256
  Lengths = {4, 56, 100, 240, 280}
  MaxBlocks = 5
  FewLengths = {4, 240, 280, 65534}
  FewBlocks = 3
  MaxCalls = 7
CHECK_DEADLOCK FALSE
INVARIANTS FormatsExact HeapWhole
PROPERTIES StringsFollowed DivisionsExact IsAllocator
