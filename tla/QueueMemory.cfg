SPECIFICATION QSpec
CONSTANTS
  Word = 65536
  mem_heap = 4096
  mem_heap_end = 4608
  PageSize = 128
  TrimThreshold = 4096
  Lengths = {}
  MaxBlocks = 10
  NBQUEUE = 2
  Counts = {1, 40}
INVARIANT PcreateServes
