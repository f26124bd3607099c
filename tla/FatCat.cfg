SPECIFICATION FatSpec
CONSTANTS
  CLUSTERS = 5
  ENTRIES = 2
  BPC = 2
  WORD = 64
  Bytes = {0, 1}
  Sizes = {6}
  PartOffsets = {0, 2, 4}
  Lens = {1}
  CHUNK = 3
INVARIANT CatShowsFile
