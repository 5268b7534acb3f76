CONSTANTS
  NumBlocks = 3
  Spb = 2
  Cpu = 2
  Commands <- PairCommands
  MaxSpan = 2
  MaxRestarts = 1
  Original = Original
  Values = {v1}
  Writers = {w1, w2}
  Readers = {}
  ReadCaches = {FALSE}
  IoErrors = TRUE
  ChunkQuiet = FALSE
  Free = Free
  NoData = NoData
SPECIFICATION Spec
SYMMETRY TaskSymmetry
INVARIANTS SlotsExclusive AllocatedBeforeData DiskMatchesMemory
