CONSTANTS
  NumBlocks = 3
  Spb = 1
  Cpu = 1
  Commands <- SpanCommands
  MaxSpan = 3
  MaxRestarts = 1
  Original = Original
  Values = {v1, v2}
  Writers = {w1, w2}
  Readers = {}
  ReadCaches = {FALSE}
  IoErrors = FALSE
  ChunkQuiet = FALSE
  Free = Free
  NoData = NoData
SPECIFICATION Spec
SYMMETRY TaskSymmetry
INVARIANT DiskMatchesMemory
