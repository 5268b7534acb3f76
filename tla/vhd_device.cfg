CONSTANTS
  NumBlocks = 2
  Spb = 2
  Cpu = 1
  Commands <- TwoCommands
  MaxSpan = 2
  MaxRestarts = 0
  Original = Original
  Values = {v1, v2}
  Writers = {w1, w2}
  Readers = {r1}
  ReadCaches = {TRUE, FALSE}
  IoErrors = FALSE
  ChunkQuiet = TRUE
  Free = Free
  NoData = NoData
SPECIFICATION Spec
SYMMETRY TaskSymmetry
INVARIANTS TypeOK AnswersHeld
PROPERTY ImplementsDevice
