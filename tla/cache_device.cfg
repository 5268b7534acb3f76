CONSTANTS
  NumBlocks = 3
  base = base  old = v1  v1 = v1
  Values = {base, v1}
  Writers = {w1, w2}
  Readers = {r1}
  QueueCap = 1
  MaxOffset = 4
  Base <- MCBase
  LoadedMaps <- SomeMaps
  LoadedBin <- MCLoadedBin
  LoadedNext = 2
  DiskErrors = FALSE
  Overlap = TRUE
  NoData = NoData
  NoOffset = NoOffset
SPECIFICATION Spec
SYMMETRY WriterSymmetry
INVARIANTS AnswersHeld RamMasksFlusher OffsetsExclusive
PROPERTY ImplementsDevice
