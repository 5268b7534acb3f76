CONSTANTS
  NumBlocks = 2
  base = base  old = v1  v1 = v1
  Values = {base, v1}
  Writers = {w1, w2}
  Readers = {}
  QueueCap = 1
  MaxOffset = 4
  Base <- MCBase
  LoadedMaps <- NoMap
  LoadedBin <- MCLoadedBin
  LoadedNext = 0
  DiskErrors = TRUE
  Overlap = FALSE
  NoData = NoData
  NoOffset = NoOffset
\* No reader keeps the system going once MaxOffset is reached.
CHECK_DEADLOCK FALSE
SPECIFICATION FairSpec
INVARIANT TiersAgree
PROPERTIES WritesComplete WritesReachDisk
