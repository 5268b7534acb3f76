CONSTANTS
  m1 = m1  m2 = m2  m3 = m3
  Macs = {m1, m2, m3}
  PoolEnd = 3
  MaxIp = 3
  FirstFiles <- MCFiles
  MaxWrites = 1
  QuietStart = TRUE
  NoFile = NoFile
SPECIFICATION FairSpec
CHECK_DEADLOCK FALSE
INVARIANTS TypeOK SyncedTable
PROPERTIES ConfigFollowed DuplicatesHealed ServicesStop
