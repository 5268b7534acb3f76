CONSTANTS
  m1 = m1  m2 = m2  m3 = m3
  Macs = {m1, m2}
  PoolEnd = 2
  MaxIp = 2
  FirstFiles <- MCFiles
  MaxWrites = 2
  QuietStart = TRUE
  NoFile = NoFile
SPECIFICATION Spec
CHECK_DEADLOCK FALSE
INVARIANT EnabledServes
