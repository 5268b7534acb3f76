CONSTANTS
  Tags = {t1, t2}
  MaxCmds = 2
  WriteLen = 2
  ChanCap = 1
  Unsolicited = FALSE
  Aborts = TRUE
  Logouts = TRUE
  StoreErrors = TRUE
  Drops = TRUE
SPECIFICATION FairSpec
CHECK_DEADLOCK FALSE
INVARIANTS TypeOK StoredIsSent NoStrayAnswer
PROPERTIES EveryCommandAnswered SessionEnds
