CONSTANTS
  zero = zero  old = old  new = new
  Zero = zero
  Base0 <- MCBase
  Table0 <- MCTable
  Free = Free
  NoData = NoData
  NumBlocks = 2
  Values = {zero, old, new}
  Edits = {new}
  Jobs = {j1}
  Kinds = {"cli", "api", "merge", "restore"}
  Sessions = {s1}
  OneAtATime = TRUE
  SuperOff = TRUE
  RestoreOffline = TRUE
  Failures = TRUE
  MaxFile = 4
  MaxBackups = 2
  MaxSupers = 2
SPECIFICATION Spec
\* Nothing is left to do once MaxBackups and MaxSupers are reached.
CHECK_DEADLOCK FALSE
INVARIANTS TypeOK CommandLands SessionsKeepImage OlderBackupsIntact
PROPERTY CommitKeepsWhole
