CONSTANTS
  Wrap = 16
  Window = 1
  FirstSNs = {13, 14}
  Limits = {1}
  DefaultLimit = 2
  Inquiry = 2
  Menu <- MCMenu
  MaxCmds = 3
  MaxLogins = 2
SPECIFICATION Spec
CHECK_DEADLOCK FALSE
INVARIANTS StatusCounted WindowAdvances AnswersWhole AllAnswered
