\* Two dialogs, one of them pinned; a page of a load of all has room for both,
\* and a load of all from the date of one asks for the other twice.
SPECIFICATION FairSpec
CONSTANTS
  a = a
  b = b
  Dialog = {a, b}
  Hidden = {}
  Pinned = {b}
  Quotable = {a}
  Page = 2
  Limit = 1
  MaxClock = 2
  MaxTaps = 2
  MaxRun = 2
  None = None
CHECK_DEADLOCK FALSE
INVARIANTS DialogsTypeOK ShownIsLoaded 
PROPERTIES LoadEndsIfFed
