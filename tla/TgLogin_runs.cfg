\* Three processes, each with up to two calls of authorize.
SPECIFICATION FairSpec
CONSTANTS
  dc1 = dc1
  dc2 = dc2
  o1 = o1
  o2 = o2
  DC = {dc1, dc2}
  Default = dc1
  Op = {o1, o2}
  MaxRun = 3
  None = None
CHECK_DEADLOCK FALSE
INVARIANTS LoginTypeOK StoredKeyGranted StoredAddressFits UserIsGranted TextMeetsPrompt
PROPERTIES KnownClientLogsIn
