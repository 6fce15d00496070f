\* A tap on a second document while the first is transferred.
SPECIFICATION Spec
CONSTANTS
  o1 = o1
  o2 = o2
  o3 = o3
  o4 = o4
  o5 = o5
  d1 = d1
  d2 = d2
  p1 = p1
  w1 = w1
  Op = {o1, o3}
  Doc <- OpDoc
  File = {d1, d2, w1}
  Size <- DocSize
  Limit = 2
  Half = 3
  Overlap = TRUE
  DiskFull = FALSE
  None = None
CHECK_DEADLOCK FALSE
INVARIANTS OpenedIsWhole
