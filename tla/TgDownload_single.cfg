\* Two taps on one document, one on a document too long for an int, and a
\* picture; one transfer of a document at a time, with short writes, empty
\* answers, stops, failures and restarts.
SPECIFICATION FairSpec
CONSTANTS
  o1 = o1
  o2 = o2
  o3 = o3
  o4 = o4
  o5 = o5
  d1 = d1
  d2 = d2
  p1 = p1
  w1 = w1
  Op = {o1, o2, o4, o5}
  Doc <- OpDoc
  File = {d1, d2, w1}
  Size <- DocSize
  Limit = 2
  Half = 3
  Overlap = FALSE
  DiskFull = TRUE
  None = None
CHECK_DEADLOCK FALSE
INVARIANTS DownloadTypeOK CacheIntact OpenedIsWhole
PROPERTIES ImplementsTransfer DownloadEndsIfAnswered
