\* Two queries, one of each threading mode, under the fairness of threads.
SPECIFICATION FairSpec
CONSTANTS
  Queue = {q1, q2}
  Request = {r1, r2}
  Multithread = {r1}
  Fd = {1, 2}
  Dc = {d1}
  Answer = {"result", "salt"}
  Fault = {"recv", "open", "send"}
  ClockTies = FALSE
  Cancel = FALSE
  MaxMsgId = 3
  None = None
CHECK_DEADLOCK FALSE
PROPERTIES StopAndFreeIfReadsReturn
