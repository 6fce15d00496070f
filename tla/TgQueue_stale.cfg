\* A callback that outlasts the timer of its object.
SPECIFICATION Spec
CONSTANTS
  Queue = {q1, q2}
  Request = {r1, r2}
  Multithread = {r1, r2}
  Fd = {1, 2}
  Dc = {d1}
  Answer = {"result"}
  Fault = {}
  ClockTies = FALSE
  Cancel = FALSE
  MaxMsgId = 2
  None = None
SYMMETRY FullSymmetry
CHECK_DEADLOCK FALSE
INVARIANTS NoStaleObject
