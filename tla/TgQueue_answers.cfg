\* Two queries, one object for a flood wait, cancellation from another thread:
\* what the application sees of answers and duplicates. A third connection finds
\* no descriptor while two are open, so its open fails.
SPECIFICATION Spec
CONSTANTS
  Queue = {q1, q2, q3}
  Request = {r1, r2}
  Multithread = {r1, r2}
  Fd = {1, 2}
  Dc = {d1}
  Answer = {"result", "flood"}
  Fault = {}
  ClockTies = TRUE
  Cancel = TRUE
  MaxMsgId = 3
  None = None
SYMMETRY FullSymmetry
CHECK_DEADLOCK FALSE
INVARIANTS TypeOK AnsweredOnce CancelledSilent
PROPERTIES CancelAllStopsAll ImplementsRpc
