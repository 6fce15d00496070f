\* Two queries, one of each threading mode, over connections that fail in
\* every way, with equal clock readings and bad salts.
SPECIFICATION Spec
CONSTANTS
  Queue = {q1, q2}
  Request = {r1, r2}
  Multithread = {r1}
  Fd = {1, 2}
  Dc = {d1}
  Answer = {"result", "null", "broken", "salt"}
  Fault = {"open", "connect", "send", "recv", "eof", "progress"}
  ClockTies = TRUE
  Cancel = TRUE
  MaxMsgId = 4
  None = None
SYMMETRY ObjectSymmetry
CHECK_DEADLOCK FALSE
INVARIANTS ExitLeavesList WaitingIsFindable
PROPERTIES SocketOwned
