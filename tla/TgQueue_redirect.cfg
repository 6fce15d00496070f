\* One query and two more objects for redirects between two data centres, which
\* arrive inside and outside rpc_result and in several threads at once.
SPECIFICATION Spec
CONSTANTS
  Queue = {q1, q2, q3}
  Request = {r1}
  Multithread = {r1}
  Fd = {1, 2}
  Dc = {d1, d2}
  Answer = {"result", "file_migrate", "user_migrate", "flood", "bare"}
  Fault = {}
  ClockTies = FALSE
  Cancel = FALSE
  MaxMsgId = 3
  None = None
SYMMETRY AddressSymmetry
CHECK_DEADLOCK FALSE
INVARIANTS CallbackOnce AddressSaved
