\* Two threads send queries, repeat them and stop them; a server message to
\* acknowledge is read twice; any send may fail.
SPECIFICATION Spec
CONSTANTS
  Thread = {t1, t2}
  ServerMsg = {m1}
  MaxReads = 2
  MaxSends = 3
  ClockTies = FALSE
  SendFails = TRUE
  None = None
SYMMETRY SessionSymmetry
CHECK_DEADLOCK FALSE
INVARIANTS SessionTypeOK SeqnoNumbersContent AckedOnce MsgidNamesQuery
           DroppedOnce PackageOrdered
