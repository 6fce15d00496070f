\* Two voice messages of different length and a big file, at the same time.
SPECIFICATION FairSpec
CONSTANTS
  v1 = v1
  v2 = v2
  p1 = p1
  p2 = p2
  f1 = f1
  Send = {v1, v2, f1}
  Src <- SendSrc
  Parts <- SendParts
  Big = {f1}
  Named = {f1}
  MaxParts = 2
  Garbled = Garbled
  None = None
CHECK_DEADLOCK FALSE
INVARIANTS MediaIsWhole SentIsChosen
PROPERTIES UploadEndsIfConfirmed
