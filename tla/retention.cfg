SPECIFICATION Spec
CONSTANTS
  Samples = {1, 2, 3}
  MinuteLen = 2
  FiveLen = 4
  RawAges = {1, 3}
  MinuteAges = {2, 5}
  FiveAges = {4, 10}
  MaxRows = 2
  MaxTime = 9
  MaxEvents = 2
  Hour = 1
  MinuteSpan = 2
  MaxExport = 3
  Limits = {1, 3}
INVARIANTS TypeOK NoDoubleCount LossOnlyAtEdges Answered
PROPERTY ArchivedBeforeDeleted
