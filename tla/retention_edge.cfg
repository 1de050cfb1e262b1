SPECIFICATION Spec
CONSTANTS
  Samples = {1, 2, 3}
  MinuteLen = 2
  FiveLen = 4
  RawAges = {1}
  MinuteAges = {2}
  FiveAges = {4}
  MaxRows = 9
  MaxTime = 7
  MaxEvents = 0
INVARIANT KeptToTheEnd
