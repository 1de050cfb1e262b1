SPECIFICATION Spec
CONSTANTS
  MaxFailures = 2
  ResetTimeout = 1
  Workers = {w1, w2}
  Signatures = {s1, s2}
  CacheEntries = 1
  MaxDaily = 2
  ToolCalls = 2
  Cooldown = 1
INVARIANTS TypeOK Overrun OnFile
PROPERTIES TrialsSpaced Recovers
CHECK_DEADLOCK FALSE
