SPECIFICATION Spec
CONSTANTS
  Intervals = {0, 1, 2}
  MaxInterval = 2
  Conns = {c1, c2}
  QueueCap = 1
  SendCap = 1
INVARIANTS TypeOK Retimed
PROPERTY Forgets
CHECK_DEADLOCK FALSE
