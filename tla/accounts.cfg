SPECIFICATION Spec
CONSTANTS
  Tokens = {t1, t2}
  Users = {u1, u2}
  Handlers = {h1, h2}
  SessionIdle = 2
  SessionMax = 3
  TouchInterval = 1
INVARIANTS TypeOK SetupNotWasted SignedOut
PROPERTIES IdleWindow AdminRemains
