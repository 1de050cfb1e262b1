SPECIFICATION Spec
CONSTANTS
  Clients = {c1}
  Burst = 1
  PerToken = 5
  Second = 3
  SweepEvery = 1
  Machines = {m1, m2}
  Minted = 3
  AtOnce = 2
  Faults = 1
INVARIANTS TypeOK LostPerFault
PROPERTIES ImplementsAdmission ImplementsTokenBucket Enrols
CHECK_DEADLOCK FALSE
