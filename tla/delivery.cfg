SPECIFICATION LiveSpec
CONSTANTS
  Capacity = 1
  BatchSize = 2
  MaxSamples = 3
  MaxFaults = 2
INVARIANTS TypeOK Bounded Duplicates
PROPERTIES ImplementsRelay Ordered Drains
