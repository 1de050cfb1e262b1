SPECIFICATION Spec
CONSTANTS
  Capacity = 2
  BatchSize = 2
  MaxSamples = 3
  MaxFaults = 0
PROPERTY RejectedRetired
