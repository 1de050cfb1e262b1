SPECIFICATION Spec
CONSTANTS
  Hosts = {h1}
  Rules = {cpu}
  Durations = {2}
  ResolveAfter = 2
  MaxLag = 0
  Horizon = 3
PROPERTY HeldThroughout
