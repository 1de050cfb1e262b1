SPECIFICATION LiveSpec
CONSTANTS
  Hosts = {h1, h2}
  Rules = {cpu}
  Durations = {0, 2}
  ResolveAfter = 2
  MaxLag = 1
  Horizon = 3
INVARIANT TypeOK
PROPERTIES ImplementsLifecycle NoFlap AckLasts FiresEventually ResolvesEventually
