SPECIFICATION Spec
CONSTANTS
  Requests = {r1, r2}
  AtOnce = 2
  MaxMute = 1
  Jobs = {j1}
  Channels = 2
  MaxLag = 1
INVARIANTS TypeOK Settled MutedIsQuiet
PROPERTIES KeepsOtherFields EveryChannelTried
