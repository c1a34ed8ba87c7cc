\* BlueZ, the bus and the headset come and go; nobody asks for anything.
SPECIFICATION FairSpec
CONSTANTS
  Whereabouts = {"absent", "away", "here"}
  Asks = {}
  MaxInputs = 0
  Signals = {}
  Surprises = {}
  BusDrops = TRUE
  MaxFaults = 1
  MaxQueue = 2
  InitialBackoff = 2000
  MaxBackoff = 10000
  MaxExponent = 4
INVARIANTS HearsArrival NeverDeaf ConnectedIsTrue NoStraySocket DelayInRange
PROPERTIES Recovers AttemptEnds LinkOutlivesNews
CHECK_DEADLOCK FALSE
