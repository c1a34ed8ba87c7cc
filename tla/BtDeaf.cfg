\* The panel asks for the link while the bus goes away.
SPECIFICATION Spec
CONSTANTS
  Whereabouts = {"absent", "away", "here"}
  Asks = {TRUE}
  MaxInputs = 1
  Signals = {}
  Surprises = {}
  BusDrops = TRUE
  MaxFaults = 1
  MaxQueue = 2
  InitialBackoff = 2000
  MaxBackoff = 10000
  MaxExponent = 4
INVARIANTS NeverDeaf
CHECK_DEADLOCK FALSE
