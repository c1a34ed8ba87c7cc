\* A lookup that BlueZ does not answer in time counts as an answer.
SPECIFICATION Spec
CONSTANTS
  Whereabouts = {"absent", "away", "here"}
  Asks = {}
  MaxInputs = 0
  Signals = {}
  Surprises = {"lookup fails"}
  BusDrops = FALSE
  MaxFaults = 1
  MaxQueue = 2
  InitialBackoff = 2000
  MaxBackoff = 10000
  MaxExponent = 4
INVARIANTS HearsArrival
CHECK_DEADLOCK FALSE
