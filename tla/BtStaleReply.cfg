\* Two link requests, the first answered after the second was made.
SPECIFICATION Spec
CONSTANTS
  Whereabouts = {"absent", "away", "here"}
  Asks = {TRUE, FALSE}
  MaxInputs = 2
  Signals = {}
  Surprises = {}
  BusDrops = FALSE
  MaxFaults = 1
  MaxQueue = 2
  InitialBackoff = 2000
  MaxBackoff = 10000
  MaxExponent = 4
INVARIANTS ResultIsOfLastRequest
CHECK_DEADLOCK FALSE
