\* The panel asks for the link, test signals come in, the bus stays up.
SPECIFICATION FairSpec
CONSTANTS
  Whereabouts = {"absent", "away", "here"}
  Asks = {TRUE, FALSE}
  MaxInputs = 2
  Signals = {"SIGUSR1", "SIGUSR2"}
  Surprises = {"lookup fails", "reads ahead"}
  BusDrops = FALSE
  MaxFaults = 0
  MaxQueue = 2
  InitialBackoff = 10000
  MaxBackoff = 10000
  MaxExponent = 1
INVARIANTS TypeOK NoStraySocket
PROPERTIES LinkRequestEnds
CHECK_DEADLOCK FALSE
