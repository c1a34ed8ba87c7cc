SPECIFICATION Spec
CONSTANTS
  Settings = {"eq_preset", "connection_mode", "nc_button", "volume"}
  Chosen <- MCChosen
  Modes = {"ambient", "off"}
  Levels = {5}
  Batteries = {61, 60}
  Owned = {"connection_mode"}
  ReadMax = 64
  ReadSizes = {10}
  FramerLimit = 96
  MaxEvents = 3
INVARIANTS
  TypeOK
  FramesRecovered
  Truthful
  YesOnlyAsked
  NeverProvokes
CHECK_DEADLOCK FALSE
