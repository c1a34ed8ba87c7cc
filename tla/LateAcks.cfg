\* ACKs may also come after the deadline has passed.
SPECIFICATION FairSpec
CONSTANTS
  What <- OneWhat
  SettingOf <- OneSettingOf
  Handshake <- OneHandshake
  Coalescing = {"volume"}
  UserWhat = {"volume", "dsee hx"}
  AlertWhat = "alert reply"
  Setting = {"volume", "dsee"}
  NoSetting = NoSetting
  NoCommand = NoCommand
  MaxPending = 2
  MaxRetries = 1
  LateAcks = TRUE
  MaxIssued = 4
  MaxLinks = 2
  MaxWire = 1
INVARIANTS NoStall OnlyThisLinksCommands
PROPERTIES SettingNeverGoesBack GivesUpLate
CHECK_DEADLOCK FALSE
