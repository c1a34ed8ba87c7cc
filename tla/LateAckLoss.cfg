\* ACKs may also come after the deadline has passed.
SPECIFICATION FairSpec
CONSTANTS
  What <- OneWhat
  SettingOf <- OneSettingOf
  Handshake <- OneHandshake
  Coalescing = {"volume"}
  UserWhat = {"volume", "dsee hx"}
  AlertWhat = "alert reply"
  Setting = {"volume", "dsee"}
  NoSetting = NoSetting
  NoCommand = NoCommand
  MaxPending = 2
  MaxRetries = 3
  LateAcks = TRUE
  MaxIssued = 3
  MaxLinks = 1
  MaxWire = 1
INVARIANT NothingSilentlyLost
CHECK_DEADLOCK FALSE
