\* Two labels that write one setting.
SPECIFICATION FairSpec
CONSTANTS
  What <- NoiseWhat
  SettingOf <- NoiseSettingOf
  Handshake <- OneHandshake
  Coalescing = {"noise mode", "ambient level"}
  UserWhat = {"noise mode", "ambient level"}
  AlertWhat = "alert reply"
  Setting = {"nc/asm"}
  NoSetting = NoSetting
  NoCommand = NoCommand
  MaxPending = 2
  MaxRetries = 3
  LateAcks = FALSE
  MaxIssued = 5
  MaxLinks = 1
  MaxWire = 1
INVARIANT NewestValueWins
CHECK_DEADLOCK FALSE
