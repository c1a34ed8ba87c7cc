\* The queue against a headset whose ACKs get lost but never come late.
SPECIFICATION FairSpec
CONSTANTS
  What <- OneWhat
  SettingOf <- OneSettingOf
  Handshake <- TwoHandshake
  Coalescing = {"volume"}
  UserWhat = {"volume", "dsee hx"}
  AlertWhat = "alert reply"
  Setting = {"volume", "dsee"}
  NoSetting = NoSetting
  NoCommand = NoCommand
  MaxPending = 2
  MaxRetries = 2
  LateAcks = FALSE
  MaxIssued = 5
  MaxLinks = 2
  MaxWire = 1
INVARIANTS TypeOK QueueBounded NoBacklog OneAtATime NothingSilentlyLost NewestValueWins StaysInStep
PROPERTIES ImplementsService Drains
CHECK_DEADLOCK FALSE
