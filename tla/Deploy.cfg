SPECIFICATION Spec
CONSTANTS
  Putters = {"new", "again"}
  Removers = {"clear"}
  List <- MCList
  Unlisted = {"notes"}
  Prefixed <- MCPrefixed
  InPlace = {"again"}
  UnlessGit = {"again"}
  Rmdir = {"clear"}
  Depth = 2
  Chunks = 2
  MaxActs = 1
  MaxFaults = 1
INVARIANTS
  TypeOK
  TargetsWhole
  StatusTrue
PROPERTIES
  OnlyItsOwn
CHECK_DEADLOCK FALSE
