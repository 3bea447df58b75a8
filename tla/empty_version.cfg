SPECIFICATION FairSpec
CONSTANTS
  Packages = {"a1", "b1"}
  NoPackage = NoPackage
  Paths <- MCPaths
  Canonical <- MCCanonical
  Version <- MCNoVersion
  Broken = {}
  Stem <- MCStem
  DropPaths = {"in/x", "game/A"}
  Copies = FALSE
  Restores = FALSE
  ErrorGaps = {1}
  Workers = {"w1"}
  Faults = {}
  MaxFaults = 0
  Settings = {"both"}
  ValidSettings = {"both"}
  NoSettings = NoSettings
  TargetsOf <- MCTargetsOf
  OutFiles <- MCOutFiles
  TargetOf <- MCTargetOf
  Listed <- MCListed
  Absent = Absent
  QuietCycles = TRUE
  MaxEdits = 0
PROPERTIES
  Converges
CHECK_DEADLOCK FALSE
