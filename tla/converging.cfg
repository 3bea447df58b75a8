SPECIFICATION FairSpec
CONSTANTS
  Packages = {"a1", "b1"}
  NoPackage = NoPackage
  Paths <- MCPaths
  Canonical <- MCCanonical
  Version <- MCVersion
  Broken = {}
  Stem <- MCStem
  DropPaths = {"in/x", "game/A"}
  Copies = FALSE
  Restores = FALSE
  ErrorGaps = {1}
  Workers = {"w1"}
  Faults = {"move", "errors", "db", "disk", "crash"}
  MaxFaults = 1
  Settings = {"both", "store", "bad"}
  ValidSettings = {"both", "store"}
  NoSettings = NoSettings
  TargetsOf <- MCTargetsOf
  OutFiles <- MCOutFiles
  TargetOf <- MCTargetOf
  Listed <- MCListed
  Absent = Absent
  QuietCycles = TRUE
  MaxEdits = 2
INVARIANTS
  TypeOK
  OutputsMirror
PROPERTIES
  Converges
CHECK_DEADLOCK FALSE
