SPECIFICATION Spec
CONSTANTS
  Packages = {"a1", "a2"}
  NoPackage = NoPackage
  Paths <- MCPaths
  Canonical <- MCCanonical
  Version <- MCVersion
  Broken = {}
  Stem <- MCStem
  DropPaths = {"in/x", "in/y"}
  Copies = TRUE
  Restores = FALSE
  ErrorGaps = {1}
  Workers = {"w1"}
  Faults = {"crash"}
  MaxFaults = 1
  Settings = {"both"}
  ValidSettings = {"both"}
  NoSettings = NoSettings
  TargetsOf <- MCTargetsOf
  OutFiles <- MCOutFiles
  TargetOf <- MCTargetOf
  Listed <- MCListed
  Absent = Absent
  QuietCycles = FALSE
  MaxEdits = 0
INVARIANTS
  NoPackageLost
CHECK_DEADLOCK FALSE
