SPECIFICATION Spec
CONSTANTS
  Packages = {"a1", "b1"}
  NoPackage = NoPackage
  Paths <- MCPaths
  Canonical <- MCCanonical
  Version <- MCVersion
  Broken = {}
  Stem <- MCStem
  DropPaths = {"in/x", "in/y", "game/A"}
  Copies = FALSE
  Restores = FALSE
  ErrorGaps = {1}
  Workers = {"w1", "w2"}
  Faults = {"probe", "move", "stat", "crash"}
  MaxFaults = 1
  Settings = {"both"}
  ValidSettings = {"both"}
  NoSettings = NoSettings
  TargetsOf <- MCTargetsOf
  OutFiles <- MCOutFiles
  TargetOf <- MCTargetOf
  Listed <- MCListed
  Absent = Absent
  QuietCycles = TRUE
  MaxEdits = 0
INVARIANTS
  NoPackageLost
  SnapshotSound
  SyncedWhenSaved
PROPERTIES
  RowsOnlyDropWithFile
CHECK_DEADLOCK FALSE
