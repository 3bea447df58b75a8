SPECIFICATION Spec
CONSTANTS
  Packages = {"a1", "a2", "b1"}
  NoPackage = NoPackage
  Paths <- MCPaths
  Canonical <- MCCanonical
  Version <- MCVersion
  Broken = {"b1"}
  Stem <- MCStem
  DropPaths = {"in/x", "game/A"}
  Copies = FALSE
  Restores = FALSE
  ErrorGaps = {1}
  Workers = {"w1"}
  Faults = {"errors", "db", "disk", "crash"}
  MaxFaults = 2
  Settings = {"both", "store"}
  ValidSettings = {"both", "store"}
  NoSettings = NoSettings
  TargetsOf <- MCTargetsOf
  OutFiles <- MCOutFiles
  TargetOf <- MCTargetOf
  Listed <- MCListed
  Absent = Absent
  QuietCycles = TRUE
  MaxEdits = 1
INVARIANTS
  NoPackageLost
  SnapshotSound
  SyncedWhenSaved
  OutputsMirror
PROPERTIES
  StaysInSync
  RowsOnlyDropWithFile
  QuarantineJustified
  ImplementsMirror
CHECK_DEADLOCK FALSE
