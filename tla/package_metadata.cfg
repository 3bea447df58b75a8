SPECIFICATION Spec
CONSTANTS
  Packages = {"game", "patch", "fix", "other"}
  NoPackage = NoPackage
  Content <- MCContent
  Title <- MCTitle
  Updates = {"patch", "fix"}
  Pictured = {"game", "patch"}
  Publisher <- MCPublisher
  None = None
  Unknown = Unknown
  NoRow = NoRow
  Cut = Cut
  Threads = {"w1", "w2"}
  MaxFaults = 2
INVARIANTS
  TypeOK
  PicturesShown
  GapsComeFromFailures
PROPERTIES
  AuthorsComplete
