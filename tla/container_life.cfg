SPECIFICATION FairSpec
CONSTANTS
  Empty = Empty
  Junk = Junk
  NoUrl = NoUrl
  Settings <- MCSettings
  Certs = TRUE
  Down = Down
  Missing = Missing
  NoSettings = NoSettings
  MaxFaults = 2
  MaxEdits = 1
  Assets <- MCAssets
  Releases <- MCReleases
  Cut = Cut
INVARIANTS
  TypeOK
  AssetsWhole
  OneRelease
  OutputsOfOneCycle
  EndsForReason
PROPERTIES
  StopEnds
  Settles
CHECK_DEADLOCK FALSE
