SPECIFICATION Spec
CONSTANTS
  Items = {"game", "update"}
  Title <- MCTitle
  Content <- MCContent
  Ver <- MCVer
  Rank <- MCRank
  ListOrder <- MCListOrder
  None = None
  OldStore <- MCOldStore
  Threads = {t1, t2}
  Requests <- MCRequests
  MaxRequests = 2
  MaxFaults = 1
INVARIANTS
  TypeOK
  EveryDownloadCounted
  NumbersReal
  AnswersBest
PROPERTIES
  CountersGrow
SYMMETRY ThreadSymmetry
