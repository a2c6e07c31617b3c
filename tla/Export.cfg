SPECIFICATION Spec
CONSTANTS
  MaxSources = 3
  Identities = {1, 2, 3}
  NativeIDs = {n1}
  NoID = NoID
  Histories <- EachHistory
  Sizes = {1, 2}
  MaxTotal = 3
  Options <- EachOption
CHECK_DEADLOCK FALSE
INVARIANTS
  TypeOK
  LossReported
  ExportedOnce
  LimitKept
  SpoolsAccounted
PROPERTY
  RunEnds
