SPECIFICATION Spec
CONSTANTS
  MaxSources = 2
  Identities = {1, 2}
  NativeIDs = {n1}
  NoID = NoID
  Histories <- EachHistory
  Sizes = {1}
  MaxTotal = 0
  Options <- EachOption
CHECK_DEADLOCK FALSE
INVARIANT
  CancelledExits8
