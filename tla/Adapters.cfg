SPECIFICATION Spec
CONSTANTS
  NoCall = NoCall
  ProbeLines = 2
  Beginnings <- MCBeginnings
  Additions <- MCAdditions
  Versions <- MCVersions
  Names = {1, 2}
  MessageFiles <- MCMessageFiles
  PartFiles <- MCPartFiles
  Databases <- MCDatabases
CHECK_DEADLOCK FALSE
INVARIANTS
  TypeOK
  UnchangedIsSnapshot
  ConversationWhole
  UnreadIsMarked
  EntriesOrdered
  ActivePathIsAncestry
  StoodIsTold
  PositionsDistinct
  WalkComplete
PROPERTIES
  ProbeIdentityStable
