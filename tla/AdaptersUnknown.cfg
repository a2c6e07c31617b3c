SPECIFICATION Spec
CONSTANTS
  NoCall = NoCall
  ProbeLines = 2
  Beginnings <- UnknownBeginnings
  Additions <- MCAdditions
  Versions <- MCVersions
  Names = {1, 2}
  MessageFiles <- MCMessageFiles
  PartFiles <- MCPartFiles
  Databases <- MCDatabases
CHECK_DEADLOCK FALSE
INVARIANT
  UnknownIsReported
