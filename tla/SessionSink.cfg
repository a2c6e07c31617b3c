\* Three records with one repeatable identifier, stamped before, in or after a
\* one-point range or not at all; turns of two or more messages are cut.
SPECIFICATION Spec
CONSTANTS
  NativeIDs = {a}
  NoID = noID
  MaxTime = 3
  From = 2
  To = 2
  References <- EachReference
  ResponseParts = 1
  MaxRecords = 3
  MaxReplays = 2
INVARIANTS
  TypeOK
  SpoolAligned
  KeptInOrder
  EventIDsUnique
  SpanOfSpool
  MatchDecidedByLines
  ReplayMatchesCounts
  CompleteMeansWhole
CHECK_DEADLOCK FALSE
