\* The action properties, the refinement and the liveness property, on four
\* records without identifiers, which they do not depend on, and two replays.
SPECIFICATION Spec
CONSTANTS
  NativeIDs = {}
  NoID = noID
  MaxTime = 2
  From = 2
  To = 2
  References <- FewReferences
  ResponseParts = 2
  MaxRecords = 4
  MaxReplays = 2
PROPERTIES
  FailedReplayIsFinal
  ImplementsTranscript
  ReplayTerminates
CHECK_DEADLOCK FALSE
