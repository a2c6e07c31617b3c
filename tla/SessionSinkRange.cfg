\* The README's claim about the default export, on two messages.
SPECIFICATION Spec
CONSTANTS
  NativeIDs = {a}
  NoID = noID
  MaxTime = 3
  From = 2
  To = 2
  References <- FewReferences
  ResponseParts = 2
  MaxRecords = 3
  MaxReplays = 1
INVARIANT OnlyMessagesInRange
CHECK_DEADLOCK FALSE
