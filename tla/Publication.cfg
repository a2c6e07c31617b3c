SPECIFICATION Spec
CONSTANTS
  ea = ea
  eb = eb
  Exporters = {ea, eb}
  Outsider = Outsider
  Absent = Absent
  Requested <- SameName
  Formats = {"direct", "zip", "preview"}
  KeepTemps = {TRUE, FALSE}
  MaxIndex = 2
  MaxCreations = 1
  MaxRemovals = 1
CHECK_DEADLOCK FALSE
INVARIANTS
  TypeOK
  OutputWhole
  SuccessIsThere
  NothingLeftBehind
  DirectFindsName
SYMMETRY Interchangeable
