SPECIFICATION Spec
CONSTANTS
  ea = ea
  eb = eb
  Exporters = {ea, eb}
  Outsider = Outsider
  Absent = Absent
  Requested <- SameName
  Formats = {"direct", "zip"}
  KeepTemps = {FALSE}
  MaxIndex = 2
  MaxCreations = 1
  MaxRemovals = 1
CHECK_DEADLOCK FALSE
PROPERTY
  RemovesOnlyItsOwn
