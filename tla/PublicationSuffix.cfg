SPECIFICATION Spec
CONSTANTS
  ea = ea
  eb = eb
  Exporters = {ea, eb}
  Outsider = Outsider
  Absent = Absent
  Requested <- SameName
  Formats = {"zip"}
  KeepTemps = {FALSE}
  MaxIndex = 3
  MaxCreations = 0
  MaxRemovals = 0
CHECK_DEADLOCK FALSE
INVARIANT
  SecondExportGetsSuffix
