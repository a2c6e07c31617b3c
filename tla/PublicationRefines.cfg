SPECIFICATION Spec
CONSTANTS
  ea = ea
  eb = eb
  Exporters = {ea, eb}
  Outsider = Outsider
  Absent = Absent
  Requested <- SecondName
  Formats = {"direct", "zip"}
  KeepTemps = {FALSE}
  MaxIndex = 3
  MaxCreations = 1
  MaxRemovals = 0
CHECK_DEADLOCK FALSE
PROPERTIES
  ImplementsDirectory
  ExporterEnds
