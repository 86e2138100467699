SPECIFICATION Spec
CONSTANTS
  d1 = d1
  d2 = d2
  Nothing = nothing
  Dialogs = {d1, d2}
  Removers = {d2}
  Names = {"es", "fr"}
  Temps = {".import-1", ".import-2"}
  UserFiles <- MCUserFiles
  Requests <- MCRequests
  MaxImports = 2
  MaxFaults = 1
INVARIANTS
  OnlyPublishedIsKnown
