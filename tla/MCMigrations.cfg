CONSTANTS
  User = {u1}
  Time = {0, 1}
  Null = Null
  Targets = {0, 7, 14, 17, 20, 24}
  MaxRows = 2
SPECIFICATION Spec
INVARIANTS
  SchemaSound
  DataFitsRevision
PROPERTIES
  MergeKeepsLastSeen
