CONSTANTS
  w1 = w1
  w2 = w2
  None = None
  Writer = {w1, w2}
  Id = {1, 2, 3, 4, 5}
  History <- OldRecords
  Ranges <- BothRanges
  Watched <- Always
  PageSize = 2
  BatchSize = 2
  Pages = {1, 2}
  MaxTime = 1
SPECIFICATION FairSpec
INVARIANTS
  ExportNeverRepeats
  ShownPageNotEmpty
PROPERTIES
  ImplementsReading
  ExportEnds
