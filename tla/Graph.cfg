CONSTANTS
  N = 3
  Graphs <- MCGraphs
  Images = {i1, i2, i3, i4, i5}
  NoImage = NoImage
  HistoryLength = 2
SYMMETRY MCSymmetry
SPECIFICATION GraphSpec
INVARIANTS
  GraphTypeOK
  NotifiedIsProcessed
  UpdatesAreKept
  HistoryIsRecent
