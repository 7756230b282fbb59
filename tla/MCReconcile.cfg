\* One run at a time over three paths and two contents, files changing at
\* any moment, any statement liable to raise.
SPECIFICATION Spec
CONSTANTS
  Task = {w1}
  Command = {}
  Path = {1, 2, 3}
  Content = {a, b}
  NoContent = NoContent
  NoDoc = NoDoc
  Exclusive = TRUE
  MayFail = TRUE
  MayTruncate = FALSE
  Sorted = TRUE
  MaxEdits = 2
INVARIANTS
  DuplicateIsLater
  ChunksFollowRows
  MirrorsDisk
  StatsAreTrue
  SnapshotFresh
  ZeroWrites
PROPERTY DeletesOnlyMissing
SYMMETRY ContentSymmetry
