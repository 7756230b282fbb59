\* A run raises between the save of a row and its ingestion; the next one succeeds.
SPECIFICATION Spec
CONSTANTS
  Task = {w1}
  Command = {}
  Path = {1, 2}
  Content = {a, b}
  NoContent = NoContent
  NoDoc = NoDoc
  Exclusive = TRUE
  MayFail = TRUE
  MayTruncate = FALSE
  Sorted = FALSE
  MaxEdits = 1
INVARIANT NoStaleChunks
