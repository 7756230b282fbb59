\* Nothing fails, nothing is cancelled: the one file is renamed between two syncs.
SPECIFICATION RenameSpec
CONSTANTS
  Task = {w1}
  Command = {}
  Path = {1, 2}
  Content = {a, b}
  NoContent = NoContent
  NoDoc = NoDoc
  Exclusive = TRUE
  MayFail = FALSE
  MayTruncate = FALSE
  Sorted = TRUE
  MaxEdits = 1
INVARIANT EveryFileIsIndexed
