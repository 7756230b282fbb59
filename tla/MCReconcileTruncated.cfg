\* The connector lists only part of what is there.
SPECIFICATION Spec
CONSTANTS
  Task = {w1}
  Command = {}
  Path = {1, 2}
  Content = {a, b}
  NoContent = NoContent
  NoDoc = NoDoc
  Exclusive = TRUE
  MayFail = FALSE
  MayTruncate = TRUE
  Sorted = FALSE
  MaxEdits = 1
PROPERTY DeletesOnlyMissing
