\* Two workers and one page contend for a source of two paths; files change
\* at any moment, any statement may raise, one process may be killed; or a
\* PATCH reads the source's row at one moment and writes it at another.
\* The system may stop: nobody is obliged to ask for another sync.
SPECIFICATION SyncSpec
CONSTANTS
  Task = {t1, t2}
  Command = {}
  Browser = {b1}
  Patch = {q1}
  MaxRetries = 0
  MaxRequests = 2
  MaxCrashes = 1
  SyncFitsTimeout = TRUE
  Path = {1, 2}
  Content = {a, b}
  NoContent = NoContent
  NoDoc = NoDoc
  MayFail = TRUE
  MayTruncate = FALSE
  Exclusive = FALSE
  Sorted = TRUE
  MaxEdits = 1
INVARIANTS
  SyncTypeOK
  ReadyMeansMirrored
PROPERTIES
  RunsAreSerial
  WritesAreTracked
CONSTRAINT PatchAlone
SYMMETRY WorkerAndContentSymmetry
CHECK_DEADLOCK FALSE
