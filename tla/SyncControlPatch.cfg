\* One worker, one request: a PATCH that read the row before a sync saves it
\* afterwards.
SPECIFICATION ControlSpec
CONSTANTS
  Task = {t1}
  Command = {}
  Browser = {}
  Patch = {q1}
  MaxRetries = 0
  MaxRequests = 1
  MaxCrashes = 0
  SyncFitsTimeout = TRUE
CHECK_DEADLOCK FALSE
PROPERTY StatusIsReadOnly
