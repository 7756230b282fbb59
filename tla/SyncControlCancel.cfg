\* One worker, one page: the click that read SYNCING under one sync raises
\* the flag under the next.
SPECIFICATION ControlSpec
CONSTANTS
  Task = {t1}
  Command = {}
  Browser = {b1}
  Patch = {}
  MaxRetries = 0
  MaxRequests = 2
  MaxCrashes = 0
  SyncFitsTimeout = TRUE
CHECK_DEADLOCK FALSE
PROPERTY CancelHitsItsTarget
