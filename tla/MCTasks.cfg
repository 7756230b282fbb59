\* Two workers and a shell contend for one source's lock while a page clicks
\* Cancel and a PATCH is under way; one process may be killed. Or two workers
\* embed the chunks of two documents while two syncs replace them, in batches
\* of one. The system may stop: nobody is obliged to ask for another sync.
SPECIFICATION Spec
CONSTANTS
  Task = {t1, t2}
  Command = {m1}
  Browser = {b1}
  Patch = {q1}
  MaxRetries = 1
  MaxRequests = 2
  MaxCrashes = 1
  SyncFitsTimeout = TRUE
  Document = {d1, d2}
  Text = {x, y}
  Embedder = {w1, w2}
  BatchSize = 1
  BackfillRetries = 1
  MaxSyncs = 2
  MaxChunks = 3
  NoText = NoText
  NoRow = NoRow
INVARIANTS
  MutualExclusion
  StatusMatchesLastRun
  BackfillTypeOK
  EmbeddingsMatch
  OneVersion
  NothingForgotten
PROPERTIES
  NoStaleCancel
  CancelNotLost
  LockRecovers
  StatusSettles
  RetriesEmbedOnce
  EveryChunkIsEmbedded
CHECK_DEADLOCK FALSE
