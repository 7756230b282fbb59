----------------------------- MODULE CorpusPage -----------------------------
(***************************************************************************)
(* The corpus page (features/corpus): the documents of the selected source *)
(* and the chunks of the selected document, fetched page by page, and the  *)
(* button that has a source synced and polls until it is.  As in ChatPage, *)
(* handlers run on past every await.  Other users and the worker sync the  *)
(* sources meanwhile, which changes the documents there are.               *)
(***************************************************************************)
EXTENDS Naturals, SequencesExt, FiniteSetsExt

CONSTANTS
  Source,   \* numbers, in the order of their names
  Synced,   \* those synced once already
  Listing,  \* Listing[n]: what there is after n syncs of a source, by path
  Pages,    \* pages of chunks every document has: there is a first, empty or not
  MaxCalls  \* bound: fetches of documents

ASSUME SourcesAssumption == Source \subseteq Nat \ {0} /\ Synced \subseteq Source
ASSUME ListingAssumption ==
  /\ Listing \in Seq(Seq(Nat)) /\ (Synced # {} => Listing # <<>>)
  /\ Pages \in Nat \ {0} /\ MaxCalls \in Nat

None == 0
NoDocument == <<None, None>>
Call == 1..MaxCalls
MaxRuns == Len(Listing)

VARIABLES
  \* The server:
  status,   \* status[s]: Source.status, "settled" for ready or error
  runs,     \* runs[s]: syncs of s that are over
  queued,   \* queued[s]: a task for s waits for a worker
  \* The page:
  sources,              \* sources() of the service
  requested,            \* the query parameter source, None without one
  selectedSourceId, selectedDocumentId,
  documents,            \* of which source, as of how many runs
  chunks,               \* the pages of chunks on screen, by document
  nextPage, totalChunks,
  deleting,             \* the source whose DELETE is in flight
  \* Calls in progress:
  fetch,    \* fetch[d]: a loadDocuments, and what it has been given
  more,     \* the request of the one loadMore that is loadingChunks, if any
  sync,     \* syncSelected: where it is, and for which source
  \* History:
  disturbed,  \* see PanesAgree
  promised    \* runs that the documents must be as of

workerVars == <<status, runs, queued>>
chunkVars  == <<selectedDocumentId, chunks, nextPage, totalChunks, more>>
corpusVars == <<workerVars, sources, requested, selectedSourceId, documents, chunkVars,
                deleting, fetch, sync, disturbed, promised>>

NoFetch == [of |-> None, previous |-> NoDocument, runs |-> 0, for |-> "user", at |-> "idle"]
Idle == [at |-> "idle", of |-> None, due |-> 0]
NoMore == [of |-> NoDocument, page |-> 0]

CorpusInit ==
  /\ runs = [s \in Source |-> IF s \in Synced THEN 1 ELSE 0]
  /\ status = [s \in Source |-> IF runs[s] = 0 THEN "pending" ELSE "settled"]
  /\ queued = [s \in Source |-> FALSE]
  /\ sources = Source /\ requested = None
  /\ selectedSourceId = None /\ selectedDocumentId = NoDocument
  /\ documents = [of |-> None, runs |-> 0]
  /\ chunks = <<>> /\ nextPage = 1 /\ totalChunks = 0
  /\ deleting = None
  /\ fetch = [d \in Call |-> NoFetch] /\ more = NoMore /\ sync = Idle
  /\ disturbed = FALSE /\ promised = 0

(* The documents of a source, as of so many runs, in the order of path.    *)
DocumentsOf(list) ==
  IF list.of = None \/ list.runs = 0 THEN <<>>
  ELSE [i \in DOMAIN Listing[list.runs] |-> <<list.of, Listing[list.runs][i]>>]

LoadingChunks == more # NoMore
LoadingDocuments == \E d \in Call : fetch[d].at # "idle"

----------------------------------------------------------------------------
(* Chunks.                                                                 *)

(* selectDocument, with loadMore up to its await: it returns early while   *)
(* chunks are loading.                                                     *)
Select(doc) ==
  /\ selectedDocumentId' = doc /\ chunks' = <<>> /\ nextPage' = 1
  /\ UNCHANGED totalChunks
  /\ more' = IF doc = NoDocument \/ LoadingChunks THEN more ELSE [of |-> doc, page |-> 1]

(* A click on one of the documents shown.                                  *)
SelectDocument(i) ==
  /\ Select(DocumentsOf(documents)[i])
  /\ disturbed' = (disturbed \/ LoadingChunks)
  /\ UNCHANGED <<workerVars, sources, requested, selectedSourceId, documents, deleting>>
  /\ UNCHANGED <<fetch, sync, promised>>

(* The button there is while some are not on screen.                       *)
LoadMore ==
  /\ selectedDocumentId # NoDocument /\ ~LoadingChunks /\ Len(chunks) < totalChunks
  /\ more' = [of |-> selectedDocumentId, page |-> nextPage]
  /\ UNCHANGED <<workerVars, sources, requested, selectedSourceId, documents, deleting>>
  /\ UNCHANGED <<selectedDocumentId, chunks, nextPage, totalChunks, fetch, sync>>
  /\ UNCHANGED <<disturbed, promised>>

(* syncSelected waits for the chunks of the document it ends up with.      *)
ChunksOver == more' = NoMore /\ sync' = IF sync.at = "chunks" THEN Idle ELSE sync

(* Fault: the next page stays the one just answered.                       *)
ChunksArriveTwice ==
  /\ LoadingChunks
  /\ chunks' = Append(chunks, [of |-> more.of, page |-> more.page])
  /\ UNCHANGED nextPage
  /\ totalChunks' = Pages
  /\ ChunksOver
  /\ UNCHANGED <<workerVars, sources, requested, selectedSourceId, documents, deleting>>
  /\ UNCHANGED <<selectedDocumentId, fetch, disturbed, promised>>

ChunksArrive ==
  /\ LoadingChunks
  /\ chunks' = Append(chunks, [of |-> more.of, page |-> more.page])
  /\ nextPage' = nextPage + 1 /\ totalChunks' = Pages
  /\ ChunksOver
  /\ UNCHANGED <<workerVars, sources, requested, selectedSourceId, documents, deleting>>
  /\ UNCHANGED <<selectedDocumentId, fetch, disturbed, promised>>

ChunksFail ==
  /\ LoadingChunks /\ ChunksOver
  /\ UNCHANGED <<workerVars, sources, requested, selectedSourceId, documents, deleting>>
  /\ UNCHANGED <<selectedDocumentId, chunks, nextPage, totalChunks, fetch>>
  /\ UNCHANGED <<disturbed, promised>>

----------------------------------------------------------------------------
(* Documents.                                                              *)

(* loadDocuments up to its await.                                          *)
BeginFetch(s, previous, for) ==
  \E d \in Call :
    /\ fetch[d].at = "idle" /\ \A e \in 1 .. d - 1 : fetch[e].at # "idle"
    /\ fetch' = [fetch EXCEPT ![d] =
         [of |-> s, previous |-> previous, runs |-> 0, for |-> for, at |-> "asked"]]

(* selectSource.                                                           *)
SelectSource(s) ==
  /\ selectedSourceId' = s /\ selectedDocumentId' = NoDocument /\ chunks' = <<>>
  /\ UNCHANGED <<nextPage, totalChunks, more>>
  /\ BeginFetch(s, NoDocument, "user")
  /\ disturbed' = (disturbed \/ LoadingChunks \/ LoadingDocuments)
  /\ promised' = 0

(* The subscription to the query parameter: an unknown source is taken for *)
(* the first there is.                                                     *)
Subscribed(s, known) ==
  LET target == IF s \in known THEN s ELSE Min(known)
  IN  IF known # {} /\ target # selectedSourceId THEN SelectSource(target)
      ELSE UNCHANGED <<selectedSourceId, chunkVars, fetch, disturbed, promised>>

(* ngOnInit, and openSource or a link of the sidebar.                      *)
Arrive(s) ==
  /\ selectedSourceId = None /\ sources = Source
  /\ requested' = s
  /\ Subscribed(s, sources)
  /\ UNCHANGED <<workerVars, sources, documents, deleting, sync>>

OpenSource(s) ==
  /\ selectedSourceId # None /\ s \in sources /\ requested # s
  /\ requested' = s
  /\ Subscribed(s, sources)
  /\ UNCHANGED <<workerVars, sources, documents, deleting, sync>>

(* GET /api/documents/: the server reads.                                  *)
ReadDocuments(d) ==
  /\ fetch[d].at = "asked"
  /\ fetch' = [fetch EXCEPT ![d].at = "read", ![d].runs = runs[fetch[d].of]]
  /\ UNCHANGED <<workerVars, sources, requested, selectedSourceId, documents, chunkVars>>
  /\ UNCHANGED <<deleting, sync, disturbed, promised>>

(* The rest of loadDocuments: the document there was, or the first one.    *)
DocumentsArrive(d) ==
  LET list == [of |-> fetch[d].of, runs |-> fetch[d].runs]
      docs == DocumentsOf(list)
      next == IF Contains(docs, fetch[d].previous) THEN fetch[d].previous
              ELSE IF docs = <<>> THEN NoDocument ELSE Head(docs)
  IN  /\ fetch[d].at = "read"
      /\ documents' = list
      /\ IF next # NoDocument THEN Select(next)
         ELSE /\ selectedDocumentId' = NoDocument /\ chunks' = <<>>
              /\ UNCHANGED <<nextPage, totalChunks, more>>
      /\ sync' = IF fetch[d].for = "user" THEN sync
                 ELSE IF more' # more THEN [sync EXCEPT !.at = "chunks"] ELSE Idle
      /\ fetch' = [fetch EXCEPT ![d] = NoFetch]
      /\ disturbed' = (disturbed \/ LoadingChunks)
      /\ UNCHANGED <<workerVars, sources, requested, selectedSourceId, deleting, promised>>

DocumentsFail(d) ==
  /\ fetch[d].at = "asked"
  /\ fetch' = [fetch EXCEPT ![d] = NoFetch]
  /\ sync' = IF fetch[d].for = "user" THEN sync ELSE Idle
  /\ disturbed' = TRUE
  /\ UNCHANGED <<workerVars, sources, requested, selectedSourceId, documents, chunkVars>>
  /\ UNCHANGED <<deleting, promised>>

(* confirmDelete, for the source selected when the dialog was opened.      *)
Delete ==
  /\ deleting = None /\ selectedSourceId \in sources
  /\ deleting' = selectedSourceId
  /\ UNCHANGED <<workerVars, sources, requested, selectedSourceId, documents, chunkVars>>
  /\ UNCHANGED <<fetch, sync, disturbed, promised>>

(* The error is shown in the dialog; the source may be deleted again.      *)
DeleteFails ==
  /\ deleting # None /\ deleting' = None
  /\ UNCHANGED <<workerVars, sources, requested, selectedSourceId, documents, chunkVars>>
  /\ UNCHANGED <<fetch, sync, disturbed, promised>>

(* Both panes are emptied and the first of the other sources is opened.    *)
(* If that is the one in the URL already, or there is none, nothing loads: *)
(* the panes stay empty, with the selection there was before.              *)
Deleted ==
  LET known == sources \ {deleting}
      first == Min(known)
  IN  /\ deleting # None
      /\ sources' = known /\ deleting' = None
      /\ documents' = [of |-> None, runs |-> 0]
      /\ IF known # {} /\ first # requested /\ first # selectedSourceId
         THEN requested' = first /\ SelectSource(first)
         ELSE /\ requested' = IF known = {} THEN requested ELSE first
              /\ selectedSourceId' = IF known = {} THEN None ELSE selectedSourceId
              /\ chunks' = <<>> /\ disturbed' = TRUE /\ promised' = 0
              /\ UNCHANGED <<selectedDocumentId, nextPage, totalChunks, more, fetch>>
      /\ UNCHANGED <<workerVars, sync>>

----------------------------------------------------------------------------
(* Synchronisation.                                                        *)

(* syncSelected: the POST queues a task.                                   *)
SyncSelected ==
  /\ selectedSourceId \in sources /\ sync = Idle /\ runs[selectedSourceId] < MaxRuns
  /\ sync' = [at |-> "polling", of |-> selectedSourceId,
              due |-> IF status[selectedSourceId] = "pending" THEN 1 ELSE 0]
  /\ queued' = [queued EXCEPT ![selectedSourceId] = TRUE]
  /\ UNCHANGED <<status, runs, sources, requested, selectedSourceId, documents, chunkVars>>
  /\ UNCHANGED <<deleting, fetch, disturbed, promised>>

(* Fault: as in the sidebar, pending is not in flight.                     *)
SettledAtOnce(s) == status[s] # "syncing"

(* pollUntilDone's way out.                                                *)
Settled(s) == status[s] \notin {"pending", "syncing"}

(* One round of the poll, which finds the sync at its end or the source    *)
(* gone; every other round changes nothing.                                *)
PollEnds ==
  LET s == sync.of
  IN  /\ sync.at = "polling" /\ (s \in sources => Settled(s))
      /\ IF s \in sources /\ s = selectedSourceId
         THEN /\ BeginFetch(s, selectedDocumentId, "sync")
              /\ sync' = [sync EXCEPT !.at = "listing"]
              /\ promised' = sync.due
              /\ disturbed' = (disturbed \/ LoadingDocuments)
         ELSE sync' = Idle /\ UNCHANGED <<fetch, promised, disturbed>>
      /\ UNCHANGED <<workerVars, sources, requested, selectedSourceId, documents>>
      /\ UNCHANGED <<chunkVars, deleting>>

(* A request of syncSelected fails.                                        *)
SyncFails ==
  /\ sync.at = "polling" /\ sync' = Idle
  /\ UNCHANGED <<workerVars, sources, requested, selectedSourceId, documents, chunkVars>>
  /\ UNCHANGED <<deleting, fetch, disturbed, promised>>

(* The worker, and others who have a source synced.                        *)
Worker(s) ==
  /\ \/ queued[s] /\ status[s] # "syncing" /\ runs[s] < MaxRuns
        /\ queued' = [queued EXCEPT ![s] = FALSE]
        /\ status' = [status EXCEPT ![s] = "syncing"] /\ UNCHANGED runs
     \/ status[s] = "syncing"
        /\ status' = [status EXCEPT ![s] = "settled"]
        /\ runs' = [runs EXCEPT ![s] = @ + 1] /\ UNCHANGED queued
  /\ UNCHANGED <<sources, requested, selectedSourceId, documents, chunkVars>>
  /\ UNCHANGED <<deleting, fetch, sync, disturbed, promised>>

CorpusNext ==
  \/ \E s \in Source \cup {None} : Arrive(s)
  \/ \E s \in Source : OpenSource(s) \/ Worker(s)
  \/ \E i \in DOMAIN DocumentsOf(documents) : SelectDocument(i)
  \/ \E d \in Call : ReadDocuments(d) \/ DocumentsArrive(d) \/ DocumentsFail(d)
  \/ LoadMore \/ ChunksArrive \/ ChunksFail
  \/ Delete \/ Deleted \/ DeleteFails \/ SyncSelected \/ PollEnds \/ SyncFails

CorpusSpec == CorpusInit /\ [][CorpusNext]_corpusVars

----------------------------------------------------------------------------
(* What must hold.                                                         *)

(* The panes show the documents of the selected source and the chunks of   *)
(* the selected document from its first page on, each page once, through   *)
(* failures and retries, syncs that take documents away and deletions.     *)
(* Excepted is what the code lets go wrong: something was selected or      *)
(* emptied while what was there before was still loading (the first of two *)
(* requests then answers for the second), documents could not be loaded,   *)
(* or nothing was after the deletion of a source.                          *)
PanesAgree ==
  ~disturbed =>
    /\ chunks = [i \in 1..Len(chunks) |-> [of |-> selectedDocumentId, page |-> i]]
    /\ Len(chunks) <= Pages
    /\ ~LoadingDocuments /\ selectedSourceId # None =>
         /\ documents.of = selectedSourceId
         /\ IF DocumentsOf(documents) = <<>> THEN selectedDocumentId = NoDocument
            ELSE Contains(DocumentsOf(documents), selectedDocumentId)

(* After the first sync of a source, asked for here, the documents shown   *)
(* are as of its end or later: the poll has not taken the time before the  *)
(* worker picked it up for its end ("the 202 response races the worker     *)
(* picking the job up", sources.service.ts).                               *)
FirstSyncIsShown ==
  ~disturbed /\ ~LoadingDocuments => documents.runs >= promised

=============================================================================
