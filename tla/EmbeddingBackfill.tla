------------------------- MODULE EmbeddingBackfill -------------------------
(***************************************************************************)
(* Giving every Chunk its embedding.  Syncs replace the chunks of a        *)
(* document wholesale (ingestion/pipeline.py), with no embedding; the end  *)
(* of a sync queues backfill_embeddings_task (sources/tasks.py), whose     *)
(* runs (rag/embeddings/service.py) read batches of chunks that have none, *)
(* ask the provider for their vectors, and save these.  Nothing keeps the  *)
(* runs apart from each other or from the syncs: the batch a run saves was *)
(* read before a network call.                                             *)
(***************************************************************************)
EXTENDS Naturals, FiniteSets

CONSTANTS
  Document,         \* documents of sources that sync independently, one of each
  Text,             \* contents a document may have: each chunk stands for it
  Embedder,         \* Celery worker processes, which run the backfill task
  BatchSize,        \* batch_size
  BackfillRetries,  \* retry_kwargs of the task
  MaxSyncs,         \* bound: syncs in one behaviour
  MaxChunks,        \* bound: chunks created in one behaviour
  NoText,           \* NULL embedding
  NoRow             \* no Chunk row

ASSUME BatchAssumption == BatchSize \in Nat \ {0}
ASSUME BackfillBounds ==
  BackfillRetries \in Nat /\ MaxSyncs \in Nat /\ MaxChunks \in Nat

(* Primary keys: random UUIDs, none given out twice and nowhere compared,  *)
(* so numbering them in the order of creation loses nothing.               *)
Chunk == 1..MaxChunks

(* A Chunk row; its embedding is the text it was computed from.            *)
Row == [doc : Document, text : Text, embedding : Text \cup {NoText}]

ASSUME NullAssumption == NoText \notin Text /\ NoRow \notin Row

(* A chunk as a run holds it in memory.                                    *)
Copy == [id : Chunk, doc : Document, text : Text]
Ids(copies) == {b.id : b \in copies}

VARIABLES
  rows,     \* the Chunk table
  used,     \* chunks created so far
  sync,     \* the documents whose source is being synced
  queue,    \* queue[n]: backfill messages in the broker carrying n retries
  at,       \* where each process is in embed_pending_chunks
  attempt,  \* request.retries of the task a process runs
  batch,    \* the batch a process has read
  syncs,    \* syncs so far (bound)
  \* History:
  lost,     \* a sync or a backfill ended since the last message was queued
            \* without what should have followed it
  overlap,  \* two processes have run the task at once, or one was killed
  billed    \* chunks the provider has answered for

tableVars    == <<rows, used>>
taskVars     == <<at, attempt, batch>>
historyVars  == <<lost, overlap, billed>>
backfillVars == <<tableVars, sync, queue, taskVars, syncs, historyVars>>

Busy == {w \in Embedder : at[w] # "idle"}
Pending == {c \in Chunk : rows[c] # NoRow /\ rows[c].embedding = NoText}

BackfillTypeOK ==
  /\ rows \in [Chunk -> Row \cup {NoRow}] /\ used \in 0..MaxChunks
  /\ sync \in SUBSET Document
  /\ queue \in [0..BackfillRetries -> Nat]
  /\ at \in [Embedder -> {"idle", "reading", "embedding", "saving"}]
  /\ attempt \in [Embedder -> 0..BackfillRetries]
  /\ batch \in [Embedder -> SUBSET Copy]
  /\ syncs \in 0..MaxSyncs
  /\ lost \in BOOLEAN /\ overlap \in BOOLEAN
  /\ billed \in SUBSET Chunk

BackfillInit ==
  /\ rows = [c \in Chunk |-> NoRow] /\ used = 0 /\ sync = {}
  /\ queue = [n \in 0..BackfillRetries |-> 0]
  /\ at = [w \in Embedder |-> "idle"]
  /\ attempt = [w \in Embedder |-> 0]
  /\ batch = [w \in Embedder |-> {}]
  /\ syncs = 0
  /\ lost = FALSE /\ overlap = FALSE /\ billed = {}

(* A process is done with a task, and its local variables are gone.        *)
Leave(w) ==
  /\ at' = [at EXCEPT ![w] = "idle"]
  /\ attempt' = [attempt EXCEPT ![w] = 0]
  /\ batch' = [batch EXCEPT ![w] = {}]

----------------------------------------------------------------------------
(* Syncs, of which this is what chunks see.                                *)

StartSync(d) ==
  /\ d \notin sync /\ syncs < MaxSyncs
  /\ sync' = sync \cup {d} /\ syncs' = syncs + 1
  /\ UNCHANGED <<tableVars, queue, taskVars, historyVars>>

(* Fault: the document's chunks are updated in place.                      *)
ReplaceInPlace(d, t, last) ==
  /\ d \in sync
  /\ used' = last
  /\ rows' = [c \in Chunk |->
       IF c \in used + 1 .. last \/ (rows[c] # NoRow /\ rows[c].doc = d)
       THEN [doc |-> d, text |-> t, embedding |-> NoText] ELSE rows[c]]
  /\ UNCHANGED <<sync, queue, taskVars, syncs, historyVars>>

(* process_document, one transaction; with no new chunks, the purge of a   *)
(* deleted document or of a duplicate too.                                 *)
Replace(d, t, last) ==
  /\ d \in sync
  /\ rows' = [c \in Chunk |->
       IF c \in used + 1 .. last THEN [doc |-> d, text |-> t, embedding |-> NoText]
       ELSE IF rows[c] # NoRow /\ rows[c].doc = d THEN NoRow ELSE rows[c]]
  /\ used' = last
  /\ UNCHANGED <<sync, queue, taskVars, syncs, historyVars>>

(* The sync task has returned, and queued a backfill.                      *)
FinishSync(d) ==
  /\ d \in sync /\ sync' = sync \ {d}
  /\ queue' = [queue EXCEPT ![0] = @ + 1]
  /\ lost' = FALSE
  /\ UNCHANGED <<tableVars, taskVars, syncs, overlap, billed>>

(* It raised or was killed, or was the management command: no backfill is  *)
(* queued for the chunks it has written.                                   *)
AbandonSync(d) ==
  /\ d \in sync /\ sync' = sync \ {d}
  /\ lost' = TRUE
  /\ UNCHANGED <<tableVars, queue, taskVars, syncs, overlap, billed>>

----------------------------------------------------------------------------
(* backfill_embeddings_task.                                               *)

(* A worker takes a message off the broker, which forgets it (early ack).  *)
StartBackfill(w, n) ==
  /\ at[w] = "idle" /\ queue[n] > 0
  /\ queue' = [queue EXCEPT ![n] = @ - 1]
  /\ at' = [at EXCEPT ![w] = "reading"]
  /\ attempt' = [attempt EXCEPT ![w] = n]
  /\ overlap' = (overlap \/ Busy # {})
  /\ UNCHANGED <<tableVars, sync, batch, syncs, lost, billed>>

(* Fault: a batch is any chunks, embedded or not.                          *)
ReadAnyBatch(w) ==
  /\ at[w] = "reading"
  /\ \E some \in SUBSET {c \in Chunk : rows[c] # NoRow} :
       /\ Cardinality(some) = BatchSize
       /\ batch' = [batch EXCEPT ![w] =
            {[id |-> c, doc |-> rows[c].doc, text |-> rows[c].text] : c \in some}]
  /\ at' = [at EXCEPT ![w] = "embedding"]
  /\ UNCHANGED <<tableVars, sync, queue, attempt, syncs, historyVars>>

(* The query, unordered and limited to batch_size.                         *)
ReadBatch(w) ==
  /\ at[w] = "reading" /\ Pending # {}
  /\ \E some \in SUBSET Pending :
       /\ Cardinality(some) <= BatchSize
       /\ some # Pending => Cardinality(some) = BatchSize
       /\ batch' = [batch EXCEPT ![w] =
            {[id |-> c, doc |-> rows[c].doc, text |-> rows[c].text] : c \in some}]
  /\ at' = [at EXCEPT ![w] = "embedding"]
  /\ UNCHANGED <<tableVars, sync, queue, attempt, syncs, historyVars>>

(* It returns nothing: embed_pending_chunks is done.                       *)
Finish(w) ==
  /\ at[w] = "reading" /\ Pending = {}
  /\ Leave(w)
  /\ UNCHANGED <<tableVars, sync, queue, syncs, historyVars>>

(* The provider answers for the whole batch, one request.                  *)
Embed(w) ==
  /\ at[w] = "embedding"
  /\ at' = [at EXCEPT ![w] = "saving"]
  /\ billed' = billed \cup Ids(batch[w])
  /\ UNCHANGED <<tableVars, sync, queue, attempt, batch, syncs, lost, overlap>>

(* Fault: the task is not retried.                                         *)
GiveUp(w) ==
  /\ at[w] = "embedding"
  /\ Leave(w)
  /\ UNCHANGED <<tableVars, sync, queue, syncs, historyVars>>

(* EmbeddingProviderUnavailableError: the task is published again, up to   *)
(* max_retries.                                                            *)
Unavailable(w) ==
  /\ at[w] = "embedding"
  /\ Leave(w)
  /\ \/ /\ attempt[w] < BackfillRetries
        /\ queue' = [queue EXCEPT ![attempt[w] + 1] = @ + 1]
        /\ UNCHANGED lost
     \/ /\ attempt[w] = BackfillRetries
        /\ lost' = TRUE
        /\ UNCHANGED queue
  /\ UNCHANGED <<tableVars, sync, syncs, overlap, billed>>

(* Fault: each chunk is given the whole answer instead of its own vector.  *)
SaveWholeAnswer(w) ==
  /\ at[w] = "saving"
  /\ rows' = [c \in Chunk |->
       IF rows[c] # NoRow /\ c \in Ids(batch[w])
       THEN [rows[c] EXCEPT !.embedding = {b.text : b \in batch[w]}]
       ELSE rows[c]]
  /\ at' = [at EXCEPT ![w] = "reading"]
  /\ batch' = [batch EXCEPT ![w] = {}]
  /\ UNCHANGED <<used, sync, queue, attempt, syncs, historyVars>>

(* Fault: bulk_update is left out.                                         *)
SaveNothing(w) ==
  /\ at[w] = "saving"
  /\ at' = [at EXCEPT ![w] = "reading"]
  /\ batch' = [batch EXCEPT ![w] = {}]
  /\ UNCHANGED <<tableVars, sync, queue, attempt, syncs, historyVars>>

(* Fault: chunk.save(), which inserts the row when there is none.          *)
SaveBatchRows(w) ==
  /\ at[w] = "saving"
  /\ rows' = [c \in Chunk |->
       IF c \in Ids(batch[w])
       THEN LET b == CHOOSE b \in batch[w] : b.id = c
            IN  [doc |-> b.doc, text |-> b.text, embedding |-> b.text]
       ELSE rows[c]]
  /\ at' = [at EXCEPT ![w] = "reading"]
  /\ batch' = [batch EXCEPT ![w] = {}]
  /\ UNCHANGED <<used, sync, queue, attempt, syncs, historyVars>>

(* bulk_update of the embedding column: rows gone since are left alone.    *)
SaveBatch(w) ==
  /\ at[w] = "saving"
  /\ rows' = [c \in Chunk |->
       IF rows[c] # NoRow /\ c \in Ids(batch[w])
       THEN [rows[c] EXCEPT !.embedding = (CHOOSE b \in batch[w] : b.id = c).text]
       ELSE rows[c]]
  /\ at' = [at EXCEPT ![w] = "reading"]
  /\ batch' = [batch EXCEPT ![w] = {}]
  /\ UNCHANGED <<used, sync, queue, attempt, syncs, historyVars>>

(* Any other exception, which is not retried, or a killed process.         *)
Die(w) ==
  /\ at[w] # "idle"
  /\ Leave(w)
  /\ lost' = TRUE /\ overlap' = TRUE
  /\ UNCHANGED <<tableVars, sync, queue, syncs, billed>>

----------------------------------------------------------------------------

SyncStep(d) ==
  \/ StartSync(d) \/ FinishSync(d) \/ AbandonSync(d)
  \/ \E t \in Text, last \in used..MaxChunks : Replace(d, t, last)

TaskStep(w) ==
  \/ \E n \in 0..BackfillRetries : StartBackfill(w, n)
  \/ ReadBatch(w) \/ Finish(w) \/ Embed(w) \/ Unavailable(w) \/ SaveBatch(w)

BackfillNext ==
  \/ \E d \in Document : SyncStep(d)
  \/ \E w \in Embedder : TaskStep(w) \/ Die(w)

(* Syncs come to an end (SyncControl), and workers that run keep running;  *)
(* nothing obliges the provider to answer.                                 *)
BackfillFairness ==
  /\ \A d \in Document : WF_backfillVars(FinishSync(d) \/ AbandonSync(d))
  /\ \A w \in Embedder : WF_backfillVars(TaskStep(w))

BackfillSpec == BackfillInit /\ [][BackfillNext]_backfillVars /\ BackfillFairness

----------------------------------------------------------------------------
(* What must hold.                                                         *)

(* A chunk's embedding is that of its own text, though the text a run had  *)
(* embedded was read before the network call ("a chunk and its embedding   *)
(* can never drift out of sync", docs/adr/0001).                           *)
EmbeddingsMatch ==
  \A c \in Chunk : rows[c] # NoRow =>
    rows[c].embedding \in {NoText, rows[c].text}

(* A document's chunks are all of one version of it: a backfill brings     *)
(* none back that a sync has replaced ("replacing anything left over from  *)
(* a previous version wholesale", pipeline.py).                            *)
OneVersion ==
  \A c, e \in Chunk :
    rows[c] # NoRow /\ rows[e] # NoRow /\ rows[c].doc = rows[e].doc =>
      rows[c].text = rows[e].text

(* A chunk without an embedding is always somebody's business: of a sync   *)
(* that has still to queue a backfill, of a queued one, or of a running    *)
(* one; unless a sync or a backfill was cut short and none queued since    *)
(* ("no lost progress", rag/tasks.py).                                     *)
NothingForgotten ==
  Pending # {} => \/ lost \/ sync # {} \/ Busy # {}
                  \/ \E n \in 0..BackfillRetries : queue[n] > 0

(* As long as backfills do not overlap and none is killed, each chunk is   *)
(* paid for once, however often the task is retried ("no double-embedding",*)
(* rag/tasks.py).                                                          *)
RetriesEmbedOnce ==
  [][\A w \in Embedder : Embed(w) /\ ~overlap => Ids(batch[w]) \cap billed = {}]_backfillVars

(* Every chunk gets its embedding, or is replaced, or a sync or a backfill *)
(* was cut short.                                                          *)
EveryChunkIsEmbedded == \A c \in Chunk : c \in Pending ~> c \notin Pending \/ lost

=============================================================================
