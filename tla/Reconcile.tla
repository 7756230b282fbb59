----------------------------- MODULE Reconcile -----------------------------
(***************************************************************************)
(* sync_source (sources/sync.py): reconciling the Document rows of one     *)
(* Source, and the Chunk rows derived from them, with what its connector   *)
(* finds on disk, one document at a time.  A document's content stands     *)
(* for its bytes, its content_hash and the chunks cut from them alike:     *)
(* the same content has the same hash and the same chunks.                 *)
(*                                                                         *)
(* Every statement that commits is a step of its own, as autocommit makes  *)
(* it; process_document is @transaction.atomic and is one step.  Files may *)
(* change between any two steps, and the process may raise or be killed.   *)
(***************************************************************************)
EXTENDS Processes, Naturals, FiniteSets

CONSTANTS
  Path,         \* external_ids; numbers, for the order ties are broken by
  Content,      \* contents a file may have
  NoContent,    \* no file, or no chunks
  NoDoc,        \* no Document row
  Exclusive,    \* TRUE: callers never run sync_source twice at once
  MayFail,      \* TRUE: any statement may raise, any process be killed
  MayTruncate,  \* TRUE: the connector may list only part of the files
  Sorted,       \* TRUE: it yields them in the order of their external_ids
  MaxEdits      \* bound: file changes in one behaviour

ASSUME PathAssumption == Path \subseteq Nat \ {0} /\ IsFiniteSet(Path)
ASSUME SentinelAssumption == NoContent \notin Content
ASSUME FlagAssumption ==
  /\ Exclusive \in BOOLEAN /\ MayFail \in BOOLEAN
  /\ MayTruncate \in BOOLEAN /\ Sorted \in BOOLEAN
ASSUME EditAssumption == MaxEdits \in Nat

NoPath == 0

(* The columns of Document that sync_source reads; dup is the duplicate_of *)
(* key of its metadata, an external_id in place of the row's UUID.         *)
Row == [hash : Content, created : Nat, deleted : BOOLEAN,
        dup : Path \cup {NoPath}]
ASSUME RowAssumption == NoDoc \notin Row

VARIABLES
  disk,    \* the files the connector would find, and their content
  docs,    \* the source's Document rows
  chunks,  \* the content whose chunks a document has, or NoContent
  clock,   \* the last value of created_at
  \* Local to each run of sync_source:
  step,    \* where it is
  snap,    \* existing_by_external_id
  todo,    \* what the connector has listed and still to yield
  seen,    \* seen_external_ids
  cur,     \* the document in hand
  got,     \* the content the connector yielded for it
  canon,   \* the document it duplicates
  stats,   \* added, updated and deleted
  \* History:
  quiet,   \* the runs since whose start no file has changed
  calm,    \* no file has changed since such a run returned
  torn,    \* documents a run left between two of its commits
  edits    \* file changes so far (bound)

tableVars   == <<docs, chunks, clock>>
handVars    == <<cur, got, canon>>
listVars    == <<snap, todo, seen>>
historyVars == <<quiet, calm, torn>>
vars == <<disk, tableVars, step, listVars, handVars, stats, historyVars, edits>>

NoRows  == [p \in Path |-> NoDoc]
Stats   == [added : Nat, updated : Nat, deleted : Nat]
NoStats == [added |-> 0, updated |-> 0, deleted |-> 0]

TablesTyped ==
  /\ disk \in [Path -> Content \cup {NoContent}]
  /\ docs \in [Path -> Row \cup {NoDoc}]
  /\ chunks \in [Path -> Content \cup {NoContent}]
  /\ clock \in Nat

RunsTyped ==
  /\ step \in [Worker -> {"idle", "scan", "save", "dedup", "mark", "process",
                          "purge", "done"}]
  /\ snap \in [Worker -> [Path -> Row \cup {NoDoc}]]
  /\ todo \in [Worker -> SUBSET Path] /\ seen \in [Worker -> SUBSET Path]
  /\ stats \in [Worker -> Stats]

HandTyped ==
  /\ cur \in [Worker -> Path \cup {NoPath}]
  /\ got \in [Worker -> Content \cup {NoContent}]
  /\ canon \in [Worker -> Path \cup {NoPath}]

HistoryTyped ==
  /\ quiet \in SUBSET Worker /\ calm \in BOOLEAN /\ torn \in SUBSET Path

TypeOK == TablesTyped /\ RunsTyped /\ HandTyped /\ HistoryTyped
            /\ edits \in 0..MaxEdits

Init ==
  /\ disk \in [Path -> Content \cup {NoContent}]
  /\ docs = NoRows /\ chunks = [p \in Path |-> NoContent] /\ clock = 0
  /\ step = [w \in Worker |-> "idle"]
  /\ snap = [w \in Worker |-> NoRows]
  /\ todo = [w \in Worker |-> {}] /\ seen = [w \in Worker |-> {}]
  /\ cur = [w \in Worker |-> NoPath]
  /\ got = [w \in Worker |-> NoContent]
  /\ canon = [w \in Worker |-> NoPath]
  /\ stats = [w \in Worker |-> NoStats]
  /\ quiet = {} /\ calm = FALSE /\ torn = {} /\ edits = 0

----------------------------------------------------------------------------

Live(p) == docs[p] # NoDoc /\ ~docs[p].deleted

(* The connector's view: the files there now.                              *)
Files == {p \in Path : disk[p] # NoContent}

(* (created_at, external_id), compared as tuples.                          *)
Earlier(q, p) ==
  \/ docs[q].created < docs[p].created
  \/ docs[q].created = docs[p].created /\ q < p

(* The rows _find_canonical_duplicate considers for p.                     *)
Candidates(p, hash) ==
  {q \in Path \ {p} : Live(q) /\ docs[q].hash = hash /\ docs[q].dup = NoPath}

(* Fault: the candidate need not be earlier than the document itself.      *)
AnyCandidate(p, hash) ==
  {q \in Candidates(p, hash) :
     \A r \in Candidates(p, hash) \ {q} : Earlier(q, r)}

(* The earliest candidate, when it is earlier than p itself: one or none.  *)
Canonical(p, hash) ==
  {q \in Candidates(p, hash) :
     /\ Earlier(q, p)
     /\ \A r \in Candidates(p, hash) \ {q} : Earlier(q, r)}

(* What the connector may turn to next: anything it has still to yield.  A *)
(* local folder is walked in order, and so is a repository; two            *)
(* repositories of one source come in the order of its configuration.      *)
Upcoming(w) == {p \in todo[w] : Sorted => \A q \in todo[w] : p <= q}

(* Fault: rows deleted before are found gone again.                        *)
MissingAgain(w) == {p \in Path : snap[w][p] # NoDoc} \ seen[w]

(* What the deletion pass finds gone: live when the run began, not seen.   *)
Missing(w) ==
  {p \in Path : snap[w][p] # NoDoc /\ ~snap[w][p].deleted} \ seen[w]

(* The documents a run is between two commits of.                          *)
InHand(w) ==
  CASE step[w] \in {"dedup", "mark", "process"} -> {cur[w]}
    [] step[w] = "purge" -> Missing(w)
    [] OTHER -> {}

Goto(w, from, to) == step[w] = from /\ step' = [step EXCEPT ![w] = to]

(* The document in hand is done with.                                      *)
PutDown(w) ==
  /\ cur'   = [cur EXCEPT ![w] = NoPath]
  /\ got'   = [got EXCEPT ![w] = NoContent]
  /\ canon' = [canon EXCEPT ![w] = NoPath]

(* sync_source is over, and its local variables gone.                      *)
Leave(w) ==
  /\ step'  = [step EXCEPT ![w] = "idle"]
  /\ snap'  = [snap EXCEPT ![w] = NoRows]
  /\ todo'  = [todo EXCEPT ![w] = {}]
  /\ seen'  = [seen EXCEPT ![w] = {}]
  /\ stats' = [stats EXCEPT ![w] = NoStats]
  /\ quiet' = quiet \ {w}
  /\ PutDown(w)

----------------------------------------------------------------------------

(* Someone writes, creates or removes a file; a rename is two of these.    *)
(* A file above MAX_DOCUMENT_SIZE_BYTES is not yielded: it is no file.     *)
Edit(p, c) ==
  /\ disk[p] # c
  /\ edits < MaxEdits /\ edits' = edits + 1
  /\ disk' = [disk EXCEPT ![p] = c]
  /\ quiet' = {} /\ calm' = FALSE
  /\ UNCHANGED <<tableVars, step, listVars, handVars, stats, torn>>

(* Fault: soft-deleted rows are left out of existing_by_external_id.       *)
BeginFromLive(w) ==
  /\ Goto(w, "idle", "scan")
  /\ Exclusive => \A v \in Worker : step[v] = "idle"
  /\ snap' = [snap EXCEPT ![w] = [p \in Path |-> IF Live(p) THEN docs[p] ELSE NoDoc]]
  /\ todo' = [todo EXCEPT ![w] = Files]
  /\ quiet' = quiet \cup {w}
  /\ UNCHANGED <<disk, tableVars, seen, handVars, stats, calm, torn, edits>>

(* Validate, connect, read the rows, and list the files.                   *)
Begin(w) ==
  /\ Goto(w, "idle", "scan")
  /\ Exclusive => \A v \in Worker : step[v] = "idle"
  /\ snap' = [snap EXCEPT ![w] = docs]
  /\ \E listed \in SUBSET Files :
       /\ ~MayTruncate => listed = Files
       /\ todo' = [todo EXCEPT ![w] = listed]
  /\ quiet' = quiet \cup {w}
  /\ UNCHANGED <<disk, tableVars, seen, handVars, stats, calm, torn, edits>>

(* Fault: a soft-deleted row whose file is back counts as unchanged.       *)
SameHash(row, content) == row # NoDoc /\ row.hash = content

(* The row exists, is live and has the hash of the content: nothing to do. *)
Unchanged(row, content) ==
  row # NoDoc /\ ~row.deleted /\ row.hash = content

(* The connector yields one document, and no cancel request is pending.    *)
Fetch(w, p) ==
  /\ step[w] = "scan"
  /\ p \in Upcoming(w) \cap Files
  /\ todo' = [todo EXCEPT ![w] = @ \ {p}]
  /\ seen' = [seen EXCEPT ![w] = @ \cup {p}]
  /\ \/ /\ ~Unchanged(snap[w][p], disk[p])
        /\ step' = [step EXCEPT ![w] = "save"]
        /\ cur' = [cur EXCEPT ![w] = p]
        /\ got' = [got EXCEPT ![w] = disk[p]]
     \/ /\ Unchanged(snap[w][p], disk[p])
        /\ UNCHANGED <<step, cur, got>>
  /\ UNCHANGED <<disk, tableVars, snap, canon, stats, historyVars, edits>>

(* Fault: a cancelled run goes on to the deletion pass.                    *)
StopListing(w) ==
  /\ step[w] = "scan"
  /\ Upcoming(w) \cap Files # {}
  /\ todo' = [todo EXCEPT ![w] = {}]
  /\ UNCHANGED <<disk, tableVars, step, snap, seen, handVars, stats,
                 historyVars, edits>>

(* The connector yields a document and a cancel request is pending: the    *)
(* run stops there and skips the deletion pass.                            *)
Cancel(w) ==
  /\ step[w] = "scan"
  /\ Upcoming(w) \cap Files # {}
  /\ Leave(w)
  /\ UNCHANGED <<disk, tableVars, calm, torn, edits>>

(* Fault: a revived document is counted as updated.                        *)
CountUpdate(count, row) ==
  IF row = NoDoc THEN [count EXCEPT !.added = @ + 1]
                 ELSE [count EXCEPT !.updated = @ + 1]

(* A new or revived document counts as added, any other as updated; the    *)
(* code counts after _ingest, but a run that raises there has no stats.    *)
Count(count, row) ==
  IF row = NoDoc \/ row.deleted THEN [count EXCEPT !.added = @ + 1]
                                ELSE [count EXCEPT !.updated = @ + 1]

(* Fault: the row is created before its hash is known.                     *)
CreateBare(w) ==
  /\ Goto(w, "save", "dedup")
  /\ docs[cur[w]] = NoDoc
  /\ docs' = [docs EXCEPT ![cur[w]] =
        [hash |-> NoContent, created |-> clock, deleted |-> FALSE, dup |-> NoPath]]
  /\ UNCHANGED <<disk, chunks, clock, listVars, handVars, stats, historyVars, edits>>

(* Document.objects.create; the clock may not have ticked since the last   *)
(* one.  A row already there would violate the unique constraint.          *)
Create(w) ==
  /\ Goto(w, "save", "dedup")
  /\ snap[w][cur[w]] = NoDoc /\ docs[cur[w]] = NoDoc
  /\ clock' \in {clock, clock + 1}
  /\ docs' = [docs EXCEPT ![cur[w]] =
       [hash |-> got[w], created |-> clock', deleted |-> FALSE, dup |-> NoPath]]
  /\ stats' = [stats EXCEPT ![w] = Count(@, NoDoc)]
  /\ UNCHANGED <<disk, chunks, listVars, handVars, historyVars, edits>>

(* existing.save(): every column of the row as read at the start of the    *)
(* run, with the new hash, live, and its metadata the connector's own.     *)
Update(w) ==
  LET row == snap[w][cur[w]] IN
  /\ Goto(w, "save", "dedup")
  /\ row # NoDoc
  /\ docs' = [docs EXCEPT ![cur[w]] =
       [hash |-> got[w], created |-> row.created, deleted |-> FALSE, dup |-> NoPath]]
  /\ stats' = [stats EXCEPT ![w] = Count(@, row)]
  /\ UNCHANGED <<disk, chunks, clock, listVars, handVars, historyVars, edits>>

(* Fault: a duplicate keeps the chunks of its previous content.            *)
KeepChunks(w) ==
  /\ Goto(w, "dedup", "mark")
  /\ \E q \in Canonical(cur[w], got[w]) : canon' = [canon EXCEPT ![w] = q]
  /\ UNCHANGED <<disk, tableVars, listVars, cur, got, stats, historyVars, edits>>

(* _ingest finds a canonical duplicate and deletes the document's chunks.  *)
DropChunks(w) ==
  /\ Goto(w, "dedup", "mark")
  /\ \E q \in Canonical(cur[w], got[w]) : canon' = [canon EXCEPT ![w] = q]
  /\ chunks' = [chunks EXCEPT ![cur[w]] = NoContent]
  /\ UNCHANGED <<disk, docs, clock, listVars, cur, got, stats, historyVars, edits>>

(* document.save(update_fields=["metadata"]).                              *)
Mark(w) ==
  /\ Goto(w, "mark", "scan")
  /\ docs' = [docs EXCEPT ![cur[w]].dup = canon[w]]
  /\ torn' = torn \ {cur[w]}
  /\ PutDown(w)
  /\ UNCHANGED <<disk, chunks, clock, listVars, stats, quiet, calm, edits>>

(* _ingest finds none.                                                     *)
NoDuplicate(w) ==
  /\ Goto(w, "dedup", "process")
  /\ Canonical(cur[w], got[w]) = {}
  /\ UNCHANGED <<disk, tableVars, listVars, handVars, stats, historyVars, edits>>

(* _ingest calls process_document, which replaces the chunks wholesale.    *)
Process(w) ==
  /\ Goto(w, "process", "scan")
  /\ chunks' = [chunks EXCEPT ![cur[w]] = got[w]]
  /\ torn' = torn \ {cur[w]}
  /\ PutDown(w)
  /\ UNCHANGED <<disk, docs, clock, listVars, stats, quiet, calm, edits>>

(* Everything was yielded: soft-delete what was not seen...                *)
SoftDelete(w) ==
  LET gone == {p \in Missing(w) : Live(p)} IN
  /\ Goto(w, "scan", IF Missing(w) = {} THEN "done" ELSE "purge")
  /\ todo[w] = {}
  /\ docs' = [p \in Path |-> IF p \in gone THEN [docs[p] EXCEPT !.deleted = TRUE]
                                           ELSE docs[p]]
  /\ stats' = [stats EXCEPT ![w].deleted = Cardinality(gone)]
  /\ UNCHANGED <<disk, chunks, clock, listVars, handVars, historyVars, edits>>

(* ... and purge its chunks, in a statement of its own.                    *)
Purge(w) ==
  /\ Goto(w, "purge", "done")
  /\ chunks' = [p \in Path |-> IF p \in Missing(w) THEN NoContent ELSE chunks[p]]
  /\ torn' = torn \ Missing(w)
  /\ UNCHANGED <<disk, docs, clock, listVars, handVars, stats, quiet, calm, edits>>

(* sync_source returns its stats.                                          *)
Return(w) ==
  /\ step[w] = "done"
  /\ Leave(w)
  /\ calm' = (calm \/ w \in quiet)
  /\ UNCHANGED <<disk, tableVars, torn, edits>>

(* A file listed is gone when its turn comes; or, with MayFail, anything   *)
(* raises or the process dies.  What is committed stays.                   *)
Abandon(w) ==
  /\ step[w] # "idle"
  /\ MayFail \/ (step[w] = "scan" /\ Upcoming(w) \ Files # {})
  /\ torn' = torn \cup InHand(w)
  /\ Leave(w)
  /\ UNCHANGED <<disk, tableVars, calm, edits>>

Write(w) == Create(w) \/ Update(w) \/ DropChunks(w) \/ Mark(w)
              \/ NoDuplicate(w) \/ Process(w) \/ SoftDelete(w) \/ Purge(w)

Next ==
  \/ \E p \in Path, c \in Content \cup {NoContent} : Edit(p, c)
  \/ \E w \in Worker :
       \/ Begin(w) \/ (\E p \in Path : Fetch(w, p)) \/ Write(w)
       \/ Cancel(w) \/ Return(w) \/ Abandon(w)

Spec == Init /\ [][Next]_vars

----------------------------------------------------------------------------
(* What must hold.                                                         *)

(* A duplicate points at an earlier row, so that no chain of duplicate_of  *)
(* ever closes into a cycle (the worry of _find_canonical_duplicate).      *)
DuplicateIsLater ==
  \A p \in Path : docs[p] # NoDoc /\ docs[p].dup # NoPath =>
    docs[docs[p].dup] # NoDoc /\ Earlier(docs[p].dup, p)

(* Between documents is "always a safe, consistent point" (locking.py):    *)
(* save for the document in hand and those a failed run left torn, a live  *)
(* document has the chunks of its hash unless it is a duplicate, and any   *)
(* other document has none, since retrieval does not look at deleted.      *)
ChunksFollowRows ==
  \A p \in Path \ (torn \cup UNION {InHand(w) : w \in Worker}) :
    chunks[p] = IF Live(p) /\ docs[p].dup = NoPath THEN docs[p].hash
                                                   ELSE NoContent

(* A run that is not cancelled and during which no file changed leaves     *)
(* exactly the files on disk live, each with its content's hash.           *)
MirrorsDisk ==
  \A w \in quiet : step[w] = "done" =>
    \A p \in Path : IF p \in Files THEN Live(p) /\ docs[p].hash = disk[p]
                                   ELSE ~Live(p)

(* Its stats are the number of documents that appeared, changed and went:  *)
(* all zero when nothing changed since the last run.                       *)
StatsAreTrue ==
  \A w \in quiet : step[w] = "done" =>
    LET was(p) == snap[w][p] # NoDoc /\ ~snap[w][p].deleted
    IN  stats[w] =
          [added   |-> Cardinality({p \in Files : ~was(p)}),
           updated |-> Cardinality({p \in Files : was(p) /\ snap[w][p].hash # disk[p]}),
           deleted |-> Cardinality({p \in Path \ Files : was(p)})]

(* The rows a run read at its start are still the table's when it comes to *)
(* use them: it creates no row that exists (the unique constraint on       *)
(* source and external_id) and its save overwrites nobody's work.          *)
SnapshotFresh ==
  \A w \in Worker :
    /\ step[w] = "scan" =>
         \A p \in Path \ seen[w] : snap[w][p] = docs[p]
    /\ step[w] = "save" =>
         \A p \in Path \ (seen[w] \ {cur[w]}) :
           snap[w][p] = docs[p]

(* Once a run has finished undisturbed, the next ones write nothing until  *)
(* a file changes ("running this twice in a row with nothing changed on    *)
(* disk performs zero writes", sync.py).                                   *)
ZeroWrites ==
  calm => \A w \in Worker : step[w] \in {"idle", "scan", "done"}

(* A run never soft-deletes a document whose file has been there all along *)
(* (sync.py on cancelled runs: "treating everything after it as not seen   *)
(* would soft-delete documents that are still there").                     *)
DeletesOnlyMissing ==
  [][\A w \in quiet, p \in Path :
       SoftDelete(w) /\ Live(p) /\ ~Live(p)' => p \notin Files]_vars

(* After such a run, what is on disk can be found: some live document has  *)
(* the chunks of each file ("Same content already indexed under a          *)
(* different file in this source", sync.py).                               *)
EveryFileIsIndexed ==
  \A w \in quiet : step[w] = "done" =>
    \A p \in Files : \E q \in Path : Live(q) /\ chunks[q] = disk[p]

(* ... and no live document keeps the chunks of an older version of itself *)
(* ("each document is its own transaction", sync.py).                      *)
NoStaleChunks ==
  \A w \in quiet : step[w] = "done" =>
    \A p \in Path : Live(p) /\ docs[p].dup = NoPath => chunks[p] = docs[p].hash

=============================================================================
