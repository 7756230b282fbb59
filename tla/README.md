# Lorebase, modelled and proved

Lorebase indexes folders of notes and GitHub repositories, and answers
questions about them with citations. This directory holds TLA+ modules that
model its core, from the sync of a folder to the answer on screen, the TLC
configurations that check them, and TLAPS proofs of the properties that matter
most. `PROJECT.json` maps every definition to the lines it models and lists
components, hazards, runs, mutants, findings and theorems.

## The system

| Component | State | Operations | Model |
|---|---|---|---|
| Sync control (`sources/locking.py`, `tasks.py`, `sync.py:171-220`, `views.py`, `serializers.py`, the `sync_source` command) | cache keys `sync-lock:<id>` and `sync-cancel:<id>`, `Source.status`, `SyncRun` rows, the broker's messages | request, cancel, take the lock, record, retry, PATCH | `SyncControl` |
| Reconciliation (`sync.py:14-168`, `ingestion/pipeline.py`) | `Document` and `Chunk` rows of one source; per run the snapshot, the ids seen and the stats | list, create, update, mark duplicates, chunk, soft-delete, purge | `Reconcile` |
| The two together | all of it | | `SourceSync` |
| Embedding backfill (`rag/tasks.py`, `rag/embeddings/service.py`) | `Chunk.embedding`, the broker's messages; per run a batch in memory | read a batch, embed, save, retry | `EmbeddingBackfill` |
| Connectors | none | list and read files | inside `Reconcile`, as a listing |
| Parser and chunker (`ingestion/`) | a document's `Chunk` rows | parse, split, merge, replace | `Chunking` |
| Chat turn, direct and agentic (`rag/chat/`, `ask`, `evaluate`) | `Conversation`, `Message`, `Citation` rows | save the question, rewrite, retrieve, ask the model, validate citations, save the answer, stream | `ChatTurn` |
| Rate limit (`core/ratelimit.py`) | one counter per user and window | incr, set, expire | inside `ChatTurn` |
| Retrieval (`rag/retrieval/`, `rag/reranking/`) | none | lexical and dense queries, fusion, reranking, date matches | `Retrieval` |
| Chat page (`features/chat`) | the thread on screen, the turn in flight | open, load, send, stream, navigate | `ChatPage` |
| Corpus page (`features/corpus`) and source service | selections, documents and chunks on screen, a poll | select, fetch, load more, delete, sync and poll | `CorpusPage` |
| MCP server | none | search, read a document, list sources | its search, as a caller of `Retrieval` |
| Ratings (the chat page's buttons, `analytics/views.py`) | one `Feedback` row per answer; what the buttons show | rate, note, save, revert, reload | `Feedback` |
| Figures of the status panel and the dashboard (`core/status.py`, `analytics/metrics.py`) | none | a few counts, one after the other | `Dashboard` |
| Accounts, providers, deployment | | | see below |

How they interact: a page posts to `sync` or `cancel_sync`; `sync` puts a
message in the broker; a Celery worker takes it, takes the source's lock in
the Redis cache, and runs `sync_source_with_tracking`, which writes
`Source.status` and a `SyncRun` around `sync_source`, which reads files
through a connector, writes `Document` rows and has `process_document` replace
a document's chunks; at the end, outside the lock, the worker queues a
backfill, which gives chunks their embeddings; the chat turn reads chunks
through the retrievers and writes citations that point at them; pages poll
the status; a PATCH of a source saves its whole row, and its deletion takes
documents, chunks and citations along; ratings and panels read and write beside
all of this. Nothing but the cache keys and the database's constraints keeps any
two of these apart.

What is hard about it:

- *Several processes.* Workers, shells and requests run at once. The lock is a
  key with a timeout and no owner; a cancel request is a flag with a timeout.
- *Autocommit.* `ATOMIC_REQUESTS` is off; every save is a transaction of its
  own, except `process_document` and the two saves of an answer. A raise or a
  kill between two of them leaves what is committed.
- *Moving files.* The connector lists lazily while users write; a run compares
  what it sees with rows it read at its start.
- *Stale reads over slow calls.* A backfill saves vectors for chunks it read
  before a network call; a chat turn cites chunks it read before an LLM call; a
  PATCH saves the status it read before its validation.
- *Retries.* Failed syncs and unavailable providers are retried by publishing
  the task again; messages are acknowledged before they are processed, so a
  killed worker loses its task.
- *Callbacks.* The pages interleave navigation, loads, streams and polls.

### What makes each component correct

- Sync control: one sync of a source at a time; a cancel request stops the
  sync it was meant for and no other; the status and the newest `SyncRun`
  agree and tell the truth; a crash does not block the source for ever.
- Reconciliation: after an undisturbed run the live rows are the files;
  between documents the chunks are those the rows call for; duplicates form no
  cycle; nothing present is deleted; an unchanged folder costs no write.
- Backfill: every chunk gets the embedding of its own text, once, or is
  somebody's business until it does.
- Parser and chunker: every line is in one chunk, under its own heading; a
  chunk is not larger or smaller than it has to be.
- Chat turn: an answer cites only chunks that were in its context, where they
  were; a stored answer is one the caller got, whole; an evaluation leaves
  nothing behind; every turn ends.
- Retrieval: what is switched off is not found; fusion respects both rankings,
  a failing reranker keeps the fusion's; a date finds its chunks and leaves
  room for others.
- Rate limit: at most the limit for each time the window was opened.
- Pages: what is on screen of an answer is what has arrived; the panes belong
  to the selection; a page does not get stuck; a rating on screen is the one
  that is stored.
- Figures: parts add up to their whole, and a citation is forgotten with its chunk
  and in no other way.

## Modules

Each variable and action carries the source's name or says which line it is;
a definition whose comment begins with *Fault* is a plausible bug used as a
mutant, and no specification refers to it. `Processes` declares the workers and
shells that `SyncControl` and `Reconcile` are both about, so that `SourceSync` and
its proofs can extend the two. Where modules meet in one state space their
specifications have names of their own (`ControlSpec`, `SyncSpec`, `BackfillSpec`,
`SearchSpec`, `ChatPageSpec`, `CorpusSpec`, `FeedbackSpec`, `DashboardSpec`).

**SyncControl** models one source. `lock` and `cancel` are the cache keys;
`status`, `runs` the tables; `backlog[n]` counts broker messages that carry `n`
retries; `pc`, `tries`, `run`, `outcome` are what a process has in hand. Its
steps are those of `sync_source_task`, `Command.handle` and
`sync_source_with_tracking` in program order: take the lock or skip, clear the
cancel flag, save SYNCING, create the run, work, save the run, clear the flag if
cancelled, save READY or ERROR, release, then retry or queue a backfill.
`ReadStatus` and `RaiseFlag` are the two halves of `cancel_sync`, `ReadRow` and
`WriteRow` those of a PATCH: `get_object` and, after validation,
`instance.save()`, which without `update_fields` writes every column as it was
read. `patch[q]` is the status a PATCH has in hand. `Crash`, `ExpireLock` and
`ExpireCancel` are the environment. `stale`, `meant`, `aimed` and `armed` are
history: whether the status is one that a PATCH has written back, and which
syncs a cancel request was about.

**Reconcile** models `sync_source` for one source. A content stands for a
file's bytes, its hash and its chunks; `docs[p]` is the row with external_id
`p`, `chunks[p]` the content its chunks were cut from. A run's `snap`, `todo`,
`seen`, `cur`, `got`, `canon` and `stats` are its local variables, `step` the
commit it is about to make. Every commit is an action; `Edit` changes a file
at any moment; `Abandon` ends a run anywhere. `Exclusive`, `MayFail`,
`MayTruncate` and `Sorted` say what callers and connectors do. History: `quiet`
(runs since whose start no file changed), `calm` (such a run has returned since
the last change) and `torn` (documents a failed run left between two commits).
`clock` stands for `created_at`, which two rows may share.

**SourceSync** extends the two and composes them: sync_source runs
while its process is `working`, and the two take a step together where it
starts, meets the cancel flag, returns, raises or is killed. It takes
Reconcile with `Exclusive = FALSE`: that runs are serial is not assumed but
checked and proved, as a refinement of Reconcile with `Exclusive = TRUE`.

**EmbeddingBackfill** models the chunks of several documents, each of a source
that syncs on its own, and the backfill task. A row's embedding is the text it
was computed from; `batch[w]` holds the copies a run has in memory. `Replace`
is `process_document` (or, with no new chunks, the purge); `FinishSync` queues a
backfill and `AbandonSync` does not. Chunks are numbered in order of creation:
their keys are random and nothing compares them.

**Chunking** has `MarkdownParser.parse` and `HeadingChunker.chunk` as operators,
their loops as recursive functions of the number of lines or spans read, and the
document as a small state machine: somebody writes lines and pages, `Process`
replaces the rows. Lines are of six kinds; a heading is identified by the line
it is on, tokens are a weight per kind. The properties are a reference
definition that knows nothing of sections, slots or merging.

**Retrieval** models one search. `lexical`, `dense`, `fused` and `inner` are the
local variables of the retrievers, `strategy` which of them are wrapped in
which; each query is an action, and `Switch` and `Becomes` let users, syncs and
backfills act between two of them. `Switch` is a PATCH, of which the rest of the
row is `SyncControl`'s; it may also switch back what another has switched. What
an index finds is any ranking of what is visible (the vector index is
approximate, so no more can be said of it). The reciprocal ranks are added
exactly, as shares of a `Unit` that every denominator in use divides. `onOnce`
and `steady` are history: what could have been found at some moment, or at all.

**ChatTurn** models turns from request to answer. `question[t]` and `answer[t]`
are the two `Message` rows of turn `t`, `cites` the `Citation` rows, `live` the
`Chunk` rows, `hits` the rate limit's key; `shown[t]` is the context given to
the model, `steps[t]` the loop counter of the agentic turn. `kind` tells a
user's turn from the evaluation's direct and agentic ones. `Request`,
`Increment` and `StartWindow` are the rate limit: the cache backend's `incr`
asks whether the key exists (EXISTS) and then increments it (INCR), two
commands, and raises if it does not, upon which the view sets it. A key that
expires between the two commands is made anew by INCR, and without an expiry
(`lasting`). `NoQuestion` is the 400 of a body without a question; `Reply` is
the validation of the model's claims and the transaction that saves message and
citations, which the database refuses if a chunk or the conversation is gone or
a chunk is named twice. `BeginReplace` and `EndReplace` are the transaction of
`process_document` as citations see it: what its cascade has collected, and the
foreign key checked at its commit. A search is one step here.

**ChatPage** models the chat page of one browser. `send[s]` and `load[l]` are
the calls of `send()` and `loadConversation()` in progress, each resumed by a
later action; `messages`, `conversationId`, `inFlight`, `sending` and `loading`
are the page's fields. `stored` is what the server has committed, with the order
that `ChatTurn` shows: the question first, the answer before its first part is
streamed. A stream may fail (`AskFails`) or end without its last event
(`BreakOff`), which leaves the loop of `send()` as a whole answer does: the list
is refreshed and the placeholder stays as it is. **CorpusPage** does the same
for the corpus page: `fetch[d]` are calls of `loadDocuments`, `more` the one
request for chunks, `sync` where `syncSelected` is; `status`, `runs` and
`queued` are the worker's side. `disturbed` records that the page took a
selection while the previous one was loading.

**Feedback** is the rating of one answer, at both ends. `shown` is what the
buttons and the note of the message on screen say, `feedback` the row; `post[i]`
is the `i`-th call of `giveFeedback` in progress, with what it says and what it
takes back to on failure. A request may be handled late, fail, or be handled and
its answer lost; the thread may be left and read again meanwhile. `crossed` is
history: which of the four things that make buttons and row differ has happened
since the last reload that found no request out. **Dashboard** is one panel:
each statement of `get_system_status` or `get_dashboard_metrics` is an action
that writes its part of `figure`, and between two of them answers are given and
rated, conversations and sources deleted, documents created, deleted, re-chunked
and embedded. `cited` and `disturbed` are history: what was ever cited, and
whether anybody wrote since the panel's first statement.

The `MC...` modules add symmetry sets for TLC, or put modules that share no
state into one state space (`MCKnowledge` four, `MCFrontend` and `MCTasks` two),
where each behaviour is about one of them: the first step decides. `MCReconcile`
also has the story of a rename (`RenameSpec`): one file that changes its path
while no sync is in progress. The `...Proofs` modules hold the proofs.

## What is checked

| Run | Bounds | Shows |
|---|---|---|
| `tasks` | 2 workers, 1 shell, 1 page, 1 PATCH, 1 retry, 2 requests, 1 crash; or 2 workers, 2 documents, 2 texts, 2 syncs, 3 chunks, batches of 1, 1 retry | mutual exclusion; status and runs agree; cancels are neither stale nor lost; the lock recovers; the status settles; embeddings match; versions do not mix; nothing is forgotten; retries pay once; every chunk is embedded |
| `reconcile` | 1 run at a time, 3 paths, 2 contents, 2 file changes, any failure | rows mirror files; chunks follow rows; duplicates form no cycle; true stats; idempotence; nothing present is deleted |
| `source_sync` | 2 workers, 1 page, 1 PATCH, 2 paths, 2 contents, 1 file change, 1 crash, any failure | types of `SyncControl` and `Reconcile`; the composition refines serial reconciliation; READY tells the truth; documents change only while the run says running and, but for a PATCH, the source SYNCING |
| `chat_turn` | limit 1, 2 turns of any kind, 2 conversations, 2 chunks, searches of 1, 2 agentic rounds | citations are sound; answers are whole or absent; evaluations leave nothing; the rate limit holds; turns end |
| `knowledge` | documents of 4 lines on 2 pages; searches over 3 chunks of 2 sources, top 2, fetch 3, 1 date match; 3 clicks and a reload; 1 panel over 2 answers, 1 source, 1 document and 2 chunks | no line lost or miscited; sizes are right; off is off; fusion respects both rankings; dates share room; ratings on screen are those stored; figures add up and forget what lost its chunk and nothing else |
| `frontend` | 2 sends, 2 loads, 2 conversations, answers of 1 part; 2 sources, 2 documents, 2 pages of chunks, 2 fetches, 2 syncs each | answers are shown whole; the composer reopens; panes agree; a first sync is shown |
| `cancel_aim` | 1 worker, 1 page, 2 requests | violated: a cancel request hits a later sync |
| `patch_status` | 1 worker, 1 PATCH, 1 request | violated: a PATCH writes the status |
| `rename` | 1 file, 2 paths, 1 rename between syncs, no failure | violated: a renamed file is indexed nowhere |
| `torn_document` | 2 paths, 1 file change, failures | violated: stale chunks survive a later successful run |
| `truncated_listing` | 2 paths, partial listings | violated: files that are there are deleted |
| `chat_page_twice` | as `frontend` | violated: a turn is on screen twice |

Why the bounds are enough to be interesting: three paths give a canonical
document, a duplicate of it and a third that takes either's place; two file
changes move a file; two requests make a sync and a later one that an old
cancel may hit, or a holder and a contender; one crash leaves a lock behind;
three chunks and two syncs let a batch in flight meet the replacement of its
chunks and a second backfill. Two turns make one that misses the rate limit's
key together with another, an evaluation beside a user, or two answers that cite
one chunk while it is replaced; two agentic rounds make a second search that
meets what the first found. Four lines hold a heading, a fenced block or two
paragraphs, and one chunk too many; three chunks in rankings of up to three make
every tie and absence fusion can meet. Two sends and two loads overlap in every
order, and a third of either would only repeat one. Three clicks make one that
fails between two that are saved, and one reload a click on each side of it. Two
answers and two chunks of one document let an answer cite both, the other none,
and a chunk replace the one that is cited. In `knowledge` a search for all
sources by name is left out, being the search for none in particular, and a
panel on display is not read again. Every property has a mutant of the mapped
code that breaks it within the same bounds.

The bounds `MaxRequests`, `MaxCrashes`, `MaxEdits`, `MaxSyncs`, `MaxChunks`,
`MaxTurns`, `MaxConversations`, `MaxSends`, `MaxLoads`, `MaxCalls`, `MaxPosts`,
`MaxLines` and `MaxPages` only stop counters. Four more bounds, in the `MC...`
modules, keep apart what would only multiply: in `tasks` a PATCH comes in
behaviours without a crash and with one request, which may be retried
(`PatchApart`), in `source_sync` in those in which nothing crashes and no file
changes (`PatchAlone`), and in `frontend` one stream breaks off, with one
conversation opened at most (`BreakOrReload`). In `chat_turn` what happens after
the last turn is not followed (`TurnsLeft`). The proofs need none of the four.
`MaxIterations` is the code's own (5), smaller in the runs; so are `TopK`,
`FetchK`, `PageSize` and the token limits. `MaxRetries` (3) and
`BackfillRetries` (30) are the code's own too. Deadlock checking is off where users
are free to stop asking for syncs or questions, and on in the `reconcile` runs.

### Fairness

Processes that are alive keep running (`WF` on the steps of each process:
sync_source works on a finite listing and its network calls have timeouts), the
lock's key expires, the broker delivers. A chat turn under way goes on (`WF` on
its steps together: its calls have timeouts, so each answers or raises), and so
does a call of the chat page (`WF` on the steps of each send and each load,
browser and server together: a request is answered or fails). That an agentic
turn ends follows from the loop's bound, not from the model's choice: `TurnEnds`
holds although the model is free to search for ever. No user is obliged to do
anything, the provider is not obliged to answer, and nothing obliges a crash.
`StatusSettles` claims nothing after a crash, because nothing in the code resets
the status then, nor once a PATCH has written an older status back, because only the
next sync does. `EveryChunkIsEmbedded` claims nothing for chunks whose sync or
backfill was cut short (`lost`), because then nothing is queued.

### Findings

1. `cancel_aim`: `cancel_sync` checks the status and raises the flag in two
   steps; the comment above it says the check prevents what the run shows.
2. `patch_status`: the serializer says that the status is read-only, but a PATCH
   saves the row it read. One that read SYNCING and saves after the sync's end
   leaves the source SYNCING for ever, until somebody syncs it again, without
   any crash; one that read READY makes it say so while documents change.
3. `rename`: a file is synced, renamed, synced again. It is then a duplicate of the
   row its own sync deletes, so the content is in no live document's chunks
   until it changes. Deleting the canonical one of two identical files, or editing
   it before its duplicate is visited, does the same (`EveryFileIsIndexed` fails in
   those behaviours of `Reconcile` too; the run does not show them).
4. `torn_document`: the row's new hash commits before its chunks; after an
   exception between the two the retry sees nothing to do.
5. `truncated_listing`: a truncated GitHub tree is reconciled as if complete.
6. `chat_page_twice`: coming back to a conversation whose question is stored
   already shows it twice; the comment says the server cannot have it yet.

Smaller disagreements between code and comments, met while modelling and not
given a run of their own:

- `core/ratelimit.py:20-25` concedes one extra request at the start of a window;
  each request that saw no key resets the count, so it is up to `Limit` for each
  (`WindowBound` states what does hold).
- `core/ratelimit.py:20` calls `cache.incr` "a single Redis INCR". The backend
  asks EXISTS first; a key that expires in between is made anew without an
  expiry, and from the limit on refuses this user's questions until somebody
  deletes it (`lasting` in `ChatTurn`).
- `chat.service.ts:51`: a stream that ends without a `done` event is not told
  from one that has had it. The placeholder stays pending after the request is
  over if nothing had arrived: an upstream that closes, or an expired session,
  whose redirect ends at the page nginx falls back to, with a 200 (`BreakOff` in
  `ChatPage`).
- `markdown.py:60-63`: in a document that begins below level 1, a heading does
  not replace its sibling: the second `##` is filed under the first.
- `markdown.py:50`: a fence opened by ``` is closed by `~~~`.
- `heading.py:69-71`: the slots of a section that begins with blank lines leave
  these out; `LinesKept` claims nothing for blank lines.
- `sources.service.ts:106-112`: `pollUntilDone` returns at once for a source
  that was ready before the sync was asked for; `FirstSyncIsShown` is about
  first syncs.
- `chat.page.ts:163-165`: after a failed load the id is not null but that of the
  conversation left, which the next question goes to.
- Of two loads of the chat page, and of two fetches of the corpus page, the one
  that answers last wins, whichever was asked for last; a question asked in a
  new chat whose creation is overtaken by navigation appears under another
  conversation's thread; Enter pressed twice in a new chat creates two
  conversations. `ChatPage` and `CorpusPage` have all of these behaviours.
- `chat.page.ts:172-182` says the rating reverts only if the click failed. When
  an earlier click fails after a later one was saved, the later one is taken
  back on screen while the server keeps it (`overtaken` in `Feedback`).
- `core/status.py:43-46` calls an answer ungrounded that "cited nothing at all",
  and `analytics/metrics.py:106-109` speaks of a document whose chunk "has ever
  been cited". Both count the citations that are left, and re-chunking a
  document or deleting its source takes the chunks' citations along
  (`ingestion/pipeline.py`, `rag/models.py:57`; of the source
  `corpus.page.ts:168-178` warns): an answer of old becomes ungrounded, a
  document never retrieved. `FiguresRemember` says for which ones.
- Messages, documents and sources are read from the first page of 25 only.

## What is proved

For every value of the constants, by TLAPS. Each theorem rests on an invariant
that says more than the property and is kept by every step; it is described here.

- `ReconcileProofs`: the type invariant and `DuplicateIsLater` for overlapping
  runs; `SnapshotFresh`, `ChunksFollowRows` for serial ones (`Exclusive`);
  `DeletesOnlyMissing` for complete listings (`~MayTruncate`); and
  `MirrorsDisk`, `ZeroWrites` and `StatsAreTrue` for both. The chain: what a
  serial run read at its start is the table, except for what it has itself
  visited (`SnapshotFresh`); so each document it has passed is live with its
  file's hash, and what it has not is as it was; so when everything is yielded
  the missing are exactly the rows without a file; so at the end the live rows
  are the files, and the next run's every comparison comes out equal. The stats
  need one thing more (`StatsInv`): at any moment of an undisturbed run each
  count is the cardinality of the set of files it has so far found new, changed
  or gone, the one in hand included as soon as its row is saved.
- `SourceSyncProofs`, of `SyncControl` alone: the type invariant;
  `NoStaleCancel`; and, assuming `SyncFitsTimeout` (no sync outlives the 30
  minutes of the lock), `MutualExclusion`, `CancelNotLost` and
  `StatusMatchesLastRun` (the newest row is that of the sync in progress; the
  status agrees with it unless `stale`). The inductive invariant says who holds
  the lock (whoever is inside, and nobody else is); a process past its
  `clear_cancel` is in `armed` whenever the flag is up; and the row a process
  created stays the newest while it is inside. For syncs that do outlive the
  lock, and overlap: an outcome once recorded is never overwritten
  (`OutcomesStay`), and unless a process is killed a row that says running is
  one whose sync is still going to save its outcome (`RunningRowsAreOwned`), as
  every process inside has a row of its own (`RowsInv`).
- `SourceSyncProofs`, of the whole, assuming `SyncFitsTimeout` where it says so.
  A process busy with documents is `working`, hence inside the lock, hence alone
  (`LockInv`): so a run begins only when all others are idle, which is all that
  Reconcile with `Exclusive = TRUE` asks; the other steps are the same in both
  or do not touch the documents. That is `RunsAreSerial`, and it carries what is
  proved of each part over to the whole: the types (`SyncTypeOK`, with no
  assumption), the lock and the statuses (`SyncKeepsControl`), chunks and
  snapshots (`SyncKeepsRows`), and with complete listings mirroring, stats and
  idempotence (`SyncKeepsPromises`). Two properties are of the whole only.
  `WritesAreTracked`: who writes is `working`, and `WholeInv` says what status
  and `SyncRun` are then: the row says running whatever a PATCH does, the status
  SYNCING unless one has written an older one back. `ReadyMeansMirrored`:
  `ReadyInv` follows "no file changed since the newest run listed them" from a
  run in progress, which is then undisturbed, through one that has returned and
  is being recorded, to READY and SUCCESS; at each stage the rows mirror the
  files.
- `EmbeddingBackfillProofs`: the type invariant, `EmbeddingsMatch`,
  `OneVersion`, `NothingForgotten` and `RetriesEmbedOnce`, with no assumption.
  The invariant: keys are fresh, and the text a run remembers for a key is that
  of the row, if there is one still. For the last (`OnceInv`): as long as
  backfills have not overlapped, one process at most is busy, a chunk that is
  paid for and has no vector yet is in the batch it is about to save, and the
  batch it is about to send holds none that is paid for.
- `ChatTurnProofs`: the type invariant, `CitationsSound`, `AnsweredOrNot`,
  `EvaluationLeavesNothing` and `WindowBound`, with no assumption but the types
  of the constants. Three inductive invariants: each time the key was set to 1,
  or made anew by INCR, lets at most `Limit` requests through, and what the
  counter would still admit is left over from those (`CountInv`); what a turn's
  stage says of its rows and of its conversation (`TurnsInv`); and a context
  never names a chunk twice, every citation is of it and of a chunk not yet
  deleted (`CiteInv`), which a re-sync keeps because it is refused if a citation
  has come since its cascade.
- `RetrievalProofs`: `SwitchedOffStaysOut`, `FusionRespectsBoth` and
  `DatesShareRoom`, for lists of any length. `SearchInv` says of every list in
  hand that its chunks are each of a source that was on at some moment and that
  the caller asked for, none twice, and no more than were wanted. That fusion
  keeps the order its rankings agree on is a lemma about shares (a better rank
  in one list, and no worse in the other, is a larger sum, as every denominator
  in use divides `Unit`) and one about sorted lists, which are described by what
  they are and not by an algorithm: what comes before an element that is taken
  is taken too.
- `FrontendProofs`: `StreamShownWhole`, for any number of conversations,
  questions, visits and parts, and `PanesAgree` and `FirstSyncIsShown`, for any
  sources, pages and calls. `StreamInv`: the copy of the turn in flight is of a
  turn that is still being asked, with all parts that have arrived; each message
  on screen is final and whole, or has all parts that have arrived of a turn
  that is being asked, or of one that failed or broke off midway. `CorpusInv`,
  while no selection met a fetch in progress: the chunks are the first pages of
  the selected document in order, and the one asked for is the next; every fetch
  is of the selected source; and what a followed first sync has promised is true
  of the server and of every answer on its way.
- `AnalyticsProofs`: `RatingsSettle`, for any number of clicks and reloads, and
  `FiguresTrue`, for any answers, documents, chunks and sources. `RatingInv`,
  while nothing has come in the way: the page shows the last click that may
  still be saved, or the row if there is none; and each click in progress takes
  back to the click before it, or to the row if it is the first. `FiguresInv`:
  as long as nobody has written, every figure read so far is still the
  cardinality it was read as; and the citations that are left are at any moment
  exactly those ever made whose answer and whose chunk are both still there.
- `ChunkingProofs`: `LinesKept` and `SizesRight`, for documents of any length
  and any weights and limits of tokens that are natural numbers. Induction over
  the number of lines read is taken from the well-foundedness of < on the
  naturals (`SetInduction`), and a loop shown to exist and so to obey its
  equations (`LoopExists`). What each loop keeps: the parser's sections
  partition the lines before the one it is at, and its stack is the headings
  above that line (`ParseInv`); the slots of a section are its lines of text, in
  order (`SlotInv`); packing and merging give pieces that each run from the
  start of one of those given to the end of that or a later one, with none left
  out (`PackInv`, `MergeInv`). That the pieces of the sections, and the rows of
  the pages, are laid end to end is one lemma on concatenation (`FlattenRight`).

Only model-checked:

- the liveness properties (`LockRecovers`, `StatusSettles`, `EveryChunkIsEmbedded`,
  `TurnEnds`, `ComposerReopens`), which TLAPS cannot do under fairness.

Of a sync that outlives the lock, `NoStaleCancel`, `OutcomesStay`,
`RunningRowsAreOwned`, the types and `DuplicateIsLater` are proved; the other
theorems on the sync assume there is none.

## What is abstracted or left out

- Texts, titles, paths and versions are not modelled beyond what the sync
  compares; hashes are assumed not to collide. For PDFs, the save of
  `original_file` is folded into the step that chunks the document.
- *PATCH of a source.* Of the columns that it writes back as it read them, the
  status (`SyncControl`) and `enabled` (`Retrieval`); `last_synced_at` and
  `last_error` go the way of the status, and nothing but a page reads them.
  PATCH of other rows changes nothing that is modelled.
- A database error in the saves around `sync_source`, and a source deleted in
  the middle of its sync, are not modelled yet; deleted at rest it is
  (`DeleteOrigin` in `Dashboard`, `Delete` in `CorpusPage`).
- *Chat turn.* The texts, costs and latencies of messages, and the order of a
  conversation's messages, which only the prompt of the rewrite reads. One
  user's rate-limit key; the limits the framework puts on its own endpoints. A
  search reads the chunks in one step; that its queries see different moments is
  `Retrieval`'s subject, and costs `ChatTurn` nothing, as a chunk found and gone
  before the reply is there anyway.
- *Retrieval.* The `updated_after` filter, workspaces, scores other than the
  fusion's. A raise of the embedding provider is a raise of the whole search
  (`Raise` in `ChatTurn`).
- *Chunking.* Heading levels below 2, and headings' texts: what the parser does
  with a level is a prefix of the stack. Tokens are added up by line.
- *Chat page.* Only navigation between the chat's own routes, taken as one step;
  other pages destroy the component. Citations opened and scrolling.
- *Ratings.* One answer's; that the first rating of an answer fresh from its
  stream carries no comment at all, which changes nothing unless a later click
  is saved before it, and that is `reordered`.
- *Figures.* Queries per day, latencies, cost, the number of sources and the
  names of providers. The two panels are read in different behaviours.
- *Corpus page.* The switch and Cancel buttons (`Retrieval` and `SyncControl`
  have their server's side), error texts, which chunk is expanded. Ready and
  error are one status, "settled". A page that has gone astray (`disturbed`) is
  not followed further by the run.

## Not modelled

- HTTP and file access of the connectors, front matter, the SDKs of the models'
  providers, token counting, PDF conversion: I/O and libraries.
- The other two MCP tools, the status and analytics endpoints but for the
  figures above, accounts and workspaces: single queries with no protocol of
  their own.
- The scoring of evaluations and its report, migrations, deployment files and
  settings, which are read for the assumptions the models make.
- A source deleted in the middle of its sync: everything the run would write
  afterwards fails, and nothing of the source remains to be wrong.

## What is left

1. A source deleted during a sync, and a database error in the saves around
   `sync_source`, as actions of `SyncControl` and `Reconcile`; a lock that expires
   under its holder.
2. A proof that `CorpusPage`, once a selection has overtaken a fetch, is right
   again after a later selection that finds none in progress.
3. A larger instance of `ChatTurn` with searches of two chunks, and the retrievers'
   queries as the turn's own steps.
