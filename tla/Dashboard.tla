----------------------------- MODULE Dashboard -----------------------------
(***************************************************************************)
(* The figures of the status panel (core/status.py) and of the dashboard   *)
(* (analytics/metrics.py).  Each is read by a few statements, one after    *)
(* the other and outside a transaction, while questions are answered and   *)
(* rated, conversations and sources deleted, and documents synced and      *)
(* embedded.                                                               *)
(***************************************************************************)
EXTENDS Naturals, FiniteSets

CONSTANTS
  Turn,        \* a question and its answer, in a conversation of their own
  Document,
  Passage,     \* a Chunk
  DocumentOf,  \* DocumentOf[c]: the document that chunk c is of
  Origin,      \* a Source
  OriginOf     \* OriginOf[d]: the source that document d is of

ASSUME FiguresAssumption ==
  IsFiniteSet(Turn) /\ IsFiniteSet(Passage) /\ IsFiniteSet(Document)
  /\ DocumentOf \in [Passage -> Document] /\ OriginOf \in [Document -> Origin]

VARIABLES
  turn,      \* turn[t]: "new", "answered", or "deleted" with its conversation
  cites,     \* Citation: pairs of a turn and a chunk
  rating,    \* rating[t]: of the Feedback on the answer, or "none"
  chunk,     \* chunk[c]: "new", "plain", "embedded", "gone"
  live,      \* documents that are not deleted
  origins,   \* sources that have not been deleted
  at,        \* the statement that comes next
  figure,    \* what has been read
  \* History:
  cited,     \* every pair that was ever in cites
  disturbed  \* somebody wrote since the first statement

tables == <<turn, cites, rating, chunk, live, origins>>
dashboardVars == <<tables, at, figure, cited, disturbed>>

Answers == {t \in Turn : turn[t] = "answered"}
Indexed == {c \in Passage : chunk[c] \in {"plain", "embedded"}}

DashboardInit ==
  /\ turn = [t \in Turn |-> "new"] /\ cites = {} /\ rating = [t \in Turn |-> "none"]
  /\ chunk = [c \in Passage |-> "new"] /\ live = {} /\ origins = Origin
  /\ at = "idle"
  /\ figure = [chunks |-> 0, embedded |-> 0, answers |-> 0, citations |-> 0,
               ungrounded |-> 0, rated |-> 0, up |-> 0, documents |-> 0, never |-> 0]
  /\ cited = {} /\ disturbed = FALSE

----------------------------------------------------------------------------
(* What is written meanwhile.                                              *)

Written == disturbed' = (at # "idle") /\ UNCHANGED <<at, figure>>

(* An answer, with its citations of chunks that are there.                 *)
Reply(t, C) ==
  /\ turn[t] = "new" /\ turn' = [turn EXCEPT ![t] = "answered"]
  /\ cites' = cites \cup {t} \X C /\ cited' = cited \cup {t} \X C
  /\ Written /\ UNCHANGED <<rating, chunk, live, origins>>

(* MessageFeedbackView: the same row again, whatever it said.              *)
SaveRating(t, r) ==
  /\ turn[t] = "answered" /\ rating' = [rating EXCEPT ![t] = r]
  /\ Written /\ UNCHANGED <<turn, cites, chunk, live, origins, cited>>

(* Messages, citations and feedback go with their conversation.            *)
DeleteConversation(t) ==
  /\ turn[t] = "answered" /\ turn' = [turn EXCEPT ![t] = "deleted"]
  /\ cites' = {p \in cites : p[1] # t} /\ rating' = [rating EXCEPT ![t] = "none"]
  /\ Written /\ UNCHANGED <<chunk, live, origins, cited>>

(* Chunks are deleted, and their citations with them.                      *)
Purge(D) ==
  cites' = {p \in cites : DocumentOf[p[2]] \notin D}

(* A sync creates a document or saves one that has changed, and replaces   *)
(* its chunks; it marks one as deleted, and purges its chunks.             *)
Replace(d, C) ==
  /\ OriginOf[d] \in origins
  /\ \A c \in C : chunk[c] = "new" /\ DocumentOf[c] = d
  /\ chunk' = [c \in Passage |-> IF c \in C THEN "plain"
                               ELSE IF c \in Indexed /\ DocumentOf[c] = d THEN "gone"
                               ELSE chunk[c]]
  /\ Purge({d})
  /\ Written /\ UNCHANGED <<turn, rating, live, origins, cited>>

Create(d) ==
  /\ OriginOf[d] \in origins /\ d \notin live /\ live' = live \cup {d}
  /\ Written /\ UNCHANGED <<turn, cites, rating, chunk, origins, cited>>

SoftDelete(d) ==
  /\ d \in live /\ live' = live \ {d}
  /\ Written /\ UNCHANGED <<turn, cites, rating, chunk, origins, cited>>

(* SourceViewSet's DELETE: the documents go with their source, deleted     *)
(* ones too, the chunks with their documents, the citations with the       *)
(* chunks.                                                                 *)
DocumentsOfOrigin(s) == {d \in Document : OriginOf[d] = s}

DeleteOrigin(s) ==
  /\ s \in origins /\ origins' = origins \ {s}
  /\ live' = live \ DocumentsOfOrigin(s)
  /\ chunk' = [c \in Passage |->
                 IF c \in Indexed /\ OriginOf[DocumentOf[c]] = s THEN "gone" ELSE chunk[c]]
  /\ Purge(DocumentsOfOrigin(s))
  /\ Written /\ UNCHANGED <<turn, rating, cited>>

(* The backfill saves an embedding.                                        *)
Embed(c) ==
  /\ chunk[c] = "plain" /\ chunk' = [chunk EXCEPT ![c] = "embedded"]
  /\ Written /\ UNCHANGED <<turn, cites, rating, live, origins, cited>>

----------------------------------------------------------------------------
(* The reading.                                                            *)

Read(from, to, figures) ==
  /\ at = from /\ at' = to
  /\ figure' = figures
  /\ UNCHANGED <<tables, cited, disturbed>>

(* get_system_status: one aggregate over the chunks, one over the answers, *)
(* a count of all citations, of answers without one, and of documents.     *)
Embedded == {c \in Indexed : chunk[c] = "embedded"}

ReadChunks ==
  Read("idle", "answers",
       [figure EXCEPT !.chunks = Cardinality(Indexed), !.embedded = Cardinality(Embedded)])

ReadAnswers ==
  Read("answers", "citations", [figure EXCEPT !.answers = Cardinality(Answers)])

ReadCitations ==
  Read("citations", "ungrounded", [figure EXCEPT !.citations = Cardinality(cites)])

(* Fault: the questions count, which cite nothing.                         *)
UncitedMessages == {t \in Turn : turn[t] # "deleted" /\ \A p \in cites : p[1] # t}

Ungrounded == {t \in Answers : \A p \in cites : p[1] # t}

ReadUngrounded ==
  Read("ungrounded", "documents", [figure EXCEPT !.ungrounded = Cardinality(Ungrounded)])

ReadDocuments ==
  Read("documents", "status", [figure EXCEPT !.documents = Cardinality(live)])

(* get_dashboard_metrics: all feedback, then the positive, documents, and  *)
(* those without a citation.                                               *)
Rated(R) == {t \in Answers : rating[t] \in R}

ReadFeedback ==
  Read("idle", "up", [figure EXCEPT !.rated = Cardinality(Rated({"up", "down"}))])

(* _positive_feedback_percent asks no further when there is none.          *)
ReadPositive ==
  Read("up", "live",
       [figure EXCEPT !.up = IF figure.rated = 0 THEN 0 ELSE Cardinality(Rated({"up"}))])

CountDocuments ==
  Read("live", "never", [figure EXCEPT !.documents = Cardinality(live)])

NeverRetrieved == {d \in live : \A p \in cites : DocumentOf[p[2]] # d}

ReadNever ==
  Read("never", "dashboard", [figure EXCEPT !.never = Cardinality(NeverRetrieved)])

DashboardNext ==
  \/ ReadChunks \/ ReadAnswers \/ ReadCitations \/ ReadUngrounded \/ ReadDocuments
  \/ ReadFeedback \/ ReadPositive \/ CountDocuments \/ ReadNever
  \/ \E t \in Turn :
       \/ \E C \in SUBSET Indexed : Reply(t, C)
       \/ \E r \in {"up", "down"} : SaveRating(t, r)
       \/ DeleteConversation(t)
  \/ \E d \in Document : Create(d) \/ SoftDelete(d) \/ \E C \in SUBSET Passage : Replace(d, C)
  \/ \E s \in Origin : DeleteOrigin(s)
  \/ \E c \in Passage : Embed(c)

DashboardSpec == DashboardInit /\ [][DashboardNext]_dashboardVars

----------------------------------------------------------------------------
(* What must hold.                                                         *)

(* However busy the server is, there are no more embedded chunks than      *)
(* chunks; and when nothing was written between the statements, no share   *)
(* exceeds its whole, every answer that is not ungrounded accounts for a   *)
(* citation, and no answer is rated twice ("someone flip-flopping once     *)
(* would silently double-count", analytics/models.py).                     *)
FiguresAddUp ==
  /\ figure.embedded <= figure.chunks
  /\ at = "status" /\ ~disturbed =>
       /\ figure.ungrounded <= figure.answers
       /\ figure.answers <= figure.ungrounded + figure.citations
  /\ at = "dashboard" /\ ~disturbed =>
       /\ figure.up <= figure.rated /\ figure.rated <= Cardinality(Answers)
       /\ figure.never <= figure.documents

(* A citation is forgotten with its chunk and in no other way: an answer   *)
(* counts as ungrounded exactly if nothing it cited when it was given is   *)
(* indexed any more, and a document as never retrieved exactly if none of  *)
(* the answers that are left cited one of the chunks it has now.  What     *)
(* takes chunks away is a sync that replaces or purges them, and the       *)
(* deletion of their source; deleting a document does not by itself.       *)
Remembered == {p \in cited : p[1] \in Answers /\ p[2] \in Indexed}

FiguresRemember ==
  ~disturbed =>
    /\ at = "status" =>
         figure.ungrounded = Cardinality({t \in Answers : \A p \in Remembered : p[1] # t})
    /\ at = "dashboard" =>
         figure.never
           = Cardinality({d \in live : \A p \in Remembered : DocumentOf[p[2]] # d})

(* What a panel shows is consistent, and forgets nothing by itself.        *)
FiguresTrue == FiguresAddUp /\ FiguresRemember

=============================================================================
