------------------------------ MODULE ChatTurn ------------------------------
(***************************************************************************)
(* Answering questions (rag/chat).  A turn saves the question, has it      *)
(* rewritten, retrieves chunks, has the model answer from them, and saves  *)
(* the answer with its citations in one transaction; the agentic turn lets *)
(* the model search several times first.  Turns come from the streaming    *)
(* endpoint, which is rate limited, from the ask command and from the      *)
(* evaluation, which deletes its conversation behind it.  Meanwhile syncs  *)
(* replace chunks and users delete conversations.                          *)
(***************************************************************************)
EXTENDS Naturals, Sequences, FiniteSets

CONSTANTS
  Limit,             \* CHAT_RATE_LIMIT_PER_MINUTE
  TopK,              \* top_k of the searches
  MaxIterations,     \* _MAX_ITERATIONS of the agentic turn
  MaxTurns,          \* bounds: questions asked, conversations created and
  MaxConversations,  \* chunks created in one behaviour
  MaxChunks

ASSUME LimitAssumption == Limit \in Nat /\ TopK \in Nat /\ MaxIterations \in Nat
ASSUME ChatBounds ==
  MaxTurns \in Nat /\ MaxConversations \in Nat /\ MaxChunks \in Nat

(* Keys are random and nowhere compared, so rows are numbered in the order *)
(* of creation, and turns in the order they begin in.                      *)
Turn == 1..MaxTurns
Conversation == 1..MaxConversations
Chunk == 1..MaxChunks

VARIABLES
  \* Tables:
  live,      \* the Chunk rows
  used,      \* chunks created so far
  conv,      \* conv[c]: the Conversation row c, and whether it has a title
  question,  \* question[t]: the user's Message of turn t exists
  answer,    \* answer[t]: the assistant's Message of turn t exists
  cites,     \* the Citation rows
  hits,      \* the rate limit's key in the cache, 0 when it is missing
  lasting,   \* that key has no expiry
  \* What processes hold in memory:
  pc, kind,
  of,        \* of[t]: the conversation of turn t
  shown,     \* shown[t]: the chunks put before the model, in that order
  steps,     \* steps[t]: searches the model has asked for
  outcome,   \* outcome[t]: what the caller of turn t gets
  doomed,    \* chunks a process_document in progress is deleting
  swept,     \* the citations its cascade has found
  \* History, since the rate limit's key last expired:
  admitted,  \* requests let through
  starts     \* requests that made the key 1

tableVars == <<live, used, conv, question, answer, cites>>
limitVars == <<hits, lasting, admitted, starts>>
memory    == <<shown, steps>>
turnVars  == <<pc, kind, of, memory, outcome>>
syncVars  == <<doomed, swept>>
vars == <<tableVars, limitVars, turnVars, syncVars>>

CitationRow == [turn : Turn, rank : Nat, chunk : Chunk]

(* What the caller gets: an answer, status 429, 404 or 400, or 503 or 500. *)
Outcome == {"none", "answered", "refused", "failed", "killed"}

Exists(c) == conv[c] \in {"untitled", "titled"}

(* The next row and the next turn, in those orders.                        *)
Fresh(c) == conv[c] = "none" /\ \A b \in 1..c - 1 : conv[b] # "none"
Ready(t) == pc[t] = "ready" /\ \A u \in 1..t - 1 : pc[u] # "ready"

TypeOK ==
  /\ live \in SUBSET Chunk /\ used \in 0..MaxChunks
  /\ conv \in [Conversation -> {"none", "untitled", "titled", "deleted"}]
  /\ question \in [Turn -> BOOLEAN] /\ answer \in [Turn -> BOOLEAN]
  /\ cites \in SUBSET CitationRow
  /\ hits \in Nat /\ lasting \in BOOLEAN /\ admitted \in Nat /\ starts \in Nat
  /\ pc \in [Turn -> {"ready", "incrementing", "counting", "admitted", "rewriting",
                      "thinking", "closing", "done"}]
  /\ kind \in [Turn -> {"user", "direct", "agentic"}]
  /\ of \in [Turn -> Conversation \cup {0}]
  /\ shown \in [Turn -> Seq(Chunk)]
  /\ steps \in [Turn -> 0..MaxIterations]
  /\ outcome \in [Turn -> Outcome]
  /\ doomed \in SUBSET Chunk /\ swept \in SUBSET CitationRow

Init ==
  /\ live = {} /\ used = 0
  /\ conv = [c \in Conversation |-> "none"]
  /\ question = [t \in Turn |-> FALSE] /\ answer = [t \in Turn |-> FALSE]
  /\ cites = {}
  /\ hits = 0 /\ lasting = FALSE /\ admitted = 0 /\ starts = 0
  /\ pc = [t \in Turn |-> "ready"] /\ kind = [t \in Turn |-> "user"]
  /\ of = [t \in Turn |-> 0]
  /\ shown = [t \in Turn |-> <<>>]
  /\ steps = [t \in Turn |-> 0] /\ outcome = [t \in Turn |-> "none"]
  /\ doomed = {} /\ swept = {}

----------------------------------------------------------------------------
(* The conversation's own requests.                                        *)

CreateConversation(c) ==
  /\ Fresh(c)
  /\ conv' = [conv EXCEPT ![c] = "untitled"]
  /\ UNCHANGED <<live, used, question, answer, cites>>
  /\ UNCHANGED <<limitVars, turnVars, syncVars>>

(* The row, and by cascade its messages, their citations and feedback.     *)
Cascade(c) ==
  LET keep(t) == of[t] # c
  IN  /\ conv' = [conv EXCEPT ![c] = "deleted"]
      /\ question' = [t \in Turn |-> question[t] /\ keep(t)]
      /\ answer' = [t \in Turn |-> answer[t] /\ keep(t)]
      /\ cites' = {row \in cites : keep(row.turn)}
      /\ UNCHANGED <<live, used>>

DeleteConversation(c) ==
  /\ Exists(c)
  /\ Cascade(c)
  /\ UNCHANGED <<limitVars, turnVars, syncVars>>

----------------------------------------------------------------------------
(* How a turn begins and ends.                                             *)

Goto(t, where) == pc' = [pc EXCEPT ![t] = where]

(* ask() returned or raised, and its memory is gone; what was shown stays, *)
(* for the record, if an answer was made of it.                            *)
Forget(t, how) ==
  /\ outcome' = [outcome EXCEPT ![t] = how]
  /\ steps' = [steps EXCEPT ![t] = 0]
  /\ shown' = [shown EXCEPT ![t] = IF how = "answered" \/ answer[t] THEN @ ELSE <<>>]

(* Fault: the evaluation deletes its conversation only after an answer.    *)
EndWithoutFinally(t, how) ==
  /\ Forget(t, how)
  /\ Goto(t, IF kind[t] # "user" /\ how = "answered" THEN "closing" ELSE "done")

(* The caller goes on with that: the view streams the answer it has got in *)
(* full, or responds with the failure.                                     *)
End(t, how) ==
  /\ Forget(t, how)
  /\ Goto(t, IF kind[t] # "user" THEN "closing" ELSE "done")

(* Fault: one request too many is let through.                             *)
JudgeLate(t, count) ==
  IF count > Limit + 1 THEN End(t, "refused") /\ UNCHANGED admitted
  ELSE Goto(t, "admitted") /\ admitted' = admitted + 1 /\ UNCHANGED <<memory, outcome>>

(* The verdict on a request once its count is known.                       *)
Judge(t, count) ==
  IF count > Limit THEN End(t, "refused") /\ UNCHANGED admitted
  ELSE Goto(t, "admitted") /\ admitted' = admitted + 1 /\ UNCHANGED <<memory, outcome>>

(* POST to the chat endpoint: cache.incr asks whether there is the key, and*)
(* raises if not.                                                          *)
Request(t, c) ==
  /\ Ready(t) /\ conv[c] # "none"
  /\ of' = [of EXCEPT ![t] = c]
  /\ Goto(t, IF hits = 0 THEN "counting" ELSE "incrementing")
  /\ UNCHANGED <<tableVars, limitVars, kind, memory, outcome, syncVars>>

(* INCR.  A key that has expired since is made anew, without an expiry.    *)
Increment(t) ==
  /\ pc[t] = "incrementing"
  /\ hits' = hits + 1
  /\ IF hits = 0 THEN lasting' = TRUE /\ starts' = starts + 1
     ELSE UNCHANGED <<lasting, starts>>
  /\ Judge(t, hits + 1)
  /\ UNCHANGED <<tableVars, kind, of, syncVars>>

(* cache.set, whatever other requests have done to the key since.          *)
StartWindow(t) ==
  /\ pc[t] = "counting"
  /\ hits' = 1 /\ lasting' = FALSE /\ starts' = starts + 1
  /\ Judge(t, 1)
  /\ UNCHANGED <<tableVars, kind, of, syncVars>>

Expire ==
  /\ hits > 0 /\ ~lasting
  /\ hits' = 0 /\ admitted' = 0 /\ starts' = 0
  /\ UNCHANGED <<lasting, tableVars, turnVars, syncVars>>

(* The ask command, given a conversation.                                  *)
Ask(t, c) ==
  /\ Ready(t) /\ conv[c] # "none"
  /\ of' = [of EXCEPT ![t] = c]
  /\ Goto(t, "admitted")
  /\ UNCHANGED <<tableVars, limitVars, kind, memory, outcome, syncVars>>

(* The evaluation, of which one runs at a time, takes up a question of the *)
(* golden set.                                                             *)
Evaluate(t, c, strategy) ==
  /\ Ready(t) /\ Fresh(c)
  /\ \A u \in Turn : kind[u] # "user" => pc[u] = "done"
  /\ conv' = [conv EXCEPT ![c] = "untitled"]
  /\ of' = [of EXCEPT ![t] = c] /\ kind' = [kind EXCEPT ![t] = strategy]
  /\ Goto(t, "admitted")
  /\ UNCHANGED <<live, used, question, answer, cites, limitVars, memory>>
  /\ UNCHANGED <<outcome, syncVars>>

(* Its finally clause.                                                     *)
CloseEvaluation(t) ==
  /\ pc[t] = "closing"
  /\ Cascade(of[t]) /\ Goto(t, "done")
  /\ UNCHANGED <<limitVars, kind, of, memory, outcome, syncVars>>

(* The evaluation's process dies.                                          *)
Kill(t) ==
  /\ kind[t] # "user" /\ pc[t] # "done"
  /\ Forget(t, "killed") /\ Goto(t, "done")
  /\ UNCHANGED <<tableVars, limitVars, kind, of, syncVars>>

----------------------------------------------------------------------------
(* The turn itself: _ask and ask_agentic.                                  *)

(* The conversation is looked up, then title and question are saved, each  *)
(* on its own; the question stays whatever happens next.                   *)
SaveQuestion(t) ==
  /\ pc[t] = "admitted" /\ Exists(of[t])
  /\ conv' = [conv EXCEPT ![of[t]] = "titled"]
  /\ question' = [question EXCEPT ![t] = TRUE]
  /\ Goto(t, IF kind[t] = "agentic" THEN "thinking" ELSE "rewriting")
  /\ UNCHANGED <<live, used, answer, cites, limitVars, kind, of, memory>>
  /\ UNCHANGED <<outcome, syncVars>>

InContext(t) == {shown[t][i] : i \in DOMAIN shown[t]}

(* What a search may return: chunks, none twice (Retrieval).               *)
Rankings(chunks) ==
  {s \in UNION {[1..n -> chunks] : n \in 0..TopK} :
     \A i, j \in DOMAIN s : s[i] = s[j] => i = j}

(* A search.  Its results come after those of earlier searches of the      *)
(* turn, if they are not among these already.                              *)
Retrieve(t) ==
  \E results \in Rankings(live \ InContext(t)) :
    shown' = [shown EXCEPT ![t] = @ \o results]

(* rewrite_query has answered, and its answer is searched for.             *)
RewriteAndRetrieve(t) ==
  /\ pc[t] = "rewriting"
  /\ Retrieve(t) /\ Goto(t, "thinking")
  /\ UNCHANGED <<tableVars, limitVars, kind, of, steps, outcome, syncVars>>

(* Fault: the loop is left only when the model chooses to answer.          *)
SearchForever(t) ==
  /\ pc[t] = "thinking" /\ kind[t] = "agentic"
  /\ steps' = [steps EXCEPT ![t] = IF @ < MaxIterations THEN @ + 1 ELSE 0]
  /\ Retrieve(t)
  /\ UNCHANGED <<tableVars, limitVars, pc, kind, of, outcome, syncVars>>

(* Fault: off by one.                                                      *)
SearchOnceMore(t) ==
  /\ pc[t] = "thinking" /\ kind[t] = "agentic" /\ steps[t] <= MaxIterations
  /\ steps' = [steps EXCEPT ![t] = @ + 1]
  /\ Retrieve(t)
  /\ UNCHANGED <<tableVars, limitVars, pc, kind, of, outcome, syncVars>>

(* The model asks for a search, which it can no more in the last call.     *)
SearchAgain(t) ==
  /\ pc[t] = "thinking" /\ kind[t] = "agentic" /\ steps[t] < MaxIterations
  /\ steps' = [steps EXCEPT ![t] = @ + 1]
  /\ Retrieve(t)
  /\ UNCHANGED <<tableVars, limitVars, pc, kind, of, outcome, syncVars>>

(* Fault: the ranks are those of the order the model named the chunks in.  *)
RankedByMention(t, claimed) ==
  {[turn |-> t, rank |-> Cardinality({c \in claimed : c <= shown[t][i]}),
    chunk |-> shown[t][i]] : i \in {j \in DOMAIN shown[t] : shown[t][j] \in claimed}}

(* The citations made of the chunks the model names: those of the context, *)
(* each at its place there.                                                *)
Validated(t, claimed) ==
  {[turn |-> t, rank |-> i, chunk |-> shown[t][i]] :
     i \in {j \in DOMAIN shown[t] : shown[t][j] \in claimed}}

(* The database takes the answer: its conversation is still there, so are  *)
(* the chunks it cites, and no citation comes twice.                       *)
Accepted(t, rows, twice) ==
  /\ Exists(of[t])
  /\ \A row \in rows : row.chunk \in live
  /\ twice => rows = {}

(* Fault: message and citations are saved without a transaction.           *)
ReplyInPieces(t, claimed, twice) ==
  LET rows == Validated(t, claimed)
  IN  /\ pc[t] = "thinking"
      /\ answer' = [answer EXCEPT ![t] = Exists(of[t])]
      /\ IF Accepted(t, rows, twice)
         THEN cites' = cites \cup rows /\ End(t, "answered")
         ELSE End(t, "failed") /\ UNCHANGED cites
      /\ UNCHANGED <<live, used, conv, question, limitVars, kind, of, syncVars>>

(* The model answers and names chunks, one perhaps twice.  Message and     *)
(* citations are saved together or not at all.                             *)
Reply(t, claimed, twice) ==
  LET rows == Validated(t, claimed)
  IN  /\ pc[t] = "thinking"
      /\ IF Accepted(t, rows, twice)
         THEN /\ answer' = [answer EXCEPT ![t] = TRUE]
              /\ cites' = cites \cup rows
              /\ End(t, "answered")
         ELSE End(t, "failed") /\ UNCHANGED <<answer, cites>>
      /\ UNCHANGED <<live, used, conv, question, limitVars, kind, of, syncVars>>

(* There is no such conversation, or no more once it has been looked up.   *)
Miss(t) ==
  /\ pc[t] = "admitted" /\ ~Exists(of[t])
  /\ End(t, "refused") \/ End(t, "failed")
  /\ UNCHANGED <<tableVars, limitVars, kind, of, syncVars>>

(* The conversation is there, but the request holds no question: 400 (the  *)
(* command line's parser refuses as much).                                 *)
NoQuestion(t) ==
  /\ pc[t] = "admitted" /\ Exists(of[t]) /\ kind[t] = "user"
  /\ End(t, "refused")
  /\ UNCHANGED <<tableVars, limitVars, kind, of, syncVars>>

(* A provider is unavailable, or something else is raised (the document of *)
(* a chunk is gone, say), or the server's process dies.                    *)
Raise(t) ==
  /\ pc[t] \in {"rewriting", "thinking"}
  /\ End(t, "failed")
  /\ UNCHANGED <<tableVars, limitVars, kind, of, syncVars>>

----------------------------------------------------------------------------
(* process_document, of which this is what citations see.  For a new       *)
(* document it only adds chunks; for one that has some, the cascade deletes*)
(* the citations it finds, then the chunks, and at the commit the foreign  *)
(* key is checked.                                                         *)

Index(last) ==
  /\ live' = live \cup (used + 1 .. last) /\ used' = last
  /\ UNCHANGED <<conv, question, answer, cites, limitVars, turnVars, syncVars>>

BeginReplace(old) ==
  /\ doomed = {} /\ old # {} /\ old \subseteq live
  /\ doomed' = old
  /\ swept' = {row \in cites : row.chunk \in old}
  /\ UNCHANGED <<tableVars, limitVars, turnVars>>

(* The citation an answer has added since, if any, keeps it from           *)
(* committing.                                                             *)
EndReplace(last) ==
  /\ doomed # {}
  /\ IF \E row \in cites \ swept : row.chunk \in doomed
     THEN UNCHANGED <<live, used, cites>>
     ELSE /\ live' = (live \ doomed) \cup (used + 1 .. last)
          /\ used' = last
          /\ cites' = cites \ swept
  /\ doomed' = {} /\ swept' = {}
  /\ UNCHANGED <<conv, question, answer, limitVars, turnVars>>

----------------------------------------------------------------------------

UserStep ==
  \/ \E c \in Conversation : CreateConversation(c) \/ DeleteConversation(c)
  \/ \E t \in Turn, c \in Conversation :
       \/ Request(t, c) \/ Ask(t, c)
       \/ \E strategy \in {"direct", "agentic"} : Evaluate(t, c, strategy)

TurnStep(t) ==
  \/ Increment(t) \/ StartWindow(t) \/ SaveQuestion(t) \/ Miss(t) \/ NoQuestion(t)
  \/ RewriteAndRetrieve(t) \/ SearchAgain(t)
  \/ \E claimed \in SUBSET Chunk, twice \in BOOLEAN : Reply(t, claimed, twice)
  \/ Raise(t) \/ CloseEvaluation(t)

SyncStep ==
  \/ \E old \in SUBSET Chunk : BeginReplace(old)
  \/ \E last \in used..MaxChunks : Index(last) \/ EndReplace(last)

Next ==
  \/ UserStep \/ SyncStep \/ Expire
  \/ \E t \in Turn : TurnStep(t) \/ Kill(t)

(* A turn under way goes on: its calls to the providers have timeouts.     *)
Spec == Init /\ [][Next]_vars /\ \A t \in Turn : WF_vars(TurnStep(t))

----------------------------------------------------------------------------
(* What must hold.                                                         *)

(* A citation is of a chunk that exists and was put before the model in    *)
(* that very turn, at the place its rank says, and an answer cites no      *)
(* chunk twice ("never persisted from an unvalidated model claim",         *)
(* rag/models.py).                                                         *)
CitationsSound ==
  /\ \A row \in cites :
       /\ row.chunk \in live /\ answer[row.turn]
       /\ row.rank \in DOMAIN shown[row.turn] /\ shown[row.turn][row.rank] = row.chunk
  /\ \A row, other \in cites :
       row.turn = other.turn /\ row.chunk = other.chunk => row = other

(* An answer is there if and only if the caller is told so, as long as the *)
(* conversation is; a turn that fails leaves its question at most, and one *)
(* turned away not even that.                                              *)
AnsweredOrNot ==
  \A t \in Turn :
    /\ answer[t] => question[t] /\ outcome[t] \in {"answered", "killed"}
    /\ outcome[t] = "answered" /\ Exists(of[t]) => answer[t]
    /\ outcome[t] = "refused" => ~question[t]

(* An evaluation that was not killed leaves nothing in the tables that the *)
(* dashboard counts ("persisting them for real would mix synthetic eval    *)
(* traffic into the dashboard's", evaluate.py).                            *)
EvaluationLeavesNothing ==
  \A t \in Turn :
    kind[t] # "user" /\ pc[t] = "done" /\ outcome[t] # "killed" =>
      ~Exists(of[t]) /\ ~question[t] /\ ~answer[t]

(* Between two expiries of the key the limit is passed only by as much as  *)
(* several requests have each found no key and made it 1 (core/            *)
(* ratelimit.py says one extra request; it is up to Limit for each).       *)
WindowBound == admitted <= Limit * starts

(* A turn under way comes to an end, an agentic one too, whatever the      *)
(* model chooses.                                                          *)
TurnEnds == \A t \in Turn : pc[t] # "ready" ~> pc[t] = "done"

=============================================================================
