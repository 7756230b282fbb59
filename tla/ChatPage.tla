------------------------------ MODULE ChatPage ------------------------------
(***************************************************************************)
(* The chat page (features/chat): a single-threaded page whose handlers    *)
(* run on past every await while the user navigates.  A question is posted *)
(* to the conversation on screen, or to one created for it, and its answer *)
(* streams in; a conversation that is opened is fetched.  The server's     *)
(* side is what ChatTurn shows of it: the question is saved first, the     *)
(* answer before its first part is sent.                                   *)
(***************************************************************************)
EXTENDS Naturals, SequencesExt

CONSTANTS
  Parts,                              \* parts an answer is streamed in
  PageSize,                           \* PAGE_SIZE; the page reads only page one
  MaxConversations, MaxSends, MaxLoads  \* bounds

ASSUME PartsAssumption == Parts \in Nat \ {0} /\ PageSize \in Nat
ASSUME PageBounds == MaxConversations \in Nat /\ MaxSends \in Nat /\ MaxLoads \in Nat

Conversation == 1..MaxConversations
Send == 1..MaxSends
Load == 1..MaxLoads
NoConversation == 0

VARIABLES
  \* The server:
  created,         \* conversations created so far
  gone,            \* those deleted since
  stored,          \* stored[c]: the Message rows of c
  \* The page:
  url,             \* the conversation in the URL, NoConversation for /chat
  conversationId,
  messages,        \* the thread on screen
  loading, loadError,
  sending,
  inFlight,        \* the send loadConversation re-attaches to, and its copy
  \* Calls in progress:
  send,            \* send[s]: where send() is, and how much has arrived
  load             \* load[l]: where loadConversation() is, and what was read

serverVars == <<created, gone, stored>>
shownVars  == <<conversationId, messages, loading, loadError>>
chatPageVars == <<serverVars, shownVars, url, sending, inFlight, send, load>>

(* A message on screen, of a turn: under the id the page has made up, or   *)
(* final, under the server's.                                              *)
Message(s, role, parts, final) == [turn |-> s, role |-> role, parts |-> parts, final |-> final]

(* The placeholder is pending until something is appended to it.           *)
Pending(m) == m.role = "assistant" /\ ~m.final /\ m.parts = 0

NoTurn == [turn |-> 0, parts |-> 0]

ChatPageInit ==
  /\ created = 0 /\ gone = {} /\ stored = [c \in Conversation |-> <<>>]
  /\ url = NoConversation /\ conversationId = NoConversation /\ messages = <<>>
  /\ loading = FALSE /\ loadError = FALSE
  /\ sending = FALSE /\ inFlight = NoTurn
  /\ send = [s \in Send |-> [at |-> "idle", to |-> NoConversation, server |-> "idle", parts |-> 0]]
  /\ load = [l \in Load |-> [at |-> "idle", of |-> NoConversation, rows |-> <<>>]]

(* The next call of a kind.                                                *)
FirstIdle(calls, i) == calls[i].at = "idle" /\ \A j \in 1 .. i - 1 : calls[j].at # "idle"

----------------------------------------------------------------------------
(* Navigation.                                                             *)

ResetToNewConversation ==
  /\ conversationId' = NoConversation /\ messages' = <<>> /\ loadError' = FALSE
  /\ UNCHANGED <<loading, load>>

(* loadConversation up to its await.                                       *)
BeginLoad(c) ==
  \E l \in Load :
    /\ FirstIdle(load, l)
    /\ load' = [load EXCEPT ![l] = [@ EXCEPT !.at = "fetching", !.of = c]]
    /\ loading' = TRUE /\ loadError' = FALSE
    /\ UNCHANGED <<conversationId, messages>>

(* The subscription to paramMap.  ChatRouteReuseStrategy keeps the         *)
(* component from one chat route to another.                               *)
Open(c) ==
  /\ url' = c
  /\ CASE c = NoConversation -> ResetToNewConversation
       [] c # NoConversation /\ c = conversationId -> UNCHANGED <<shownVars, load>>
       [] OTHER               -> BeginLoad(c)

Navigate(c) ==
  /\ c # url /\ c \in 0..created /\ c \notin gone
  /\ Open(c)
  /\ UNCHANGED <<serverVars, sending, inFlight, send>>

(* confirmDeleteConversation in the sidebar.                               *)
DeleteConversation(c) ==
  /\ c \in 1..created /\ c \notin gone
  /\ gone' = gone \cup {c}
  /\ IF url = c THEN Open(NoConversation) ELSE UNCHANGED <<url, shownVars, load>>
  /\ stored' = [stored EXCEPT ![c] = <<>>]
  /\ UNCHANGED <<created, sending, inFlight, send>>

----------------------------------------------------------------------------
(* The rest of loadConversation.                                           *)

(* GET /api/messages/, first page: the server reads, and its response may  *)
(* take a while.                                                           *)
FirstPage(rows) == SubSeq(rows, 1, IF Len(rows) < PageSize THEN Len(rows) ELSE PageSize)

ReadMessages(l) ==
  /\ load[l].at = "fetching"
  /\ load' = [load EXCEPT ![l].at = "read", ![l].rows = FirstPage(stored[load[l].of])]
  /\ UNCHANGED <<serverVars, shownVars, url, sending, inFlight, send>>

Finished(l) == load' = [load EXCEPT ![l] = [at |-> "done", of |-> NoConversation, rows |-> <<>>]]

Loaded(l) ==
  /\ load[l].at = "read"
  /\ conversationId' = load[l].of
  /\ messages' = load[l].rows \o
       IF inFlight # NoTurn /\ send[inFlight.turn].to = load[l].of
       THEN <<Message(inFlight.turn, "user", 0, FALSE),
              Message(inFlight.turn, "assistant", inFlight.parts, FALSE)>>
       ELSE <<>>
  /\ loading' = FALSE /\ Finished(l)
  /\ UNCHANGED <<serverVars, url, loadError, sending, inFlight, send>>

LoadFails(l) ==
  /\ load[l].at = "fetching"
  /\ loadError' = TRUE /\ loading' = FALSE /\ Finished(l)
  /\ UNCHANGED <<serverVars, url, conversationId, messages, sending, inFlight, send>>

----------------------------------------------------------------------------
(* send().                                                                 *)

(* After ensureConversation: the turn appears, and is posted.              *)
Post(s, c) ==
  /\ messages' = messages \o <<Message(s, "user", 0, FALSE), Message(s, "assistant", 0, FALSE)>>
  /\ inFlight' = [turn |-> s, parts |-> 0]
  /\ sending' = TRUE
  /\ send' = [send EXCEPT ![s] = [@ EXCEPT !.at = "asking", !.to = c, !.server = "posted"]]

(* Enter, with something in the composer.  Nothing else runs before the    *)
(* post if there is a conversation; else one is asked for, and sending is  *)
(* not yet set.                                                            *)
Enter(s) ==
  /\ FirstIdle(send, s) /\ ~sending
  /\ IF conversationId # NoConversation THEN Post(s, conversationId)
     ELSE /\ send' = [send EXCEPT ![s].at = "creating"]
          /\ UNCHANGED <<messages, inFlight, sending>>
  /\ UNCHANGED <<serverVars, conversationId, loading, loadError, url, load>>

(* The id is set before navigating, "so loadConversation's guard sees it". *)
Created(s) ==
  /\ send[s].at = "creating" /\ created < MaxConversations
  /\ created' = created + 1 /\ url' = created' /\ conversationId' = created'
  /\ Post(s, created')
  /\ UNCHANGED <<gone, stored, loading, loadError, load>>

CreateFails(s) ==
  /\ send[s].at = "creating"
  /\ send' = [send EXCEPT ![s].at = "done"]
  /\ UNCHANGED <<serverVars, shownVars, url, sending, inFlight, load>>

(* The placeholder of a turn on screen, if it is, changed.                 *)
Placeholder(s, Change(_)) ==
  [i \in DOMAIN messages |->
     LET m == messages[i]
     IN  IF m.turn = s /\ m.role = "assistant" /\ ~m.final THEN Change(m) ELSE m]

Longer(m) == [m EXCEPT !.parts = @ + 1]

(* Fault: only what is on screen grows.                                    *)
AppendToScreen(s) == messages' = Placeholder(s, Longer) /\ UNCHANGED inFlight

(* On screen, and in the copy.                                             *)
AppendDelta(s) ==
  /\ messages' = Placeholder(s, Longer)
  /\ inFlight' = IF inFlight.turn = s THEN Longer(inFlight) ELSE inFlight

(* An event of the stream.                                                 *)
Delta(s) ==
  /\ send[s].at = "asking" /\ send[s].server = "answered" /\ send[s].parts < Parts
  /\ AppendDelta(s)
  /\ send' = [send EXCEPT ![s].parts = @ + 1]
  /\ UNCHANGED <<serverVars, conversationId, loading, loadError, url, sending, load>>

(* The last one, which names the message's row.                            *)
FinalizeAnswer(s) ==
  /\ send[s].at = "asking" /\ send[s].server = "answered" /\ send[s].parts = Parts
  /\ messages' = Placeholder(s, LAMBDA m : [m EXCEPT !.final = TRUE])
  /\ inFlight' = IF inFlight.turn = s THEN NoTurn ELSE inFlight
  /\ send' = [send EXCEPT ![s].at = "refreshing"]
  /\ UNCHANGED <<serverVars, conversationId, loading, loadError, url, sending, load>>

(* The stream ends, and no last event was in it: the loop is left as after *)
(* a whole answer.                                                         *)
BreakOff(s) ==
  /\ send[s].at = "asking"
  /\ send' = [send EXCEPT ![s].at = "cut"]
  /\ UNCHANGED <<serverVars, shownVars, url, sending, inFlight, load>>

(* The sidebar's list has been read anew; finally.                         *)
Refreshed(s) ==
  /\ send[s].at \in {"refreshing", "cut"}
  /\ send' = [send EXCEPT ![s].at = IF @ = "cut" THEN "unanswered" ELSE "done"]
  /\ sending' = FALSE /\ inFlight' = NoTurn
  /\ UNCHANGED <<serverVars, shownVars, url, load>>

(* Fault: the composer is only opened again after an answer.               *)
AskFailsWithoutFinally(s) ==
  /\ send[s].at \in {"asking", "refreshing", "cut"}
  /\ messages' = Placeholder(s, Longer)
  /\ send' = [send EXCEPT ![s].at = "done", ![s].parts = @ + 1]
  /\ UNCHANGED <<serverVars, conversationId, loading, loadError, url, sending, inFlight, load>>

(* The request is refused or fails, the stream fails, or the list cannot   *)
(* be read: the catch says so in the message, if it is not final yet.      *)
AskFails(s) ==
  /\ send[s].at \in {"asking", "refreshing", "cut"}
  /\ messages' = Placeholder(s, Longer)
  /\ send' = [send EXCEPT ![s].at = "done", ![s].parts = @ + 1]
  /\ sending' = FALSE /\ inFlight' = NoTurn
  /\ UNCHANGED <<serverVars, conversationId, loading, loadError, url, load>>

----------------------------------------------------------------------------
(* The server, on a question posted, whether or not the page still waits.  *)

Saves(s, from, to, row) ==
  /\ send[s].server = from /\ send[s].to \notin gone
  /\ stored' = [stored EXCEPT ![send[s].to] = Append(@, row)]
  /\ send' = [send EXCEPT ![s].server = to]
  /\ UNCHANGED <<created, gone, shownVars, url, sending, inFlight, load>>

SaveQuestion(s) == Saves(s, "posted", "asked", Message(s, "user", 0, TRUE))
SaveAnswer(s)   == Saves(s, "asked", "answered", Message(s, "assistant", Parts, TRUE))

----------------------------------------------------------------------------

UserMoves ==
  \/ \E c \in 0..MaxConversations : Navigate(c) \/ DeleteConversation(c)
  \/ \E s \in Send : Enter(s)

(* What the page and the server do about a send, or a load.                *)
Answering(s) ==
  \/ Created(s) \/ CreateFails(s) \/ SaveQuestion(s) \/ SaveAnswer(s)
  \/ Delta(s) \/ FinalizeAnswer(s) \/ BreakOff(s) \/ Refreshed(s) \/ AskFails(s)
Loading(l) == ReadMessages(l) \/ Loaded(l) \/ LoadFails(l)

ChatPageNext ==
  \/ UserMoves \/ (\E s \in Send : Answering(s)) \/ (\E l \in Load : Loading(l))

(* A request is answered or fails, and the browser runs the handler.       *)
ChatPageFairness ==
  /\ \A s \in Send : WF_chatPageVars(Answering(s))
  /\ \A l \in Load : WF_chatPageVars(Loading(l))

ChatPageSpec ==
  ChatPageInit /\ [][ChatPageNext]_chatPageVars /\ ChatPageFairness

----------------------------------------------------------------------------
(* What must hold.                                                         *)

(* However often the user has gone elsewhere and come back, whatever is on *)
(* screen of an answer is all that has arrived of it, an error included:   *)
(* no stale copy, no part twice, and no placeholder left pending when its  *)
(* request is over ("the answer is computed and persisted, but silently    *)
(* never rendered", chat.page.ts) - unless the stream ended with nothing   *)
(* in it, which no handler tells from an answer.                           *)
StreamShownWhole ==
  \A i \in DOMAIN messages :
    LET m == messages[i]
    IN  m.role = "assistant" =>
          /\ m.parts = IF m.final THEN Parts ELSE send[m.turn].parts
          /\ Pending(m) => send[m.turn].at \in {"asking", "cut", "unanswered"}

(* The composer opens again, and a conversation that is being fetched is   *)
(* shown or given up.                                                      *)
ComposerReopens == []<>~sending /\ []<>~loading

(* A turn on screen is on screen once: what is fetched holds nothing of    *)
(* the turn that is appended to it ("the fetch above can only have found   *)
(* the turns that existed before it started", chat.page.ts).               *)
NothingTwice ==
  \A i, j \in DOMAIN messages :
    messages[i].turn = messages[j].turn /\ messages[i].role = messages[j].role => i = j

=============================================================================
