--------------------------- MODULE FrontendProofs ---------------------------
(***************************************************************************)
(* Proofs about ChatPage, for any number of conversations, questions and   *)
(* visits, and answers of any length, and about CorpusPage, for any        *)
(* sources, documents, pages and calls.                                    *)
(***************************************************************************)
EXTENDS ChatPage, CorpusPage, SequenceTheorems, WellFoundedInduction, TLAPS

----------------------------------------------------------------------------
(* ChatPage: what is on screen of an answer is always all that has arrived *)
(* of it.                                                                  *)

(* A message on screen; a row of the server, which is final and whole.     *)
Shown == [turn : Send, role : {"user", "assistant"}, parts : Nat, final : BOOLEAN]
Saved == {m \in Shown : m.final /\ (m.role = "assistant" => m.parts = Parts)}

Sending == [at : {"idle", "creating", "asking", "refreshing", "cut", "unanswered", "done"},
            to : Nat, server : {"idle", "posted", "asked", "answered"}, parts : Nat]
Fetching == [at : {"idle", "fetching", "read", "done"}, of : Nat, rows : Seq(Saved)]

PageTyped ==
  /\ created \in Nat /\ conversationId \in Nat
  /\ stored \in [Conversation -> Seq(Saved)]
  /\ messages \in Seq(Shown)
  /\ inFlight \in [turn : Nat, parts : Nat]
  /\ send \in [Send -> Sending]
  /\ load \in [Load -> Fetching]
  /\ \A l \in Load : load[l].at = "fetching" => load[l].of \in Conversation

(* Nothing arrives before the question is posted; the copy is of a turn    *)
(* that is still being answered, and up to date; and so is a placeholder,  *)
(* which outlives its request only to say that it failed, or if the stream *)
(* broke off.                                                              *)
NothingEarly ==
  \A s \in Send : send[s].at \in {"idle", "creating"} => send[s].parts = 0

CopyTrue ==
  inFlight # NoTurn =>
    /\ inFlight.turn \in Send /\ send[inFlight.turn].at \in {"asking", "cut"}
    /\ inFlight.parts = send[inFlight.turn].parts

True(m) ==
  m.role = "assistant" =>
    IF m.final THEN m.parts = Parts
    ELSE /\ m.parts = send[m.turn].parts
         /\ \/ send[m.turn].at \in {"asking", "cut", "unanswered"}
            \/ send[m.turn].at = "done" /\ m.parts > 0

Faithful   == {m \in Shown : True(m)}
ThreadTrue == messages \in Seq(Faithful)

StreamInv == PageTyped /\ NothingEarly /\ CopyTrue /\ ThreadTrue

----------------------------------------------------------------------------
(* Sequences.                                                              *)

(* A sequence over a set is one over every larger set, and so are two of   *)
(* them joined.                                                            *)
LEMMA Wider == ASSUME NEW S, NEW T, S \subseteq T, NEW a \in Seq(S) PROVE a \in Seq(T)
OBVIOUS

LEMMA Mapped ==
  ASSUME NEW S, NEW T, NEW a \in Seq(S), NEW b, b = [i \in DOMAIN a |-> b[i]],
         \A i \in DOMAIN a : b[i] \in T
  PROVE  b \in Seq(T)
<1>1. Len(a) \in Nat /\ DOMAIN a = 1 .. Len(a)
  OBVIOUS
<1>2. b \in [1 .. Len(a) -> T]
  BY <1>1
<1>3. QED
  BY <1>1, <1>2

(* The first page of rows is made of rows.                                 *)
LEMMA FirstPageSaved ==
  ASSUME NEW rows \in Seq(Saved) PROVE FirstPage(rows) \in Seq(Saved)
<1> DEFINE n == IF Len(rows) < PageSize THEN Len(rows) ELSE PageSize
<1>1. n \in Nat /\ n <= Len(rows)
  BY PartsAssumption, LenProperties
<1>2. SubSeq(rows, 1, n) \in Seq(Saved)
  BY <1>1, SubSeqProperties
<1>3. QED
  BY <1>2 DEF FirstPage

(* The two messages of a turn.                                             *)
LEMMA TurnShown ==
  ASSUME NEW s \in Send, NEW n \in Nat
  PROVE  /\ Message(s, "user", 0, FALSE) \in Shown
         /\ Message(s, "assistant", n, FALSE) \in Shown
         /\ Message(s, "user", 0, FALSE).role = "user"
BY DEF Message, Shown

----------------------------------------------------------------------------
(* The initial states.                                                     *)

LEMMA StreamInit == ChatPageInit => StreamInv
<1> SUFFICES ASSUME ChatPageInit PROVE StreamInv
  OBVIOUS
<1> USE DEF ChatPageInit
<1>1. PageTyped
  <2>1. stored \in [Conversation -> Seq(Saved)] /\ messages \in Seq(Shown)
    OBVIOUS
  <2>2. inFlight \in [turn : Nat, parts : Nat]
    BY DEF NoTurn
  <2>3. send \in [Send -> Sending]
    BY DEF Sending, NoConversation
  <2>4. load \in [Load -> Fetching]
    BY DEF Fetching, NoConversation
  <2>5. QED
    BY <2>1, <2>2, <2>3, <2>4 DEF PageTyped, NoConversation
<1>2. NothingEarly
  BY DEF NothingEarly
<1>3. CopyTrue
  BY DEF CopyTrue
<1>4. ThreadTrue
  BY DEF ThreadTrue
<1>5. QED
  BY <1>1, <1>2, <1>3, <1>4 DEF StreamInv

----------------------------------------------------------------------------
(* The steps of navigation and of loadConversation.                        *)

(* Opening a route leaves the thread alone or clears it.                   *)
LEMMA OpenKeeps ==
  ASSUME StreamInv, NEW c \in 0 .. MaxConversations, Open(c)
  PROVE  /\ conversationId' \in Nat
         /\ messages' = messages \/ messages' = <<>>
         /\ load' \in [Load -> Fetching]
         /\ \A l \in Load : load'[l].at = "fetching" => load'[l].of \in Conversation
<1> USE DEF StreamInv, PageTyped
<1>1. CASE c = NoConversation
  <2>1. ResetToNewConversation
    BY <1>1 DEF Open
  <2>2. conversationId' = 0 /\ messages' = <<>> /\ load' = load
    BY <2>1 DEF ResetToNewConversation, NoConversation
  <2>3. QED
    BY <2>2
<1>2. CASE c # NoConversation /\ c = conversationId
  BY <1>2 DEF Open, shownVars
<1>3. CASE c # NoConversation /\ c # conversationId
  <2>1. c \in Conversation /\ c \in Nat
    BY <1>3, PageBounds DEF Conversation, NoConversation
  <2>2. PICK l \in Load : BeginLoad(c)!(l)
    BY <1>3 DEF Open, BeginLoad
  <2>3. load'[l] = [load[l] EXCEPT !.at = "fetching", !.of = c]
    BY <2>2
  <2>4. load'[l] \in Fetching /\ load'[l].of = c
    BY <2>1, <2>3 DEF Fetching
  <2>5. \A k \in Load : k # l => load'[k] = load[k]
    BY <2>2
  <2>6. load' \in [Load -> Fetching]
    BY <2>2, <2>4, <2>5
  <2>7. QED
    BY <2>1, <2>2, <2>4, <2>5, <2>6
<1>4. QED
  BY <1>1, <1>2, <1>3

(* The thread and the copy as they were, or no thread.                     *)
LEMMA SameTruth ==
  ASSUME StreamInv, messages' = messages \/ messages' = <<>>,
         UNCHANGED <<inFlight, send>>
  PROVE  NothingEarly' /\ CopyTrue' /\ ThreadTrue' /\ messages' \in Seq(Shown)
<1>1. NothingEarly' /\ CopyTrue'
  BY DEF StreamInv, NothingEarly, CopyTrue
<1>2. ThreadTrue'
  <2>1. Faithful' = Faithful
    BY DEF Faithful, True
  <2>2. messages \in Seq(Faithful) /\ <<>> \in Seq(Faithful)
    BY DEF StreamInv, ThreadTrue
  <2>3. QED
    BY <2>1, <2>2 DEF ThreadTrue
<1>3. messages' \in Seq(Shown)
  <2>1. messages \in Seq(Shown) /\ <<>> \in Seq(Shown)
    BY DEF StreamInv, PageTyped
  <2>2. QED
    BY <2>1
<1>4. QED
  BY <1>1, <1>2, <1>3

LEMMA NavigateStream ==
  ASSUME StreamInv, NEW c \in 0 .. MaxConversations, Navigate(c)
  PROVE  StreamInv'
<1>1. Open(c) /\ UNCHANGED <<serverVars, inFlight, send>>
  BY DEF Navigate
<1>2. NothingEarly' /\ CopyTrue' /\ ThreadTrue' /\ messages' \in Seq(Shown)
  BY <1>1, OpenKeeps, SameTruth
<1>3. PageTyped'
  BY <1>1, <1>2, OpenKeeps DEF StreamInv, PageTyped, serverVars
<1>4. QED
  BY <1>2, <1>3 DEF StreamInv

LEMMA DeleteStream ==
  ASSUME StreamInv, NEW c \in 0 .. MaxConversations, DeleteConversation(c)
  PROVE  StreamInv'
<1> USE DEF StreamInv
<1>1. /\ conversationId' \in Nat
      /\ messages' = messages \/ messages' = <<>>
      /\ load' \in [Load -> Fetching]
      /\ \A l \in Load : load'[l].at = "fetching" => load'[l].of \in Conversation
  <2>1. CASE url = c
    <3>1. Open(NoConversation) /\ NoConversation \in 0 .. MaxConversations
      BY <2>1, PageBounds DEF DeleteConversation, NoConversation
    <3>2. QED
      BY <3>1, OpenKeeps
  <2>2. CASE url # c
    BY <2>2 DEF DeleteConversation, PageTyped, shownVars
  <2>3. QED
    BY <2>1, <2>2
<1>2. UNCHANGED <<created, inFlight, send>>
  BY DEF DeleteConversation
<1>3. stored' \in [Conversation -> Seq(Saved)]
  <2>1. <<>> \in Seq(Saved)
    OBVIOUS
  <2>2. QED
    BY <2>1 DEF DeleteConversation, PageTyped
<1>4. NothingEarly' /\ CopyTrue' /\ ThreadTrue' /\ messages' \in Seq(Shown)
  BY <1>1, <1>2, SameTruth
<1>5. PageTyped'
  BY <1>1, <1>2, <1>3, <1>4 DEF PageTyped
<1>6. QED
  BY <1>4, <1>5

(* The server reads rows, and nothing else.                                *)
LEMMA ReadStream ==
  ASSUME StreamInv, NEW l \in Load, ReadMessages(l)
  PROVE  StreamInv'
<1> USE DEF StreamInv
<1>1. UNCHANGED <<created, conversationId, stored, messages, inFlight, send>>
  BY DEF ReadMessages, serverVars, shownVars
<1>2. NothingEarly' /\ CopyTrue' /\ ThreadTrue' /\ messages' \in Seq(Shown)
  BY <1>1, SameTruth
<1>3. load' \in [Load -> Fetching]
  <2>1. FirstPage(stored[load[l].of]) \in Seq(Saved)
    <3>1. stored[load[l].of] \in Seq(Saved)
      BY DEF ReadMessages, PageTyped
    <3>2. QED
      BY <3>1, FirstPageSaved
  <2>2. load'[l] = [load[l] EXCEPT !.at = "read",
                                   !.rows = FirstPage(stored[load[l].of])]
    BY DEF ReadMessages, PageTyped
  <2>3. load'[l] \in Fetching
    BY <2>1, <2>2 DEF PageTyped, Fetching
  <2>4. QED
    BY <2>3 DEF ReadMessages, PageTyped
<1>4. \A k \in Load : load'[k].at = "fetching" => load'[k].of \in Conversation
  BY DEF ReadMessages, PageTyped, Fetching
<1>5. PageTyped'
  BY <1>1, <1>2, <1>3, <1>4 DEF PageTyped
<1>6. QED
  BY <1>2, <1>5

(* A visit that has ended.                                                 *)
LEMMA FinishedTyped ==
  ASSUME PageTyped, NEW l \in Load, Finished(l)
  PROVE  /\ load' \in [Load -> Fetching]
         /\ \A k \in Load : load'[k].at = "fetching" => load'[k].of \in Conversation
<1>1. [at |-> "done", of |-> NoConversation, rows |-> <<>>] \in Fetching
  BY DEF Fetching, NoConversation
<1>2. load' \in [Load -> Fetching]
  BY <1>1 DEF Finished, PageTyped
<1>3. \A k \in Load : load'[k].at = "fetching" => load'[k].of \in Conversation
  BY DEF Finished, PageTyped
<1>4. QED
  BY <1>2, <1>3

LEMMA LoadFailsStream ==
  ASSUME StreamInv, NEW l \in Load, LoadFails(l)
  PROVE  StreamInv'
<1> USE DEF StreamInv
<1>1. Finished(l) /\ UNCHANGED <<created, conversationId, stored, messages, inFlight, send>>
  BY DEF LoadFails, serverVars
<1>2. NothingEarly' /\ CopyTrue' /\ ThreadTrue' /\ messages' \in Seq(Shown)
  BY <1>1, SameTruth
<1>3. PageTyped'
  BY <1>1, <1>2, FinishedTyped DEF PageTyped
<1>4. QED
  BY <1>2, <1>3

(* The thread is what was read, final and whole, and after it the turn in  *)
(* flight with all that has arrived of it.                                 *)
LEMMA LoadedStream ==
  ASSUME StreamInv, NEW l \in Load, Loaded(l)
  PROVE  StreamInv'
<1> USE DEF StreamInv
<1> DEFINE turn == IF inFlight # NoTurn /\ send[inFlight.turn].to = load[l].of
                   THEN <<Message(inFlight.turn, "user", 0, FALSE),
                          Message(inFlight.turn, "assistant", inFlight.parts, FALSE)>>
                   ELSE <<>>
<1>1. Finished(l) /\ UNCHANGED <<created, stored, inFlight, send>>
  BY DEF Loaded, serverVars
<1>2. load[l] \in Fetching /\ load[l].rows \in Seq(Saved)
  BY DEF PageTyped, Fetching
<1>3. turn \in Seq(Faithful)
  <2>1. CASE inFlight # NoTurn /\ send[inFlight.turn].to = load[l].of
    <3>1. /\ inFlight.turn \in Send /\ inFlight.parts \in Nat
          /\ send[inFlight.turn].at \in {"asking", "cut"}
          /\ inFlight.parts = send[inFlight.turn].parts
      BY <2>1 DEF CopyTrue, PageTyped
    <3> DEFINE user == Message(inFlight.turn, "user", 0, FALSE)
               answer == Message(inFlight.turn, "assistant", inFlight.parts, FALSE)
    <3>2. user \in Shown /\ answer \in Shown
      BY <3>1, TurnShown
    <3>3. True(user) /\ True(answer)
      BY <3>1 DEF True, Message
    <3>4. turn = <<user, answer>> /\ user \in Faithful /\ answer \in Faithful
      BY <2>1, <3>2, <3>3 DEF Faithful
    <3> HIDE DEF user, answer, turn
    <3>5. QED
      BY <3>4
  <2>2. CASE ~ (inFlight # NoTurn /\ send[inFlight.turn].to = load[l].of)
    <3>1. turn = <<>>
      BY <2>2
    <3> HIDE DEF turn
    <3>2. QED
      BY <3>1
  <2>3. QED
    BY <2>1, <2>2
<1>4. messages' = load[l].rows \o turn
  BY DEF Loaded
<1>5. load[l].rows \in Seq(Faithful)
  <2>1. Saved \subseteq Faithful
    BY DEF Saved, True, Faithful
  <2>2. QED
    BY <1>2, <2>1, Wider
<1>6. messages' \in Seq(Faithful)
  <2> HIDE DEF turn
  <2>1. QED
    BY <1>3, <1>4, <1>5, ConcatProperties
<1>7. ThreadTrue' /\ messages' \in Seq(Shown)
  <2>1. Faithful' = Faithful /\ Faithful \subseteq Shown
    BY <1>1 DEF True, Faithful
  <2>2. QED
    BY <1>6, <2>1, Wider DEF ThreadTrue
<1>8. NothingEarly' /\ CopyTrue'
  BY <1>1 DEF NothingEarly, CopyTrue
<1>9. PageTyped'
  <2>1. conversationId' \in Nat
    BY <1>2 DEF Loaded, Fetching
  <2>2. QED
    BY <1>1, <1>7, <2>1, FinishedTyped DEF PageTyped
<1>10. QED
  BY <1>7, <1>8, <1>9

----------------------------------------------------------------------------
(* The steps of send().                                                    *)

(* A turn appears on screen and in the copy, with nothing of its answer.   *)
LEMMA PostStream ==
  ASSUME StreamInv, NEW s \in Send, send[s].at \in {"idle", "creating"},
         NEW c \in Nat, Post(s, c)
  PROVE  /\ messages' \in Seq(Shown) /\ inFlight' \in [turn : Nat, parts : Nat]
         /\ send' \in [Send -> Sending]
         /\ NothingEarly' /\ CopyTrue' /\ ThreadTrue'
<1> USE DEF StreamInv
<1> DEFINE user == Message(s, "user", 0, FALSE)
           answer == Message(s, "assistant", 0, FALSE)
<1>1. send \in [Send -> Sending] /\ send[s].parts = 0
  BY DEF PageTyped, NothingEarly
<1>2. send'[s] = [send[s] EXCEPT !.at = "asking", !.to = c, !.server = "posted"]
  BY <1>1 DEF Post
<1>3. \A k \in Send : k # s => send'[k] = send[k]
  BY <1>1 DEF Post
<1>4. send'[s] \in Sending /\ send'[s].at = "asking" /\ send'[s].parts = 0
  BY <1>1, <1>2 DEF Sending
<1>5. send' \in [Send -> Sending]
  BY <1>1, <1>4 DEF Post
<1>6. s \in Nat /\ inFlight' = [turn |-> s, parts |-> 0]
  BY DEF Post, Send
<1>7. NothingEarly'
  BY <1>3, <1>4 DEF NothingEarly
<1>8. CopyTrue'
  BY <1>4, <1>6 DEF CopyTrue
<1>9. Faithful \subseteq Faithful'
  BY <1>3, <1>4 DEF Faithful, True, Shown
<1>10. user \in Faithful' /\ answer \in Faithful'
  <2>1. user \in Shown /\ answer \in Shown
    BY TurnShown
  <2>2. True(user)' /\ True(answer)'
    BY <1>4 DEF True, Message
  <2>3. QED
    BY <2>1, <2>2 DEF Faithful
<1>11. messages' = messages \o <<user, answer>>
  BY DEF Post
<1> HIDE DEF user, answer
<1>12. messages \in Seq(Faithful') /\ <<user, answer>> \in Seq(Faithful')
  BY <1>9, <1>10, Wider DEF ThreadTrue
<1>13. messages' \in Seq(Faithful') /\ Faithful' \subseteq Shown
  BY <1>11, <1>12, ConcatProperties DEF Faithful
<1>14. messages' \in Seq(Shown) /\ ThreadTrue'
  BY <1>13, Wider DEF ThreadTrue
<1>15. QED
  BY <1>5, <1>6, <1>7, <1>8, <1>14

LEMMA EnterStream ==
  ASSUME StreamInv, NEW s \in Send, Enter(s)
  PROVE  StreamInv'
<1> USE DEF StreamInv
<1>1. send[s].at = "idle" /\ UNCHANGED <<created, stored, conversationId, load>>
  BY DEF Enter, FirstIdle, serverVars
<1>2. CASE conversationId # NoConversation
  <2>1. Post(s, conversationId) /\ conversationId \in Nat
    BY <1>2 DEF Enter, PageTyped
  <2>2. QED
    BY <1>1, <2>1, PostStream DEF PageTyped
<1>3. CASE conversationId = NoConversation
  <2>1. send' = [send EXCEPT ![s].at = "creating"] /\ UNCHANGED <<messages, inFlight>>
    BY <1>3 DEF Enter
  <2>2. send' \in [Send -> Sending]
    BY <2>1 DEF PageTyped, Sending
  <2>3. send'[s] = [send[s] EXCEPT !.at = "creating"] /\ \A k \in Send : k # s => send'[k] = send[k]
    BY <2>1 DEF PageTyped
  <2>4. \A k \in Send : send'[k].parts = send[k].parts
    <3>1. send[s] \in Sending
      BY DEF PageTyped
    <3>2. send'[s].parts = send[s].parts
      BY <2>3, <3>1 DEF Sending
    <3>3. QED
      BY <2>3, <3>2
  <2>5. NothingEarly'
    BY <1>1, <2>3, <2>4 DEF NothingEarly
  <2>6. CopyTrue'
    BY <1>1, <2>1, <2>3, <2>4 DEF CopyTrue
  <2>7. ThreadTrue'
    <3>1. Faithful \subseteq Faithful'
      BY <1>1, <2>3, <2>4 DEF Faithful, True, Shown
    <3>2. QED
      BY <2>1, <3>1, Wider DEF ThreadTrue
  <2>8. PageTyped'
    BY <1>1, <2>1, <2>2 DEF PageTyped
  <2>9. QED
    BY <2>5, <2>6, <2>7, <2>8
<1>4. QED
  BY <1>2, <1>3

LEMMA CreatedStream ==
  ASSUME StreamInv, NEW s \in Send, Created(s)
  PROVE  StreamInv'
<1>1. /\ send[s].at = "creating" /\ created' = created + 1 /\ conversationId' = created'
      /\ Post(s, created') /\ UNCHANGED <<stored, load>>
  BY DEF Created
<1>2. created' \in Nat
  BY <1>1 DEF StreamInv, PageTyped
<1>3. /\ messages' \in Seq(Shown) /\ inFlight' \in [turn : Nat, parts : Nat]
      /\ send' \in [Send -> Sending]
      /\ NothingEarly' /\ CopyTrue' /\ ThreadTrue'
  BY <1>1, <1>2, PostStream
<1>4. QED
  BY <1>1, <1>2, <1>3 DEF StreamInv, PageTyped

(* A send that moves on with nothing new for the thread.                   *)
LEMMA MovesOn ==
  ASSUME StreamInv, NEW s \in Send, NEW r \in Sending,
         send' = [send EXCEPT ![s] = r], r.parts = send[s].parts,
         \/ r.at = send[s].at
         \/ send[s].at \in {"creating", "refreshing"} /\ r.at = "done"
         \/ send[s].at = "asking" /\ r.at = "cut"
         \/ send[s].at = "cut" /\ r.at = "unanswered" /\ inFlight' = NoTurn,
         UNCHANGED messages, inFlight' = inFlight \/ inFlight' = NoTurn
  PROVE  /\ messages' \in Seq(Shown) /\ inFlight' \in [turn : Nat, parts : Nat]
         /\ send' \in [Send -> Sending]
         /\ NothingEarly' /\ CopyTrue' /\ ThreadTrue'
<1> USE DEF StreamInv
<1>1. send'[s] = r /\ \A k \in Send : k # s => send'[k] = send[k]
  BY DEF PageTyped
<1>2. send' \in [Send -> Sending] /\ inFlight' \in [turn : Nat, parts : Nat]
  BY DEF PageTyped, NoTurn
<1>3. NothingEarly'
  BY <1>1 DEF NothingEarly
<1>4. CopyTrue'
  BY <1>1 DEF CopyTrue
<1>5. Faithful \subseteq Faithful'
  BY <1>1 DEF Faithful, True, Shown
<1>6. ThreadTrue'
  BY <1>5, Wider DEF ThreadTrue
<1>7. QED
  BY <1>2, <1>3, <1>4, <1>6 DEF PageTyped

LEMMA CreateFailsStream ==
  ASSUME StreamInv, NEW s \in Send, CreateFails(s)
  PROVE  StreamInv'
<1> DEFINE r == [send[s] EXCEPT !.at = "done"]
<1>1. /\ send[s].at = "creating"
      /\ UNCHANGED <<created, stored, conversationId, messages, inFlight, load>>
  BY DEF CreateFails, serverVars, shownVars
<1>2. send[s] \in Sending /\ r \in Sending /\ r.parts = send[s].parts /\ r.at = "done"
  BY DEF StreamInv, PageTyped, Sending
<1>3. send' = [send EXCEPT ![s] = r]
  BY DEF CreateFails
<1> HIDE DEF r
<1>4. /\ messages' \in Seq(Shown) /\ inFlight' \in [turn : Nat, parts : Nat]
      /\ send' \in [Send -> Sending]
      /\ NothingEarly' /\ CopyTrue' /\ ThreadTrue'
  BY <1>1, <1>2, <1>3, MovesOn
<1>5. QED
  BY <1>1, <1>4 DEF StreamInv, PageTyped

LEMMA BreakOffStream ==
  ASSUME StreamInv, NEW s \in Send, BreakOff(s)
  PROVE  StreamInv'
<1> DEFINE r == [send[s] EXCEPT !.at = "cut"]
<1>1. /\ send[s].at = "asking"
      /\ UNCHANGED <<created, stored, conversationId, messages, inFlight, load>>
  BY DEF BreakOff, serverVars, shownVars
<1>2. send[s] \in Sending /\ r \in Sending /\ r.parts = send[s].parts /\ r.at = "cut"
  BY DEF StreamInv, PageTyped, Sending
<1>3. send' = [send EXCEPT ![s] = r]
  BY DEF BreakOff
<1> HIDE DEF r
<1>4. /\ messages' \in Seq(Shown) /\ inFlight' \in [turn : Nat, parts : Nat]
      /\ send' \in [Send -> Sending]
      /\ NothingEarly' /\ CopyTrue' /\ ThreadTrue'
  BY <1>1, <1>2, <1>3, MovesOn
<1>5. QED
  BY <1>1, <1>4 DEF StreamInv, PageTyped

LEMMA RefreshedStream ==
  ASSUME StreamInv, NEW s \in Send, Refreshed(s)
  PROVE  StreamInv'
<1> DEFINE over == IF send[s].at = "cut" THEN "unanswered" ELSE "done"
           r == [send[s] EXCEPT !.at = over]
<1>1. /\ send[s].at \in {"refreshing", "cut"} /\ inFlight' = NoTurn
      /\ UNCHANGED <<created, stored, conversationId, messages, load>>
  BY DEF Refreshed, serverVars, shownVars
<1>2. send[s] \in Sending /\ over \in {"unanswered", "done"}
  BY DEF StreamInv, PageTyped
<1>3. send' = [send EXCEPT ![s] = r]
  BY DEF Refreshed
<1>4. \/ send[s].at = "refreshing" /\ over = "done"
      \/ send[s].at = "cut" /\ over = "unanswered"
  BY <1>1
<1> HIDE DEF over
<1>5. r \in Sending /\ r.parts = send[s].parts /\ r.at = over
  BY <1>2 DEF Sending
<1> HIDE DEF r
<1>6. /\ messages' \in Seq(Shown) /\ inFlight' \in [turn : Nat, parts : Nat]
      /\ send' \in [Send -> Sending]
      /\ NothingEarly' /\ CopyTrue' /\ ThreadTrue'
  BY <1>1, <1>3, <1>4, <1>5, MovesOn
<1>7. QED
  BY <1>1, <1>6 DEF StreamInv, PageTyped

(* The server saves a row, which is final and whole.                       *)
LEMMA SavesStream ==
  ASSUME StreamInv, NEW s \in Send, NEW from,
         NEW to \in {"asked", "answered"}, NEW row \in Saved, Saves(s, from, to, row)
  PROVE  StreamInv'
<1> DEFINE r == [send[s] EXCEPT !.server = to]
<1>1. UNCHANGED <<created, conversationId, messages, inFlight, load>>
  BY DEF Saves, shownVars
<1>2. send[s] \in Sending /\ r \in Sending /\ r.parts = send[s].parts /\ r.at = send[s].at
  BY DEF StreamInv, PageTyped, Sending
<1>3. send' = [send EXCEPT ![s] = r]
  BY DEF Saves
<1> HIDE DEF r
<1>4. /\ messages' \in Seq(Shown) /\ inFlight' \in [turn : Nat, parts : Nat]
      /\ send' \in [Send -> Sending]
      /\ NothingEarly' /\ CopyTrue' /\ ThreadTrue'
  BY <1>1, <1>2, <1>3, MovesOn
<1>5. stored' \in [Conversation -> Seq(Saved)]
  <2>1. \A rows \in Seq(Saved) : Append(rows, row) \in Seq(Saved)
    BY AppendProperties
  <2>2. stored \in [Conversation -> Seq(Saved)]
    BY DEF StreamInv, PageTyped
  <2>3. stored' = [stored EXCEPT ![send[s].to] = Append(@, row)]
    BY DEF Saves
  <2>4. QED
    BY <2>1, <2>2, <2>3
<1>6. QED
  BY <1>1, <1>4, <1>5 DEF StreamInv, PageTyped

LEMMA ServerStream ==
  ASSUME StreamInv, NEW s \in Send, SaveQuestion(s) \/ SaveAnswer(s)
  PROVE  StreamInv'
<1>1. Message(s, "user", 0, TRUE) \in Saved /\ Message(s, "assistant", Parts, TRUE) \in Saved
  BY PartsAssumption DEF Message, Saved, Shown
<1>2. CASE SaveQuestion(s)
  BY <1>1, <1>2, SavesStream DEF SaveQuestion
<1>3. CASE SaveAnswer(s)
  BY <1>1, <1>3, SavesStream DEF SaveAnswer
<1>4. QED
  BY <1>2, <1>3

(* One part more, on screen and in what has arrived.                       *)
LEMMA GrownThread ==
  ASSUME StreamInv, NEW s \in Send, NEW r \in Sending,
         send[s].at \in {"asking", "refreshing", "cut"},
         send' = [send EXCEPT ![s] = r], r.parts = send[s].parts + 1,
         r.at \in {"asking", "done"}, messages' = Placeholder(s, Longer)
  PROVE  messages' \in Seq(Shown) /\ send' \in [Send -> Sending] /\ NothingEarly' /\ ThreadTrue'
<1> USE DEF StreamInv
<1>1. send'[s] = r /\ \A k \in Send : k # s => send'[k] = send[k]
  BY DEF PageTyped
<1>2. send' \in [Send -> Sending] /\ send[s].parts \in Nat
  BY DEF PageTyped, Sending
<1>3. NothingEarly'
  BY <1>1 DEF NothingEarly
<1>4. ASSUME NEW i \in DOMAIN messages
      PROVE  messages'[i] \in Faithful'
  <2> DEFINE m == messages[i]
  <2>1. m \in Shown /\ True(m)
    BY DEF ThreadTrue, Faithful
  <2>2. CASE m.turn = s /\ m.role = "assistant" /\ ~m.final
    <3>1. messages'[i] = [m EXCEPT !.parts = @ + 1]
      BY <2>2 DEF Placeholder, Longer
    <3>2. m.parts = send[s].parts
      BY <2>1, <2>2 DEF True
    <3> HIDE DEF m
    <3>3. /\ messages'[i] \in Shown /\ messages'[i].turn = s
          /\ ~ messages'[i].final /\ messages'[i].parts = r.parts
      BY <1>2, <2>1, <2>2, <3>1, <3>2 DEF Shown
    <3>4. True(messages[i])'
      BY <1>1, <1>2, <3>3 DEF True
    <3>5. QED
      BY <3>3, <3>4 DEF Faithful
  <2>3. CASE ~ (m.turn = s /\ m.role = "assistant" /\ ~m.final)
    <3>1. messages'[i] = m
      BY <2>3 DEF Placeholder
    <3> HIDE DEF m
    <3>2. True(messages[i])'
      BY <1>1, <2>1, <2>3, <3>1 DEF True, Shown
    <3>3. QED
      BY <2>1, <3>1, <3>2 DEF Faithful
  <2>4. QED
    BY <2>2, <2>3
<1>5. messages \in Seq(Shown) /\ messages' = [i \in DOMAIN messages |-> messages'[i]]
  BY DEF Placeholder, PageTyped
<1>6. messages' \in Seq(Faithful')
  BY <1>4, <1>5, Mapped
<1>7. QED
  BY <1>2, <1>3, <1>6, Wider DEF ThreadTrue, Faithful

(* A part arrives.                                                         *)
LEMMA DeltaStream ==
  ASSUME StreamInv, NEW s \in Send, Delta(s)
  PROVE  StreamInv'
<1> DEFINE r == [send[s] EXCEPT !.parts = @ + 1]
<1>1. /\ send[s].at = "asking" /\ messages' = Placeholder(s, Longer)
      /\ inFlight' = IF inFlight.turn = s THEN Longer(inFlight) ELSE inFlight
      /\ UNCHANGED <<created, stored, conversationId, load>>
  BY DEF Delta, AppendDelta, serverVars
<1>2. send \in [Send -> Sending] /\ inFlight \in [turn : Nat, parts : Nat]
  BY DEF StreamInv, PageTyped
<1>3. r \in Sending /\ r.parts = send[s].parts + 1 /\ r.at = "asking"
  BY <1>1, <1>2 DEF Sending
<1>4. send' = [send EXCEPT ![s] = r]
  BY DEF Delta
<1> HIDE DEF r
<1>5. messages' \in Seq(Shown) /\ send' \in [Send -> Sending] /\ NothingEarly' /\ ThreadTrue'
  BY <1>1, <1>3, <1>4, GrownThread
<1>6. inFlight' \in [turn : Nat, parts : Nat] /\ CopyTrue'
  <2>1. send'[s] = r /\ \A k \in Send : k # s => send'[k] = send[k]
    BY <1>2, <1>4
  <2>2. CASE inFlight.turn = s
    <3>1. inFlight' = [inFlight EXCEPT !.parts = @ + 1]
      BY <1>1, <2>2 DEF Longer
    <3>2. inFlight # NoTurn
      BY <2>2 DEF NoTurn, Send
    <3>3. /\ inFlight' \in [turn : Nat, parts : Nat] /\ inFlight'.turn = s
          /\ inFlight'.parts = inFlight.parts + 1
      BY <1>2, <2>2, <3>1
    <3>4. QED
      BY <1>3, <2>1, <2>2, <3>2, <3>3 DEF CopyTrue, StreamInv
  <2>3. CASE inFlight.turn # s
    BY <1>1, <1>2, <2>1, <2>3 DEF CopyTrue, StreamInv
  <2>4. QED
    BY <2>2, <2>3
<1>7. QED
  BY <1>1, <1>5, <1>6 DEF StreamInv, PageTyped

(* The request is over, and the message on screen says so.                 *)
LEMMA AskFailsStream ==
  ASSUME StreamInv, NEW s \in Send, AskFails(s)
  PROVE  StreamInv'
<1> DEFINE longer == send[s].parts + 1
           r == [send[s] EXCEPT !.at = "done", !.parts = longer]
<1>1. /\ send[s].at \in {"asking", "refreshing", "cut"}
      /\ messages' = Placeholder(s, Longer) /\ inFlight' = NoTurn
      /\ UNCHANGED <<created, stored, conversationId, load>>
  BY DEF AskFails, serverVars
<1>2. send[s] \in Sending
  BY DEF StreamInv, PageTyped
<1>3. send' = [send EXCEPT ![s] = r]
  BY DEF AskFails
<1>4. r \in Sending /\ r.parts = longer /\ r.at = "done"
  <2>1. longer \in Nat
    BY <1>2 DEF Sending
  <2> HIDE DEF longer
  <2>2. QED
    BY <1>2, <2>1 DEF Sending
<1> HIDE DEF r
<1>5. messages' \in Seq(Shown) /\ send' \in [Send -> Sending] /\ NothingEarly' /\ ThreadTrue'
  BY <1>1, <1>3, <1>4, GrownThread
<1>6. inFlight' \in [turn : Nat, parts : Nat] /\ CopyTrue'
  BY <1>1 DEF CopyTrue, NoTurn
<1>7. QED
  BY <1>1, <1>5, <1>6 DEF StreamInv, PageTyped

(* All parts have arrived when the last event makes the message final.     *)
LEMMA FinalizeStream ==
  ASSUME StreamInv, NEW s \in Send, FinalizeAnswer(s)
  PROVE  StreamInv'
<1> USE DEF StreamInv
<1> DEFINE r == [send[s] EXCEPT !.at = "refreshing"]
<1>1. /\ send[s].at = "asking" /\ send[s].parts = Parts
      /\ inFlight' = IF inFlight.turn = s THEN NoTurn ELSE inFlight
      /\ UNCHANGED <<created, stored, conversationId, load>>
  BY DEF FinalizeAnswer, serverVars
<1>2. send \in [Send -> Sending] /\ inFlight \in [turn : Nat, parts : Nat]
  BY DEF PageTyped
<1>3. r \in Sending /\ r.parts = Parts /\ r.at = "refreshing"
  BY <1>1, <1>2 DEF Sending
<1>4. send' = [send EXCEPT ![s] = r]
  BY DEF FinalizeAnswer
<1> HIDE DEF r
<1>5. send'[s] = r /\ \A k \in Send : k # s => send'[k] = send[k]
  BY <1>2, <1>4
<1>6. send' \in [Send -> Sending] /\ inFlight' \in [turn : Nat, parts : Nat]
  BY <1>1, <1>2, <1>3, <1>4 DEF NoTurn
<1>7. NothingEarly'
  BY <1>3, <1>5 DEF NothingEarly
<1>8. CopyTrue'
  BY <1>1, <1>5 DEF CopyTrue
<1>9. ASSUME NEW i \in DOMAIN messages
      PROVE  messages'[i] \in Faithful'
  <2> DEFINE m == messages[i]
  <2>1. m \in Shown /\ True(m)
    BY DEF ThreadTrue, Faithful
  <2>2. CASE m.turn = s /\ m.role = "assistant" /\ ~m.final
    <3>1. messages'[i] = [m EXCEPT !.final = TRUE]
      BY <2>2 DEF FinalizeAnswer, Placeholder
    <3>2. m.parts = Parts
      BY <1>1, <2>1, <2>2 DEF True
    <3> HIDE DEF m
    <3>3. messages'[i] \in Shown /\ messages'[i].final /\ messages'[i].parts = Parts
      BY <2>1, <3>1, <3>2 DEF Shown
    <3>4. True(messages[i])'
      BY <3>3 DEF True
    <3>5. QED
      BY <3>3, <3>4 DEF Faithful
  <2>3. CASE ~ (m.turn = s /\ m.role = "assistant" /\ ~m.final)
    <3>1. messages'[i] = m
      BY <2>3 DEF FinalizeAnswer, Placeholder
    <3> HIDE DEF m
    <3>2. True(messages[i])'
      BY <1>5, <2>1, <2>3, <3>1 DEF True, Shown
    <3>3. QED
      BY <2>1, <3>1, <3>2 DEF Faithful
  <2>4. QED
    BY <2>2, <2>3
<1>10. messages \in Seq(Shown) /\ messages' = [i \in DOMAIN messages |-> messages'[i]]
  BY DEF FinalizeAnswer, Placeholder, PageTyped
<1>11. messages' \in Seq(Faithful')
  BY <1>9, <1>10, Mapped
<1>12. ThreadTrue' /\ messages' \in Seq(Shown)
  BY <1>11, Wider DEF ThreadTrue, Faithful
<1>13. QED
  BY <1>1, <1>6, <1>7, <1>8, <1>12 DEF PageTyped

----------------------------------------------------------------------------
(* However often the user has gone elsewhere and come back, whatever is on *)
(* screen of an answer is all that has arrived of it, an error included,   *)
(* and no placeholder is left pending when its request is over, unless the *)
(* stream ended with nothing in it (loadConversation's re-attachment and   *)
(* send()'s handlers in chat.page.ts), whatever the server and the user do *)
(* meanwhile.                                                              *)

LEMMA StreamStep == StreamInv /\ [ChatPageNext]_chatPageVars => StreamInv'
<1> SUFFICES ASSUME StreamInv, [ChatPageNext]_chatPageVars PROVE StreamInv'
  OBVIOUS
<1>1. CASE UserMoves
  BY <1>1, NavigateStream, DeleteStream, EnterStream DEF UserMoves
<1>2. ASSUME NEW s \in Send, Answering(s) PROVE StreamInv'
  BY <1>2, CreatedStream, CreateFailsStream, ServerStream, DeltaStream, FinalizeStream,
     BreakOffStream, RefreshedStream, AskFailsStream DEF Answering
<1>3. ASSUME NEW l \in Load, Loading(l) PROVE StreamInv'
  BY <1>3, ReadStream, LoadedStream, LoadFailsStream DEF Loading
<1>4. CASE UNCHANGED chatPageVars
  <2>1. UNCHANGED <<created, stored, conversationId, messages, inFlight, send, load>>
    BY <1>4 DEF chatPageVars, serverVars, shownVars
  <2>2. NothingEarly' /\ CopyTrue' /\ ThreadTrue' /\ messages' \in Seq(Shown)
    BY <2>1, SameTruth
  <2>3. QED
    BY <2>1, <2>2 DEF StreamInv, PageTyped
<1>5. QED
  BY <1>1, <1>2, <1>3, <1>4 DEF ChatPageNext

THEOREM AnswersAreShownWhole == ChatPageSpec => []StreamShownWhole
<1>1. StreamInv => StreamShownWhole
  <2> SUFFICES ASSUME StreamInv, NEW i \in DOMAIN messages
               PROVE  LET m == messages[i]
                      IN  m.role = "assistant" =>
                            /\ m.parts = IF m.final THEN Parts ELSE send[m.turn].parts
                            /\ Pending(m) =>
                                 send[m.turn].at \in {"asking", "cut", "unanswered"}
    BY DEF StreamShownWhole
  <2>1. messages[i] \in Shown /\ True(messages[i])
    BY DEF StreamInv, ThreadTrue, Faithful
  <2>2. QED
    BY <2>1 DEF True, Pending, Shown
<1>2. QED
  BY <1>1, StreamInit, StreamStep, PTL DEF ChatPageSpec

----------------------------------------------------------------------------
(* CorpusPage: what the panes show is of what is selected, and of the sync *)
(* that was asked for.                                                     *)

Selection == Source \cup {None}
Document  == Selection \X Nat
Page      == [of : Document, page : Nat]

Fetches == [of : Selection, previous : Document, runs : 0..MaxRuns,
            for : {"user", "sync"}, at : {"idle", "asked", "read"}]
Syncs   == [at : {"idle", "polling", "listing", "chunks"}, of : Selection, due : {0, 1}]

ServerTyped ==
  /\ status \in [Source -> {"pending", "syncing", "settled"}]
  /\ runs \in [Source -> 0..MaxRuns]
  /\ \A s \in Source : /\ status[s] = "syncing" => runs[s] < MaxRuns
                       /\ status[s] = "settled" => runs[s] > 0

PanesTyped ==
  /\ sources \subseteq Source
  /\ selectedSourceId \in Selection /\ selectedDocumentId \in Document
  /\ documents \in [of : Selection, runs : 0..MaxRuns]
  /\ chunks \in Seq(Page) /\ nextPage \in Nat /\ totalChunks \in 0..Pages
  /\ more \in Page
  /\ disturbed \in BOOLEAN

CallsTyped ==
  /\ fetch \in [Call -> Fetches]
  /\ \A d \in Call : fetch[d].at # "idle" => fetch[d].of \in Source
  /\ sync \in Syncs

CorpusTyped == ServerTyped /\ PanesTyped /\ CallsTyped

(* The chunks are the first pages of the selected document, and the one    *)
(* asked for is the next.                                                  *)
ChunksInOrder ==
  /\ chunks = [i \in 1..Len(chunks) |-> [of |-> selectedDocumentId, page |-> i]]
  /\ Len(chunks) <= Pages
  /\ selectedDocumentId # NoDocument => nextPage = Len(chunks) + 1
  /\ more # NoMore =>
       /\ selectedDocumentId # NoDocument /\ Len(chunks) < Pages
       /\ more = [of |-> selectedDocumentId, page |-> nextPage]

(* Documents are asked for of the selected source, and shown once there.   *)
ShownIs(list, doc) ==
  IF DocumentsOf(list) = <<>> THEN doc = NoDocument ELSE Contains(DocumentsOf(list), doc)

FetchesAgree ==
  /\ \A d \in Call : fetch[d].at # "idle" => fetch[d].of = selectedSourceId
  /\ ~LoadingDocuments /\ selectedSourceId # None =>
       documents.of = selectedSourceId /\ ShownIs(documents, selectedDocumentId)

(* What was promised of the selected source is true of the server, and of  *)
(* every answer on its way.                                                *)
PromiseKept ==
  /\ promised # 0 => /\ selectedSourceId \in Source /\ promised = 1
                     /\ runs[selectedSourceId] >= 1
                     /\ \A d \in Call : fetch[d].at = "read" => fetch[d].runs >= 1
  /\ ~LoadingDocuments => documents.runs >= promised

CorpusInv ==
  /\ CorpusTyped /\ promised \in {0, 1}
  /\ ~disturbed => ChunksInOrder /\ FetchesAgree /\ PromiseKept

----------------------------------------------------------------------------
(* Numbers, documents.                                                     *)

LEMMA RunsNat == MaxRuns \in Nat
BY ListingAssumption DEF MaxRuns

(* The first of some sources is one of them.                               *)
LEMMA FirstKnown ==
  ASSUME NEW known, known \subseteq Source, known # {}
  PROVE  Min(known) \in known
<1>1. known \subseteq Nat
  BY SourcesAssumption
<1>2. PICK x \in known : \A y \in known : ~ (<<y, x>> \in OpToRel(<, Nat))
  BY <1>1, NatLessThanWellFounded, WFMin
<1>3. \A y \in known : x =< y
  <2> SUFFICES ASSUME NEW y \in known PROVE x =< y
    OBVIOUS
  <2>1. x \in Nat /\ y \in Nat /\ ~ (<<y, x>> \in OpToRel(<, Nat))
    BY <1>1, <1>2
  <2>2. ~ (y < x)
    BY <2>1 DEF OpToRel
  <2>3. x \in Nat /\ y \in Nat
    BY <1>1
  <2>4. QED
    BY <2>2, <2>3
<1>4. QED
  BY <1>3 DEF Min

(* The documents of a list are documents of its source.                    *)
LEMMA DocumentsTyped ==
  ASSUME NEW list \in [of : Selection, runs : 0..MaxRuns]
  PROVE  /\ DocumentsOf(list) \in Seq(Document)
         /\ \A i \in DOMAIN DocumentsOf(list) : DocumentsOf(list)[i] # NoDocument
<1>1. CASE list.of = None \/ list.runs = 0
  BY <1>1 DEF DocumentsOf
<1>2. CASE ~ (list.of = None \/ list.runs = 0)
  <2> DEFINE paths == Listing[list.runs]
             docs == [i \in DOMAIN paths |-> <<list.of, paths[i]>>]
  <2>1. list.of \in Source /\ list.of # None /\ list.runs \in 1..MaxRuns
    BY <1>2, RunsNat DEF Selection
  <2>2. paths \in Seq(Nat)
    BY <2>1, ListingAssumption DEF MaxRuns
  <2>3. DocumentsOf(list) = docs
    BY <1>2 DEF DocumentsOf
  <2> HIDE DEF paths
  <2>4. Len(paths) \in Nat /\ DOMAIN paths = 1..Len(paths)
    BY <2>2
  <2>5. \A i \in DOMAIN paths : <<list.of, paths[i]>> \in Document /\ <<list.of, paths[i]>> # NoDocument
    BY <2>1, <2>2, <2>4 DEF Document, Selection, NoDocument
  <2>6. docs \in Seq(Document)
    BY <2>4, <2>5
  <2>7. QED
    BY <2>3, <2>5, <2>6
<1>3. QED
  BY <1>1, <1>2

LEMMA NothingSelected ==
  NoDocument \in Document /\ NoMore \in Page /\ NoFetch \in Fetches /\ Idle \in Syncs
BY RunsNat DEF NoDocument, Document, Selection, None, NoMore, Page, NoFetch, Fetches, Idle, Syncs

----------------------------------------------------------------------------
(* The initial states.                                                     *)

LEMMA CorpusFirst == CorpusInit => CorpusInv
<1> SUFFICES ASSUME CorpusInit PROVE CorpusInv
  OBVIOUS
<1> USE DEF CorpusInit
<1>1. ServerTyped
  <2>1. Synced # {} => MaxRuns > 0
    BY ListingAssumption DEF MaxRuns
  <2>2. QED
    BY <2>1, RunsNat DEF ServerTyped
<1>2. PanesTyped
  <2>1. 0 \in 0..Pages /\ 0 \in 0..MaxRuns /\ None \in Selection
    BY RunsNat, ListingAssumption DEF Selection
  <2>2. documents \in [of : Selection, runs : 0..MaxRuns]
    BY <2>1
  <2>3. <<>> \in Seq(Page) /\ 1 \in Nat /\ FALSE \in BOOLEAN
    OBVIOUS
  <2>4. QED
    BY <2>1, <2>2, <2>3, NothingSelected, Zenon DEF PanesTyped
<1>3. CallsTyped
  BY NothingSelected DEF CallsTyped, NoFetch
<1>4. ~LoadingDocuments
  BY DEF LoadingDocuments, NoFetch
<1>5. ChunksInOrder
  BY ListingAssumption DEF ChunksInOrder
<1>6. FetchesAgree /\ PromiseKept
  BY DEF FetchesAgree, PromiseKept, NoFetch
<1>7. QED
  BY <1>1, <1>2, <1>3, <1>5, <1>6 DEF CorpusInv, CorpusTyped

----------------------------------------------------------------------------
(* Chunks.                                                                 *)

(* A document is selected, with none of its chunks.                        *)
LEMMA SelectKeeps ==
  ASSUME CorpusInv, NEW doc \in Document, Select(doc)
  PROVE  /\ selectedDocumentId' = doc /\ chunks' \in Seq(Page) /\ nextPage' \in Nat
         /\ totalChunks' \in 0..Pages /\ more' \in Page
         /\ ~disturbed /\ ~LoadingChunks => ChunksInOrder'
<1> USE DEF CorpusInv, CorpusTyped, PanesTyped
<1>1. /\ selectedDocumentId' = doc /\ chunks' = <<>> /\ nextPage' = 1 /\ totalChunks' = totalChunks
      /\ more' = IF doc = NoDocument \/ LoadingChunks THEN more ELSE [of |-> doc, page |-> 1]
  BY DEF Select
<1>2. more' \in Page
  BY <1>1 DEF Page
<1>3. ~LoadingChunks => ChunksInOrder'
  BY <1>1, ListingAssumption DEF ChunksInOrder, LoadingChunks
<1>4. QED
  BY <1>1, <1>2, <1>3

LEMMA SelectDocumentStep ==
  ASSUME CorpusInv, NEW i \in DOMAIN DocumentsOf(documents), SelectDocument(i)
  PROVE  CorpusInv'
<1> DEFINE doc == DocumentsOf(documents)[i]
<1> USE DEF CorpusInv, CorpusTyped
<1>1. /\ Select(doc) /\ disturbed' = (disturbed \/ LoadingChunks)
      /\ UNCHANGED <<workerVars, sources, selectedSourceId, documents, fetch, sync, promised>>
  BY DEF SelectDocument
<1>2. doc \in Document /\ Contains(DocumentsOf(documents), doc) /\ DocumentsOf(documents) # <<>>
  <2>1. DocumentsOf(documents) \in Seq(Document)
    BY DocumentsTyped DEF PanesTyped
  <2>2. QED
    BY <2>1 DEF Contains
<1> HIDE DEF doc
<1>3. /\ selectedDocumentId' = doc /\ chunks' \in Seq(Page) /\ nextPage' \in Nat
      /\ totalChunks' \in 0..Pages /\ more' \in Page
      /\ ~disturbed /\ ~LoadingChunks => ChunksInOrder'
  BY <1>1, <1>2, SelectKeeps
<1>4. ServerTyped' /\ CallsTyped'
  BY <1>1 DEF ServerTyped, CallsTyped, workerVars
<1>5. PanesTyped'
  BY <1>1, <1>2, <1>3 DEF PanesTyped
<1>6. ~disturbed => FetchesAgree'
  BY <1>1, <1>2, <1>3 DEF FetchesAgree, LoadingDocuments, ShownIs, DocumentsOf
<1>7. ~disturbed => PromiseKept'
  BY <1>1 DEF PromiseKept, LoadingDocuments, workerVars
<1>8. QED
  BY <1>1, <1>3, <1>4, <1>5, <1>6, <1>7, Zenon

(* What the panes of documents and the promise depend on.                  *)
LEMMA DocumentsUntouched ==
  ASSUME CorpusInv,
         UNCHANGED <<workerVars, sources, selectedSourceId, documents, selectedDocumentId, fetch,
                     disturbed, promised>>
  PROVE  ServerTyped' /\ (~disturbed => FetchesAgree' /\ PromiseKept')
<1> USE DEF CorpusInv, CorpusTyped
<1>1. ServerTyped'
  BY DEF ServerTyped, workerVars
<1>2. ~disturbed => FetchesAgree'
  BY DEF FetchesAgree, LoadingDocuments, ShownIs, DocumentsOf
<1>3. ~disturbed => PromiseKept'
  BY DEF PromiseKept, LoadingDocuments, workerVars
<1>4. QED
  BY <1>1, <1>2, <1>3

LEMMA LoadMoreStep == ASSUME CorpusInv, LoadMore PROVE CorpusInv'
<1> USE DEF CorpusInv, CorpusTyped
<1>1. ServerTyped' /\ (~disturbed => FetchesAgree' /\ PromiseKept')
  BY DocumentsUntouched DEF LoadMore
<1>2. CallsTyped'
  BY DEF LoadMore, CallsTyped
<1>3. PanesTyped'
  BY DEF LoadMore, PanesTyped, Page
<1>4. ~disturbed => ChunksInOrder'
  <2> SUFFICES ASSUME ~disturbed PROVE ChunksInOrder'
    OBVIOUS
  <2>1. /\ selectedDocumentId # NoDocument /\ Len(chunks) < totalChunks
        /\ more' = [of |-> selectedDocumentId, page |-> nextPage]
        /\ UNCHANGED <<selectedDocumentId, chunks, nextPage>>
    BY DEF LoadMore
  <2>2. Len(chunks) \in Nat /\ totalChunks \in 0..Pages /\ Pages \in Nat
    BY ListingAssumption DEF PanesTyped
  <2>3. Len(chunks) < Pages
    BY <2>1, <2>2
  <2>4. QED
    BY <2>1, <2>3 DEF ChunksInOrder
<1>5. QED
  BY <1>1, <1>2, <1>3, <1>4 DEF LoadMore

(* Chunks have come or not; syncSelected, if it waited for them, is done.  *)
LEMMA ChunksOverKeeps ==
  ASSUME CorpusInv, ChunksOver, UNCHANGED fetch
  PROVE  CallsTyped' /\ more' = NoMore
BY NothingSelected DEF ChunksOver, CorpusInv, CorpusTyped, CallsTyped

LEMMA ChunksArriveStep == ASSUME CorpusInv, ChunksArrive PROVE CorpusInv'
<1> USE DEF CorpusInv, CorpusTyped
<1>1. /\ chunks' = Append(chunks, [of |-> more.of, page |-> more.page])
      /\ nextPage' = nextPage + 1 /\ totalChunks' = Pages /\ ChunksOver /\ LoadingChunks
      /\ UNCHANGED <<workerVars, sources, selectedSourceId, documents, selectedDocumentId, fetch,
                     disturbed, promised>>
  BY DEF ChunksArrive
<1>2. CallsTyped' /\ more' = NoMore
  BY <1>1, ChunksOverKeeps
<1>3. ServerTyped' /\ (~disturbed => FetchesAgree' /\ PromiseKept')
  BY <1>1, DocumentsUntouched
<1>4. chunks' \in Seq(Page)
  BY <1>1, AppendProperties DEF PanesTyped, Page
<1>5. PanesTyped'
  BY <1>1, <1>2, <1>4, NothingSelected, ListingAssumption DEF PanesTyped
<1>6. ~disturbed => ChunksInOrder'
  <2> SUFFICES ASSUME ~disturbed PROVE ChunksInOrder'
    OBVIOUS
  <2>1. /\ chunks = [i \in 1..Len(chunks) |-> [of |-> selectedDocumentId, page |-> i]]
        /\ selectedDocumentId # NoDocument /\ Len(chunks) < Pages
        /\ nextPage = Len(chunks) + 1
        /\ more = [of |-> selectedDocumentId, page |-> nextPage]
    BY <1>1 DEF ChunksInOrder, LoadingChunks
  <2>2. chunks \in Seq(Page) /\ Len(chunks) \in Nat
    BY DEF PanesTyped
  <2>3. Len(chunks') = Len(chunks) + 1
    BY <1>1, <2>2
  <2>4. ASSUME NEW i \in 1..Len(chunks')
        PROVE  chunks'[i] = [of |-> selectedDocumentId, page |-> i]
    <3>1. CASE i \in 1..Len(chunks)
      BY <1>1, <2>1, <2>2, <2>3, <3>1
    <3>2. CASE i = Len(chunks) + 1
      BY <1>1, <2>1, <2>2, <2>3, <3>2
    <3>3. QED
      BY <2>2, <2>3, <3>1, <3>2
  <2>5. chunks' = [i \in 1..Len(chunks') |-> [of |-> selectedDocumentId', page |-> i]]
    <3>1. DOMAIN chunks' = 1..Len(chunks') /\ chunks' = [i \in DOMAIN chunks' |-> chunks'[i]]
      BY <1>4
    <3>2. QED
      BY <1>1, <2>4, <3>1
  <2>6. QED
    BY <1>1, <1>2, <2>1, <2>2, <2>3, <2>5, ListingAssumption DEF ChunksInOrder
<1>7. QED
  BY <1>1, <1>2, <1>3, <1>5, <1>6

LEMMA ChunksFailStep == ASSUME CorpusInv, ChunksFail PROVE CorpusInv'
<1> USE DEF CorpusInv, CorpusTyped
<1>1. /\ ChunksOver
      /\ UNCHANGED <<workerVars, sources, selectedSourceId, documents, selectedDocumentId, chunks,
                     nextPage, totalChunks, fetch, disturbed, promised>>
  BY DEF ChunksFail
<1>2. CallsTyped' /\ more' = NoMore
  BY <1>1, ChunksOverKeeps
<1>3. ServerTyped' /\ (~disturbed => FetchesAgree' /\ PromiseKept')
  BY <1>1, DocumentsUntouched
<1>4. PanesTyped'
  BY <1>1, <1>2, NothingSelected DEF PanesTyped
<1>5. ~disturbed => ChunksInOrder'
  BY <1>1, <1>2 DEF ChunksInOrder
<1>6. QED
  BY <1>1, <1>2, <1>3, <1>4, <1>5

----------------------------------------------------------------------------
(* Documents.                                                              *)

(* A call is made, which is then the only one for what was asked for now.  *)
LEMMA BeginFetchKeeps ==
  ASSUME CallsTyped, NEW s \in Source, NEW previous \in Document,
         NEW for \in {"user", "sync"}, BeginFetch(s, previous, for)
  PROVE  /\ fetch' \in [Call -> Fetches] /\ LoadingDocuments'
         /\ \A d \in Call : fetch'[d].at # "idle" => fetch'[d].of \in Source
         /\ \A d \in Call : ~LoadingDocuments /\ fetch'[d].at # "idle" =>
              fetch'[d].of = s /\ fetch'[d].at = "asked"
<1> DEFINE asked == [of |-> s, previous |-> previous, runs |-> 0, for |-> for, at |-> "asked"]
<1>1. PICK d \in Call : fetch' = [fetch EXCEPT ![d] = asked]
  BY DEF BeginFetch
<1>2. fetch \in [Call -> Fetches] /\ \A e \in Call : fetch[e].at # "idle" => fetch[e].of \in Source
  BY DEF CallsTyped
<1>3. /\ asked \in Fetches /\ asked.at = "asked" /\ asked.of = s /\ asked.of \in Source
  BY RunsNat DEF Fetches, Selection
<1> HIDE DEF asked
<1>4. fetch'[d] = asked /\ \A e \in Call : e # d => fetch'[e] = fetch[e]
  BY <1>1, <1>2
<1>5. fetch' \in [Call -> Fetches]
  BY <1>1, <1>2, <1>3
<1>6. LoadingDocuments'
  BY <1>3, <1>4 DEF LoadingDocuments
<1>7. \A e \in Call : fetch'[e].at # "idle" => fetch'[e].of \in Source
  BY <1>2, <1>3, <1>4
<1>8. \A e \in Call : ~LoadingDocuments /\ fetch'[e].at # "idle" =>
        fetch'[e].of = s /\ fetch'[e].at = "asked"
  BY <1>3, <1>4 DEF LoadingDocuments
<1>9. QED
  BY <1>5, <1>6, <1>7, <1>8

(* A source is selected: both panes are emptied, its documents asked for.  *)
LEMMA SelectSourceKeeps ==
  ASSUME CorpusInv, NEW s \in Source, SelectSource(s), UNCHANGED <<workerVars, sync>>,
         sources' \subseteq Source, documents' \in [of : Selection, runs : 0..MaxRuns]
  PROVE  CorpusInv'
<1> USE DEF CorpusInv, CorpusTyped
<1>1. /\ selectedSourceId' = s /\ selectedDocumentId' = NoDocument /\ chunks' = <<>>
      /\ UNCHANGED <<nextPage, totalChunks, more>> /\ BeginFetch(s, NoDocument, "user")
      /\ disturbed' = (disturbed \/ LoadingChunks \/ LoadingDocuments) /\ promised' = 0
  BY DEF SelectSource
<1>2. /\ fetch' \in [Call -> Fetches] /\ LoadingDocuments'
      /\ \A d \in Call : fetch'[d].at # "idle" => fetch'[d].of \in Source
      /\ \A d \in Call : ~LoadingDocuments /\ fetch'[d].at # "idle" =>
           fetch'[d].of = s /\ fetch'[d].at = "asked"
  BY <1>1, BeginFetchKeeps, NothingSelected
<1>3. ServerTyped'
  BY DEF ServerTyped, workerVars
<1>4. PanesTyped'
  <2>1. <<>> \in Seq(Page) /\ s \in Selection /\ disturbed' \in BOOLEAN
    BY <1>1 DEF Selection
  <2>2. QED
    BY <1>1, <2>1, NothingSelected DEF PanesTyped
<1>5. CallsTyped'
  BY <1>2 DEF CallsTyped
<1>6. ~LoadingChunks => ChunksInOrder'
  BY <1>1, ListingAssumption DEF ChunksInOrder, LoadingChunks
<1>7. ~LoadingDocuments => FetchesAgree'
  BY <1>1, <1>2 DEF FetchesAgree
<1>8. PromiseKept'
  BY <1>1, <1>2 DEF PromiseKept
<1>9. QED
  BY <1>1, <1>3, <1>4, <1>5, <1>6, <1>7, <1>8

(* The query parameter, with the sources there are.                        *)
LEMMA SubscribedKeeps ==
  ASSUME CorpusInv, NEW s, NEW known, known \subseteq Source, Subscribed(s, known),
         UNCHANGED <<workerVars, sources, documents, sync>>
  PROVE  CorpusInv'
<1> DEFINE target == IF s \in known THEN s ELSE Min(known)
<1> USE DEF CorpusInv, CorpusTyped
<1>1. CASE known # {} /\ target # selectedSourceId
  <2>1. target \in Source /\ SelectSource(target)
    BY <1>1, FirstKnown DEF Subscribed
  <2> HIDE DEF target
  <2>2. QED
    BY <2>1, SelectSourceKeeps DEF PanesTyped
<1>2. CASE ~ (known # {} /\ target # selectedSourceId)
  <2>1. UNCHANGED <<selectedSourceId, chunkVars, fetch, disturbed, promised>>
    BY <1>2 DEF Subscribed
  <2>2. ServerTyped' /\ (~disturbed => FetchesAgree' /\ PromiseKept')
    BY <2>1, DocumentsUntouched DEF chunkVars
  <2>3. PanesTyped' /\ CallsTyped'
    BY <2>1 DEF PanesTyped, CallsTyped, chunkVars
  <2>4. ~disturbed => ChunksInOrder'
    BY <2>1 DEF ChunksInOrder, chunkVars
  <2>5. QED
    BY <2>1, <2>2, <2>3, <2>4
<1>3. QED
  BY <1>1, <1>2

LEMMA OpenStep ==
  ASSUME CorpusInv, NEW s, Arrive(s) \/ OpenSource(s)
  PROVE  CorpusInv'
<1>1. /\ Subscribed(s, sources) /\ sources \subseteq Source
      /\ UNCHANGED <<workerVars, sources, documents, sync>>
  BY DEF Arrive, OpenSource, CorpusInv, CorpusTyped, PanesTyped
<1>2. QED
  BY <1>1, SubscribedKeeps

(* Everything on screen as it was.                                         *)
LEMMA PanesUntouched ==
  ASSUME CorpusInv,
         UNCHANGED <<sources, selectedSourceId, documents, chunkVars, disturbed>>
  PROVE  PanesTyped' /\ (~disturbed => ChunksInOrder')
BY DEF CorpusInv, CorpusTyped, PanesTyped, ChunksInOrder, chunkVars

(* The server reads for a call: what it reads is as of its last sync.      *)
LEMMA ReadDocumentsStep ==
  ASSUME CorpusInv, NEW d \in Call, ReadDocuments(d)
  PROVE  CorpusInv'
<1> USE DEF CorpusInv, CorpusTyped
<1>1. /\ fetch[d].at = "asked"
      /\ fetch' = [fetch EXCEPT ![d].at = "read", ![d].runs = runs[fetch[d].of]]
      /\ UNCHANGED <<workerVars, sources, selectedSourceId, documents, chunkVars, sync,
                     disturbed, promised>>
  BY DEF ReadDocuments
<1>2. /\ fetch \in [Call -> Fetches] /\ fetch[d] \in Fetches /\ fetch[d].of \in Source
      /\ runs[fetch[d].of] \in 0..MaxRuns
  BY <1>1 DEF CallsTyped, ServerTyped
<1>3. /\ fetch'[d] = [fetch[d] EXCEPT !.at = "read", !.runs = runs[fetch[d].of]]
      /\ \A e \in Call : e # d => fetch'[e] = fetch[e]
  BY <1>1, <1>2
<1>4. /\ fetch'[d] \in Fetches /\ fetch'[d].of = fetch[d].of /\ fetch'[d].at = "read"
      /\ fetch'[d].runs = runs[fetch[d].of]
  BY <1>2, <1>3 DEF Fetches
<1>5. fetch' \in [Call -> Fetches]
  BY <1>1, <1>2, <1>4
<1>6. LoadingDocuments /\ LoadingDocuments'
  BY <1>1, <1>4 DEF LoadingDocuments
<1>7. ServerTyped' /\ CallsTyped'
  BY <1>1, <1>2, <1>3, <1>4, <1>5 DEF ServerTyped, CallsTyped, workerVars
<1>8. ~disturbed => FetchesAgree'
  BY <1>1, <1>3, <1>4, <1>6 DEF FetchesAgree
<1>9. ~disturbed => PromiseKept'
  BY <1>1, <1>3, <1>4, <1>6 DEF PromiseKept, FetchesAgree, workerVars
<1>10. QED
  BY <1>1, <1>7, <1>8, <1>9, PanesUntouched

(* An answer to a call: the documents are shown, and the one there was is  *)
(* selected anew, or the first.                                            *)
LEMMA DocumentsArriveStep ==
  ASSUME CorpusInv, NEW d \in Call, DocumentsArrive(d)
  PROVE  CorpusInv'
<1> DEFINE list == [of |-> fetch[d].of, runs |-> fetch[d].runs]
           docs == DocumentsOf(list)
           next == IF Contains(docs, fetch[d].previous) THEN fetch[d].previous
                   ELSE IF docs = <<>> THEN NoDocument ELSE Head(docs)
<1> USE DEF CorpusInv, CorpusTyped
<1>1. /\ fetch[d].at = "read" /\ documents' = list
      /\ IF next # NoDocument THEN Select(next)
         ELSE /\ selectedDocumentId' = NoDocument /\ chunks' = <<>>
              /\ UNCHANGED <<nextPage, totalChunks, more>>
      /\ sync' = IF fetch[d].for = "user" THEN sync
                 ELSE IF more' # more THEN [sync EXCEPT !.at = "chunks"] ELSE Idle
      /\ fetch' = [fetch EXCEPT ![d] = NoFetch]
      /\ disturbed' = (disturbed \/ LoadingChunks)
      /\ UNCHANGED <<workerVars, sources, selectedSourceId, promised>>
  BY DEF DocumentsArrive
<1>2. /\ fetch \in [Call -> Fetches] /\ fetch[d] \in Fetches /\ fetch[d].of \in Source
      /\ fetch[d].runs \in 0..MaxRuns /\ sync \in Syncs
  BY <1>1 DEF CallsTyped, Fetches
<1>3. list \in [of : Selection, runs : 0..MaxRuns]
  BY <1>2 DEF Selection
<1> HIDE DEF list
<1>4. docs \in Seq(Document) /\ \A i \in DOMAIN docs : docs[i] # NoDocument
  BY <1>3, DocumentsTyped
<1> HIDE DEF docs
<1>5. IF docs = <<>> THEN next = NoDocument
      ELSE Contains(docs, next) /\ next # NoDocument /\ next \in Document
  <2>1. CASE docs = <<>>
    BY <2>1 DEF Contains
  <2>2. CASE docs # <<>> /\ Contains(docs, fetch[d].previous)
    BY <1>4, <2>2 DEF Contains
  <2>3. CASE docs # <<>> /\ ~ Contains(docs, fetch[d].previous)
    <3>1. 1 \in DOMAIN docs /\ Head(docs) = docs[1] /\ 1 \in 1..Len(docs)
      BY <1>4, <2>3
    <3>2. QED
      BY <1>4, <2>3, <3>1 DEF Contains
  <2>4. QED
    BY <2>1, <2>2, <2>3
<1> HIDE DEF next
<1>6. next \in Document
  BY <1>5, NothingSelected
<1>7. /\ selectedDocumentId' = next /\ chunks' \in Seq(Page) /\ nextPage' \in Nat
      /\ totalChunks' \in 0..Pages /\ more' \in Page
      /\ ~disturbed /\ ~LoadingChunks => ChunksInOrder'
  <2>1. CASE next # NoDocument
    BY <1>1, <1>6, <2>1, SelectKeeps
  <2>2. CASE next = NoDocument
    <3>1. /\ selectedDocumentId' = next /\ chunks' = <<>>
          /\ UNCHANGED <<nextPage, totalChunks, more>>
      BY <1>1, <2>2
    <3>2. ~LoadingChunks => ChunksInOrder'
      BY <2>2, <3>1, ListingAssumption DEF ChunksInOrder, LoadingChunks
    <3>3. QED
      BY <3>1, <3>2 DEF PanesTyped
  <2>3. QED
    BY <2>1, <2>2
<1>8. ServerTyped'
  BY <1>1 DEF ServerTyped, workerVars
<1>9. PanesTyped'
  BY <1>1, <1>3, <1>6, <1>7 DEF PanesTyped
<1>10. fetch'[d] = NoFetch /\ \A e \in Call : e # d => fetch'[e] = fetch[e]
  BY <1>1, <1>2
<1>11. CallsTyped'
  <2>1. sync' \in Syncs
    <3>1. [sync EXCEPT !.at = "chunks"] \in Syncs
      BY <1>2 DEF Syncs
    <3>2. QED
      BY <1>1, <1>2, <3>1, NothingSelected
  <2>2. fetch' \in [Call -> Fetches]
    BY <1>1, <1>2, NothingSelected
  <2>3. NoFetch.at = "idle"
    BY DEF NoFetch
  <2>4. QED
    BY <1>10, <2>1, <2>2, <2>3 DEF CallsTyped
<1>12. ~disturbed => FetchesAgree'
  <2> SUFFICES ASSUME ~disturbed PROVE FetchesAgree'
    OBVIOUS
  <2>1. fetch[d].of = selectedSourceId /\ NoFetch.at = "idle"
    BY <1>1 DEF FetchesAgree, NoFetch
  <2>2. \A e \in Call : fetch'[e].at # "idle" => fetch'[e].of = selectedSourceId'
    BY <1>1, <1>10, <2>1 DEF FetchesAgree
  <2>3. documents'.of = selectedSourceId'
    BY <1>1, <2>1 DEF list
  <2>4. ShownIs(documents, selectedDocumentId)'
    <3>1. DocumentsOf(documents') = docs
      BY <1>1 DEF docs
    <3>2. IF docs = <<>> THEN next = NoDocument ELSE Contains(docs, next)
      BY <1>5
    <3>3. IF DocumentsOf(documents') = <<>> THEN selectedDocumentId' = NoDocument
          ELSE Contains(DocumentsOf(documents'), selectedDocumentId')
      BY <1>7, <3>1, <3>2
    <3>4. QED
      BY <3>3 DEF ShownIs, DocumentsOf
  <2>5. QED
    BY <2>2, <2>3, <2>4 DEF FetchesAgree
<1>13. ~disturbed => PromiseKept'
  <2> SUFFICES ASSUME ~disturbed PROVE PromiseKept'
    OBVIOUS
  <2>1. documents'.runs = fetch[d].runs
    BY <1>1 DEF list
  <2>2. fetch[d].runs \in Nat /\ promised \in {0, 1} /\ NoFetch.at = "idle"
    BY <1>2, RunsNat DEF NoFetch
  <2>3. fetch[d].runs >= promised
    BY <1>1, <2>2 DEF PromiseKept
  <2>4. QED
    BY <1>1, <1>10, <2>1, <2>2, <2>3 DEF PromiseKept, workerVars
<1>14. QED
  BY <1>1, <1>7, <1>8, <1>9, <1>11, <1>12, <1>13

LEMMA DocumentsFailStep ==
  ASSUME CorpusInv, NEW d \in Call, DocumentsFail(d)
  PROVE  CorpusInv'
<1> USE DEF CorpusInv, CorpusTyped
<1>1. /\ fetch' = [fetch EXCEPT ![d] = NoFetch]
      /\ sync' = (IF fetch[d].for = "user" THEN sync ELSE Idle)
      /\ disturbed' = TRUE
      /\ UNCHANGED <<workerVars, sources, selectedSourceId, documents, chunkVars, promised>>
  BY DEF DocumentsFail
<1>2. ServerTyped' /\ PanesTyped'
  BY <1>1 DEF ServerTyped, workerVars, PanesTyped, chunkVars
<1>3. CallsTyped'
  <2>1. sync' \in Syncs /\ fetch' \in [Call -> Fetches]
    BY <1>1, NothingSelected DEF CallsTyped
  <2>2. \A e \in Call : fetch'[e].at # "idle" => fetch'[e].of \in Source
    BY <1>1 DEF CallsTyped, NoFetch
  <2>3. QED
    BY <2>1, <2>2 DEF CallsTyped
<1>4. QED
  BY <1>1, <1>2, <1>3

(* A source is gone: another is selected, or nothing is promised any more. *)
LEMMA DeletedStep == ASSUME CorpusInv, Deleted PROVE CorpusInv'
<1> DEFINE known == sources \ {deleting}
           first == Min(known)
<1> USE DEF CorpusInv, CorpusTyped
<1>1. /\ sources' = known /\ documents' = [of |-> None, runs |-> 0]
      /\ IF known # {} /\ first # requested /\ first # selectedSourceId
         THEN requested' = first /\ SelectSource(first)
         ELSE /\ requested' = IF known = {} THEN requested ELSE first
              /\ selectedSourceId' = IF known = {} THEN None ELSE selectedSourceId
              /\ chunks' = <<>> /\ disturbed' = TRUE /\ promised' = 0
              /\ UNCHANGED <<selectedDocumentId, nextPage, totalChunks, more, fetch>>
      /\ UNCHANGED <<workerVars, sync>>
  BY DEF Deleted
<1>2. known \subseteq Source
  BY DEF PanesTyped
<1>3. documents' \in [of : Selection, runs : 0..MaxRuns]
  BY <1>1, RunsNat DEF Selection
<1>4. CASE known # {} /\ first # requested /\ first # selectedSourceId
  <2>1. first \in Source /\ SelectSource(first)
    BY <1>1, <1>2, <1>4, FirstKnown
  <2> HIDE DEF first, known
  <2>2. QED
    BY <1>1, <1>2, <1>3, <2>1, SelectSourceKeeps
<1>5. CASE ~ (known # {} /\ first # requested /\ first # selectedSourceId)
  <2> HIDE DEF first, known
  <2>1. /\ selectedSourceId' = IF known = {} THEN None ELSE selectedSourceId
        /\ chunks' = <<>> /\ disturbed' = TRUE /\ promised' = 0
        /\ UNCHANGED <<selectedDocumentId, nextPage, totalChunks, more, fetch>>
    BY <1>1, <1>5
  <2>2. ServerTyped' /\ CallsTyped'
    BY <1>1, <2>1 DEF ServerTyped, CallsTyped, workerVars
  <2>3. selectedSourceId' \in Selection /\ chunks' \in Seq(Page) /\ disturbed' \in BOOLEAN
    BY <2>1 DEF PanesTyped, Selection
  <2>4. PanesTyped'
    BY <1>1, <1>2, <1>3, <2>1, <2>3 DEF PanesTyped
  <2>5. QED
    BY <2>1, <2>2, <2>4
<1>6. QED
  BY <1>4, <1>5

----------------------------------------------------------------------------
(* Synchronisation.                                                        *)

(* The page as it was but for syncSelected.                                *)
LEMMA OnlySync ==
  ASSUME CorpusInv, sync' \in Syncs,
         UNCHANGED <<status, runs, sources, selectedSourceId, documents, chunkVars, fetch,
                     disturbed, promised>>
  PROVE  CorpusInv'
<1> USE DEF CorpusInv, CorpusTyped
<1>1. ServerTyped' /\ CallsTyped'
  BY DEF ServerTyped, CallsTyped
<1>2. PanesTyped' /\ (~disturbed => ChunksInOrder')
  BY PanesUntouched
<1>3. ~disturbed => FetchesAgree'
  BY DEF FetchesAgree, LoadingDocuments, ShownIs, DocumentsOf, chunkVars
<1>4. ~disturbed => PromiseKept'
  BY DEF PromiseKept, LoadingDocuments
<1>5. QED
  BY <1>1, <1>2, <1>3, <1>4

LEMMA DeleteStep == ASSUME CorpusInv, Delete PROVE CorpusInv'
<1>1. sync' \in Syncs
  BY DEF Delete, CorpusInv, CorpusTyped, CallsTyped
<1>2. QED
  BY <1>1, OnlySync DEF Delete, workerVars

LEMMA DeleteFailsStep == ASSUME CorpusInv, DeleteFails PROVE CorpusInv'
<1>1. sync' \in Syncs
  BY DEF DeleteFails, CorpusInv, CorpusTyped, CallsTyped
<1>2. QED
  BY <1>1, OnlySync DEF DeleteFails, workerVars

LEMMA SyncSelectedStep == ASSUME CorpusInv, SyncSelected PROVE CorpusInv'
<1>1. selectedSourceId \in Selection
  BY DEF CorpusInv, CorpusTyped, PanesTyped
<1>2. sync' \in Syncs
  BY <1>1 DEF SyncSelected, Syncs
<1>3. QED
  BY <1>2, OnlySync DEF SyncSelected

LEMMA SyncFailsStep == ASSUME CorpusInv, SyncFails PROVE CorpusInv'
<1>1. sync' \in Syncs
  BY NothingSelected DEF SyncFails
<1>2. QED
  BY <1>1, OnlySync DEF SyncFails, workerVars

(* The poll ends when the source is settled: it has been synced at least   *)
(* once, which is all that was promised.                                   *)
LEMMA PollEndsStep == ASSUME CorpusInv, PollEnds PROVE CorpusInv'
<1> DEFINE s == sync.of
<1> USE DEF CorpusInv, CorpusTyped
<1>1. /\ s \in sources => Settled(s)
      /\ IF s \in sources /\ s = selectedSourceId
         THEN /\ BeginFetch(s, selectedDocumentId, "sync")
              /\ sync' = [sync EXCEPT !.at = "listing"]
              /\ promised' = sync.due
              /\ disturbed' = (disturbed \/ LoadingDocuments)
         ELSE sync' = Idle /\ UNCHANGED <<fetch, promised, disturbed>>
      /\ UNCHANGED <<workerVars, sources, selectedSourceId, documents, chunkVars>>
  BY DEF PollEnds
<1>2. sync \in Syncs
  BY DEF CallsTyped
<1> HIDE DEF s
<1>3. CASE s \in sources /\ s = selectedSourceId
  <2>1. /\ s \in Source /\ BeginFetch(s, selectedDocumentId, "sync")
        /\ sync' = [sync EXCEPT !.at = "listing"] /\ promised' = sync.due
        /\ disturbed' = (disturbed \/ LoadingDocuments) /\ Settled(s)
    BY <1>1, <1>3 DEF PanesTyped
  <2>2. selectedDocumentId \in Document
    BY DEF PanesTyped
  <2>3. /\ fetch' \in [Call -> Fetches] /\ LoadingDocuments'
        /\ \A d \in Call : fetch'[d].at # "idle" => fetch'[d].of \in Source
        /\ \A d \in Call : ~LoadingDocuments /\ fetch'[d].at # "idle" =>
             fetch'[d].of = s /\ fetch'[d].at = "asked"
    BY <2>1, <2>2, BeginFetchKeeps
  <2>4. sync' \in Syncs /\ promised' \in {0, 1}
    BY <1>2, <2>1 DEF Syncs
  <2>5. ServerTyped' /\ CallsTyped'
    BY <1>1, <2>3, <2>4 DEF ServerTyped, CallsTyped, workerVars
  <2>6. PanesTyped' /\ (~disturbed => ChunksInOrder')
    <3>1. disturbed' \in BOOLEAN
      BY <2>1
    <3>2. PanesTyped'
      BY <1>1, <3>1 DEF PanesTyped, chunkVars
    <3>3. ~disturbed => ChunksInOrder'
      BY <1>1 DEF ChunksInOrder, chunkVars
    <3>4. QED
      BY <3>2, <3>3
  <2>7. ~LoadingDocuments => FetchesAgree'
    BY <1>1, <1>3, <2>3 DEF FetchesAgree
  <2>8. runs[s] \in Nat /\ runs[s] >= 1
    BY <2>1, RunsNat DEF Settled, ServerTyped
  <2>9. ~LoadingDocuments => PromiseKept'
    BY <1>1, <1>3, <2>1, <2>3, <2>4, <2>8 DEF PromiseKept, workerVars
  <2>10. QED
    BY <2>1, <2>4, <2>5, <2>6, <2>7, <2>9
<1>4. CASE ~ (s \in sources /\ s = selectedSourceId)
  <2>1. sync' = Idle /\ UNCHANGED <<fetch, promised, disturbed>>
    BY <1>1, <1>4
  <2>2. QED
    BY <1>1, <2>1, OnlySync, NothingSelected DEF workerVars
<1>5. QED
  BY <1>3, <1>4

(* A sync begins, or is over: there is one more.                           *)
LEMMA WorkerStep ==
  ASSUME CorpusInv, NEW s \in Source, Worker(s)
  PROVE  CorpusInv'
<1> USE DEF CorpusInv, CorpusTyped
<1>1. UNCHANGED <<sources, selectedSourceId, documents, chunkVars, fetch, sync, disturbed, promised>>
  BY DEF Worker
<1>2. ServerTyped' /\ \A k \in Source : runs'[k] \in Nat /\ runs'[k] >= runs[k]
  <2>1. CASE /\ queued[s] /\ status[s] # "syncing" /\ runs[s] < MaxRuns
             /\ status' = [status EXCEPT ![s] = "syncing"] /\ UNCHANGED runs
    BY <2>1, RunsNat DEF ServerTyped
  <2>2. CASE /\ status[s] = "syncing" /\ status' = [status EXCEPT ![s] = "settled"]
             /\ runs' = [runs EXCEPT ![s] = @ + 1]
    BY <2>2, RunsNat DEF ServerTyped
  <2>3. QED
    BY <2>1, <2>2 DEF Worker
<1>3. CallsTyped'
  BY <1>1 DEF CallsTyped
<1>4. PanesTyped' /\ (~disturbed => ChunksInOrder')
  BY <1>1, PanesUntouched
<1>5. ~disturbed => FetchesAgree'
  BY <1>1 DEF FetchesAgree, LoadingDocuments, ShownIs, DocumentsOf, chunkVars
<1>6. ~disturbed => PromiseKept'
  <2>1. \A k \in Source : runs[k] \in Nat
    BY RunsNat DEF ServerTyped
  <2>2. ASSUME PromiseKept PROVE PromiseKept'
    <3>1. selectedSourceId \in Source => (runs[selectedSourceId] >= 1 => runs'[selectedSourceId] >= 1)
      BY <1>2, <2>1
    <3>2. QED
      BY <1>1, <2>2, <3>1 DEF PromiseKept, LoadingDocuments
  <2>3. QED
    BY <2>2
<1>7. QED
  BY <1>1, <1>2, <1>3, <1>4, <1>5, <1>6

----------------------------------------------------------------------------
(* The invariant, and what it is for.                                      *)

LEMMA CorpusStep == CorpusInv /\ [CorpusNext]_corpusVars => CorpusInv'
<1> SUFFICES ASSUME CorpusInv, [CorpusNext]_corpusVars PROVE CorpusInv'
  OBVIOUS
<1>1. ASSUME NEW s \in Source \cup {None}, Arrive(s) PROVE CorpusInv'
  BY <1>1, OpenStep
<1>2. ASSUME NEW s \in Source, OpenSource(s) \/ Worker(s) PROVE CorpusInv'
  BY <1>2, OpenStep, WorkerStep
<1>3. ASSUME NEW i \in DOMAIN DocumentsOf(documents), SelectDocument(i) PROVE CorpusInv'
  BY <1>3, SelectDocumentStep
<1>4. ASSUME NEW d \in Call, ReadDocuments(d) \/ DocumentsArrive(d) \/ DocumentsFail(d)
      PROVE  CorpusInv'
  BY <1>4, ReadDocumentsStep, DocumentsArriveStep, DocumentsFailStep
<1>5. CASE LoadMore \/ ChunksArrive \/ ChunksFail
  BY <1>5, LoadMoreStep, ChunksArriveStep, ChunksFailStep
<1>6. CASE Delete \/ Deleted \/ DeleteFails \/ SyncSelected \/ PollEnds \/ SyncFails
  BY <1>6, DeleteStep, DeletedStep, DeleteFailsStep, SyncSelectedStep, PollEndsStep, SyncFailsStep
<1>7. CASE UNCHANGED corpusVars
  <2>1. sync \in Syncs
    BY DEF CorpusInv, CorpusTyped, CallsTyped
  <2>2. QED
    BY <1>7, <2>1, OnlySync DEF corpusVars, workerVars
<1>8. QED
  BY <1>1, <1>2, <1>3, <1>4, <1>5, <1>6, <1>7, Zenon DEF CorpusNext

(* The panes show the documents of the selected source and the chunks of   *)
(* the selected document from its first page on, each page once            *)
(* (corpus.page.ts), unless something was selected while what was there    *)
(* before was still loading.                                               *)
THEOREM PanesKeepTogether == CorpusSpec => []PanesAgree
<1>1. CorpusInv => PanesAgree
  BY DEF CorpusInv, PanesAgree, ChunksInOrder, FetchesAgree, ShownIs
<1>2. QED
  BY <1>1, CorpusFirst, CorpusStep, PTL DEF CorpusSpec

(* After the first sync of a source, whose status was pending, the         *)
(* documents shown are as of its end or later: pollUntilDone does not take *)
(* a pending source, which the worker has not yet picked up, for one that  *)
(* is done (sources.service.ts).  Nothing is said of the later syncs of a  *)
(* source, which that poll does take for done before they have begun.      *)
THEOREM FirstSyncIsWaitedFor == CorpusSpec => []FirstSyncIsShown
<1>1. CorpusInv => FirstSyncIsShown
  BY DEF CorpusInv, FirstSyncIsShown, PromiseKept
<1>2. QED
  BY <1>1, CorpusFirst, CorpusStep, PTL DEF CorpusSpec

=============================================================================
