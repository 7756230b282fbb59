---------------------------- MODULE MCKnowledge ----------------------------
(***************************************************************************)
(* Chunking, Retrieval, Feedback and Dashboard, which share no state, in   *)
(* one state space: a behaviour is about a document, a search, the rating  *)
(* of an answer, or the figures of a panel.                                *)
(***************************************************************************)
EXTENDS Chunking, Retrieval, Feedback, Dashboard

(* To ask for all sources is to ask for none in particular.                *)
Init == DocInit /\ SearchInit /\ asked # Source /\ FeedbackInit /\ DashboardInit

NoDocument == pages = <<>>

NoSearch ==
  /\ onOnce = {} /\ asked = {} /\ ~dated /\ pc = "lexical" /\ strategy = "lexical"
  /\ \A c \in Chunk : row[c] = "new"

NoRating == view = "thread" /\ reads = 0 /\ \A i \in Post : post[i].at = "idle"

NoPanel ==
  /\ at = "idle" /\ live = {} /\ origins = Origin
  /\ \A t \in Turn : turn[t] = "new"
  /\ \A c \in Passage : chunk[c] = "new"

(* A panel that is on display is not read again.                           *)
Next ==
  \/ NoSearch /\ NoRating /\ NoPanel
     /\ DocNext /\ UNCHANGED <<searchVars, feedbackVars, dashboardVars>>
  \/ NoDocument /\ NoRating /\ NoPanel
     /\ SearchNext /\ UNCHANGED <<docVars, feedbackVars, dashboardVars>>
  \/ NoDocument /\ NoSearch /\ NoPanel
     /\ FeedbackNext /\ UNCHANGED <<docVars, searchVars, dashboardVars>>
  \/ NoDocument /\ NoSearch /\ NoRating /\ at \notin {"status", "dashboard"}
     /\ DashboardNext /\ UNCHANGED <<docVars, searchVars, feedbackVars>>

Spec == Init /\ [][Next]_<<docVars, searchVars, feedbackVars, dashboardVars>>

----------------------------------------------------------------------------

MCWeight == [k \in Line |-> CASE k = "blank" -> 0 [] k = "text" -> 2 [] OTHER -> 1]
MCSourceOf == [c \in Chunk |-> IF c = 1 THEN "notes" ELSE "code"]
MCDocumentOf == <<1, 1>>
MCOriginOf == <<"library">>

=============================================================================
