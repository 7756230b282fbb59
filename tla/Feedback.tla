------------------------------ MODULE Feedback ------------------------------
(***************************************************************************)
(* The rating of one answer: the buttons of the chat page, which show a    *)
(* click before the server knows of it (chat.page.ts), and the Feedback    *)
(* row of the answer (analytics), which requests overtake each other to.   *)
(***************************************************************************)
EXTENDS Naturals

CONSTANTS
  Comment,    \* what a user may note
  MaxPosts, MaxLoads

Rating    == {"up", "down"}
NoComment == ""

(* No Feedback row; what the page makes of it.                             *)
Unrated == [rating |-> "none", comment |-> NoComment]

Post == 1..MaxPosts

ASSUME FeedbackAssumption == MaxPosts \in Nat /\ MaxLoads \in Nat

VARIABLES
  feedback, \* the Feedback row, one to one with its Message
  shown,    \* feedbackRating and feedbackComment of the message on screen
  view,     \* "thread", or elsewhere: "away", "asking" for it, "loading"
  copy,     \* the feedback that listMessages has read
  reads,    \* how many times it has
  post,     \* the calls of giveFeedback, in the order of the clicks
  crossed   \* history: what has come in the way of the requests

feedbackVars == <<feedback, shown, view, copy, reads, post, crossed>>

NoPost == [at |-> "idle", says |-> Unrated, back |-> Unrated, reads |-> 0]

FeedbackInit ==
  /\ feedback = Unrated /\ shown = Unrated /\ view = "thread"
  /\ copy = Unrated /\ reads = 0
  /\ post = [i \in Post |-> NoPost] /\ crossed = {}

Later(i) == i + 1 .. MaxPosts

(* No request of the page is out.                                          *)
Settled == \A i \in Post : post[i].at \in {"idle", "over", "reverted"}

Move(i, from, to) == post[i].at = from /\ post' = [post EXCEPT ![i].at = to]
Crossing(why, when) == IF when THEN {why} ELSE {}

----------------------------------------------------------------------------
(* The page.                                                               *)

(* The page shows f at once and asks the server for it; if that fails it   *)
(* shows again what it showed at the click.                                *)
Click(i, f) ==
  /\ view = "thread" /\ post[i].at = "idle"
  /\ \A j \in 1 .. i - 1 : post[j].at # "idle"
  /\ shown' = f
  /\ post' = [post EXCEPT ![i] =
                [at |-> "sent", says |-> f, back |-> shown, reads |-> reads]]
  /\ UNCHANGED <<feedback, view, copy, reads, crossed>>

Rate(i, r) == Click(i, [shown EXCEPT !.rating = r])

SaveComment(i, c) == shown.rating # "none" /\ Click(i, [shown EXCEPT !.comment = c])

(* Fault: the buttons stay as they were clicked.                           *)
RevertNothing(i) ==
  Move(i, "failed", "reverted") /\ UNCHANGED <<feedback, shown, view, copy, reads, crossed>>

(* giveFeedback throws.                                                    *)
Revert(i) ==
  /\ Move(i, "failed", "reverted")
  /\ shown' = IF view = "thread" THEN post[i].back ELSE shown
  /\ crossed' = crossed \cup Crossing("overtaken", \E j \in Later(i) : post[j].at # "idle")
  /\ UNCHANGED <<feedback, view, copy, reads>>

(* To another conversation and back.                                       *)
Leave ==
  /\ view = "thread" /\ view' = "away" /\ shown' = Unrated
  /\ UNCHANGED <<feedback, copy, reads, post, crossed>>

BeginLoad ==
  /\ view = "away" /\ reads < MaxLoads /\ view' = "asking"
  /\ UNCHANGED <<feedback, shown, copy, reads, post, crossed>>

Loaded ==
  /\ view = "loading" /\ view' = "thread" /\ shown' = copy
  /\ UNCHANGED <<feedback, copy, reads, post, crossed>>

----------------------------------------------------------------------------
(* The server.                                                             *)

(* MessageFeedbackView: update_or_create.  (The first rating of an answer  *)
(* fresh from its stream comes without a comment and leaves the row's      *)
(* alone: there is none, unless a later click was saved before.)           *)
Save(i) ==
  /\ Move(i, "sent", "saved")
  /\ feedback' = post[i].says
  /\ crossed' = crossed
       \cup Crossing("reordered", \E j \in Later(i) : post[j].at \in {"saved", "over"})
       \cup Crossing("reread", reads # post[i].reads)
  /\ UNCHANGED <<shown, view, copy, reads>>

(* MessageSerializer.get_feedback.  With no request out, what has come in  *)
(* the way of earlier ones does not matter any more.                       *)
ReadMessages ==
  /\ view = "asking" /\ view' = "loading"
  /\ copy' = feedback /\ reads' = reads + 1
  /\ crossed' = IF Settled THEN {} ELSE crossed
  /\ UNCHANGED <<feedback, shown, post>>

(* The answer arrives; it is lost; the request never got there.            *)
Answer(i) ==
  Move(i, "saved", "over") /\ UNCHANGED <<feedback, shown, view, copy, reads, crossed>>

Lose(i) ==
  Move(i, "saved", "failed") /\ crossed' = crossed \cup {"lost"}
  /\ UNCHANGED <<feedback, shown, view, copy, reads>>

Refuse(i) ==
  Move(i, "sent", "failed") /\ UNCHANGED <<feedback, shown, view, copy, reads, crossed>>

FeedbackNext ==
  \/ Leave \/ BeginLoad \/ ReadMessages \/ Loaded
  \/ \E i \in Post :
       \/ \E r \in Rating : Rate(i, r)
       \/ \E c \in Comment \cup {NoComment} : SaveComment(i, c)
       \/ Save(i) \/ Answer(i) \/ Lose(i) \/ Refuse(i) \/ Revert(i)

FeedbackSpec == FeedbackInit /\ [][FeedbackNext]_feedbackVars

----------------------------------------------------------------------------
(* What must hold.                                                         *)

AtRest == view = "thread" /\ Settled

(* When no request is out, the buttons show the Feedback row, however many *)
(* clicks, notes, failures and reloads there were - unless, since a reload *)
(* with no request out, requests were handled in another order, an answer  *)
(* was lost, the thread was read before an earlier click was saved, or a   *)
(* click failed after the next one.                                        *)
RatingsSettle == AtRest /\ crossed = {} => shown = feedback

=============================================================================
