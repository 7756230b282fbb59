-------------------------- MODULE AnalyticsProofs --------------------------
(***************************************************************************)
(* Proofs about Feedback, for any number of clicks and reloads, and about  *)
(* Dashboard, for any answers, documents and chunks.                       *)
(***************************************************************************)
EXTENDS Feedback, Dashboard, FiniteSetTheorems, TLAPS

----------------------------------------------------------------------------
(* Feedback: the last click that was not taken back is the one the row     *)
(* gets, however the clicks before it went.                                *)

Value == [rating : {"none", "up", "down"}, comment : Comment \cup {NoComment}]

Posts == [at : {"idle", "sent", "saved", "failed", "over", "reverted"},
          says : Value, back : Value, reads : Nat]

PageTyped ==
  /\ feedback \in Value /\ shown \in Value /\ copy \in Value
  /\ view \in {"thread", "away", "asking", "loading"}
  /\ reads \in Nat /\ post \in [Post -> Posts]

Clicked(i) == post[i].at # "idle"
Open(i)    == post[i].at \in {"sent", "failed"}
Stored(i)  == post[i].at \in {"saved", "over"}
Undone(i)  == post[i].at \in {"idle", "reverted"}

(* Clicks come in order, each after the last reading of the thread.        *)
InTurn ==
  /\ \A i, j \in Post : j < i /\ Clicked(i) => Clicked(j)
  /\ \A i \in Post : post[i].reads <= reads
  /\ \A i \in Post : view = "loading" /\ Clicked(i) => post[i].reads < reads

(* What the page shows: the last click that can still be saved, or the row *)
(* when there is none; a click takes back to the same.                     *)
ShowsClick ==
  \A i \in Post :
    /\ view = "thread" /\ post[i].at = "sent" /\ post[i].reads = reads
    /\ \A k \in Later(i) : Undone(k)
    => shown = post[i].says

ShowsRow == view = "thread" /\ (\A i \in Post : ~Open(i)) => shown = feedback

BackToClick ==
  \A i, j \in Post :
    /\ i < j /\ post[i].at = "sent" /\ post[i].reads = reads /\ Open(j)
    /\ \A k \in Post : i < k /\ k < j => post[k].at = "reverted"
    => post[j].back = post[i].says

BackToRow ==
  \A i \in Post :
    Open(i) /\ (\A k \in Post : k < i => ~Open(k)) /\ (\A k \in Later(i) : ~Stored(k))
      => post[i].back = feedback

ReadsRow == view = "loading" => copy = feedback

RatingInv ==
  /\ PageTyped /\ InTurn
  /\ crossed = {} => ShowsClick /\ ShowsRow /\ BackToClick /\ BackToRow /\ ReadsRow

LEMMA LaterPosts ==
  ASSUME NEW i \in Post, NEW k
  PROVE  k \in Later(i) <=> k \in Post /\ i < k
  BY FeedbackAssumption DEF Later, Post

LEMMA PostsOrdered ==
  ASSUME NEW i \in Post, NEW k \in Post
  PROVE  i < k \/ k < i \/ i = k
  BY FeedbackAssumption DEF Post

LEMMA RatingStart == FeedbackInit => RatingInv
<1> SUFFICES ASSUME FeedbackInit PROVE RatingInv
  OBVIOUS
<1>1. \A i \in Post : post[i] = NoPost
  BY DEF FeedbackInit
<1>2. Unrated \in Value /\ NoPost \in Posts
  BY DEF Unrated, Value, NoPost, Posts
<1>3. PageTyped
  BY <1>2 DEF FeedbackInit, PageTyped
<1>4. InTurn /\ ShowsClick /\ ShowsRow /\ BackToClick /\ BackToRow /\ ReadsRow
  BY <1>1 DEF FeedbackInit, NoPost, InTurn, Clicked, Open, ShowsClick, ShowsRow,
     BackToClick, BackToRow, ReadsRow
<1>5. QED
  BY <1>3, <1>4 DEF RatingInv

(* A request that moves on leaves the others alone.                        *)
LEMMA MoveRequest ==
  ASSUME PageTyped, InTurn, NEW i \in Post, NEW from,
         NEW to \in {"sent", "saved", "failed", "over", "reverted"}, from # "idle",
         Move(i, from, to),
         view' = view, reads' = reads
  PROVE  /\ post[i].at = from /\ post'[i].at = to
         /\ \A k \in Post : k # i => post'[k].at = post[k].at
         /\ \A k \in Post : /\ post'[k].says = post[k].says
                            /\ post'[k].back = post[k].back
                            /\ post'[k].reads = post[k].reads
         /\ post' \in [Post -> Posts] /\ InTurn'
<1>1. post[i].at = from /\ post' = [post EXCEPT ![i] = [post[i] EXCEPT !.at = to]]
  BY DEF Move, PageTyped
<1>2. post \in [Post -> Posts]
  BY DEF PageTyped
<1>3. [post[i] EXCEPT !.at = to] \in Posts
  BY <1>2 DEF Posts
<1>4. /\ post'[i].at = to
      /\ \A k \in Post : k # i => post'[k] = post[k]
      /\ post'[i].says = post[i].says /\ post'[i].back = post[i].back
      /\ post'[i].reads = post[i].reads
  BY <1>1, <1>2 DEF Posts
<1>5. post' \in [Post -> Posts]
  BY <1>1, <1>2, <1>3
<1>6. \A k \in Post : Clicked(k)' <=> Clicked(k)
  BY <1>1, <1>4 DEF Clicked
<1>7. \A k \in Post : post'[k].reads = post[k].reads
  BY <1>4
<1>8. InTurn'
  BY <1>6, <1>7 DEF InTurn
<1>9. QED
  BY <1>1, <1>4, <1>5, <1>7, <1>8

LEMMA ClickRating ==
  ASSUME RatingInv, NEW i \in Post, NEW f \in Value, Click(i, f)
  PROVE  RatingInv'
<1> DEFINE r == [at |-> "sent", says |-> f, back |-> shown, reads |-> reads]
<1>1. /\ view = "thread" /\ post[i].at = "idle"
      /\ \A j \in 1 .. i - 1 : post[j].at # "idle"
      /\ shown' = f /\ post' = [post EXCEPT ![i] = r]
      /\ UNCHANGED <<feedback, view, copy, reads, crossed>>
  BY DEF Click
<1>2. PageTyped /\ InTurn
  BY DEF RatingInv
<1>3. r \in Posts /\ r.at = "sent" /\ r.says = f /\ r.back = shown /\ r.reads = reads
  BY <1>2 DEF Posts, PageTyped
<1> HIDE DEF r
<1>4. post'[i] = r /\ \A k \in Post : k # i => post'[k] = post[k]
  BY <1>1, <1>2 DEF PageTyped
<1>5. PageTyped'
  BY <1>1, <1>2, <1>3 DEF PageTyped
<1>6. \A k \in Post : Clicked(k) => k < i
  <2> SUFFICES ASSUME NEW k \in Post, Clicked(k) PROVE k < i
    OBVIOUS
  <2>1. ~(i < k) /\ k # i
    BY <1>1, <1>2 DEF InTurn, Clicked
  <2>2. QED
    BY <2>1, PostsOrdered
<1>7. \A j \in Post : j < i => Clicked(j)
  <2>1. \A j \in Post : j < i => j \in 1 .. i - 1
    BY FeedbackAssumption DEF Post
  <2>2. QED
    BY <1>1, <2>1 DEF Clicked
<1>8. InTurn'
  <2>1. ASSUME NEW a \in Post, NEW b \in Post, b < a, Clicked(a)'
        PROVE  Clicked(b)'
    <3>1. b < i \/ b = i
      <4>1. CASE a = i
        BY <2>1, <4>1
      <4>2. CASE a # i
        <5>1. a < i
          BY <1>4, <1>6, <2>1, <4>2 DEF Clicked
        <5>2. QED
          BY <2>1, <5>1, FeedbackAssumption DEF Post
      <4>3. QED
        BY <4>1, <4>2
    <3>2. QED
      BY <1>3, <1>4, <1>7, <3>1 DEF Clicked
  <2>2. \A k \in Post : post'[k].reads <= reads
    BY <1>2, <1>3, <1>4 DEF InTurn, PageTyped
  <2>3. QED
    BY <1>1, <2>1, <2>2 DEF InTurn
<1>9. ASSUME crossed' = {}
      PROVE  ShowsClick' /\ ShowsRow' /\ BackToClick' /\ BackToRow' /\ ReadsRow'
  <2>1. ShowsClick /\ ShowsRow /\ BackToClick /\ BackToRow
    BY <1>1, <1>9 DEF RatingInv
  <2>2. ASSUME NEW a \in Post, post'[a].at = "sent", \A k \in Later(a) : Undone(k)'
        PROVE  shown' = post'[a].says
    <3>1. CASE a = i
      BY <1>1, <1>3, <1>4, <3>1
    <3>2. CASE a # i
      <4>1. a < i
        BY <1>4, <1>6, <2>2, <3>2 DEF Clicked
      <4>2. Undone(i)'
        BY <2>2, <4>1, LaterPosts
      <4>3. QED
        BY <1>3, <1>4, <4>2 DEF Undone
    <3>3. QED
      BY <3>1, <3>2
  <2>3. Open(i)'
    BY <1>3, <1>4 DEF Open
  <2>4. ASSUME NEW a \in Post, NEW b \in Post, a < b, post'[a].at = "sent",
               post'[a].reads = reads, Open(b)',
               \A k \in Post : a < k /\ k < b => post'[k].at = "reverted"
        PROVE  post'[b].back = post'[a].says
    <3>1. a # i /\ a < i
      <4>1. b = i \/ Clicked(b)
        BY <1>4, <2>4 DEF Open, Clicked
      <4>2. b = i \/ b < i
        BY <1>6, <4>1
      <4>3. QED
        BY <2>4, <4>2, FeedbackAssumption DEF Post
    <3>2. CASE b = i
      <4>1. \A k \in Later(a) : Undone(k)
        <5> SUFFICES ASSUME NEW k \in Post, a < k PROVE Undone(k)
          BY LaterPosts
        <5>1. CASE k < i
          BY <1>4, <2>4, <3>2, <5>1, FeedbackAssumption DEF Undone, Post
        <5>2. CASE ~(k < i)
          BY <1>6, <5>2 DEF Clicked, Undone
        <5>3. QED
          BY <5>1, <5>2
      <4>2. shown = post[a].says
        BY <1>1, <1>4, <2>1, <2>4, <3>1, <4>1 DEF ShowsClick
      <4>3. QED
        BY <1>3, <1>4, <3>1, <3>2, <4>2
    <3>3. CASE b # i
      <4>1. b < i /\ Open(b)
        BY <1>4, <1>6, <2>4, <3>3 DEF Open, Clicked
      <4>2. \A k \in Post : a < k /\ k < b => post[k].at = "reverted"
        BY <1>4, <2>4, <4>1, FeedbackAssumption DEF Post
      <4>3. QED
        BY <1>4, <2>1, <2>4, <3>1, <3>3, <4>1, <4>2 DEF BackToClick
    <3>4. QED
      BY <3>2, <3>3
  <2>5. ASSUME NEW a \in Post, Open(a)', \A k \in Post : k < a => ~Open(k)',
               \A k \in Later(a) : ~Stored(k)'
        PROVE  post'[a].back = feedback
    <3>1. CASE a = i
      <4>1. \A k \in Post : ~Open(k)
        <5> SUFFICES ASSUME NEW k \in Post, Open(k) PROVE FALSE
          OBVIOUS
        <5>1. k < i /\ k # i
          BY <1>1, <1>6 DEF Open, Clicked
        <5>2. QED
          BY <1>4, <2>5, <3>1, <5>1 DEF Open
      <4>2. QED
        BY <1>1, <1>3, <1>4, <2>1, <3>1, <4>1 DEF ShowsRow
    <3>2. CASE a # i
      <4>1. Open(a) /\ a < i
        BY <1>4, <1>6, <2>5, <3>2 DEF Open, Clicked
      <4>2. \A k \in Post : k < a => ~Open(k)
        BY <1>4, <2>5, <4>1, FeedbackAssumption DEF Open, Post
      <4>3. \A k \in Later(a) : ~Stored(k)
        BY <1>1, <1>4, <2>5, LaterPosts DEF Stored
      <4>4. QED
        BY <1>4, <2>1, <3>2, <4>1, <4>2, <4>3 DEF BackToRow
    <3>3. QED
      BY <3>1, <3>2
  <2>6. ShowsClick'
    BY <1>1, <2>2 DEF ShowsClick
  <2>7. ShowsRow' /\ ReadsRow'
    BY <1>1, <2>3 DEF ShowsRow, ReadsRow
  <2>8. BackToClick'
    BY <1>1, <2>4 DEF BackToClick
  <2>9. BackToRow'
    BY <1>1, <2>5 DEF BackToRow
  <2>10. QED
    BY <2>6, <2>7, <2>8, <2>9
<1>10. QED
  BY <1>5, <1>8, <1>9 DEF RatingInv

(* The server saves the oldest click that is out, and what the buttons     *)
(* show is what it says, or a later one is out.                            *)
LEMMA SaveRatingKept ==
  ASSUME RatingInv, NEW i \in Post, Save(i)
  PROVE  RatingInv'
<1>1. /\ Move(i, "sent", "saved") /\ feedback' = post[i].says
      /\ UNCHANGED <<shown, view, copy, reads>>
      /\ crossed' = {} => /\ crossed = {} /\ reads = post[i].reads
                          /\ \A j \in Later(i) : ~Stored(j)
  BY DEF Save, Crossing, Stored
<1>2. PageTyped /\ InTurn
  BY DEF RatingInv
<1>3. /\ post[i].at = "sent" /\ post'[i].at = "saved"
      /\ \A k \in Post : k # i => post'[k].at = post[k].at
      /\ \A k \in Post : /\ post'[k].says = post[k].says
                         /\ post'[k].back = post[k].back
                         /\ post'[k].reads = post[k].reads
      /\ post' \in [Post -> Posts] /\ InTurn'
  BY <1>1, <1>2, MoveRequest
<1>4. PageTyped'
  <2>1. post[i].says \in Value
    BY <1>2 DEF PageTyped, Posts
  <2>2. QED
    BY <1>1, <1>2, <1>3, <2>1 DEF PageTyped
<1>5. ASSUME crossed' = {}
      PROVE  ShowsClick' /\ ShowsRow' /\ BackToClick' /\ BackToRow' /\ ReadsRow'
  <2>1. /\ ShowsClick /\ BackToClick
        /\ reads = post[i].reads /\ \A j \in Later(i) : ~Stored(j)
    BY <1>1, <1>5 DEF RatingInv
  <2>2. ASSUME NEW a \in Post, view = "thread", post'[a].at = "sent",
               post'[a].reads = reads, \A k \in Later(a) : Undone(k)'
        PROVE  shown = post'[a].says
    <3>1. ~(a < i) /\ a # i
      BY <1>3, <2>2, LaterPosts DEF Undone
    <3>2. \A k \in Later(a) : Undone(k)
      <4> SUFFICES ASSUME NEW k \in Post, a < k PROVE Undone(k)
        BY LaterPosts
      <4>1. k # i /\ k \in Later(a)
        BY <3>1, LaterPosts
      <4>2. QED
        BY <1>3, <2>2, <4>1 DEF Undone
    <3>3. QED
      BY <1>3, <2>1, <2>2, <3>1, <3>2 DEF ShowsClick
  <2>3. ASSUME view = "thread", \A k \in Post : ~Open(k)'
        PROVE  shown = feedback'
    <3>1. \A k \in Later(i) : Undone(k)
      <4> SUFFICES ASSUME NEW k \in Post, i < k PROVE Undone(k)
        BY LaterPosts
      <4>1. k # i /\ ~Stored(k) /\ post[k] \in Posts
        BY <1>2, <2>1, LaterPosts, FeedbackAssumption DEF Post, PageTyped
      <4>2. ~Open(k)
        BY <1>3, <2>3, <4>1 DEF Open
      <4>3. QED
        BY <4>1, <4>2 DEF Posts, Open, Stored, Undone
    <3>2. QED
      BY <1>1, <1>3, <2>1, <2>3, <3>1 DEF ShowsClick
  <2>4. ASSUME NEW a \in Post, NEW b \in Post, a < b, post'[a].at = "sent",
               post'[a].reads = reads, Open(b)',
               \A k \in Post : a < k /\ k < b => post'[k].at = "reverted"
        PROVE  post'[b].back = post'[a].says
    <3>1. a # i /\ b # i /\ post[a].at = "sent" /\ Open(b)
      BY <1>3, <2>4 DEF Open
    <3>2. \A k \in Post : a < k /\ k < b => post[k].at = "reverted"
      BY <1>3, <2>4
    <3>3. QED
      BY <1>3, <2>1, <2>4, <3>1, <3>2 DEF BackToClick
  <2>5. ASSUME NEW a \in Post, Open(a)', \A k \in Post : k < a => ~Open(k)',
               \A k \in Later(a) : ~Stored(k)'
        PROVE  post'[a].back = feedback'
    <3>1. a # i /\ ~(a < i) /\ Open(a)
      BY <1>3, <2>5, LaterPosts DEF Open, Stored
    <3>2. i < a
      BY <3>1, PostsOrdered
    <3>3. ASSUME NEW k \in Post, i < k, k < a
          PROVE  post[k].at = "reverted"
      <4>1. k # i /\ ~Stored(k) /\ post[k] \in Posts
        BY <1>2, <2>1, <3>3, LaterPosts, FeedbackAssumption DEF Post, PageTyped
      <4>2. ~Open(k) /\ Clicked(k)
        BY <1>2, <1>3, <2>5, <3>1, <3>3, <4>1 DEF Open, InTurn, Clicked
      <4>3. QED
        BY <4>1, <4>2 DEF Posts, Open, Stored, Clicked
    <3>4. post[a].back = post[i].says
      BY <1>3, <2>1, <3>1, <3>2, <3>3 DEF BackToClick
    <3>5. QED
      BY <1>1, <1>3, <3>4
  <2>6. view # "loading"
    BY <1>2, <1>3, <2>1 DEF InTurn, Clicked, PageTyped
  <2>7. ShowsClick'
    BY <1>1, <2>2 DEF ShowsClick
  <2>8. ShowsRow'
    BY <1>1, <2>3 DEF ShowsRow
  <2>9. BackToClick'
    BY <1>1, <2>4 DEF BackToClick
  <2>10. BackToRow' /\ ReadsRow'
    BY <1>1, <2>5, <2>6 DEF BackToRow, ReadsRow
  <2>11. QED
    BY <2>7, <2>8, <2>9, <2>10
<1>6. QED
  BY <1>3, <1>4, <1>5 DEF RatingInv

(* A click that nobody clicked after takes the buttons back to the click   *)
(* before it that can still be saved, or to the row.                       *)
LEMMA RevertRating ==
  ASSUME RatingInv, NEW i \in Post, Revert(i)
  PROVE  RatingInv'
<1>1. /\ Move(i, "failed", "reverted") /\ UNCHANGED <<feedback, view, copy, reads>>
      /\ shown' = IF view = "thread" THEN post[i].back ELSE shown
      /\ crossed' = {} => crossed = {} /\ \A j \in Later(i) : ~Clicked(j)
  BY DEF Revert, Crossing, Clicked
<1>2. PageTyped /\ InTurn
  BY DEF RatingInv
<1>3. /\ post[i].at = "failed" /\ post'[i].at = "reverted"
      /\ \A k \in Post : k # i => post'[k].at = post[k].at
      /\ \A k \in Post : /\ post'[k].says = post[k].says
                         /\ post'[k].back = post[k].back
                         /\ post'[k].reads = post[k].reads
      /\ post' \in [Post -> Posts] /\ InTurn'
  BY <1>1, <1>2, MoveRequest
<1>4. PageTyped'
  <2>1. post[i].back \in Value
    BY <1>2 DEF PageTyped, Posts
  <2>2. QED
    BY <1>1, <1>2, <1>3, <2>1 DEF PageTyped
<1>5. ASSUME crossed' = {}
      PROVE  ShowsClick' /\ ShowsRow' /\ BackToClick' /\ BackToRow' /\ ReadsRow'
  <2>1. /\ ShowsClick /\ BackToClick /\ BackToRow /\ ReadsRow
        /\ \A j \in Later(i) : ~Clicked(j)
    BY <1>1, <1>5 DEF RatingInv
  <2>2. \A k \in Post : Clicked(k) => k < i \/ k = i
    BY <2>1, LaterPosts, PostsOrdered
  <2>3. ASSUME NEW a \in Post, view = "thread", post'[a].at = "sent",
               post'[a].reads = reads, \A k \in Later(a) : Undone(k)'
        PROVE  shown' = post'[a].says
    <3>1. a # i /\ post[a].at = "sent" /\ a < i
      BY <1>3, <2>2, <2>3 DEF Clicked
    <3>2. ASSUME NEW k \in Post, a < k, k < i
          PROVE  post[k].at = "reverted"
      <4>1. k # i /\ k \in Later(a) /\ Clicked(k)
        BY <1>2, <1>3, <3>2, LaterPosts, FeedbackAssumption DEF Post, InTurn, Clicked
      <4>2. QED
        BY <1>3, <2>3, <4>1 DEF Undone, Clicked
    <3>3. post[i].back = post[a].says
      BY <1>3, <2>1, <2>3, <3>1, <3>2 DEF BackToClick, Open
    <3>4. QED
      BY <1>1, <1>3, <2>3, <3>3
  <2>4. ASSUME view = "thread", \A k \in Post : ~Open(k)'
        PROVE  shown' = feedback
    <3>1. \A k \in Post : k < i => ~Open(k)
      BY <1>3, <2>4, FeedbackAssumption DEF Open, Post
    <3>2. \A k \in Later(i) : ~Stored(k)
      BY <2>1 DEF Stored, Clicked
    <3>3. post[i].back = feedback
      BY <1>3, <2>1, <3>1, <3>2 DEF BackToRow, Open
    <3>4. QED
      BY <1>1, <2>4, <3>3
  <2>5. ASSUME NEW a \in Post, NEW b \in Post, a < b, post'[a].at = "sent",
               post'[a].reads = reads, Open(b)',
               \A k \in Post : a < k /\ k < b => post'[k].at = "reverted"
        PROVE  post'[b].back = post'[a].says
    <3>1. a # i /\ b # i /\ post[a].at = "sent" /\ Open(b) /\ b < i
      BY <1>3, <2>2, <2>5 DEF Open, Clicked
    <3>2. \A k \in Post : a < k /\ k < b => post[k].at = "reverted"
      BY <1>3, <2>5, <3>1, FeedbackAssumption DEF Post
    <3>3. QED
      BY <1>3, <2>1, <2>5, <3>1, <3>2 DEF BackToClick
  <2>6. ASSUME NEW a \in Post, Open(a)', \A k \in Post : k < a => ~Open(k)',
               \A k \in Later(a) : ~Stored(k)'
        PROVE  post'[a].back = feedback
    <3>1. a # i /\ Open(a) /\ a < i
      BY <1>3, <2>2, <2>6 DEF Open, Clicked
    <3>2. \A k \in Post : k < a => ~Open(k)
      BY <1>3, <2>6, <3>1, FeedbackAssumption DEF Open, Post
    <3>3. \A k \in Later(a) : ~Stored(k)
      BY <1>3, <2>6, LaterPosts DEF Stored
    <3>4. QED
      BY <1>3, <2>1, <3>1, <3>2, <3>3 DEF BackToRow
  <2>7. ShowsClick'
    BY <1>1, <2>3 DEF ShowsClick
  <2>8. ShowsRow' /\ ReadsRow'
    BY <1>1, <2>1, <2>4 DEF ShowsRow, ReadsRow
  <2>9. BackToClick'
    BY <1>1, <2>5 DEF BackToClick
  <2>10. BackToRow'
    BY <1>1, <2>6 DEF BackToRow
  <2>11. QED
    BY <2>7, <2>8, <2>9, <2>10
<1>6. QED
  BY <1>3, <1>4, <1>5 DEF RatingInv

(* An answer, or a refusal, leaves what is open, stored or undone as it is; *)
(* and an answer that is lost is remembered.                               *)
LEMMA OutcomeRating ==
  ASSUME RatingInv, NEW i \in Post, Answer(i) \/ Refuse(i) \/ Lose(i)
  PROVE  RatingInv'
<1>1. PageTyped /\ InTurn /\ UNCHANGED <<feedback, shown, view, copy, reads>>
  BY DEF RatingInv, Answer, Refuse, Lose
<1>2. /\ \A k \in Post : /\ post'[k].says = post[k].says
                         /\ post'[k].back = post[k].back
                         /\ post'[k].reads = post[k].reads
      /\ post' \in [Post -> Posts] /\ InTurn'
  BY <1>1, MoveRequest DEF Answer, Refuse, Lose
<1>3. PageTyped'
  BY <1>1, <1>2 DEF PageTyped
<1>4. ASSUME crossed' = {}
      PROVE  ShowsClick' /\ ShowsRow' /\ BackToClick' /\ BackToRow' /\ ReadsRow'
  <2>1. crossed = {} /\ (Answer(i) \/ Refuse(i))
    BY <1>4 DEF Answer, Refuse, Lose
  <2>2. /\ post[i].at \in {"sent", "saved"}
        /\ post'[i].at = (IF post[i].at = "sent" THEN "failed" ELSE "over")
        /\ \A k \in Post : k # i => post'[k].at = post[k].at
    BY <1>1, <2>1, MoveRequest DEF Answer, Refuse
  <2>3. \A k \in Post : /\ Open(k)' <=> Open(k)
                        /\ Stored(k)' <=> Stored(k)
                        /\ Undone(k)' <=> Undone(k)
                        /\ post'[k].at = "reverted" <=> post[k].at = "reverted"
                        /\ post'[k].at = "sent" => post[k].at = "sent"
    BY <2>2 DEF Open, Stored, Undone
  <2>4. ShowsClick /\ ShowsRow /\ BackToClick /\ BackToRow /\ ReadsRow
    BY <2>1 DEF RatingInv
  <2>5. ShowsClick'
    BY <1>1, <1>2, <2>3, <2>4, LaterPosts DEF ShowsClick
  <2>6. ShowsRow' /\ ReadsRow'
    BY <1>1, <2>3, <2>4 DEF ShowsRow, ReadsRow
  <2>7. BackToClick'
    BY <1>1, <1>2, <2>3, <2>4 DEF BackToClick
  <2>8. BackToRow'
    BY <1>1, <1>2, <2>3, <2>4, LaterPosts DEF BackToRow
  <2>9. QED
    BY <2>5, <2>6, <2>7, <2>8
<1>5. QED
  BY <1>2, <1>3, <1>4 DEF RatingInv

(* The thread read again shows the row; a click made before is out of its  *)
(* reach.                                                                  *)
LEMMA ReloadRating ==
  ASSUME RatingInv, Leave \/ BeginLoad \/ ReadMessages \/ Loaded
  PROVE  RatingInv'
<1>1. PageTyped /\ InTurn /\ feedback' = feedback /\ post' = post
  BY DEF RatingInv, Leave, BeginLoad, ReadMessages, Loaded
<1>2. \A k \in Post : /\ Open(k)' <=> Open(k)
                      /\ Stored(k)' <=> Stored(k)
                      /\ Undone(k)' <=> Undone(k)
                      /\ Clicked(k)' <=> Clicked(k)
  BY <1>1 DEF Open, Stored, Undone, Clicked
<1>3. Unrated \in Value
  BY DEF Unrated, Value
<1>4. CASE Leave \/ BeginLoad
  <2>1. /\ view' \in {"away", "asking"} /\ shown' \in {shown, Unrated}
        /\ UNCHANGED <<copy, reads, crossed>>
    BY <1>4 DEF Leave, BeginLoad
  <2>2. PageTyped' /\ InTurn'
    BY <1>1, <1>2, <1>3, <2>1 DEF PageTyped, InTurn
  <2>3. ShowsClick' /\ ShowsRow' /\ ReadsRow'
    BY <2>1 DEF ShowsClick, ShowsRow, ReadsRow
  <2>4. crossed' = {} => BackToClick' /\ BackToRow'
    BY <1>1, <1>2, <2>1, LaterPosts DEF RatingInv, BackToClick, BackToRow
  <2>5. QED
    BY <2>2, <2>3, <2>4 DEF RatingInv
<1>5. CASE ReadMessages
  <2>1. /\ view' = "loading" /\ copy' = feedback /\ reads' = reads + 1 /\ shown' = shown
        /\ crossed' = IF Settled THEN {} ELSE crossed
    BY <1>5 DEF ReadMessages
  <2>2. \A k \in Post : post[k].reads \in Nat /\ post[k].reads <= reads /\ reads \in Nat
    BY <1>1 DEF PageTyped, Posts, InTurn
  <2>3. \A k \in Post : post'[k].reads < reads' /\ post'[k].reads # reads'
    BY <1>1, <2>1, <2>2
  <2>4. PageTyped'
    BY <1>1, <2>1 DEF PageTyped
  <2>5. InTurn'
    <3>1. \A k \in Post : post'[k].reads <= reads'
      BY <1>1, <2>1, <2>2
    <3>2. QED
      BY <1>1, <1>2, <2>3, <3>1 DEF InTurn
  <2>6. ShowsClick' /\ ShowsRow' /\ BackToClick' /\ ReadsRow'
    BY <1>1, <2>1, <2>3 DEF ShowsClick, ShowsRow, BackToClick, ReadsRow
  <2>7. ASSUME crossed' = {}
        PROVE  BackToRow'
    <3>1. CASE Settled
      BY <1>2, <3>1 DEF BackToRow, Settled, Open
    <3>2. CASE ~Settled
      BY <1>1, <1>2, <2>1, <2>7, <3>2, LaterPosts DEF RatingInv, BackToRow
    <3>3. QED
      BY <3>1, <3>2
  <2>8. QED
    BY <2>4, <2>5, <2>6, <2>7 DEF RatingInv
<1>6. CASE Loaded
  <2>1. /\ view = "loading" /\ view' = "thread" /\ shown' = copy
        /\ UNCHANGED <<copy, reads, crossed>>
    BY <1>6 DEF Loaded
  <2>2. PageTyped' /\ InTurn'
    BY <1>1, <1>2, <2>1 DEF PageTyped, InTurn
  <2>3. \A k \in Post : post[k].at = "sent" => post[k].reads # reads
    BY <1>1, <2>1 DEF InTurn, Clicked, PageTyped
  <2>4. ShowsClick' /\ BackToClick' /\ ReadsRow'
    BY <1>1, <2>1, <2>3 DEF ShowsClick, BackToClick, ReadsRow
  <2>5. crossed' = {} => ShowsRow' /\ BackToRow'
    BY <1>1, <1>2, <2>1, LaterPosts DEF RatingInv, ShowsRow, ReadsRow, BackToRow
  <2>6. QED
    BY <2>2, <2>4, <2>5 DEF RatingInv
<1>7. QED
  BY <1>4, <1>5, <1>6

LEMMA RatingStep == RatingInv /\ [FeedbackNext]_feedbackVars => RatingInv'
<1> SUFFICES ASSUME RatingInv, [FeedbackNext]_feedbackVars PROVE RatingInv'
  OBVIOUS
<1>1. CASE UNCHANGED feedbackVars
  <2>1. UNCHANGED <<feedback, shown, view, copy, reads, post, crossed>>
    BY <1>1 DEF feedbackVars
  <2>2. \A k \in Post : /\ Open(k)' <=> Open(k)
                        /\ Stored(k)' <=> Stored(k)
                        /\ Undone(k)' <=> Undone(k)
                        /\ Clicked(k)' <=> Clicked(k)
    BY <2>1 DEF Open, Stored, Undone, Clicked
  <2>3. PageTyped' /\ InTurn'
    BY <2>1, <2>2 DEF RatingInv, PageTyped, InTurn
  <2>4. crossed' = {} => ShowsClick' /\ ShowsRow' /\ ReadsRow'
    BY <2>1, <2>2, LaterPosts DEF RatingInv, ShowsClick, ShowsRow, ReadsRow
  <2>5. crossed' = {} => BackToClick' /\ BackToRow'
    BY <2>1, <2>2, LaterPosts DEF RatingInv, BackToClick, BackToRow
  <2>6. QED
    BY <2>3, <2>4, <2>5 DEF RatingInv
<1>2. ASSUME NEW i \in Post, NEW r \in {"up", "down"}, Rate(i, r)
      PROVE  RatingInv'
  <2>1. [shown EXCEPT !.rating = r] \in Value
    BY DEF RatingInv, PageTyped, Value
  <2>2. QED
    BY <1>2, <2>1, ClickRating DEF Rate
<1>3. ASSUME NEW i \in Post, NEW c \in Comment \cup {NoComment}, SaveComment(i, c)
      PROVE  RatingInv'
  <2>1. [shown EXCEPT !.comment = c] \in Value
    BY DEF RatingInv, PageTyped, Value
  <2>2. QED
    BY <1>3, <2>1, ClickRating DEF SaveComment
<1>4. QED
  BY <1>1, <1>2, <1>3, SaveRatingKept, RevertRating, OutcomeRating, ReloadRating
     DEF FeedbackNext, Rating

(* For any number of clicks, notes and reloads: when no request is out the *)
(* buttons show the row, if the requests were handled in the order of the  *)
(* clicks, no answer was lost, and no click failed after the next one.     *)
THEOREM ButtonsShowRow == FeedbackSpec => []RatingsSettle
<1>1. RatingInv => RatingsSettle
  BY DEF RatingInv, ShowsRow, RatingsSettle, AtRest, Settled, Open
<1>2. QED
  BY <1>1, RatingStart, RatingStep, PTL DEF FeedbackSpec

----------------------------------------------------------------------------
(* Dashboard: a figure that was read is still true while nobody has        *)
(* written since the first statement.                                      *)

Stage == {"idle", "answers", "citations", "ungrounded", "documents", "status",
          "up", "live", "never", "dashboard"}

Figures == [chunks : Nat, embedded : Nat, answers : Nat, citations : Nat,
            ungrounded : Nat, rated : Nat, up : Nat, documents : Nat, never : Nat]

TablesTyped ==
  /\ turn \in [Turn -> {"new", "answered", "deleted"}]
  /\ cites \in SUBSET (Turn \X Passage)
  /\ rating \in [Turn -> {"none", "up", "down"}]
  /\ chunk \in [Passage -> {"new", "plain", "embedded", "gone"}]
  /\ live \in SUBSET Document /\ origins \in SUBSET Origin
  /\ at \in Stage /\ figure \in Figures
  /\ cited \in SUBSET (Turn \X Passage)
  /\ disturbed \in BOOLEAN

(* The citations that are there are those once made whose answer and chunk *)
(* are both there; what was cited had been answered and indexed.           *)
CitesTrue ==
  /\ cites = Remembered
  /\ \A p \in cited : turn[p[1]] # "new" /\ chunk[p[2]] # "new"

(* The figures of the status panel, and of the dashboard, by the statement *)
(* that comes next.                                                        *)
StatusTrue ==
  /\ at \in {"citations", "ungrounded", "documents", "status"}
       => figure.answers = Cardinality(Answers)
  /\ at \in {"ungrounded", "documents", "status"} => figure.citations = Cardinality(cites)
  /\ at \in {"documents", "status"} => figure.ungrounded = Cardinality(Ungrounded)

PanelTrue ==
  /\ at \in {"up", "live", "never", "dashboard"}
       => figure.rated = Cardinality(Rated({"up", "down"}))
  /\ at \in {"live", "never", "dashboard"} => figure.up <= Cardinality(Rated({"up"}))
  /\ at \in {"never", "dashboard"} => figure.documents = Cardinality(live)
  /\ at = "dashboard" => figure.never = Cardinality(NeverRetrieved)

FiguresInv ==
  /\ TablesTyped /\ CitesTrue
  /\ figure.embedded <= figure.chunks
  /\ ~disturbed => StatusTrue /\ PanelTrue

(* All that is counted is finite.                                          *)
LEMMA Finite ==
  ASSUME TablesTyped
  PROVE  /\ IsFiniteSet(Indexed) /\ IsFiniteSet(Answers) /\ IsFiniteSet(cites)
         /\ IsFiniteSet(live)
<1>1. IsFiniteSet(Turn) /\ IsFiniteSet(Passage) /\ IsFiniteSet(Document)
  BY FiguresAssumption
<1>2. IsFiniteSet(Turn \X Passage)
  BY <1>1, FS_Product
<1>3. /\ Indexed \in SUBSET Passage /\ Answers \in SUBSET Turn
      /\ cites \in SUBSET (Turn \X Passage) /\ live \in SUBSET Document
  BY DEF TablesTyped, Indexed, Answers
<1>4. QED
  BY <1>1, <1>2, <1>3, FS_Subset

(* A part of a finite set is finite and no larger.                         *)
LEMMA Part ==
  ASSUME NEW S, IsFiniteSet(S), NEW P, P \subseteq S
  PROVE  /\ IsFiniteSet(P)
         /\ Cardinality(P) \in Nat /\ Cardinality(S) \in Nat
         /\ Cardinality(P) <= Cardinality(S)
  BY FS_Subset, FS_CardinalityType

LEMMA FiguresStart == DashboardInit => FiguresInv
<1> SUFFICES ASSUME DashboardInit PROVE FiguresInv
  OBVIOUS
<1>1. TablesTyped
  BY DEF DashboardInit, TablesTyped, Stage, Figures
<1>2. CitesTrue
  BY DEF DashboardInit, CitesTrue, Remembered
<1>3. figure.embedded <= figure.chunks /\ StatusTrue /\ PanelTrue
  BY DEF DashboardInit, StatusTrue, PanelTrue
<1>4. QED
  BY <1>1, <1>2, <1>3 DEF FiguresInv

(* Whoever writes after the first statement disturbs; before it, nothing   *)
(* has been read.                                                          *)
LEMMA WriteKeepsFigures ==
  ASSUME FiguresInv, Written, TablesTyped', CitesTrue'
  PROVE  FiguresInv'
<1>1. figure' = figure /\ at' = at /\ disturbed' = (at # "idle")
  BY DEF Written
<1>2. ~disturbed' => StatusTrue' /\ PanelTrue'
  BY <1>1 DEF StatusTrue, PanelTrue
<1>3. QED
  BY <1>1, <1>2 DEF FiguresInv

LEMMA ReplyFigures ==
  ASSUME FiguresInv, NEW t \in Turn, NEW C \in SUBSET Indexed, Reply(t, C)
  PROVE  FiguresInv'
<1>1. /\ turn[t] = "new" /\ turn' = [turn EXCEPT ![t] = "answered"]
      /\ cites' = cites \cup {t} \X C /\ cited' = cited \cup {t} \X C
      /\ UNCHANGED <<rating, chunk, live, origins>>
  BY DEF Reply
<1>2. Written /\ TablesTyped /\ CitesTrue
  BY DEF Reply, FiguresInv
<1>3. {t} \X C \in SUBSET (Turn \X Passage)
  BY DEF Indexed
<1>4. TablesTyped'
  BY <1>1, <1>2, <1>3 DEF TablesTyped, Written
<1>5. \A p \in {t} \X C : p[1] = t /\ p[2] \in Indexed /\ chunk[p[2]] # "new"
  BY DEF Indexed
<1>6. /\ turn'[t] = "answered" /\ t \in Answers'
      /\ \A u \in Turn : u # t => turn'[u] = turn[u] /\ (u \in Answers' <=> u \in Answers)
      /\ Indexed' = Indexed
  BY <1>1, <1>2 DEF TablesTyped, Answers, Indexed
<1>7. \A p \in cited : p[1] \in Turn /\ p[1] # t
  BY <1>1, <1>2 DEF TablesTyped, CitesTrue
<1>8. cites' = Remembered'
  <2>1. Remembered' = {p \in cited' : p[1] \in Answers' /\ p[2] \in Indexed'}
    BY DEF Remembered
  <2>2. cites = {p \in cited : p[1] \in Answers /\ p[2] \in Indexed}
    BY <1>2 DEF CitesTrue, Remembered
  <2>3. QED
    BY <1>1, <1>5, <1>6, <1>7, <2>1, <2>2
<1>9. \A p \in cited' : turn'[p[1]] # "new" /\ chunk'[p[2]] # "new"
  <2> SUFFICES ASSUME NEW p \in cited' PROVE turn'[p[1]] # "new" /\ chunk'[p[2]] # "new"
    OBVIOUS
  <2>1. CASE p \in {t} \X C
    BY <2>1, <1>1, <1>5, <1>6
  <2>2. CASE p \in cited
    BY <2>2, <1>1, <1>2, <1>6, <1>7 DEF CitesTrue
  <2>3. QED
    BY <2>1, <2>2, <1>1
<1>10. QED
  BY <1>2, <1>4, <1>8, <1>9, WriteKeepsFigures DEF CitesTrue

LEMMA DeleteConversationFigures ==
  ASSUME FiguresInv, NEW t \in Turn, DeleteConversation(t)
  PROVE  FiguresInv'
<1>1. /\ turn' = [turn EXCEPT ![t] = "deleted"] /\ cites' = {p \in cites : p[1] # t}
      /\ rating' = [rating EXCEPT ![t] = "none"]
      /\ UNCHANGED <<chunk, live, origins, cited>>
  BY DEF DeleteConversation
<1>2. Written /\ TablesTyped /\ CitesTrue
  BY DEF DeleteConversation, FiguresInv
<1>3. TablesTyped'
  BY <1>1, <1>2 DEF TablesTyped, Written
<1>4. /\ turn'[t] = "deleted"
      /\ \A u \in Turn : u # t => turn'[u] = turn[u]
      /\ \A p \in cited : p[1] \in Turn
  BY <1>1, <1>2 DEF TablesTyped
<1>5. Answers' = Answers \ {t} /\ Indexed' = Indexed
  BY <1>1, <1>4 DEF Answers, Indexed
<1>6. CitesTrue'
  BY <1>1, <1>2, <1>4, <1>5 DEF CitesTrue, Remembered
<1>7. QED
  BY <1>2, <1>3, <1>6, WriteKeepsFigures

(* When chunks of some documents go, and only chunks that are new come,    *)
(* the citations that go are those of the chunks that went.                *)
LEMMA PurgeKeepsCites ==
  ASSUME TablesTyped, CitesTrue, NEW D, NEW C, \A c \in C : chunk[c] = "new",
         chunk' = [c \in Passage |-> IF c \in C THEN "plain"
                                    ELSE IF c \in Indexed /\ DocumentOf[c] \in D THEN "gone"
                                    ELSE chunk[c]],
         Purge(D), UNCHANGED <<turn, cited>>
  PROVE  CitesTrue' /\ chunk' \in [Passage -> {"new", "plain", "embedded", "gone"}]
<1>1. \A p \in cited : p[2] \in Passage /\ chunk[p[2]] # "new" /\ p[2] \notin C
  BY DEF TablesTyped, CitesTrue
<1>2. \A p \in cited : /\ p[2] \in Indexed' <=> p[2] \in Indexed /\ DocumentOf[p[2]] \notin D
                      /\ chunk'[p[2]] # "new"
  BY <1>1 DEF Indexed
<1>3. Answers' = Answers
  BY DEF Answers
<1>4. cites' = Remembered'
  BY <1>2, <1>3 DEF CitesTrue, Remembered, Purge
<1>5. CitesTrue'
  BY <1>2, <1>4 DEF CitesTrue
<1>6. chunk' \in [Passage -> {"new", "plain", "embedded", "gone"}]
  BY DEF TablesTyped
<1>7. QED
  BY <1>5, <1>6

LEMMA ReplaceFigures ==
  ASSUME FiguresInv, NEW d \in Document, NEW C \in SUBSET Passage, Replace(d, C)
  PROVE  FiguresInv'
<1>1. /\ chunk' = [c \in Passage |-> IF c \in C THEN "plain"
                                   ELSE IF c \in Indexed /\ DocumentOf[c] \in {d} THEN "gone"
                                   ELSE chunk[c]]
      /\ \A c \in C : chunk[c] = "new"
      /\ Purge({d}) /\ cites' \subseteq cites
      /\ UNCHANGED <<turn, rating, live, origins, cited>>
  BY DEF Replace, Purge
<1>2. Written /\ TablesTyped /\ CitesTrue
  BY DEF Replace, FiguresInv
<1>3. CitesTrue' /\ chunk' \in [Passage -> {"new", "plain", "embedded", "gone"}]
  BY <1>1, <1>2, PurgeKeepsCites
<1>4. TablesTyped'
  BY <1>1, <1>2, <1>3 DEF TablesTyped, Written
<1>5. QED
  BY <1>2, <1>3, <1>4, WriteKeepsFigures

LEMMA DeleteOriginFigures ==
  ASSUME FiguresInv, NEW s \in Origin, DeleteOrigin(s)
  PROVE  FiguresInv'
<1> DEFINE D == DocumentsOfOrigin(s)
           None == {}
<1>1. /\ chunk' = [c \in Passage |-> IF c \in None THEN "plain"
                                   ELSE IF c \in Indexed /\ DocumentOf[c] \in D THEN "gone"
                                   ELSE chunk[c]]
      /\ \A c \in None : chunk[c] = "new"
      /\ Purge(D) /\ cites' \subseteq cites
      /\ live' \subseteq live /\ origins' \subseteq origins
      /\ UNCHANGED <<turn, rating, cited>>
  <2>1. \A c \in Passage : DocumentOf[c] \in D <=> OriginOf[DocumentOf[c]] = s
    BY FiguresAssumption DEF DocumentsOfOrigin
  <2>2. QED
    BY <2>1 DEF DeleteOrigin, Purge
<1>2. Written /\ TablesTyped /\ CitesTrue
  BY DEF DeleteOrigin, FiguresInv
<1> HIDE DEF D, None
<1>3. CitesTrue' /\ chunk' \in [Passage -> {"new", "plain", "embedded", "gone"}]
  BY <1>1, <1>2, PurgeKeepsCites
<1>4. TablesTyped'
  BY <1>1, <1>2, <1>3 DEF TablesTyped, Written
<1>5. QED
  BY <1>2, <1>3, <1>4, WriteKeepsFigures

(* The other writers leave citations and answers alone, and what is        *)
(* indexed stays so.                                                       *)
LEMMA OtherWritersFigures ==
  ASSUME FiguresInv,
         \/ \E t \in Turn, r \in {"up", "down"} : SaveRating(t, r)
         \/ \E d \in Document : Create(d) \/ SoftDelete(d)
         \/ \E c \in Passage : Embed(c)
  PROVE  FiguresInv'
<1>1. Written /\ UNCHANGED <<turn, cites, origins, cited>>
  BY DEF SaveRating, Create, SoftDelete, Embed
<1>2. TablesTyped /\ CitesTrue
  BY DEF FiguresInv
<1>3. TablesTyped'
  BY <1>1, <1>2 DEF TablesTyped, Written, SaveRating, Create, SoftDelete, Embed
<1>4. Indexed' = Indexed /\ \A c \in Passage : chunk[c] # "new" => chunk'[c] # "new"
  BY <1>2 DEF TablesTyped, SaveRating, Create, SoftDelete, Embed, Indexed
<1>5. Answers' = Answers /\ \A p \in cited : p[2] \in Passage
  BY <1>1, <1>2 DEF Answers, TablesTyped
<1>6. CitesTrue'
  BY <1>1, <1>2, <1>4, <1>5 DEF CitesTrue, Remembered
<1>7. QED
  BY <1>1, <1>3, <1>6, WriteKeepsFigures

(* A statement writes nothing: what it counts is the same afterwards.      *)
LEMMA ReadKeepsTables ==
  ASSUME FiguresInv, NEW from, NEW to \in Stage, NEW f \in Figures, Read(from, to, f)
  PROVE  /\ at = from /\ at' = to /\ figure' = f /\ disturbed' = disturbed
         /\ TablesTyped' /\ CitesTrue'
         /\ Answers' = Answers /\ cites' = cites /\ live' = live
         /\ Ungrounded' = Ungrounded /\ NeverRetrieved' = NeverRetrieved
         /\ \A R : Rated(R)' = Rated(R)
<1>1. /\ at = from /\ at' = to /\ figure' = f /\ disturbed' = disturbed
      /\ UNCHANGED <<turn, cites, rating, chunk, live, origins, cited>>
  BY DEF Read, tables
<1>2. TablesTyped /\ CitesTrue
  BY DEF FiguresInv
<1>3. TablesTyped'
  BY <1>1, <1>2 DEF TablesTyped
<1>4. CitesTrue'
  BY <1>1, <1>2 DEF CitesTrue, Remembered, Answers, Indexed
<1>5. Answers' = Answers
  BY <1>1 DEF Answers
<1>6. /\ Ungrounded' = Ungrounded /\ NeverRetrieved' = NeverRetrieved
      /\ \A R : Rated(R)' = Rated(R)
  BY <1>1, <1>5 DEF Ungrounded, NeverRetrieved, Rated
<1>7. QED
  BY <1>1, <1>3, <1>4, <1>5, <1>6

LEMMA CountsTyped ==
  ASSUME TablesTyped
  PROVE  /\ Cardinality(Indexed) \in Nat /\ Cardinality(Embedded) \in Nat
         /\ Cardinality(Embedded) <= Cardinality(Indexed)
         /\ Cardinality(Answers) \in Nat /\ Cardinality(cites) \in Nat
         /\ Cardinality(Ungrounded) \in Nat /\ Cardinality(live) \in Nat
         /\ Cardinality(NeverRetrieved) \in Nat
         /\ \A R : Cardinality(Rated(R)) \in Nat
<1>1. /\ IsFiniteSet(Indexed) /\ IsFiniteSet(Answers) /\ IsFiniteSet(cites)
      /\ IsFiniteSet(live)
  BY Finite
<1>2. /\ Embedded \subseteq Indexed /\ Ungrounded \subseteq Answers
      /\ NeverRetrieved \subseteq live /\ \A R : Rated(R) \subseteq Answers
  BY DEF Embedded, Ungrounded, NeverRetrieved, Rated
<1>3. \A R : Cardinality(Rated(R)) \in Nat
  <2> SUFFICES ASSUME NEW R PROVE Cardinality(Rated(R)) \in Nat
    OBVIOUS
  <2>1. Rated(R) \subseteq Answers
    BY <1>2
  <2>2. QED
    BY <1>1, <2>1, Part
<1>4. QED
  BY <1>1, <1>2, <1>3, Part, FS_CardinalityType

(* The statements of the status panel.                                     *)
LEMMA StatusFigures ==
  ASSUME FiguresInv,
         ReadChunks \/ ReadAnswers \/ ReadCitations \/ ReadUngrounded \/ ReadDocuments
  PROVE  FiguresInv'
<1> USE CountsTyped DEF FiguresInv
<1>1. figure \in Figures
  BY DEF TablesTyped
<1>2. CASE ReadChunks
  <2> DEFINE f == [figure EXCEPT !.chunks = Cardinality(Indexed),
                                 !.embedded = Cardinality(Embedded)]
  <2>1. f \in Figures /\ f.embedded <= f.chunks
    BY <1>1 DEF Figures
  <2>2. Read("idle", "answers", f)
    BY <1>2 DEF ReadChunks
  <2> HIDE DEF f
  <2>3. QED
    BY <2>1, <2>2, ReadKeepsTables DEF Stage, StatusTrue, PanelTrue
<1>3. CASE ReadAnswers
  <2> DEFINE f == [figure EXCEPT !.answers = Cardinality(Answers)]
  <2>1. /\ f \in Figures /\ f.answers = Cardinality(Answers)
        /\ f.embedded = figure.embedded /\ f.chunks = figure.chunks
    BY <1>1 DEF Figures
  <2>2. Read("answers", "citations", f)
    BY <1>3 DEF ReadAnswers
  <2> HIDE DEF f
  <2>3. QED
    BY <2>1, <2>2, ReadKeepsTables DEF Stage, StatusTrue, PanelTrue
<1>4. CASE ReadCitations
  <2> DEFINE f == [figure EXCEPT !.citations = Cardinality(cites)]
  <2>1. /\ f \in Figures /\ f.citations = Cardinality(cites) /\ f.answers = figure.answers
        /\ f.embedded = figure.embedded /\ f.chunks = figure.chunks
    BY <1>1 DEF Figures
  <2>2. Read("citations", "ungrounded", f)
    BY <1>4 DEF ReadCitations
  <2> HIDE DEF f
  <2>3. QED
    BY <2>1, <2>2, ReadKeepsTables DEF Stage, StatusTrue, PanelTrue
<1>5. CASE ReadUngrounded
  <2> DEFINE f == [figure EXCEPT !.ungrounded = Cardinality(Ungrounded)]
  <2>1. /\ f \in Figures /\ f.ungrounded = Cardinality(Ungrounded)
        /\ f.citations = figure.citations /\ f.answers = figure.answers
        /\ f.embedded = figure.embedded /\ f.chunks = figure.chunks
    BY <1>1 DEF Figures
  <2>2. Read("ungrounded", "documents", f)
    BY <1>5 DEF ReadUngrounded
  <2> HIDE DEF f
  <2>3. QED
    BY <2>1, <2>2, ReadKeepsTables DEF Stage, StatusTrue, PanelTrue
<1>6. CASE ReadDocuments
  <2> DEFINE f == [figure EXCEPT !.documents = Cardinality(live)]
  <2>1. /\ f \in Figures /\ f.ungrounded = figure.ungrounded
        /\ f.citations = figure.citations /\ f.answers = figure.answers
        /\ f.embedded = figure.embedded /\ f.chunks = figure.chunks
    BY <1>1 DEF Figures
  <2>2. Read("documents", "status", f)
    BY <1>6 DEF ReadDocuments
  <2> HIDE DEF f
  <2>3. QED
    BY <2>1, <2>2, ReadKeepsTables DEF Stage, StatusTrue, PanelTrue
<1>7. QED
  BY <1>2, <1>3, <1>4, <1>5, <1>6

(* The statements of the dashboard.                                        *)
LEMMA PanelFigures ==
  ASSUME FiguresInv, ReadFeedback \/ ReadPositive \/ CountDocuments \/ ReadNever
  PROVE  FiguresInv'
<1> USE CountsTyped DEF FiguresInv
<1>1. figure \in Figures
  BY DEF TablesTyped
<1>2. CASE ReadFeedback
  <2> DEFINE f == [figure EXCEPT !.rated = Cardinality(Rated({"up", "down"}))]
  <2>1. /\ f \in Figures /\ f.rated = Cardinality(Rated({"up", "down"}))
        /\ f.embedded = figure.embedded /\ f.chunks = figure.chunks
    BY <1>1 DEF Figures
  <2>2. Read("idle", "up", f)
    BY <1>2 DEF ReadFeedback
  <2> HIDE DEF f
  <2>3. QED
    BY <2>1, <2>2, ReadKeepsTables DEF Stage, StatusTrue, PanelTrue
<1>3. CASE ReadPositive
  <2> DEFINE n == IF figure.rated = 0 THEN 0 ELSE Cardinality(Rated({"up"}))
             f == [figure EXCEPT !.up = n]
  <2>1. n \in Nat /\ n <= Cardinality(Rated({"up"}))
    <3>1. Cardinality(Rated({"up"})) \in Nat
      OBVIOUS
    <3>2. QED
      BY <3>1
  <2>2. Read("up", "live", f)
    BY <1>3 DEF ReadPositive
  <2> HIDE DEF n
  <2>3. /\ f \in Figures /\ f.rated = figure.rated /\ f.up = n
        /\ f.embedded = figure.embedded /\ f.chunks = figure.chunks
    BY <1>1, <2>1 DEF Figures
  <2> HIDE DEF f
  <2>4. QED
    BY <2>1, <2>2, <2>3, ReadKeepsTables DEF Stage, StatusTrue, PanelTrue
<1>4. CASE CountDocuments
  <2> DEFINE f == [figure EXCEPT !.documents = Cardinality(live)]
  <2>1. /\ f \in Figures /\ f.documents = Cardinality(live)
        /\ f.rated = figure.rated /\ f.up = figure.up
        /\ f.embedded = figure.embedded /\ f.chunks = figure.chunks
    BY <1>1 DEF Figures
  <2>2. Read("live", "never", f)
    BY <1>4 DEF CountDocuments
  <2> HIDE DEF f
  <2>3. QED
    BY <2>1, <2>2, ReadKeepsTables DEF Stage, StatusTrue, PanelTrue
<1>5. CASE ReadNever
  <2> DEFINE f == [figure EXCEPT !.never = Cardinality(NeverRetrieved)]
  <2>1. /\ f \in Figures /\ f.never = Cardinality(NeverRetrieved)
        /\ f.documents = figure.documents
        /\ f.rated = figure.rated /\ f.up = figure.up
        /\ f.embedded = figure.embedded /\ f.chunks = figure.chunks
    BY <1>1 DEF Figures
  <2>2. Read("never", "dashboard", f)
    BY <1>5 DEF ReadNever
  <2> HIDE DEF f
  <2>3. QED
    BY <2>1, <2>2, ReadKeepsTables DEF Stage, StatusTrue, PanelTrue
<1>6. QED
  BY <1>2, <1>3, <1>4, <1>5

LEMMA FiguresStep == FiguresInv /\ [DashboardNext]_dashboardVars => FiguresInv'
<1> SUFFICES ASSUME FiguresInv, [DashboardNext]_dashboardVars PROVE FiguresInv'
  OBVIOUS
<1>1. CASE UNCHANGED dashboardVars
  <2>1. UNCHANGED <<turn, cites, rating, chunk, live, origins, at, figure, cited, disturbed>>
    BY <1>1 DEF dashboardVars, tables
  <2>2. /\ Answers' = Answers /\ Ungrounded' = Ungrounded /\ NeverRetrieved' = NeverRetrieved
        /\ \A R : Rated(R)' = Rated(R)
    BY <2>1 DEF Answers, Ungrounded, NeverRetrieved, Rated
  <2>3. TablesTyped' /\ CitesTrue'
    BY <2>1 DEF FiguresInv, TablesTyped, CitesTrue, Remembered, Answers, Indexed
  <2>4. StatusTrue' <=> StatusTrue
    BY <2>1, <2>2 DEF StatusTrue
  <2>5. PanelTrue' <=> PanelTrue
    BY <2>1, <2>2 DEF PanelTrue
  <2>6. QED
    BY <2>1, <2>3, <2>4, <2>5 DEF FiguresInv
<1>2. CASE DashboardNext
  BY <1>2, StatusFigures, PanelFigures, ReplyFigures, DeleteConversationFigures,
     ReplaceFigures, DeleteOriginFigures, OtherWritersFigures DEF DashboardNext
<1>3. QED
  BY <1>1, <1>2

----------------------------------------------------------------------------
(* What the figures say.                                                   *)

(* Every answer that is not ungrounded is at the end of a citation.        *)
LEMMA GroundedAreCited ==
  ASSUME TablesTyped
  PROVE  Cardinality(Answers) <= Cardinality(Ungrounded) + Cardinality(cites)
<1> DEFINE G == {p[1] : p \in cites}
           f == [p \in cites |-> p[1]]
<1>1. IsFiniteSet(Answers) /\ IsFiniteSet(cites)
  BY Finite
<1>2. f \in Surjection(cites, G)
  BY DEF Surjection
<1>3. IsFiniteSet(G) /\ Cardinality(G) <= Cardinality(cites)
  <2> HIDE DEF G, f
  <2>1. QED
    BY <1>1, <1>2, FS_Surjection
<1>4. IsFiniteSet(Ungrounded)
  BY <1>1, FS_Subset DEF Ungrounded
<1>5. Answers \subseteq Ungrounded \cup G
  BY DEF Ungrounded
<1>6. /\ IsFiniteSet(Ungrounded \cup G)
      /\ Cardinality(Ungrounded \cup G)
           = Cardinality(Ungrounded) + Cardinality(G) - Cardinality(Ungrounded \cap G)
  <2> HIDE DEF G
  <2>1. QED
    BY <1>3, <1>4, FS_Union
<1> HIDE DEF G
<1>7. Cardinality(Answers) <= Cardinality(Ungrounded \cup G)
  BY <1>5, <1>6, Part
<1>8. IsFiniteSet(Ungrounded \cap G)
  <2>1. Ungrounded \cap G \subseteq G
    OBVIOUS
  <2>2. QED
    BY <1>3, <2>1, FS_Subset
<1>9. /\ Cardinality(Ungrounded) \in Nat /\ Cardinality(G) \in Nat
      /\ Cardinality(cites) \in Nat /\ Cardinality(Answers) \in Nat
      /\ Cardinality(Ungrounded \cap G) \in Nat
  BY <1>1, <1>3, <1>4, <1>8, FS_CardinalityType
<1>10. QED
  BY <1>3, <1>6, <1>7, <1>9

LEMMA InvAddsUp == FiguresInv => FiguresAddUp
<1> SUFFICES ASSUME FiguresInv PROVE FiguresAddUp
  OBVIOUS
<1>1. TablesTyped
  BY DEF FiguresInv
<1>2. IsFiniteSet(Answers) /\ IsFiniteSet(live)
  BY <1>1, Finite
<1>3. Cardinality(Ungrounded) <= Cardinality(Answers)
  BY <1>2, Part DEF Ungrounded
<1>4. Cardinality(NeverRetrieved) <= Cardinality(live)
  BY <1>2, Part DEF NeverRetrieved
<1>5. /\ Cardinality(Rated({"up", "down"})) <= Cardinality(Answers)
      /\ IsFiniteSet(Rated({"up", "down"}))
  BY <1>2, Part DEF Rated
<1>6. Rated({"up"}) \subseteq Rated({"up", "down"})
  BY DEF Rated
<1>7. Cardinality(Rated({"up"})) <= Cardinality(Rated({"up", "down"}))
  BY <1>5, <1>6, Part
<1>8. figure.up \in Nat /\ figure.rated \in Nat
  BY <1>1 DEF TablesTyped, Figures
<1>9. figure.embedded <= figure.chunks
  BY DEF FiguresInv
<1>10. ASSUME ~disturbed, at = "status"
       PROVE  /\ figure.ungrounded <= figure.answers
              /\ figure.answers <= figure.ungrounded + figure.citations
  BY <1>1, <1>3, <1>10, GroundedAreCited DEF FiguresInv, StatusTrue
<1>11. ASSUME ~disturbed, at = "dashboard"
       PROVE  /\ figure.up <= figure.rated /\ figure.rated <= Cardinality(Answers)
              /\ figure.never <= figure.documents
  <2>1. /\ figure.rated = Cardinality(Rated({"up", "down"}))
        /\ figure.up <= Cardinality(Rated({"up"}))
        /\ figure.documents = Cardinality(live) /\ figure.never = Cardinality(NeverRetrieved)
    BY <1>11 DEF FiguresInv, PanelTrue
  <2>2. QED
    BY <1>1, <1>4, <1>5, <1>7, <1>8, <2>1, CountsTyped
<1>12. QED
  BY <1>9, <1>10, <1>11 DEF FiguresAddUp

LEMMA InvRemembers == FiguresInv => FiguresRemember
<1> SUFFICES ASSUME FiguresInv, ~disturbed
             PROVE  /\ at = "status" =>
                         figure.ungrounded
                           = Cardinality({t \in Answers : \A p \in Remembered : p[1] # t})
                    /\ at = "dashboard" =>
                         figure.never
                           = Cardinality({d \in live :
                                            \A p \in Remembered : DocumentOf[p[2]] # d})
  BY DEF FiguresRemember
<1>1. cites = Remembered
  BY DEF FiguresInv, CitesTrue
<1>2. /\ Ungrounded = {t \in Answers : \A p \in Remembered : p[1] # t}
      /\ NeverRetrieved = {d \in live : \A p \in Remembered : DocumentOf[p[2]] # d}
  BY <1>1 DEF Ungrounded, NeverRetrieved
<1>3. QED
  BY <1>2 DEF FiguresInv, StatusTrue, PanelTrue

(* For any number of answers, sources, documents and chunks, and whatever  *)
(* is written between the statements, no more chunks are counted as        *)
(* embedded than there are; on a quiet server the figures add up, and an   *)
(* answer or a document counts as uncited exactly if every citation it had *)
(* has gone with its answer or its chunk, by a sync or with the source.    *)
THEOREM FiguresAreTrue == DashboardSpec => []FiguresTrue
<1>1. FiguresInv => FiguresTrue
  BY InvAddsUp, InvRemembers DEF FiguresTrue
<1>2. QED
  BY <1>1, FiguresStart, FiguresStep, PTL DEF DashboardSpec

=============================================================================
