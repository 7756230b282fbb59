--------------------------- MODULE ChatTurnProofs ---------------------------
(***************************************************************************)
(* Proofs about ChatTurn for any rate limit, any number of chunks asked    *)
(* for and of iterations, and any number of turns, conversations and       *)
(* chunks.                                                                 *)
(***************************************************************************)
EXTENDS ChatTurn, SequenceTheorems, TLAPS

Distinct(s) == \A i, j \in DOMAIN s : s[i] = s[j] => i = j

(* What a search returns is a sequence of chunks, none twice.              *)
LEMMA RankingsAreSequences ==
  ASSUME NEW chunks \in SUBSET Chunk, NEW s \in Rankings(chunks)
  PROVE  s \in Seq(Chunk) /\ Distinct(s) /\ \A i \in DOMAIN s : s[i] \in chunks
<1>1. PICK n \in 0..TopK : s \in [1..n -> chunks]
  BY DEF Rankings
<1>2. n \in Nat
  BY LimitAssumption
<1>3. s \in Seq(Chunk)
  BY <1>1, <1>2, IsASeq
<1>4. QED
  BY <1>1, <1>3 DEF Rankings, Distinct

(* A search leaves what earlier ones have found in its place, and adds     *)
(* nothing that is among it.                                               *)
LEMMA RetrieveAdds ==
  ASSUME NEW t \in Turn, Retrieve(t), shown \in [Turn -> Seq(Chunk)],
         live \in SUBSET Chunk
  PROVE  /\ shown' \in [Turn -> Seq(Chunk)]
         /\ \A u \in Turn \ {t} : shown'[u] = shown[u]
         /\ Distinct(shown[t]) => Distinct(shown'[t])
<1>1. PICK results \in Rankings(live \ InContext(t)) :
        shown' = [shown EXCEPT ![t] = @ \o results]
  BY DEF Retrieve
<1>2. results \in Seq(Chunk) /\ Distinct(results)
      /\ \A i \in DOMAIN results : results[i] \in live \ InContext(t)
  BY <1>1, RankingsAreSequences
<1>3. shown[t] \in Seq(Chunk) /\ shown[t] \o results \in Seq(Chunk)
  BY <1>2
<1>4. ASSUME Distinct(shown[t]) PROVE Distinct(shown[t] \o results)
  <2> DEFINE s == shown[t]
             n == Len(s)
             m == Len(results)
  <2> SUFFICES ASSUME NEW i \in 1 .. n + m, NEW j \in 1 .. n + m,
                      (s \o results)[i] = (s \o results)[j]
               PROVE  i = j
    BY <1>2, <1>3 DEF Distinct
  <2>1. n \in Nat /\ m \in Nat /\ DOMAIN s = 1..n /\ DOMAIN results = 1..m
    BY <1>2, <1>3
  <2>2. \A k \in 1 .. n + m :
          (s \o results)[k] = IF k <= n THEN s[k] ELSE results[k - n]
    BY <1>2, <1>3
  <2>3. \A k \in 1..n : s[k] \in InContext(t)
    BY <2>1 DEF InContext
  <2>4. CASE i <= n /\ j <= n
    BY <2>1, <2>2, <2>4, <1>4 DEF Distinct
  <2>5. CASE i <= n /\ j > n
    BY <2>1, <2>2, <2>3, <2>5, <1>2
  <2>6. CASE i > n /\ j <= n
    BY <2>1, <2>2, <2>3, <2>6, <1>2
  <2>7. CASE i > n /\ j > n
    <3>1. i - n \in 1..m /\ j - n \in 1..m /\ results[i - n] = results[j - n]
      BY <2>1, <2>2, <2>7
    <3>2. i - n = j - n
      BY <3>1, <2>1, <1>2 DEF Distinct
    <3>3. QED
      BY <3>2, <2>1
  <2>8. QED
    BY <2>1, <2>4, <2>5, <2>6, <2>7
<1>5. QED
  BY <1>1, <1>3, <1>4

----------------------------------------------------------------------------
(* Types.                                                                  *)

LEMMA TypeInit == Init => TypeOK
<1> SUFFICES ASSUME Init PROVE TypeOK
  OBVIOUS
<1>1. 0 \in 0..MaxIterations /\ 0 \in 0..MaxChunks /\ <<>> \in Seq(Chunk)
  BY LimitAssumption, ChatBounds
<1>2. QED
  BY <1>1 DEF Init, TypeOK, Outcome, CitationRow

(* A turn that ends, or that goes on, has its variables in their types.    *)
TurnTyped ==
  /\ pc' \in [Turn -> {"ready", "incrementing", "counting", "admitted", "rewriting", "thinking",
                       "closing", "done"}]
  /\ shown' \in [Turn -> Seq(Chunk)]
  /\ steps' \in [Turn -> 0..MaxIterations]
  /\ outcome' \in [Turn -> Outcome]

LEMMA ForgetTyped ==
  ASSUME TypeOK, NEW t \in Turn, NEW how \in Outcome, Forget(t, how),
         NEW where \in {"closing", "done"}, Goto(t, where)
  PROVE  TurnTyped
<1>1. 0 \in 0..MaxIterations /\ <<>> \in Seq(Chunk)
  BY LimitAssumption
<1>2. QED
  BY <1>1 DEF Forget, Goto, TypeOK, TurnTyped

LEMMA EndTyped ==
  ASSUME TypeOK, NEW t \in Turn, NEW how \in Outcome, End(t, how)
  PROVE  TurnTyped
<1>1. (IF kind[t] # "user" THEN "closing" ELSE "done") \in {"closing", "done"}
  OBVIOUS
<1>2. QED
  BY <1>1, ForgetTyped DEF End

LEMMA JudgeTyped ==
  ASSUME TypeOK, NEW t \in Turn, NEW count \in Nat, Judge(t, count)
  PROVE  TurnTyped /\ admitted' \in Nat
<1>1. CASE count > Limit
  BY <1>1, EndTyped DEF Judge, Outcome, TypeOK
<1>2. CASE ~(count > Limit)
  <2>1. Goto(t, "admitted") /\ admitted' = admitted + 1 /\ UNCHANGED <<memory, outcome>>
    BY <1>2, Zenon DEF Judge
  <2>2. QED
    BY <2>1 DEF Goto, memory, TypeOK, TurnTyped
<1>3. QED
  BY <1>1, <1>2

(* The rows of a conversation that is deleted.                             *)
LEMMA CascadeTyped ==
  ASSUME TypeOK, NEW c, Cascade(c)
  PROVE  /\ conv' \in [Conversation -> {"none", "untitled", "titled", "deleted"}]
         /\ question' \in [Turn -> BOOLEAN] /\ answer' \in [Turn -> BOOLEAN]
         /\ cites' \in SUBSET CitationRow
BY DEF Cascade, TypeOK

(* Citations are rows of the table.                                        *)
LEMMA ValidatedTyped ==
  ASSUME TypeOK, NEW t \in Turn, NEW claimed
  PROVE  Validated(t, claimed) \in SUBSET CitationRow
<1>1. shown[t] \in Seq(Chunk)
  BY DEF TypeOK
<1>2. \A i \in DOMAIN shown[t] : i \in Nat /\ shown[t][i] \in Chunk
  BY <1>1
<1>3. QED
  BY <1>2 DEF Validated, CitationRow

LEMMA TypeStep == TypeOK /\ [Next]_vars => TypeOK'
<1> SUFFICES ASSUME TypeOK, [Next]_vars PROVE TypeOK'
  OBVIOUS
<1> USE DEF tableVars, limitVars, memory, turnVars, syncVars
<1>1. ASSUME NEW c \in Conversation, CreateConversation(c) \/ DeleteConversation(c)
      PROVE  TypeOK'
  <2>1. CASE CreateConversation(c)
    BY <2>1 DEF CreateConversation, TypeOK
  <2>2. CASE DeleteConversation(c)
    BY <2>2, CascadeTyped DEF DeleteConversation, Cascade, TypeOK
  <2>3. QED
    BY <1>1, <2>1, <2>2
<1>2. ASSUME NEW t \in Turn, NEW c \in Conversation, Request(t, c) PROVE TypeOK'
  BY <1>2 DEF Request, Goto, TypeOK
<1>3. ASSUME NEW t \in Turn, NEW c \in Conversation, Ask(t, c) PROVE TypeOK'
  BY <1>3 DEF Ask, Goto, TypeOK
<1>4. ASSUME NEW t \in Turn, NEW c \in Conversation, NEW strategy \in {"direct", "agentic"},
             Evaluate(t, c, strategy)
      PROVE  TypeOK'
  BY <1>4 DEF Evaluate, Goto, TypeOK
<1>5. ASSUME NEW t \in Turn, Increment(t) \/ StartWindow(t) PROVE TypeOK'
  <2>1. CASE Increment(t)
    <3>1. hits + 1 \in Nat /\ Judge(t, hits + 1)
      BY <2>1 DEF Increment, TypeOK
    <3>2. TurnTyped /\ admitted' \in Nat
      BY <3>1, JudgeTyped
    <3>3. hits' \in Nat /\ starts' \in Nat
      BY <2>1 DEF Increment, TypeOK
    <3>4. lasting' = TRUE \/ lasting' = lasting
      BY <2>1, Zenon DEF Increment
    <3>5. lasting' \in BOOLEAN
      BY <3>4, Zenon DEF TypeOK
    <3>6. QED
      BY <2>1, <3>2, <3>3, <3>5 DEF Increment, TypeOK, TurnTyped
  <2>2. CASE StartWindow(t)
    <3>1. lasting' \in BOOLEAN
      BY <2>2, Zenon DEF StartWindow
    <3>2. QED
      BY <2>2, <3>1, JudgeTyped DEF StartWindow, TypeOK, TurnTyped
  <2>3. QED
    BY <1>5, <2>1, <2>2
<1>6. ASSUME NEW t \in Turn, SaveQuestion(t) PROVE TypeOK'
  BY <1>6 DEF SaveQuestion, Goto, TypeOK
<1>7. ASSUME NEW t \in Turn, Miss(t) \/ NoQuestion(t) \/ Raise(t) PROVE TypeOK'
  <2>1. End(t, "refused") \/ End(t, "failed")
    BY <1>7 DEF Miss, NoQuestion, Raise
  <2>2. TurnTyped
    BY <2>1, EndTyped DEF Outcome
  <2>3. QED
    BY <1>7, <2>2 DEF Miss, NoQuestion, Raise, TypeOK, TurnTyped
<1>8. ASSUME NEW t \in Turn, RewriteAndRetrieve(t) PROVE TypeOK'
  BY <1>8, RetrieveAdds DEF RewriteAndRetrieve, Goto, TypeOK
<1>9. ASSUME NEW t \in Turn, SearchAgain(t) PROVE TypeOK'
  <2>1. shown' \in [Turn -> Seq(Chunk)]
    BY <1>9, RetrieveAdds DEF SearchAgain, TypeOK
  <2>2. steps[t] + 1 \in 0..MaxIterations
    BY <1>9, LimitAssumption DEF SearchAgain, TypeOK
  <2>3. QED
    BY <1>9, <2>1, <2>2 DEF SearchAgain, TypeOK
<1>10. ASSUME NEW t \in Turn, NEW claimed \in SUBSET Chunk, NEW twice \in BOOLEAN,
              Reply(t, claimed, twice)
       PROVE  TypeOK'
  <2>1. End(t, "answered") \/ End(t, "failed")
    BY <1>10 DEF Reply
  <2>2. TurnTyped
    BY <2>1, EndTyped DEF Outcome
  <2>3. answer' \in [Turn -> BOOLEAN] /\ cites' \in SUBSET CitationRow
    BY <1>10, ValidatedTyped DEF Reply, TypeOK
  <2>4. QED
    BY <1>10, <2>2, <2>3 DEF Reply, TypeOK, TurnTyped
<1>11. ASSUME NEW t \in Turn, CloseEvaluation(t) PROVE TypeOK'
  BY <1>11, CascadeTyped DEF CloseEvaluation, Cascade, Goto, TypeOK
<1>12. ASSUME NEW t \in Turn, Kill(t) PROVE TypeOK'
  BY <1>12, ForgetTyped DEF Kill, Outcome, TypeOK, TurnTyped
<1>13. ASSUME NEW last \in used..MaxChunks, Index(last) \/ EndReplace(last)
       PROVE  TypeOK'
  <2>1. last \in 0..MaxChunks /\ used + 1 .. last \in SUBSET Chunk
    BY ChatBounds DEF TypeOK, Chunk
  <2>2. CASE Index(last)
    BY <2>1, <2>2 DEF Index, TypeOK
  <2>3. CASE EndReplace(last)
    <3>1. CASE \E row \in cites \ swept : row.chunk \in doomed
      BY <2>3, <3>1 DEF EndReplace, TypeOK
    <3>2. CASE ~\E row \in cites \ swept : row.chunk \in doomed
      BY <2>1, <2>3, <3>2 DEF EndReplace, TypeOK
    <3>3. QED
      BY <3>1, <3>2
  <2>4. QED
    BY <1>13, <2>2, <2>3
<1>14. ASSUME NEW old \in SUBSET Chunk, BeginReplace(old) PROVE TypeOK'
  BY <1>14 DEF BeginReplace, TypeOK
<1>15. CASE Expire
  BY <1>15 DEF Expire, TypeOK
<1>16. CASE UNCHANGED vars
  BY <1>16 DEF vars, TypeOK
<1>17. QED
  BY <1>1, <1>2, <1>3, <1>4, <1>5, <1>6, <1>7, <1>8, <1>9, <1>10, <1>11, <1>12, <1>13,
     <1>14, <1>15, <1>16 DEF Next, UserStep, TurnStep, SyncStep

(* Every variable of the turns, the tables and the rate limit stays in its *)
(* type, whatever users, turns and syncs do in which order.                *)
THEOREM ChatTypes == Spec => []TypeOK
<1>1. QED
  BY TypeInit, TypeStep, PTL DEF Spec

----------------------------------------------------------------------------
(* The rate limit.                                                         *)

(* How many the counter would still let through is what the requests let   *)
(* through leave of Limit for each time the key was set.                   *)
CountInv ==
  /\ hits = 0 => admitted = 0 /\ starts = 0
  /\ hits > 0 => admitted + Limit <= Limit * starts + (IF hits < Limit THEN hits ELSE Limit)

LEMMA CountStep == TypeOK /\ CountInv /\ [Next]_vars => CountInv'
<1> SUFFICES ASSUME TypeOK, CountInv, [Next]_vars PROVE CountInv'
  OBVIOUS
<1> USE DEF CountInv
<1>1. hits \in Nat /\ admitted \in Nat /\ starts \in Nat /\ Limit \in Nat
  BY LimitAssumption DEF TypeOK
<1>2. ASSUME NEW t \in Turn, Increment(t) PROVE CountInv'
  <2>1. hits' = hits + 1 /\ starts' = IF hits = 0 THEN starts + 1 ELSE starts
    BY <1>2 DEF Increment
  <2>2. IF hits + 1 > Limit THEN admitted' = admitted ELSE admitted' = admitted + 1
    BY <1>2 DEF Increment, Judge
  <2>3. CASE hits = 0
    <3>1. starts' = 1 /\ admitted = 0 /\ Limit * 1 = Limit
      BY <1>1, <2>1, <2>3
    <3>2. QED
      BY <1>1, <2>1, <2>2, <2>3, <3>1
  <2>4. CASE hits # 0
    <3>1. Limit * starts \in Nat /\ starts' = starts
      BY <1>1, <2>1, <2>4
    <3>2. QED
      BY <1>1, <2>1, <2>2, <2>4, <3>1
  <2>5. QED
    BY <2>3, <2>4
<1>3. ASSUME NEW t \in Turn, StartWindow(t) PROVE CountInv'
  <2>1. hits' = 1 /\ starts' = starts + 1
    BY <1>3 DEF StartWindow
  <2>2. IF 1 > Limit THEN admitted' = admitted ELSE admitted' = admitted + 1
    BY <1>3 DEF StartWindow, Judge
  <2>3. Limit * (starts + 1) = Limit * starts + Limit /\ Limit * starts \in Nat
    BY <1>1
  <2>4. admitted <= Limit * starts
    BY <1>1, <2>3
  <2>5. QED
    BY <1>1, <2>1, <2>2, <2>3, <2>4
<1>4. CASE Expire
  BY <1>4, <1>1 DEF Expire
<1>5. CASE UNCHANGED limitVars
  BY <1>5 DEF limitVars
<1>6. QED
  BY <1>2, <1>3, <1>4, <1>5 DEF Next, UserStep, TurnStep, SyncStep, CreateConversation,
     DeleteConversation, Request, Ask, Evaluate, SaveQuestion, Miss, NoQuestion, RewriteAndRetrieve,
     SearchAgain, Reply, Raise, CloseEvaluation, Kill, BeginReplace, EndReplace, Index, vars

LEMMA CountBounds == TypeOK /\ CountInv => WindowBound
BY LimitAssumption DEF TypeOK, CountInv, WindowBound

(* Between two expiries of the rate limit's key no more requests get       *)
(* through than Limit for each request that made the key 1, however those  *)
(* that found no key, and those that found one that has expired since,     *)
(* interleave with the increments of others.                               *)
THEOREM RateLimitHolds == Spec => []WindowBound
<1>1. Init => CountInv
  BY DEF Init, CountInv
<1>2. QED
  BY <1>1, CountStep, CountBounds, ChatTypes, PTL DEF Spec

----------------------------------------------------------------------------
(* Turns: what is known of one at each of its stages.                      *)

TurnInv(t) ==
  /\ pc[t] \in {"ready", "incrementing", "counting"} => kind[t] = "user"
  /\ pc[t] # "ready" => of[t] \in Conversation /\ conv[of[t]] # "none"
  /\ pc[t] \in {"ready", "incrementing", "counting", "admitted"} => ~question[t]
  /\ pc[t] \in {"rewriting", "thinking"} /\ Exists(of[t]) => question[t]
  /\ pc[t] \notin {"closing", "done"} => ~answer[t] /\ outcome[t] = "none"
  /\ answer[t] => question[t] /\ outcome[t] \in {"answered", "killed"}
  /\ outcome[t] = "answered" /\ Exists(of[t]) => answer[t]
  /\ outcome[t] = "refused" => ~question[t]
  /\ kind[t] # "user" /\ pc[t] = "done" /\ outcome[t] # "killed" =>
       ~Exists(of[t]) /\ ~question[t] /\ ~answer[t]

TurnsInv == \A t \in Turn : TurnInv(t)

(* Nothing that TurnInv speaks of changes.                                 *)
turnInvVars == <<conv, question, answer, pc, kind, of, outcome>>

(* Deleting a conversation takes what its turns have in the tables.        *)
LEMMA CascadeStep ==
  ASSUME TypeOK, TurnsInv, NEW c \in Conversation, conv[c] # "none", Cascade(c),
         UNCHANGED <<kind, of, outcome>>,
         NEW u \in Turn,
         \/ pc'[u] = pc[u]
         \/ pc[u] = "closing" /\ pc'[u] = "done" /\ c = of[u]
  PROVE  TurnInv(u)'
<1>1. /\ conv' = [conv EXCEPT ![c] = "deleted"]
      /\ question'[u] = (question[u] /\ of[u] # c)
      /\ answer'[u] = (answer[u] /\ of[u] # c)
  BY DEF Cascade, TypeOK
<1>2. TurnInv(u)
  BY DEF TurnsInv
<1>3. \A d : Exists(d)' /\ d \in Conversation => Exists(d) /\ d # c
  BY <1>1 DEF Exists, TypeOK
<1>4. pc[u] = "ready" \/ of[u] \in Conversation
  BY <1>2 DEF TurnInv
<1>5. QED
  BY <1>1, <1>2, <1>3, <1>4 DEF TurnInv, TypeOK

(* A turn of which only question, answer or stage change, in a             *)
(* conversation that stays or comes, leaves the others alone.              *)
LEMMA OthersStep ==
  ASSUME TypeOK, TurnsInv, NEW t \in Turn, NEW u \in Turn \ {t},
         pc'[u] = pc[u], kind'[u] = kind[u], of'[u] = of[u],
         outcome'[u] = outcome[u], question'[u] = question[u], answer'[u] = answer[u],
         \A c \in Conversation : conv[c] # "none" =>
           conv'[c] # "none" /\ (Exists(c)' <=> Exists(c))
  PROVE  TurnInv(u)'
<1>1. TurnInv(u)
  BY DEF TurnsInv
<1>2. CASE pc[u] = "ready"
  BY <1>1, <1>2 DEF TurnInv
<1>3. CASE pc[u] # "ready"
  BY <1>1, <1>3 DEF TurnInv
<1>4. QED
  BY <1>2, <1>3

LEMMA EndStep ==
  ASSUME TypeOK, TurnsInv, NEW t \in Turn, NEW how \in Outcome, End(t, how)
  PROVE  /\ pc'[t] = (IF kind[t] # "user" THEN "closing" ELSE "done")
         /\ outcome'[t] = how
         /\ \A u \in Turn \ {t} : pc'[u] = pc[u] /\ outcome'[u] = outcome[u]
BY DEF End, Forget, Goto, TypeOK

LEMMA TurnsStep == TypeOK /\ TurnsInv /\ [Next]_vars => TurnsInv'
<1> SUFFICES ASSUME TypeOK, TurnsInv, [Next]_vars, NEW u \in Turn PROVE TurnInv(u)'
  BY DEF TurnsInv
<1>0. TurnInv(u)
  BY DEF TurnsInv
<1> USE DEF tableVars, limitVars, memory, turnVars, syncVars
<1>1. CASE UNCHANGED turnInvVars
  BY <1>0, <1>1 DEF turnInvVars, TurnInv, Exists
<1>2. ASSUME NEW c \in Conversation, CreateConversation(c) PROVE TurnInv(u)'
  <2>1. conv[c] = "none" /\ conv' = [conv EXCEPT ![c] = "untitled"]
    BY <1>2 DEF CreateConversation, Fresh
  <2>2. CASE pc[u] = "ready"
    BY <1>0, <1>2, <2>2 DEF CreateConversation, TurnInv
  <2>3. CASE pc[u] # "ready"
    BY <1>0, <1>2, <2>1, <2>3 DEF CreateConversation, TurnInv, Exists, TypeOK
  <2>4. QED
    BY <2>2, <2>3
<1>3. ASSUME NEW c \in Conversation, DeleteConversation(c) PROVE TurnInv(u)'
  <2>1. conv[c] # "none"
    BY <1>3 DEF DeleteConversation, Exists
  <2>2. QED
    BY <1>3, <2>1, CascadeStep DEF DeleteConversation
<1>4. ASSUME NEW t \in Turn, NEW c \in Conversation, Request(t, c) PROVE TurnInv(u)'
  <2>1. CASE u # t
    BY <1>4, <2>1, OthersStep DEF Request, Goto, TypeOK, Exists
  <2>2. CASE u = t
    BY <1>0, <1>4, <2>2 DEF Request, Ready, Goto, TypeOK, TurnInv
  <2>3. QED
    BY <2>1, <2>2
<1>5. ASSUME NEW t \in Turn, NEW c \in Conversation, Ask(t, c) PROVE TurnInv(u)'
  <2>1. CASE u # t
    BY <1>5, <2>1, OthersStep DEF Ask, Goto, TypeOK, Exists
  <2>2. CASE u = t
    BY <1>0, <1>5, <2>2 DEF Ask, Ready, Goto, TypeOK, TurnInv
  <2>3. QED
    BY <2>1, <2>2
<1>6. ASSUME NEW t \in Turn, NEW c \in Conversation, NEW strategy \in {"direct", "agentic"},
             Evaluate(t, c, strategy)
      PROVE  TurnInv(u)'
  <2>1. conv[c] = "none" /\ conv' = [conv EXCEPT ![c] = "untitled"]
    BY <1>6 DEF Evaluate, Fresh
  <2>2. CASE u # t
    BY <1>6, <2>1, <2>2, OthersStep DEF Evaluate, Goto, TypeOK, Exists
  <2>3. CASE u = t
    BY <1>0, <1>6, <2>1, <2>3 DEF Evaluate, Ready, Goto, TypeOK, TurnInv
  <2>4. QED
    BY <2>2, <2>3
<1>7. ASSUME NEW t \in Turn, Increment(t) \/ StartWindow(t) PROVE TurnInv(u)'
  <2>1. \/ pc' = [pc EXCEPT ![t] = "admitted"] /\ outcome' = outcome
        \/ End(t, "refused")
    BY <1>7, Zenon DEF Increment, StartWindow, Judge, Goto
  <2>2. CASE u # t
    <3>1. pc'[u] = pc[u] /\ outcome'[u] = outcome[u]
      BY <2>1, <2>2, EndStep DEF Outcome, TypeOK
    <3>2. QED
      BY <1>7, <2>2, <3>1, OthersStep DEF Increment, StartWindow, TypeOK, Exists
  <2>3. CASE u = t
    <3>1. \/ pc'[t] = "admitted" /\ outcome'[t] = outcome[t]
          \/ /\ pc'[t] = (IF kind[t] # "user" THEN "closing" ELSE "done")
             /\ outcome'[t] = "refused"
      BY <2>1, EndStep DEF Outcome, TypeOK
    <3>2. pc[t] \in {"incrementing", "counting"} /\ kind[t] = "user"
      BY <1>7 DEF Increment, StartWindow, TurnsInv, TurnInv
    <3>3. QED
      BY <1>0, <1>7, <2>3, <3>1, <3>2 DEF Increment, StartWindow, TurnInv, Exists
  <2>4. QED
    BY <2>2, <2>3
<1>8. ASSUME NEW t \in Turn, SaveQuestion(t) PROVE TurnInv(u)'
  <2>1. /\ pc[t] = "admitted" /\ Exists(of[t]) /\ of[t] \in Conversation
        /\ conv' = [conv EXCEPT ![of[t]] = "titled"]
    BY <1>8 DEF SaveQuestion, TurnsInv, TurnInv
  <2>2. CASE u # t
    BY <1>8, <2>1, <2>2, OthersStep DEF SaveQuestion, Goto, TypeOK, Exists
  <2>3. CASE u = t
    BY <1>0, <1>8, <2>1, <2>3 DEF SaveQuestion, Goto, TypeOK, TurnInv, Exists
  <2>4. QED
    BY <2>2, <2>3
<1>9. ASSUME NEW t \in Turn, Miss(t) \/ NoQuestion(t) \/ Raise(t) PROVE TurnInv(u)'
  <2>1. CASE u # t
    BY <1>9, <2>1, EndStep, OthersStep DEF Miss, NoQuestion, Raise, Outcome, TypeOK, Exists
  <2>2. CASE u = t /\ Miss(t)
    BY <1>0, <2>2, EndStep DEF Miss, Outcome, TurnInv, Exists
  <2>3. CASE u = t /\ Raise(t)
    BY <1>0, <2>3, EndStep DEF Raise, Outcome, TurnInv, Exists
  <2>4. CASE u = t /\ NoQuestion(t)
    BY <1>0, <2>4, EndStep DEF NoQuestion, Outcome, TurnInv, Exists
  <2>5. QED
    BY <1>9, <2>1, <2>2, <2>3, <2>4
<1>10. ASSUME NEW t \in Turn, RewriteAndRetrieve(t) PROVE TurnInv(u)'
  <2>1. CASE u # t
    BY <1>10, <2>1, OthersStep DEF RewriteAndRetrieve, Goto, TypeOK, Exists
  <2>2. CASE u = t
    BY <1>0, <1>10, <2>2 DEF RewriteAndRetrieve, Goto, TypeOK, TurnInv, Exists
  <2>3. QED
    BY <2>1, <2>2
<1>11. ASSUME NEW t \in Turn, NEW claimed \in SUBSET Chunk, NEW twice \in BOOLEAN,
              Reply(t, claimed, twice)
       PROVE  TurnInv(u)'
  <2>1. CASE u # t
    BY <1>11, <2>1, EndStep, OthersStep DEF Reply, Outcome, TypeOK, Exists
  <2>2. CASE u = t /\ Accepted(t, Validated(t, claimed), twice)
    BY <1>0, <1>11, <2>2, EndStep DEF Reply, Accepted, Outcome, TypeOK, TurnInv, Exists
  <2>3. CASE u = t /\ ~Accepted(t, Validated(t, claimed), twice)
    BY <1>0, <1>11, <2>3, EndStep DEF Reply, Outcome, TypeOK, TurnInv, Exists
  <2>4. QED
    BY <2>1, <2>2, <2>3
<1>12. ASSUME NEW t \in Turn, CloseEvaluation(t) PROVE TurnInv(u)'
  <2>1. of[t] \in Conversation /\ conv[of[t]] # "none"
    BY <1>12 DEF CloseEvaluation, TurnsInv, TurnInv
  <2>2. pc'[u] = pc[u] \/ (pc[u] = "closing" /\ pc'[u] = "done" /\ of[t] = of[u])
    BY <1>12 DEF CloseEvaluation, Goto, TypeOK
  <2>3. QED
    BY <1>12, <2>1, <2>2, CascadeStep DEF CloseEvaluation
<1>13. ASSUME NEW t \in Turn, Kill(t) PROVE TurnInv(u)'
  <2>1. CASE u # t
    BY <1>13, <2>1, OthersStep DEF Kill, Forget, Goto, TypeOK, Exists
  <2>2. CASE u = t
    BY <1>0, <1>13, <2>2 DEF Kill, Forget, Goto, TypeOK, TurnInv, Exists
  <2>3. QED
    BY <2>1, <2>2
<1>14. QED
  BY <1>1, <1>2, <1>3, <1>4, <1>5, <1>6, <1>7, <1>8, <1>9, <1>10, <1>11, <1>12, <1>13
     DEF Next, UserStep, TurnStep, SyncStep, SearchAgain, Expire, Index, BeginReplace,
         EndReplace, vars, turnInvVars

LEMMA TurnsInit == Init => TurnsInv
BY DEF Init, TurnsInv, TurnInv

LEMMA TurnsInvariant == Spec => []TurnsInv
<1>1. QED
  BY TurnsInit, TurnsStep, ChatTypes, PTL DEF Spec

(* Message and citations commit together, a failed turn leaves its         *)
(* question at most, and a request turned away leaves nothing.             *)
THEOREM AnswersAreWhole == Spec => []AnsweredOrNot
<1>1. TurnsInv => AnsweredOrNot
  BY DEF TurnsInv, TurnInv, AnsweredOrNot
<1>2. QED
  BY <1>1, TurnsInvariant, PTL

(* The evaluation's finally clause reaches every turn it has begun, failed *)
(* ones included.                                                          *)
THEOREM EvaluationIsClean == Spec => []EvaluationLeavesNothing
<1>1. TurnsInv => EvaluationLeavesNothing
  BY DEF TurnsInv, TurnInv, EvaluationLeavesNothing
<1>2. QED
  BY <1>1, TurnsInvariant, PTL

----------------------------------------------------------------------------
(* Citations.                                                              *)

(* A row of the Citation table is of a chunk that is there and was shown   *)
(* at its rank, for an answer that is there.                               *)
CiteSound(row) ==
  /\ row.chunk \in live /\ answer[row.turn]
  /\ row.rank \in DOMAIN shown[row.turn] /\ shown[row.turn][row.rank] = row.chunk

CiteInv == (\A t \in Turn : Distinct(shown[t])) /\ \A row \in cites : CiteSound(row)

(* What has been shown to a turn may change as long as it has no answer.   *)
LEMMA ShownStep ==
  ASSUME TypeOK, CiteInv, UNCHANGED <<cites, answer>>, live \subseteq live',
         \A u \in Turn : Distinct(shown'[u]) /\ (answer[u] => shown'[u] = shown[u])
  PROVE  CiteInv'
BY DEF CiteInv, CiteSound, TypeOK, CitationRow, Distinct

(* The end of a turn forgets only what no answer was made of.              *)
LEMMA ForgetShown ==
  ASSUME TypeOK, CiteInv, NEW t \in Turn, NEW how, Forget(t, how)
  PROVE  \A u \in Turn : /\ Distinct(shown'[u])
                         /\ answer[u] => shown'[u] = shown[u]
                         /\ how = "answered" => shown'[u] = shown[u]
BY DEF Forget, CiteInv, Distinct, TypeOK

LEMMA SearchShown ==
  ASSUME TypeOK, CiteInv, TurnsInv, NEW t \in Turn, pc[t] \in {"rewriting", "thinking"},
         Retrieve(t)
  PROVE  \A u \in Turn : Distinct(shown'[u]) /\ (answer[u] => shown'[u] = shown[u])
<1>1. ~answer[t]
  BY DEF TurnsInv, TurnInv
<1>2. (\A u \in Turn \ {t} : shown'[u] = shown[u]) /\ Distinct(shown'[t])
  BY RetrieveAdds DEF TypeOK, CiteInv
<1>3. QED
  BY <1>1, <1>2 DEF CiteInv

LEMMA CiteCascade ==
  ASSUME TypeOK, CiteInv, NEW c, Cascade(c), UNCHANGED <<of, shown>>
  PROVE  CiteInv'
<1>1. \A row \in cites' : row \in cites /\ of[row.turn] # c /\ row.turn \in Turn
  BY DEF Cascade, TypeOK, CitationRow
<1>2. \A row \in cites' : answer'[row.turn] = answer[row.turn] /\ live' = live
  BY <1>1 DEF Cascade, TypeOK
<1>3. QED
  BY <1>1, <1>2 DEF CiteInv, CiteSound, Distinct

LEMMA CiteStep == TypeOK /\ TurnsInv /\ CiteInv /\ [Next]_vars => CiteInv'
<1> SUFFICES ASSUME TypeOK, TurnsInv, CiteInv, [Next]_vars PROVE CiteInv'
  OBVIOUS
<1> USE DEF tableVars, limitVars, memory, turnVars, syncVars
<1>1. CASE UNCHANGED <<live, answer, cites, shown>>
  BY <1>1 DEF CiteInv, CiteSound, Distinct
<1>2. ASSUME NEW t \in Turn, NEW how, Forget(t, how), UNCHANGED <<live, answer, cites>>
      PROVE  CiteInv'
  BY <1>2, ForgetShown, ShownStep
<1>3. ASSUME NEW c \in Conversation, DeleteConversation(c) PROVE CiteInv'
  BY <1>3, CiteCascade DEF DeleteConversation
<1>4. ASSUME NEW t \in Turn, CloseEvaluation(t) PROVE CiteInv'
  BY <1>4, CiteCascade DEF CloseEvaluation
<1>5. ASSUME NEW t \in Turn, Increment(t) PROVE CiteInv'
  <2>1. UNCHANGED <<live, answer, cites>> /\ (UNCHANGED shown \/ Forget(t, "refused"))
    BY <1>5, Zenon DEF Increment, Judge, End
  <2>2. QED
    BY <2>1, <1>1, <1>2
<1>6. ASSUME NEW t \in Turn, StartWindow(t) PROVE CiteInv'
  <2>1. UNCHANGED <<live, answer, cites>> /\ (UNCHANGED shown \/ Forget(t, "refused"))
    BY <1>6, Zenon DEF StartWindow, Judge, End
  <2>2. QED
    BY <2>1, <1>1, <1>2
<1>7. ASSUME NEW t \in Turn, Miss(t) \/ NoQuestion(t) \/ Raise(t) \/ Kill(t)
      PROVE  CiteInv'
  BY <1>7, <1>2 DEF Miss, NoQuestion, Raise, Kill, End
<1>8. ASSUME NEW t \in Turn, RewriteAndRetrieve(t) \/ SearchAgain(t) PROVE CiteInv'
  BY <1>8, SearchShown, ShownStep DEF RewriteAndRetrieve, SearchAgain
<1>9. ASSUME NEW t \in Turn, NEW claimed \in SUBSET Chunk, NEW twice \in BOOLEAN,
             Reply(t, claimed, twice)
      PROVE  CiteInv'
  <2> DEFINE rows == Validated(t, claimed)
  <2>1. CASE ~Accepted(t, rows, twice)
    BY <1>9, <1>2, <2>1 DEF Reply, End
  <2>2. CASE Accepted(t, rows, twice)
    <3>1. /\ answer' = [answer EXCEPT ![t] = TRUE] /\ cites' = cites \cup rows
          /\ Forget(t, "answered") /\ live' = live
      BY <1>9, <2>2, Zenon DEF Reply, End
    <3>2. \A u \in Turn : shown'[u] = shown[u] /\ Distinct(shown'[u])
      BY <3>1, ForgetShown
    <3>3. \A u \in Turn : answer[u] => answer'[u]
      BY <3>1 DEF TypeOK
    <3>4. ASSUME NEW row \in cites PROVE CiteSound(row)'
      <4>1. CiteSound(row) /\ row.turn \in Turn
        BY <3>4 DEF CiteInv, TypeOK, CitationRow
      <4>2. QED
        BY <4>1, <3>1, <3>2, <3>3 DEF CiteSound
    <3>5. ASSUME NEW row \in rows PROVE CiteSound(row)'
      <4>1. /\ row.turn = t /\ row.rank \in DOMAIN shown[t]
            /\ row.chunk = shown[t][row.rank] /\ row.chunk \in live
        BY <2>2, <3>5 DEF Accepted, Validated
      <4>2. answer'[t]
        BY <3>1 DEF TypeOK
      <4>3. QED
        BY <4>1, <4>2, <3>1, <3>2 DEF CiteSound
    <3>6. QED
      BY <3>1, <3>2, <3>4, <3>5 DEF CiteInv
  <2>3. QED
    BY <2>1, <2>2
<1>10. ASSUME NEW last \in used..MaxChunks, Index(last) PROVE CiteInv'
  BY <1>10 DEF Index, CiteInv, CiteSound, Distinct
<1>11. ASSUME NEW last \in used..MaxChunks, EndReplace(last) PROVE CiteInv'
  <2>1. CASE \E row \in cites \ swept : row.chunk \in doomed
    BY <1>1, <1>11, <2>1 DEF EndReplace
  <2>2. CASE ~\E row \in cites \ swept : row.chunk \in doomed
    <3>1. /\ live \ doomed \subseteq live' /\ cites' = cites \ swept
          /\ UNCHANGED <<answer, shown>>
      BY <1>11, <2>2 DEF EndReplace
    <3>2. QED
      BY <2>2, <3>1 DEF CiteInv, CiteSound, Distinct
  <2>3. QED
    BY <2>1, <2>2
<1>12. QED
  BY <1>1, <1>3, <1>4, <1>5, <1>6, <1>7, <1>8, <1>9, <1>10, <1>11
     DEF Next, UserStep, TurnStep, SyncStep, CreateConversation, Request, Ask, Evaluate,
         SaveQuestion, Expire, BeginReplace, vars

(* No citation of any answer is of a chunk the model was not shown in that *)
(* turn, or of one that is gone, or at another's rank, or there twice,     *)
(* whatever the model claims and however syncs replace chunks meanwhile.   *)
THEOREM CitationsAreSound == Spec => []CitationsSound
<1>1. Init => CiteInv
  BY DEF Init, CiteInv, Distinct
<1>2. TypeOK /\ CiteInv => CitationsSound
  <2> SUFFICES ASSUME TypeOK, CiteInv PROVE CitationsSound
    OBVIOUS
  <2>1. \A row \in cites : CiteSound(row) /\ row \in CitationRow
    BY DEF CiteInv, TypeOK
  <2>2. ASSUME NEW row \in cites, NEW other \in cites,
               row.turn = other.turn, row.chunk = other.chunk
        PROVE  row = other
    <3>1. row.turn \in Turn /\ Distinct(shown[row.turn])
      BY <2>1 DEF CitationRow, CiteInv
    <3>2. row.rank = other.rank
      BY <2>1, <2>2, <3>1 DEF CiteSound, Distinct
    <3>3. QED
      BY <2>1, <2>2, <3>2 DEF CitationRow
  <2>3. QED
    BY <2>1, <2>2 DEF CitationsSound, CiteSound
<1>3. QED
  BY <1>1, <1>2, CiteStep, ChatTypes, TurnsInvariant, PTL DEF Spec

=============================================================================
