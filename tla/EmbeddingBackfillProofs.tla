---------------------- MODULE EmbeddingBackfillProofs ----------------------
(***************************************************************************)
(* Proofs about EmbeddingBackfill for any number of documents, chunks and  *)
(* workers, any batch size and any number of retries.                      *)
(***************************************************************************)
EXTENDS EmbeddingBackfill, TLAPS

(* The parts of BackfillTypeOK the proofs below need, apart from the counters.     *)
RowsTyped == rows \in [Chunk -> Row \cup {NoRow}] /\ used \in 0..MaxChunks

LEMMA RowsStayTyped ==
  ASSUME BackfillTypeOK, [BackfillNext]_backfillVars PROVE RowsTyped'
<1> USE DEF RowsTyped, BackfillTypeOK
<1>1. ASSUME NEW d \in Document, NEW t \in Text, NEW last \in used..MaxChunks,
             Replace(d, t, last)
      PROVE  RowsTyped'
  <2>1. used' \in 0..MaxChunks
    BY <1>1, BackfillBounds DEF Replace
  <2>2. [doc |-> d, text |-> t, embedding |-> NoText] \in Row
    BY DEF Row
  <2>3. QED
    BY <1>1, <2>1, <2>2 DEF Replace
<1>2. ASSUME NEW w \in Embedder, SaveBatch(w) PROVE RowsTyped'
  <2>1. ASSUME NEW c \in Chunk, rows[c] # NoRow, c \in Ids(batch[w])
        PROVE  [rows[c] EXCEPT !.embedding =
                  (CHOOSE b \in batch[w] : b.id = c).text] \in Row
    <3>1. (CHOOSE b \in batch[w] : b.id = c) \in Copy
      BY <2>1 DEF Ids
    <3>2. rows[c] \in Row
      BY <2>1
    <3>3. QED
      BY <3>1, <3>2 DEF Row, Copy
  <2>2. QED
    BY <1>2, <2>1 DEF SaveBatch
<1>3. CASE UNCHANGED tableVars
  BY <1>3 DEF tableVars
<1>4. QED
  BY <1>1, <1>2, <1>3 DEF BackfillNext, SyncStep, TaskStep, StartSync, FinishSync,
     AbandonSync, StartBackfill, ReadBatch, Finish, Embed, Unavailable, Die, backfillVars

(* The other parts of the type.                                            *)
LEMMA TypeStep == BackfillTypeOK /\ [BackfillNext]_backfillVars => BackfillTypeOK'
<1> SUFFICES ASSUME BackfillTypeOK, [BackfillNext]_backfillVars PROVE BackfillTypeOK'
  OBVIOUS
<1>1. RowsTyped'
  BY RowsStayTyped
<1> USE <1>1, BackfillBounds DEF BackfillTypeOK, RowsTyped, historyVars, taskVars,
     tableVars, Leave
<1>2. ASSUME NEW d \in Document, StartSync(d) \/ FinishSync(d) \/ AbandonSync(d)
      PROVE BackfillTypeOK'
  <2>1. CASE StartSync(d)
    BY <1>2, <2>1 DEF StartSync
  <2>2. CASE FinishSync(d)
    <3>1. queue' \in [0..BackfillRetries -> Nat]
      BY <2>2 DEF FinishSync
    <3>2. QED
      BY <2>2, <3>1 DEF FinishSync
  <2>3. CASE AbandonSync(d)
    BY <2>3 DEF AbandonSync
  <2>4. QED
    BY <1>2, <2>1, <2>2, <2>3
<1>3. ASSUME NEW d \in Document, NEW t \in Text, NEW last \in used..MaxChunks,
             Replace(d, t, last)
      PROVE  BackfillTypeOK'
  BY <1>3 DEF Replace
<1>4. ASSUME NEW w \in Embedder, NEW n \in 0..BackfillRetries, StartBackfill(w, n)
      PROVE  BackfillTypeOK'
  BY <1>4 DEF StartBackfill, Busy
<1>5. ASSUME NEW w \in Embedder, ReadBatch(w) PROVE BackfillTypeOK'
  <2>1. PICK some \in SUBSET Pending : batch' = [batch EXCEPT ![w] =
          {[id |-> c, doc |-> rows[c].doc, text |-> rows[c].text] : c \in some}]
    BY <1>5 DEF ReadBatch
  <2>2. \A c \in some :
          [id |-> c, doc |-> rows[c].doc, text |-> rows[c].text] \in Copy
    BY DEF Pending, Row, Copy
  <2>3. batch' \in [Embedder -> SUBSET Copy]
    BY <2>1, <2>2
  <2>4. QED
    BY <1>5, <2>3 DEF ReadBatch
<1>6. ASSUME NEW w \in Embedder, Finish(w) \/ Unavailable(w) \/ Die(w)
      PROVE  BackfillTypeOK'
  <2>1. 0 \in 0..BackfillRetries /\ {} \in SUBSET Copy
    OBVIOUS
  <2>2. /\ at' \in [Embedder -> {"idle", "reading", "embedding", "saving"}]
        /\ attempt' \in [Embedder -> 0..BackfillRetries]
        /\ batch' \in [Embedder -> SUBSET Copy]
    BY <1>6, <2>1 DEF Finish, Unavailable, Die
  <2>3. queue' \in [0..BackfillRetries -> Nat] /\ lost' \in BOOLEAN
    <3>1. \/ queue' = queue
          \/ /\ attempt[w] < BackfillRetries
             /\ queue' = [queue EXCEPT ![attempt[w] + 1] = @ + 1]
      BY <1>6, Zenon DEF Finish, Unavailable, Die
    <3>2. ASSUME attempt[w] < BackfillRetries PROVE attempt[w] + 1 \in 0..BackfillRetries
      BY <3>2
    <3>3. queue' \in [0..BackfillRetries -> Nat]
      <4>1. ASSUME NEW n \in 0..BackfillRetries, queue' = [queue EXCEPT ![n] = @ + 1]
            PROVE  queue' \in [0..BackfillRetries -> Nat]
        BY <4>1
      <4>2. QED
        BY <3>1, <3>2, <4>1
    <3>4. lost' \in BOOLEAN
      BY <1>6, Zenon DEF Finish, Unavailable, Die
    <3>5. QED
      BY <3>3, <3>4
  <2>4. QED
    BY <1>6, <2>2, <2>3 DEF Finish, Unavailable, Die
<1>7. ASSUME NEW w \in Embedder, Embed(w) PROVE BackfillTypeOK'
  BY <1>7 DEF Embed, Ids, Copy
<1>8. ASSUME NEW w \in Embedder, SaveBatch(w) PROVE BackfillTypeOK'
  BY <1>8 DEF SaveBatch
<1>9. CASE UNCHANGED backfillVars
  BY <1>9 DEF backfillVars
<1>10. QED
  BY <1>2, <1>3, <1>4, <1>5, <1>6, <1>7, <1>8, <1>9 DEF BackfillNext, SyncStep, TaskStep

LEMMA TypeInit == BackfillInit => BackfillTypeOK
<1> SUFFICES ASSUME BackfillInit PROVE BackfillTypeOK
  OBVIOUS
<1>1. 0 \in 0..BackfillRetries /\ 0 \in 0..MaxSyncs /\ 0 \in 0..MaxChunks
  BY BackfillBounds
<1>2. /\ queue \in [0..BackfillRetries -> Nat]
      /\ attempt \in [Embedder -> 0..BackfillRetries]
      /\ batch \in [Embedder -> SUBSET Copy]
  BY <1>1 DEF BackfillInit
<1>3. QED
  BY <1>1, <1>2 DEF BackfillInit, BackfillTypeOK

(* Every variable keeps its type, for any constants.                       *)
THEOREM TypeCorrect == BackfillSpec => []BackfillTypeOK
<1>1. QED
  BY TypeInit, TypeStep, PTL DEF BackfillSpec

----------------------------------------------------------------------------
(* What a run remembers of a chunk stays true of it: a primary key is      *)
(* given to one row, and the row's text never changes.                     *)
KeysAreFresh == \A c \in Chunk : c > used => rows[c] = NoRow

MemoryTrue ==
  \A w \in Embedder : \A b \in batch[w] :
    b.id <= used /\ (rows[b.id] # NoRow => rows[b.id].text = b.text)

MatchInv == KeysAreFresh /\ MemoryTrue /\ EmbeddingsMatch /\ OneVersion

LEMMA MatchStep == BackfillTypeOK /\ MatchInv /\ [BackfillNext]_backfillVars => MatchInv'
<1> SUFFICES ASSUME BackfillTypeOK, MatchInv, [BackfillNext]_backfillVars PROVE MatchInv'
  OBVIOUS
<1>t. /\ rows \in [Chunk -> Row \cup {NoRow}] /\ used \in 0..MaxChunks
      /\ batch \in [Embedder -> SUBSET Copy] /\ Chunk \subseteq Nat /\ NoRow \notin Row
  BY NullAssumption DEF BackfillTypeOK, Chunk
<1>1. ASSUME NEW d \in Document, NEW t \in Text, NEW last \in used..MaxChunks,
             Replace(d, t, last)
      PROVE  MatchInv'
  <2> DEFINE new == [doc |-> d, text |-> t, embedding |-> NoText]
  <2>1. /\ new \in Row /\ new # NoRow /\ new.doc = d /\ new.text = t
        /\ new.embedding = NoText
    BY <1>t DEF Row
  <2>2. \A c \in Chunk : rows'[c] =
          IF c \in used + 1 .. last THEN new
          ELSE IF rows[c] # NoRow /\ rows[c].doc = d THEN NoRow ELSE rows[c]
    BY <1>1, <1>t DEF Replace
  <2>3. used' = last /\ batch' = batch
    BY <1>1 DEF Replace, taskVars
  <2>n. used \in Nat /\ last \in Nat /\ used <= last
    BY <1>t, BackfillBounds
  <2> HIDE DEF new
  <2>4. KeysAreFresh'
    <3> SUFFICES ASSUME NEW c \in Chunk, c > last PROVE rows'[c] = NoRow
      BY <2>3 DEF KeysAreFresh
    <3>1. c > used /\ c \notin used + 1 .. last
      BY <2>n, <1>t
    <3>2. QED
      BY <2>2, <3>1 DEF MatchInv, KeysAreFresh
  <2>5. MemoryTrue'
    <3> SUFFICES ASSUME NEW w \in Embedder, NEW b \in batch[w]
                 PROVE  b.id <= used' /\ (rows'[b.id] # NoRow => rows'[b.id].text = b.text)
      BY <2>3 DEF MemoryTrue
    <3>1. /\ b.id \in Chunk /\ b.id <= used
          /\ rows[b.id] # NoRow => rows[b.id].text = b.text
      BY <1>t DEF Copy, MatchInv, MemoryTrue
    <3>2. b.id \notin used + 1 .. last /\ b.id <= last
      <4>1. b.id \in Nat
        BY <3>1, <1>t
      <4> HIDE DEF Chunk
      <4>2. QED
        BY <4>1, <3>1, <2>n
    <3>3. QED
      BY <2>2, <2>3, <3>1, <3>2
  <2>6. EmbeddingsMatch'
    BY <2>1, <2>2 DEF MatchInv, EmbeddingsMatch
  <2>7. OneVersion'
    BY <2>1, <2>2 DEF MatchInv, OneVersion
  <2>8. QED
    BY <2>4, <2>5, <2>6, <2>7 DEF MatchInv
<1>2. ASSUME NEW w \in Embedder, SaveBatch(w) PROVE MatchInv'
  <2>1. used' = used /\ \A v \in Embedder : batch'[v] \subseteq batch[v]
    BY <1>2, <1>t DEF SaveBatch
  <2>2. ASSUME NEW c \in Chunk
        PROVE  \/ rows'[c] = rows[c]
               \/ /\ rows[c] # NoRow /\ rows'[c] # NoRow
                  /\ rows'[c].doc = rows[c].doc /\ rows'[c].text = rows[c].text
                  /\ rows'[c].embedding = rows[c].text
    <3> DEFINE b == CHOOSE b \in batch[w] : b.id = c
    <3>1. CASE rows[c] # NoRow /\ c \in Ids(batch[w])
      <4>1. b \in batch[w] /\ b.id = c
        BY <3>1 DEF Ids
      <4>2. b.text = rows[c].text
        BY <4>1, <3>1 DEF MatchInv, MemoryTrue
      <4> HIDE DEF b
      <4>3. rows[c] \in Row
        BY <3>1, <1>t
      <4>4. rows'[c] = [rows[c] EXCEPT !.embedding = rows[c].text]
        BY <1>2, <3>1, <1>t, <4>2 DEF SaveBatch, b
      <4>5. rows'[c] \in Row
        BY <4>3, <4>4 DEF Row
      <4>6. QED
        BY <3>1, <4>3, <4>4, <4>5, <1>t DEF Row
    <3>2. CASE ~(rows[c] # NoRow /\ c \in Ids(batch[w]))
      BY <1>2, <3>2, <1>t DEF SaveBatch
    <3>3. QED
      BY <3>1, <3>2
  <2>3. KeysAreFresh'
    BY <2>1, <2>2 DEF MatchInv, KeysAreFresh
  <2>4. MemoryTrue'
    <3> SUFFICES ASSUME NEW v \in Embedder, NEW b \in batch[v]
                 PROVE  b.id <= used /\ (rows'[b.id] # NoRow => rows'[b.id].text = b.text)
      BY <2>1 DEF MemoryTrue
    <3>1. b.id \in Chunk
      BY <1>t DEF Copy
    <3>2. QED
      BY <2>2, <3>1 DEF MatchInv, MemoryTrue
  <2>5. EmbeddingsMatch'
    BY <2>2 DEF MatchInv, EmbeddingsMatch
  <2>6. OneVersion'
    BY <2>2 DEF MatchInv, OneVersion
  <2>7. QED
    BY <2>3, <2>4, <2>5, <2>6 DEF MatchInv
<1>3. ASSUME NEW w \in Embedder, ReadBatch(w) PROVE MatchInv'
  <2>1. PICK some \in SUBSET Pending : batch' = [batch EXCEPT ![w] =
          {[id |-> c, doc |-> rows[c].doc, text |-> rows[c].text] : c \in some}]
    BY <1>3 DEF ReadBatch
  <2>2. rows' = rows /\ used' = used
    BY <1>3 DEF ReadBatch, tableVars
  <2>3. \A c \in some : c \in Chunk /\ c <= used
    BY <1>t DEF Pending, MatchInv, KeysAreFresh
  <2>4. \A b \in batch'[w] : b.id <= used /\ rows[b.id].text = b.text
    BY <2>1, <2>3, <1>t
  <2>5. \A v \in Embedder \ {w} : batch'[v] = batch[v]
    BY <2>1, <1>t
  <2>6. MemoryTrue'
    BY <2>2, <2>4, <2>5 DEF MatchInv, MemoryTrue
  <2>7. QED
    BY <2>2, <2>6 DEF MatchInv, KeysAreFresh, EmbeddingsMatch, OneVersion
<1>4. CASE UNCHANGED tableVars /\ \A v \in Embedder : batch'[v] \subseteq batch[v]
  BY <1>4 DEF tableVars, MatchInv, KeysAreFresh, MemoryTrue, EmbeddingsMatch,
     OneVersion
<1>5. ASSUME NEW w \in Embedder, Leave(w) PROVE \A v \in Embedder : batch'[v] \subseteq batch[v]
  BY <1>5, <1>t DEF Leave
<1>6. ASSUME NEW w \in Embedder, Finish(w) \/ Unavailable(w) \/ Die(w) PROVE MatchInv'
  BY <1>6, <1>4, <1>5 DEF Finish, Unavailable, Die
<1>7. ASSUME UNCHANGED <<rows, used, batch>> PROVE MatchInv'
  BY <1>4, <1>7 DEF tableVars
<1>8. QED
  BY <1>1, <1>2, <1>3, <1>6, <1>7 DEF BackfillNext, SyncStep, TaskStep, StartSync, FinishSync,
     AbandonSync, StartBackfill, Embed, backfillVars, tableVars, taskVars

LEMMA MatchInit == BackfillInit => MatchInv
  BY DEF BackfillInit, MatchInv, KeysAreFresh, MemoryTrue, EmbeddingsMatch, OneVersion

(* A chunk's embedding, if it has one, is that of its own text, however    *)
(* backfills and re-syncs overlap.                                         *)
THEOREM EmbeddingsMatchTexts == BackfillSpec => []EmbeddingsMatch
<1>1. MatchInv => EmbeddingsMatch
  BY DEF MatchInv
<1>2. QED
  BY <1>1, TypeInit, TypeStep, MatchInit, MatchStep, PTL DEF BackfillSpec

(* A document's chunks are all of the same version of it.                  *)
THEOREM VersionsDoNotMix == BackfillSpec => []OneVersion
<1>1. MatchInv => OneVersion
  BY DEF MatchInv
<1>2. QED
  BY <1>1, TypeInit, TypeStep, MatchInit, MatchStep, PTL DEF BackfillSpec

----------------------------------------------------------------------------

LEMMA ForgottenStep == BackfillTypeOK /\ NothingForgotten /\ [BackfillNext]_backfillVars => NothingForgotten'
<1> SUFFICES ASSUME BackfillTypeOK, NothingForgotten, [BackfillNext]_backfillVars PROVE NothingForgotten'
  OBVIOUS
<1> USE DEF BackfillTypeOK, Busy, taskVars, tableVars, historyVars, Leave
<1>0. 0 \in 0..BackfillRetries
  BY BackfillBounds
<1>1. ASSUME NEW d \in Document, FinishSync(d) PROVE NothingForgotten'
  <2>1. queue'[0] > 0
    BY <1>0, <1>1 DEF FinishSync
  <2>2. QED
    BY <1>0, <2>1 DEF NothingForgotten
<1>2. ASSUME NEW d \in Document, StartSync(d) \/ AbandonSync(d) PROVE NothingForgotten'
  BY <1>2 DEF StartSync, AbandonSync, NothingForgotten
<1>3. ASSUME NEW d \in Document, NEW t \in Text, NEW last \in used..MaxChunks,
             Replace(d, t, last)
      PROVE  NothingForgotten'
  BY <1>3 DEF Replace, NothingForgotten
<1>4. ASSUME NEW w \in Embedder, NEW n \in 0..BackfillRetries, StartBackfill(w, n)
      PROVE  NothingForgotten'
  <2>1. w \in Busy'
    BY <1>4 DEF StartBackfill
  <2>2. QED
    BY <2>1 DEF NothingForgotten
<1>5. ASSUME NEW w \in Embedder, ReadBatch(w) \/ Embed(w) \/ SaveBatch(w)
      PROVE  NothingForgotten'
  <2>1. w \in Busy'
    BY <1>5 DEF ReadBatch, Embed, SaveBatch
  <2>2. QED
    BY <2>1 DEF NothingForgotten
<1>6. ASSUME NEW w \in Embedder, Finish(w) PROVE NothingForgotten'
  BY <1>6 DEF Finish, Pending, NothingForgotten
<1>7. ASSUME NEW w \in Embedder, Unavailable(w) PROVE NothingForgotten'
  <2>1. CASE attempt[w] < BackfillRetries
    <3>1. attempt[w] + 1 \in 0..BackfillRetries
      BY <2>1, BackfillBounds
    <3>2. queue' = [queue EXCEPT ![attempt[w] + 1] = @ + 1]
      BY <1>7, <2>1, BackfillBounds DEF Unavailable
    <3>3. queue'[attempt[w] + 1] > 0
      BY <3>1, <3>2
    <3>4. QED
      BY <3>1, <3>3 DEF NothingForgotten
  <2>2. CASE attempt[w] = BackfillRetries
    BY <1>7, <2>2, BackfillBounds DEF Unavailable, NothingForgotten
  <2>3. QED
    BY <2>1, <2>2, BackfillBounds
<1>8. ASSUME NEW w \in Embedder, Die(w) PROVE NothingForgotten'
  BY <1>8 DEF Die, NothingForgotten
<1>9. CASE UNCHANGED backfillVars
  BY <1>9 DEF backfillVars, NothingForgotten, Pending
<1>10. QED
  BY <1>1, <1>2, <1>3, <1>4, <1>5, <1>6, <1>7, <1>8, <1>9
  DEF BackfillNext, SyncStep, TaskStep

(* No chunk waits for an embedding that nobody is going to compute, unless *)
(* a sync or a backfill was cut short.                                     *)
THEOREM NoChunkForgotten == BackfillSpec => []NothingForgotten
<1>1. BackfillInit => NothingForgotten
  BY DEF BackfillInit, NothingForgotten, Pending
<1>2. QED
  BY <1>1, TypeInit, TypeStep, ForgottenStep, PTL DEF BackfillSpec

----------------------------------------------------------------------------
(* Without overlap one process holds whatever is paid for and not saved.   *)
PaidIsOld == \A c \in billed : c <= used

PaidIsHeld ==
  \A c \in billed \cap Pending :
    \E w \in Embedder : at[w] = "saving" /\ c \in Ids(batch[w])

OnceRun ==
  /\ \A v, w \in Busy : v = w
  /\ \A w \in Embedder : at[w] = "embedding" => Ids(batch[w]) \cap billed = {}
  /\ PaidIsHeld

OnceInv == PaidIsOld /\ (~overlap => OnceRun)

LEMMA PaidIsOldStep ==
  ASSUME BackfillTypeOK, MatchInv, PaidIsOld, [BackfillNext]_backfillVars PROVE PaidIsOld'
<1> USE DEF PaidIsOld, BackfillTypeOK, tableVars, historyVars
<1>1. ASSUME NEW w \in Embedder, Embed(w) PROVE PaidIsOld'
  <2>1. \A c \in Ids(batch[w]) : c <= used
    BY DEF MatchInv, MemoryTrue, Ids
  <2>2. QED
    BY <1>1, <2>1 DEF Embed
<1>2. ASSUME NEW d \in Document, NEW t \in Text, NEW last \in used..MaxChunks,
             Replace(d, t, last)
      PROVE  PaidIsOld'
  <2>1. used' = last /\ billed' = billed /\ used <= last /\ used \in Nat /\ last \in Nat
    BY <1>2, BackfillBounds DEF Replace
  <2>2. \A c \in billed : c \in Nat
    BY DEF Chunk
  <2>3. QED
    BY <2>1, <2>2
<1>3. QED
  BY <1>1, <1>2, Zenon DEF BackfillNext, SyncStep, TaskStep, StartSync, FinishSync,
     AbandonSync, StartBackfill, ReadBatch, Finish, Unavailable, SaveBatch, Die, backfillVars

LEMMA OnceStep ==
  ASSUME BackfillTypeOK, MatchInv, OnceInv, [BackfillNext]_backfillVars, ~overlap' PROVE OnceRun'
<1> USE DEF Busy, Leave, tableVars, taskVars, historyVars
<1>type. /\ rows \in [Chunk -> Row \cup {NoRow}] /\ NoRow \notin Row
         /\ at \in [Embedder -> {"idle", "reading", "embedding", "saving"}]
         /\ batch \in [Embedder -> SUBSET Copy] /\ overlap \in BOOLEAN
         /\ billed \in SUBSET Chunk
  BY NullAssumption DEF BackfillTypeOK
<1>was. ~overlap /\ OnceRun /\ PaidIsOld
  <2>1. overlap => overlap'
    BY Zenon DEF BackfillNext, SyncStep, TaskStep, StartSync, FinishSync, AbandonSync,
       Replace, StartBackfill, ReadBatch, Finish, Embed, Unavailable, SaveBatch,
       Die, backfillVars
  <2>2. QED
    BY <2>1 DEF OnceInv
<1>1. ASSUME NEW d \in Document, NEW t \in Text, NEW last \in used..MaxChunks,
             Replace(d, t, last)
      PROVE  OnceRun'
  <2>1. ASSUME NEW c \in billed PROVE rows'[c] = NoRow \/ rows'[c] = rows[c]
    <3>1. c \in Chunk /\ c \notin used + 1 .. last
      BY <1>was, <1>type, BackfillBounds DEF PaidIsOld, BackfillTypeOK, Chunk
    <3>2. QED
      BY <1>1, <3>1 DEF Replace
  <2>2. UNCHANGED <<at, batch, billed>>
    BY <1>1 DEF Replace
  <2>3. billed \cap Pending' \subseteq Pending
    BY <2>1 DEF Pending
  <2>4. QED
    BY <1>was, <2>2, <2>3 DEF OnceRun, PaidIsHeld
<1>2. ASSUME NEW w \in Embedder, NEW n \in 0..BackfillRetries, StartBackfill(w, n)
      PROVE  OnceRun'
  <2>1. Busy = {} /\ at' = [at EXCEPT ![w] = "reading"]
        /\ UNCHANGED <<rows, batch, billed>>
    BY <1>2 DEF StartBackfill
  <2>2. \A v \in Embedder : at[v] = "idle"
    BY <2>1
  <2>3. billed \cap Pending = {} /\ Pending' = Pending
    BY <1>was, <2>1, <2>2 DEF OnceRun, PaidIsHeld, Pending
  <2>4. QED
    BY <1>type, <2>1, <2>2, <2>3 DEF OnceRun, PaidIsHeld
<1>3. ASSUME NEW w \in Embedder, ReadBatch(w) PROVE OnceRun'
  <2>1. PICK some \in SUBSET Pending : batch' = [batch EXCEPT ![w] =
          {[id |-> c, doc |-> rows[c].doc, text |-> rows[c].text] : c \in some}]
    BY <1>3 DEF ReadBatch
  <2>2. at[w] = "reading" /\ at' = [at EXCEPT ![w] = "embedding"]
        /\ UNCHANGED <<rows, billed>>
    BY <1>3 DEF ReadBatch
  <2>3. \A v \in Embedder \ {w} : at[v] = "idle"
    BY <1>was, <2>2 DEF OnceRun
  <2>4. billed \cap Pending = {} /\ Pending' = Pending
    BY <1>was, <2>2, <2>3 DEF OnceRun, PaidIsHeld, Pending
  <2>5. Ids(batch'[w]) \subseteq Pending
    BY <1>type, <2>1 DEF Ids
  <2>6. QED
    BY <1>type, <2>2, <2>3, <2>4, <2>5 DEF OnceRun, PaidIsHeld
<1>4. ASSUME NEW w \in Embedder, Embed(w) PROVE OnceRun'
  <2>1. at[w] = "embedding" /\ at' = [at EXCEPT ![w] = "saving"]
        /\ UNCHANGED <<rows, batch>> /\ billed' = billed \cup Ids(batch[w])
    BY <1>4 DEF Embed
  <2>2. \A v \in Embedder \ {w} : at[v] = "idle"
    BY <1>was, <2>1 DEF OnceRun
  <2>3. billed \cap Pending = {} /\ Pending' = Pending
    BY <1>was, <2>1, <2>2 DEF OnceRun, PaidIsHeld, Pending
  <2>4. QED
    BY <1>type, <2>1, <2>2, <2>3 DEF OnceRun, PaidIsHeld
<1>5. ASSUME NEW w \in Embedder, SaveBatch(w) PROVE OnceRun'
  <2>1. at[w] = "saving" /\ at' = [at EXCEPT ![w] = "reading"] /\ billed' = billed
    BY <1>5 DEF SaveBatch
  <2>2. \A v \in Embedder \ {w} : at[v] = "idle"
    BY <1>was, <2>1 DEF OnceRun
  <2>3. ASSUME NEW c \in Chunk, rows[c] # NoRow, c \in Ids(batch[w])
        PROVE  rows'[c].embedding # NoText
    <3> DEFINE b == CHOOSE b \in batch[w] : b.id = c
    <3>1. b \in Copy
      BY <1>type, <2>3 DEF Ids
    <3>2. b.text # NoText /\ rows[c] \in Row
      BY <1>type, <2>3, <3>1, NullAssumption DEF Copy
    <3> HIDE DEF b
    <3>3. rows'[c] = [rows[c] EXCEPT !.embedding = b.text]
      BY <1>5, <2>3, <1>type DEF SaveBatch, b
    <3>4. QED
      BY <3>2, <3>3 DEF Row
  <2>4. ASSUME NEW c \in billed, c \in Pending' PROVE FALSE
    <3>1. c \in Chunk /\ rows'[c] # NoRow /\ rows'[c].embedding = NoText
      BY <2>4 DEF Pending
    <3>2. rows'[c] = rows[c] \/ (rows[c] # NoRow /\ c \in Ids(batch[w]))
      BY <1>5, <1>type, <3>1 DEF SaveBatch
    <3>3. rows'[c] = rows[c] /\ c \notin Ids(batch[w])
      BY <2>3, <3>1, <3>2
    <3>4. c \in Pending
      BY <3>1, <3>3 DEF Pending
    <3>5. QED
      BY <1>was, <2>2, <2>4, <3>3, <3>4 DEF OnceRun, PaidIsHeld
  <2>5. QED
    BY <1>type, <2>1, <2>2, <2>4 DEF OnceRun, PaidIsHeld
<1>6. ASSUME NEW w \in Embedder, Finish(w) \/ Unavailable(w) PROVE OnceRun'
  <2>1. /\ at[w] \in {"reading", "embedding"} /\ at' = [at EXCEPT ![w] = "idle"]
        /\ UNCHANGED <<rows, billed>>
    BY <1>6 DEF Finish, Unavailable
  <2>2. \A v \in Embedder \ {w} : at[v] = "idle"
    BY <1>was, <2>1 DEF OnceRun
  <2>3. billed \cap Pending = {} /\ Pending' = Pending
    BY <1>was, <2>1, <2>2 DEF OnceRun, PaidIsHeld, Pending
  <2>4. QED
    BY <1>type, <2>1, <2>2, <2>3 DEF OnceRun, PaidIsHeld
<1>7. CASE UNCHANGED <<rows, at, batch, billed>>
  BY <1>was, <1>7 DEF OnceRun, PaidIsHeld, Pending
<1>8. ASSUME NEW w \in Embedder, Die(w) PROVE FALSE
  BY <1>8 DEF Die
<1>9. QED
  BY <1>1, <1>2, <1>3, <1>4, <1>5, <1>6, <1>7, <1>8, Zenon
  DEF BackfillNext, SyncStep, TaskStep, StartSync, FinishSync, AbandonSync, backfillVars

(* A retried task pays for no chunk again, as long as backfills neither    *)
(* overlap nor are killed.                                                 *)
THEOREM ChunksArePaidOnce == BackfillSpec => RetriesEmbedOnce
<1> DEFINE Inv == BackfillTypeOK /\ MatchInv /\ OnceInv
           Once == \A w \in Embedder :
                     Embed(w) /\ ~overlap => Ids(batch[w]) \cap billed = {}
<1>1. BackfillInit => Inv
  BY TypeInit, MatchInit
  DEF BackfillInit, OnceInv, OnceRun, PaidIsOld, PaidIsHeld, Busy
<1>2. Inv /\ [BackfillNext]_backfillVars => Inv'
  BY TypeStep, MatchStep, PaidIsOldStep, OnceStep DEF OnceInv
<1>3. Inv => Once
  BY DEF OnceInv, OnceRun, Embed
<1>4. Inv /\ [BackfillNext]_backfillVars => [Once]_backfillVars
  BY <1>3
<1>5. QED
  BY <1>1, <1>2, <1>4, PTL DEF BackfillSpec, RetriesEmbedOnce

=============================================================================
