-------------------------- MODULE ReconcileProofs --------------------------
(***************************************************************************)
(* Proofs about Reconcile for any files, contents and number of runs.      *)
(***************************************************************************)
EXTENDS Reconcile, FiniteSetTheorems, TLAPS

(* A run past Fetch has a document in hand, and one that is about to mark  *)
(* a duplicate has the original.                                           *)
HandKnown ==
  \A w \in Worker :
    /\ step[w] \in {"save", "dedup", "mark", "process"} =>
         cur[w] \in Path /\ got[w] \in Content
    /\ step[w] = "mark" => canon[w] \in Path

(* Past its save, the document in hand has a row: no row ever vanishes.    *)
HandHasRow ==
  \A w \in Worker : step[w] \in {"dedup", "mark", "process"} =>
    docs[cur[w]] # NoDoc

TypeInv == TypeOK /\ HandKnown /\ HandHasRow

LEMMA NoRowsTyped == NoRows \in [Path -> Row \cup {NoDoc}]
BY DEF NoRows

LEMMA NoStatsTyped == NoStats \in Stats
BY DEF NoStats, Stats

LEMMA CountTyped ==
  ASSUME NEW count \in Stats, NEW row \in Row \cup {NoDoc}
  PROVE  Count(count, row) \in Stats
BY DEF Count, Stats

LEMMA DeletedTyped ==
  ASSUME NEW count \in Stats, NEW gone \in SUBSET Path
  PROVE  [count EXCEPT !.deleted = Cardinality(gone)] \in Stats
BY PathAssumption, FS_Subset, FS_CardinalityType DEF Stats

LEMMA RowTyped ==
  ASSUME NEW hash \in Content, NEW created \in Nat, NEW deleted \in BOOLEAN,
         NEW dup \in Path \cup {NoPath}
  PROVE  [hash |-> hash, created |-> created, deleted |-> deleted, dup |-> dup]
           \in Row
BY DEF Row

LEMMA RowKept ==
  ASSUME NEW row \in Row, NEW q \in Path
  PROVE  /\ [row EXCEPT !.deleted = TRUE] \in Row
         /\ [row EXCEPT !.dup = q] \in Row
         /\ row.created \in Nat
BY DEF Row

----------------------------------------------------------------------------

LEMMA TypeInit == Init => TypeInv
<1> SUFFICES ASSUME Init PROVE TypeInv
  OBVIOUS
<1>1. TablesTyped
  BY NoRowsTyped DEF Init, TablesTyped
<1>2. RunsTyped
  BY NoRowsTyped, NoStatsTyped DEF Init, RunsTyped
<1>3. HandTyped /\ HandKnown /\ HandHasRow
  BY DEF Init, HandTyped, HandKnown, HandHasRow
<1>4. HistoryTyped
  BY DEF Init, HistoryTyped
<1>5. edits \in 0..MaxEdits
  BY EditAssumption DEF Init
<1>6. QED
  BY <1>1, <1>2, <1>3, <1>4, <1>5 DEF TypeInv, TypeOK

(* The end of a run, however it comes, resets what is local to it.         *)
LEMMA LeaveTyped ==
  ASSUME TypeInv, NEW w \in Worker, Leave(w), UNCHANGED docs
  PROVE  RunsTyped' /\ HandTyped' /\ HandKnown' /\ HandHasRow'
<1>1. RunsTyped'
  BY NoRowsTyped, NoStatsTyped DEF TypeInv, TypeOK, RunsTyped, Leave
<1>2. HandTyped' /\ HandKnown' /\ HandHasRow'
  BY DEF TypeInv, TypeOK, RunsTyped, HandTyped, HandKnown, HandHasRow, Leave, PutDown
<1>3. QED
  BY <1>1, <1>2

(* Every step keeps the types.                                             *)
LEMMA TypeStep == TypeInv /\ [Next]_vars => TypeInv'
<1> SUFFICES ASSUME TypeInv, [Next]_vars PROVE TypeInv'
  OBVIOUS
<1>type. TablesTyped /\ RunsTyped /\ HandTyped /\ HandKnown /\ HandHasRow /\ HistoryTyped
  BY DEF TypeInv, TypeOK
<1>edits. edits' \in 0..MaxEdits
  <2>1. edits \in 0..MaxEdits
    BY DEF TypeInv, TypeOK
  <2>2. ASSUME NEW p \in Path, NEW c \in Content \cup {NoContent}, Edit(p, c)
        PROVE  edits' = edits + 1 /\ edits < MaxEdits
    BY <2>2 DEF Edit
  <2>3. ASSUME NEW w \in Worker, Write(w) PROVE edits' = edits
    BY <2>3 DEF Write, Create, Update, DropChunks, Mark, NoDuplicate, Process,
       SoftDelete, Purge
  <2>4. ASSUME NEW w \in Worker,
               Begin(w) \/ (\E p \in Path : Fetch(w, p)) \/ Cancel(w)
                 \/ Return(w) \/ Abandon(w)
        PROVE  edits' = edits
    BY <2>4 DEF Begin, Fetch, Cancel, Return, Abandon
  <2>5. edits' = edits \/ (edits' = edits + 1 /\ edits < MaxEdits)
    BY <2>2, <2>3, <2>4, Zenon DEF Next, vars
  <2>6. QED
    BY <2>1, <2>5, EditAssumption
<1>parts. TablesTyped' /\ RunsTyped' /\ HandTyped' /\ HandKnown' /\ HandHasRow' /\ HistoryTyped'
            => TypeInv'
  BY <1>edits DEF TypeInv, TypeOK
<1>1. ASSUME NEW p \in Path, NEW c \in Content \cup {NoContent}, Edit(p, c)
      PROVE  TypeInv'
  <2>1. TablesTyped' /\ HistoryTyped'
    BY <1>1, <1>type DEF Edit, TablesTyped, HistoryTyped, tableVars
  <2>2. RunsTyped' /\ HandTyped' /\ HandKnown' /\ HandHasRow'
    BY <1>1, <1>type DEF Edit, RunsTyped, HandTyped, HandKnown, HandHasRow, listVars, handVars,
       tableVars
  <2>3. QED
    BY <2>1, <2>2, <1>parts
<1>2. ASSUME NEW w \in Worker, Begin(w) PROVE TypeInv'
  <2>1. TablesTyped' /\ HistoryTyped'
    BY <1>2, <1>type DEF Begin, TablesTyped, HistoryTyped, tableVars
  <2>2. RunsTyped'
    BY <1>2, <1>type DEF Begin, Goto, RunsTyped, TablesTyped, Files
  <2>3. HandTyped' /\ HandKnown' /\ HandHasRow'
    BY <1>2, <1>type DEF Begin, Goto, RunsTyped, HandTyped, HandKnown, HandHasRow, handVars,
       tableVars
  <2>4. QED
    BY <2>1, <2>2, <2>3, <1>parts
<1>3. ASSUME NEW w \in Worker, NEW p \in Path, Fetch(w, p) PROVE TypeInv'
  <2>1. TablesTyped' /\ HistoryTyped'
    BY <1>3, <1>type DEF Fetch, TablesTyped, HistoryTyped, tableVars, historyVars
  <2>2. RunsTyped'
    BY <1>3, <1>type DEF Fetch, RunsTyped
  <2>3. disk[p] \in Content
    BY <1>3, <1>type DEF Fetch, TablesTyped, Files
  <2>4. HandTyped' /\ HandKnown'
    <3>1. HandTyped'
      BY <1>3, <2>3, <1>type DEF Fetch, HandTyped
    <3>2. HandKnown'
      BY <1>3, <2>3, <1>type DEF Fetch, RunsTyped, HandTyped, HandKnown
    <3>3. QED
      BY <3>1, <3>2
  <2>5. HandHasRow'
    BY <1>3, <1>type DEF Fetch, RunsTyped, HandTyped, HandHasRow, tableVars
  <2>6. QED
    BY <2>1, <2>2, <2>4, <2>5, <1>parts
<1>4. ASSUME NEW w \in Worker, Cancel(w) \/ Return(w) PROVE TypeInv'
  <2>1. TablesTyped' /\ HistoryTyped'
    BY <1>4, <1>type DEF Cancel, Return, Leave, TablesTyped, HistoryTyped, tableVars
  <2>2. QED
    BY <1>4, <2>1, <1>parts, LeaveTyped DEF Cancel, Return, tableVars
<1>5. ASSUME NEW w \in Worker, Abandon(w) PROVE TypeInv'
  <2>1. InHand(w) \subseteq Path
    BY <1>type DEF InHand, Missing, HandKnown
  <2>2. TablesTyped' /\ HistoryTyped'
    BY <1>5, <2>1, <1>type DEF Abandon, Leave, TablesTyped, HistoryTyped, tableVars
  <2>3. QED
    BY <1>5, <2>2, <1>parts, LeaveTyped DEF Abandon, tableVars
<1>6. ASSUME NEW w \in Worker, Create(w) PROVE TypeInv'
  <2>1. clock' \in Nat /\ cur[w] \in Path /\ got[w] \in Content
    BY <1>6, <1>type DEF Create, Goto, TablesTyped, HandKnown
  <2>2. TablesTyped' /\ HistoryTyped'
    BY <1>6, <2>1, <1>type, RowTyped
    DEF Create, TablesTyped, HistoryTyped, historyVars
  <2>3. RunsTyped' /\ HandTyped' /\ HandKnown'
    BY <1>6, <1>type, CountTyped
    DEF Create, Goto, RunsTyped, HandTyped, HandKnown, listVars, handVars
  <2>4. docs'[cur[w]] # NoDoc /\ \A p \in Path : docs[p] # NoDoc => docs'[p] # NoDoc
    <3>1. docs'[cur[w]] \in Row
      BY <1>6, <2>1, <1>type, RowTyped, RowKept DEF Create, TablesTyped
    <3>2. \A p \in Path : p = cur[w] \/ docs'[p] = docs[p]
      BY <1>6, <2>1, <1>type DEF Create, TablesTyped
    <3>3. QED
      BY <3>1, <3>2, RowAssumption
  <2>5. HandHasRow'
    BY <1>6, <2>4, <1>type
    DEF Create, Goto, RunsTyped, HandHasRow, HandKnown, handVars
  <2>6. QED
    BY <2>2, <2>3, <2>5, <1>parts
<1>7. ASSUME NEW w \in Worker, Update(w) PROVE TypeInv'
  <2>1. cur[w] \in Path /\ got[w] \in Content /\ snap[w][cur[w]] \in Row
    BY <1>7, <1>type DEF Update, Goto, RunsTyped, HandKnown
  <2>2. TablesTyped' /\ HistoryTyped'
    BY <1>7, <2>1, <1>type, RowTyped, RowKept
    DEF Update, TablesTyped, HistoryTyped, historyVars
  <2>3. RunsTyped' /\ HandTyped' /\ HandKnown'
    BY <1>7, <2>1, <1>type, CountTyped
    DEF Update, Goto, RunsTyped, HandTyped, HandKnown, listVars, handVars
  <2>4. docs'[cur[w]] # NoDoc /\ \A p \in Path : docs[p] # NoDoc => docs'[p] # NoDoc
    <3>1. docs'[cur[w]] \in Row
      BY <1>7, <2>1, <1>type, RowTyped, RowKept DEF Update, TablesTyped
    <3>2. \A p \in Path : p = cur[w] \/ docs'[p] = docs[p]
      BY <1>7, <2>1, <1>type DEF Update, TablesTyped
    <3>3. QED
      BY <3>1, <3>2, RowAssumption
  <2>5. HandHasRow'
    BY <1>7, <2>4, <1>type
    DEF Update, Goto, RunsTyped, HandHasRow, HandKnown, handVars
  <2>6. QED
    BY <2>2, <2>3, <2>5, <1>parts
<1>8. ASSUME NEW w \in Worker, DropChunks(w) \/ NoDuplicate(w) PROVE TypeInv'
  <2>1. TablesTyped' /\ HistoryTyped'
    BY <1>8, <1>type DEF DropChunks, NoDuplicate, TablesTyped, HistoryTyped,
       tableVars, historyVars
  <2>2. RunsTyped' /\ HandTyped' /\ HandKnown' /\ HandHasRow'
    BY <1>8, <1>type DEF DropChunks, NoDuplicate, Goto, RunsTyped, HandTyped,
       HandKnown, HandHasRow, tableVars, listVars, handVars, Canonical, Candidates
  <2>3. QED
    BY <2>1, <2>2, <1>parts
<1>9. ASSUME NEW w \in Worker, Mark(w) PROVE TypeInv'
  <2>1. cur[w] \in Path /\ canon[w] \in Path /\ docs[cur[w]] \in Row
    BY <1>9, <1>type DEF Mark, Goto, HandKnown, HandHasRow, TablesTyped
  <2>2. TablesTyped' /\ HistoryTyped'
    BY <1>9, <2>1, <1>type, RowKept DEF Mark, TablesTyped, HistoryTyped
  <2>3. RunsTyped' /\ HandTyped' /\ HandKnown'
    BY <1>9, <1>type
    DEF Mark, Goto, PutDown, RunsTyped, HandTyped, HandKnown, listVars
  <2>4. HandHasRow'
    BY <1>9, <2>1, <1>type, RowKept, RowAssumption
    DEF Mark, Goto, PutDown, RunsTyped, HandTyped, HandKnown, TablesTyped, HandHasRow
  <2>5. QED
    BY <2>2, <2>3, <2>4, <1>parts
<1>10. ASSUME NEW w \in Worker, Process(w) \/ Purge(w) PROVE TypeInv'
  <2>1. TablesTyped' /\ HistoryTyped'
    BY <1>10, <1>type
    DEF Process, Purge, Goto, HandKnown, TablesTyped, HistoryTyped, Missing
  <2>2. RunsTyped' /\ HandTyped' /\ HandKnown' /\ HandHasRow'
    BY <1>10, <1>type DEF Process, Purge, Goto, PutDown, RunsTyped, HandTyped,
       HandKnown, HandHasRow, listVars, handVars
  <2>3. QED
    BY <2>1, <2>2, <1>parts
<1>11. ASSUME NEW w \in Worker, SoftDelete(w) PROVE TypeInv'
  <2>1. TablesTyped' /\ HistoryTyped'
    BY <1>11, <1>type, RowKept DEF SoftDelete, Live, TablesTyped, HistoryTyped,
       historyVars
  <2>2. RunsTyped'
    BY <1>11, <1>type, DeletedTyped
    DEF SoftDelete, Goto, RunsTyped, Missing, listVars
  <2>3. HandTyped' /\ HandKnown'
    BY <1>11, <1>type
    DEF SoftDelete, Goto, RunsTyped, HandTyped, HandKnown, handVars
  <2>4. \A p \in Path : docs[p] # NoDoc => docs'[p] # NoDoc
    BY <1>11, <1>type, RowKept, RowAssumption DEF SoftDelete, Live, TablesTyped
  <2>5. HandHasRow'
    BY <1>11, <2>4, <1>type
    DEF SoftDelete, Goto, RunsTyped, HandHasRow, HandKnown, handVars
  <2>6. QED
    BY <2>1, <2>2, <2>3, <2>5, <1>parts
<1>12. CASE UNCHANGED vars
  BY <1>12, <1>type, <1>parts DEF vars, tableVars, listVars, handVars, historyVars,
     TablesTyped, RunsTyped, HandTyped, HandKnown, HandHasRow, HistoryTyped
<1>13. QED
  BY <1>1, <1>2, <1>3, <1>4, <1>5, <1>6, <1>7, <1>8, <1>9, <1>10, <1>11,
     <1>12, Zenon DEF Next, Write

(* Every variable keeps its type, whatever runs and changes.               *)
THEOREM TypeCorrect == Spec => []TypeOK
<1>1. TypeInv => TypeOK
  BY DEF TypeInv
<1>2. QED
  BY <1>1, TypeInit, TypeStep, PTL DEF Spec

----------------------------------------------------------------------------
(* DuplicateIsLater, however runs overlap: created_at never changes, since *)
(* an update writes back the value its run read.                           *)

SnapKept ==
  \A w \in Worker, p \in Path : snap[w][p] # NoDoc =>
    docs[p] # NoDoc /\ docs[p].created = snap[w][p].created

CanonEarlier ==
  \A w \in Worker : step[w] = "mark" =>
    docs[canon[w]] # NoDoc /\ Earlier(canon[w], cur[w])

DupInv == TypeInv /\ SnapKept /\ CanonEarlier /\ DuplicateIsLater

(* What a step may do to a row: keep it, with its created_at; and point    *)
(* it only at what a run has found to be its original.                     *)
RowsStay ==
  \A p \in Path : docs[p] # NoDoc =>
    docs'[p] # NoDoc /\ docs'[p].created = docs[p].created

DupsFollow ==
  \A p \in Path : docs'[p] # NoDoc =>
    \/ docs'[p].dup = NoPath
    \/ docs[p] # NoDoc /\ docs'[p].dup = docs[p].dup
    \/ \E w \in Worker : step[w] = "mark" /\ p = cur[w] /\ docs'[p].dup = canon[w]

LEMMA DocsStep ==
  ASSUME TypeInv, SnapKept, [Next]_vars
  PROVE  RowsStay /\ DupsFollow
<1> USE DEF RowsStay, DupsFollow
<1>type. TablesTyped /\ RunsTyped /\ HandTyped /\ HandKnown /\ HandHasRow
  BY DEF TypeInv, TypeOK
<1>same. UNCHANGED docs => RowsStay /\ DupsFollow
  OBVIOUS
<1>1. ASSUME NEW w \in Worker, Create(w) PROVE RowsStay /\ DupsFollow
  <2>1. cur[w] \in Path /\ docs[cur[w]] = NoDoc /\ got[w] \in Content /\ clock' \in Nat
    BY <1>1, <1>type DEF Create, Goto, HandKnown, TablesTyped
  <2>2. \A p \in Path : p = cur[w] \/ docs'[p] = docs[p]
    BY <1>1, <1>type DEF Create, TablesTyped
  <2>3. docs'[cur[w]].dup = NoPath
    BY <1>1, <2>1, <1>type DEF Create, TablesTyped
  <2>4. QED
    BY <2>1, <2>2, <2>3
<1>2. ASSUME NEW w \in Worker, Update(w) PROVE RowsStay /\ DupsFollow
  <2>1. cur[w] \in Path /\ got[w] \in Content /\ snap[w][cur[w]] \in Row
    BY <1>2, <1>type DEF Update, Goto, HandKnown, RunsTyped
  <2>2. \A p \in Path : p = cur[w] \/ docs'[p] = docs[p]
    BY <1>2, <1>type DEF Update, TablesTyped
  <2>3. /\ docs'[cur[w]].dup = NoPath
        /\ docs'[cur[w]].created = snap[w][cur[w]].created
        /\ docs'[cur[w]] \in Row
    BY <1>2, <2>1, <1>type, RowTyped, RowKept DEF Update, TablesTyped
  <2>4. QED
    BY <2>1, <2>2, <2>3, RowAssumption DEF SnapKept
<1>3. ASSUME NEW w \in Worker, Mark(w) PROVE RowsStay /\ DupsFollow
  <2>1. cur[w] \in Path /\ canon[w] \in Path /\ docs[cur[w]] \in Row /\ step[w] = "mark"
    BY <1>3, <1>type DEF Mark, Goto, HandKnown, HandHasRow, TablesTyped
  <2>2. \A p \in Path : p = cur[w] \/ docs'[p] = docs[p]
    BY <1>3, <1>type DEF Mark, TablesTyped
  <2>3. docs'[cur[w]] = [docs[cur[w]] EXCEPT !.dup = canon[w]]
    BY <1>3, <2>1, <1>type DEF Mark, TablesTyped
  <2>4. /\ docs'[cur[w]].dup = canon[w]
        /\ docs'[cur[w]].created = docs[cur[w]].created
        /\ docs'[cur[w]] \in Row
    BY <2>1, <2>3 DEF Row
  <2>5. QED
    BY <2>1, <2>2, <2>4, RowAssumption
<1>4. ASSUME NEW w \in Worker, SoftDelete(w) PROVE RowsStay /\ DupsFollow
  <2>1. \A p \in Path : docs[p] # NoDoc => docs[p] \in Row
    BY <1>type DEF TablesTyped
  <2>2. \A p \in Path : docs'[p] = docs[p]
          \/ (docs[p] # NoDoc /\ docs'[p] = [docs[p] EXCEPT !.deleted = TRUE])
    BY <1>4 DEF SoftDelete, Live
  <2>3. ASSUME NEW row \in Row
        PROVE  /\ [row EXCEPT !.deleted = TRUE] # NoDoc
               /\ [row EXCEPT !.deleted = TRUE].created = row.created
               /\ [row EXCEPT !.deleted = TRUE].dup = row.dup
    BY RowAssumption DEF Row
  <2>4. QED
    BY <2>1, <2>2, <2>3
<1>5. ASSUME NEW w \in Worker,
             DropChunks(w) \/ NoDuplicate(w) \/ Process(w) \/ Purge(w)
      PROVE  UNCHANGED docs
  BY <1>5 DEF DropChunks, NoDuplicate, Process, Purge, tableVars
<1>6. ASSUME NEW w \in Worker,
             Begin(w) \/ (\E p \in Path : Fetch(w, p)) \/ Cancel(w)
               \/ Return(w) \/ Abandon(w)
      PROVE  UNCHANGED docs
  BY <1>6 DEF Begin, Fetch, Cancel, Return, Abandon, tableVars
<1>7. ASSUME NEW p \in Path, NEW c \in Content \cup {NoContent}, Edit(p, c)
      PROVE  UNCHANGED docs
  BY <1>7 DEF Edit, tableVars
<1>8. CASE UNCHANGED vars
  BY <1>8, <1>same DEF vars, tableVars
<1> HIDE DEF RowsStay, DupsFollow
<1>9. QED
  BY <1>1, <1>2, <1>3, <1>4, <1>5, <1>6, <1>7, <1>8, <1>same, Zenon DEF Next, Write

(* A run's rows are read when it begins, and forgotten when it ends.       *)
LEMMA SnapStep ==
  ASSUME TypeInv, [Next]_vars
  PROVE  /\ \A w \in Worker : \/ snap'[w] = snap[w]
                              \/ snap'[w] = docs /\ UNCHANGED docs /\ Begin(w)
                              \/ snap'[w] = NoRows /\ step'[w] = "idle"
         /\ \A w \in Worker : step'[w] = "mark" /\ step[w] # "mark" => DropChunks(w)
         /\ \A w \in Worker : step'[w] = "mark" /\ step[w] = "mark" =>
              canon'[w] = canon[w] /\ cur'[w] = cur[w]
<1> DEFINE A(w) == \/ snap'[w] = snap[w]
                   \/ snap'[w] = docs /\ UNCHANGED docs /\ Begin(w)
                   \/ snap'[w] = NoRows /\ step'[w] = "idle"
           B(w) == /\ step'[w] = "mark" /\ step[w] # "mark" => DropChunks(w)
                   /\ step'[w] = "mark" /\ step[w] = "mark" =>
                        canon'[w] = canon[w] /\ cur'[w] = cur[w]
           All  == \A w \in Worker : A(w) /\ B(w)
<1>type. RunsTyped /\ HandTyped
  BY DEF TypeInv, TypeOK
<1>1. ASSUME NEW w \in Worker, Begin(w) PROVE All
  BY <1>1, <1>type DEF Begin, Goto, RunsTyped, HandTyped, tableVars, handVars
<1>2. ASSUME NEW w \in Worker, Cancel(w) \/ Return(w) \/ Abandon(w) PROVE All
  <2>1. Leave(w)
    BY <1>2 DEF Cancel, Return, Abandon
  <2>2. QED
    BY <2>1, <1>type DEF Leave, PutDown, RunsTyped, HandTyped
<1>3. ASSUME NEW w \in Worker, NEW p \in Path, Fetch(w, p) PROVE All
  BY <1>3, <1>type DEF Fetch, RunsTyped, HandTyped
<1>4. ASSUME NEW w \in Worker, DropChunks(w) PROVE All
  BY <1>4, <1>type DEF DropChunks, Goto, RunsTyped, HandTyped, listVars
<1>5. ASSUME NEW w \in Worker, Create(w) \/ Update(w) \/ NoDuplicate(w) PROVE All
  BY <1>5, <1>type DEF Create, Update, NoDuplicate, Goto, RunsTyped, HandTyped,
     listVars, handVars
<1>6. ASSUME NEW w \in Worker, Mark(w) \/ Process(w) PROVE All
  BY <1>6, <1>type DEF Mark, Process, Goto, PutDown, RunsTyped, HandTyped, listVars
<1>7. ASSUME NEW w \in Worker, SoftDelete(w) \/ Purge(w) PROVE All
  BY <1>7, <1>type DEF SoftDelete, Purge, Goto, RunsTyped, HandTyped, listVars, handVars
<1>8. ASSUME NEW p \in Path, NEW c \in Content \cup {NoContent}, Edit(p, c) PROVE All
  BY <1>8 DEF Edit, listVars, handVars
<1>9. ASSUME UNCHANGED vars PROVE All
  BY <1>9 DEF vars, listVars, handVars
<1>10. All
  <2> HIDE DEF All
  <2>1. QED
    BY <1>1, <1>2, <1>3, <1>4, <1>5, <1>6, <1>7, <1>8, <1>9, Zenon DEF Next, Write
<1>11. QED
  BY <1>10

LEMMA DupInit == Init => DupInv
<1>1. Init => SnapKept /\ CanonEarlier /\ DuplicateIsLater
  BY DEF Init, NoRows, SnapKept, CanonEarlier, DuplicateIsLater
<1>2. QED
  BY <1>1, TypeInit DEF DupInv

LEMMA DupStep == DupInv /\ [Next]_vars => DupInv'
<1> SUFFICES ASSUME DupInv, [Next]_vars PROVE DupInv'
  OBVIOUS
<1>1. TypeInv /\ SnapKept /\ CanonEarlier /\ DuplicateIsLater
  BY DEF DupInv
<1>2. TypeInv'
  BY <1>1, TypeStep
<1>3. RowsStay /\ DupsFollow
  BY <1>1, DocsStep
<1>type. TablesTyped /\ TablesTyped' /\ RunsTyped /\ HandTyped /\ HandKnown
           /\ HandKnown' /\ HandHasRow
  BY <1>1, <1>2 DEF TypeInv, TypeOK
<1>4. ASSUME NEW p \in Path, NEW q \in Path, docs[p] # NoDoc, docs[q] # NoDoc,
             Earlier(q, p)
      PROVE  docs'[q] # NoDoc /\ Earlier(q, p)'
  BY <1>3, <1>4 DEF RowsStay, Earlier
<1>5. SnapKept'
  <2> SUFFICES ASSUME NEW w \in Worker, NEW p \in Path, snap'[w][p] # NoDoc
               PROVE  docs'[p] # NoDoc /\ docs'[p].created = snap'[w][p].created
    BY DEF SnapKept
  <2>1. CASE snap'[w] = snap[w]
    BY <2>1, <1>1, <1>3 DEF SnapKept, RowsStay
  <2>2. CASE snap'[w] = docs /\ UNCHANGED docs
    BY <2>2
  <2>3. CASE snap'[w] = NoRows
    BY <2>3 DEF NoRows
  <2>4. QED
    BY <2>1, <2>2, <2>3, <1>1, SnapStep
<1>6. CanonEarlier'
  <2> SUFFICES ASSUME NEW w \in Worker, step'[w] = "mark"
               PROVE  docs'[canon'[w]] # NoDoc /\ Earlier(canon[w], cur[w])'
    BY DEF CanonEarlier
  <2>1. CASE step[w] = "mark"
    <3>1. canon'[w] = canon[w] /\ cur'[w] = cur[w]
      BY <2>1, <1>1, SnapStep
    <3>2. cur[w] \in Path /\ canon[w] \in Path /\ docs[cur[w]] # NoDoc
      BY <2>1, <1>type DEF HandKnown, HandHasRow
    <3>3. docs[canon[w]] # NoDoc /\ Earlier(canon[w], cur[w])
      BY <2>1, <1>1 DEF CanonEarlier
    <3>4. QED
      BY <3>1, <3>2, <3>3, <1>3 DEF RowsStay, Earlier
  <2>2. CASE step[w] # "mark"
    <3>1. DropChunks(w)
      BY <2>2, <1>1, SnapStep
    <3>2. PICK q \in Canonical(cur[w], got[w]) : canon' = [canon EXCEPT ![w] = q]
      BY <3>1 DEF DropChunks
    <3>3. q \in Path /\ docs[q] # NoDoc /\ Earlier(q, cur[w])
      BY <3>2 DEF Canonical, Candidates, Live
    <3>4. canon'[w] = q /\ cur' = cur /\ docs' = docs
      BY <3>1, <3>2, <1>type DEF DropChunks, HandTyped
    <3>5. QED
      BY <3>3, <3>4 DEF Earlier
  <2>3. QED
    BY <2>1, <2>2
<1>7. DuplicateIsLater'
  <2> SUFFICES ASSUME NEW p \in Path, docs'[p] # NoDoc, docs'[p].dup # NoPath
               PROVE  docs'[docs'[p].dup] # NoDoc /\ Earlier(docs[p].dup, p)'
    BY DEF DuplicateIsLater
  <2>1. CASE docs[p] # NoDoc /\ docs'[p].dup = docs[p].dup
    <3>1. docs[docs[p].dup] # NoDoc /\ Earlier(docs[p].dup, p)
      BY <2>1, <1>1 DEF DuplicateIsLater
    <3>2. docs[p].dup \in Path
      BY <2>1, <1>type DEF TablesTyped, Row
    <3>3. QED
      BY <2>1, <3>1, <3>2, <1>3 DEF RowsStay, Earlier
  <2>2. ASSUME NEW w \in Worker, step[w] = "mark", p = cur[w], docs'[p].dup = canon[w]
        PROVE  docs'[docs'[p].dup] # NoDoc /\ Earlier(docs[p].dup, p)'
    <3>1. docs[canon[w]] # NoDoc /\ Earlier(canon[w], cur[w])
      BY <2>2, <1>1 DEF CanonEarlier
    <3>2. canon[w] \in Path /\ docs[p] # NoDoc
      BY <2>2, <1>type DEF HandKnown, HandHasRow
    <3>3. QED
      BY <2>2, <3>1, <3>2, <1>3 DEF RowsStay, Earlier
  <2>3. QED
    BY <2>1, <2>2, <1>3 DEF DupsFollow
<1>8. QED
  BY <1>2, <1>5, <1>6, <1>7 DEF DupInv

(* A duplicate_of always names an earlier row, so following them never     *)
(* comes back to where it started, even were two runs to overlap.          *)
THEOREM DuplicatesAreLater == Spec => []DuplicateIsLater
<1>1. DupInv => DuplicateIsLater
  BY DEF DupInv
<1>2. QED
  BY <1>1, DupInit, DupStep, PTL DEF Spec

----------------------------------------------------------------------------
(* What one run does leaves the local state of the others alone.           *)

Act(w) == Begin(w) \/ (\E p \in Path : Fetch(w, p)) \/ Write(w)
            \/ Cancel(w) \/ Return(w) \/ Abandon(w)

SameRun(v) ==
  /\ step'[v] = step[v] /\ snap'[v] = snap[v] /\ todo'[v] = todo[v]
  /\ seen'[v] = seen[v] /\ cur'[v] = cur[v] /\ got'[v] = got[v]
  /\ canon'[v] = canon[v] /\ stats'[v] = stats[v]

LEMMA OthersKept ==
  ASSUME TypeInv, NEW w \in Worker, Act(w)
  PROVE  \A v \in Worker \ {w} : SameRun(v)
<1> DEFINE Kept == \A v \in Worker \ {w} : SameRun(v)
<1> USE DEF SameRun, Goto, listVars, handVars
<1>type. RunsTyped /\ HandTyped
  BY DEF TypeInv, TypeOK
<1>1. ASSUME Begin(w) PROVE Kept
  BY <1>1, <1>type DEF Begin, RunsTyped, HandTyped
<1>2. ASSUME NEW p \in Path, Fetch(w, p) PROVE Kept
  BY <1>2, <1>type DEF Fetch, RunsTyped, HandTyped
<1>3. ASSUME Cancel(w) \/ Return(w) \/ Abandon(w) PROVE Kept
  <2>1. Leave(w)
    BY <1>3 DEF Cancel, Return, Abandon
  <2>2. QED
    BY <2>1, <1>type DEF Leave, PutDown, RunsTyped, HandTyped
<1>4. ASSUME Create(w) \/ Update(w) \/ NoDuplicate(w) PROVE Kept
  BY <1>4, <1>type DEF Create, Update, NoDuplicate, RunsTyped, HandTyped
<1>5. ASSUME DropChunks(w) PROVE Kept
  BY <1>5, <1>type DEF DropChunks, RunsTyped, HandTyped
<1>6. ASSUME Mark(w) \/ Process(w) PROVE Kept
  BY <1>6, <1>type DEF Mark, Process, PutDown, RunsTyped, HandTyped
<1>7. ASSUME SoftDelete(w) \/ Purge(w) PROVE Kept
  BY <1>7, <1>type DEF SoftDelete, Purge, RunsTyped, HandTyped
<1> HIDE DEF Kept
<1>8. Kept
  BY <1>1, <1>2, <1>3, <1>4, <1>5, <1>6, <1>7, Zenon DEF Act, Write
<1>9. QED
  BY <1>8 DEF Kept

(* A step that is no run's changes no run and no row.                      *)
LEMMA NobodyActs ==
  ASSUME [Next]_vars, \A w \in Worker : ~Act(w)
  PROVE  /\ UNCHANGED <<docs, chunks, clock, torn>>
         /\ UNCHANGED <<step, snap, todo, seen, cur, got, canon, stats>>
<1>1. ASSUME NEW p \in Path, NEW c \in Content \cup {NoContent}, Edit(p, c)
      PROVE  /\ UNCHANGED <<docs, chunks, clock, torn>>
             /\ UNCHANGED <<step, snap, todo, seen, cur, got, canon, stats>>
  BY <1>1 DEF Edit, tableVars, listVars, handVars
<1>2. CASE UNCHANGED vars
  BY <1>2 DEF vars, tableVars, listVars, handVars, historyVars
<1>3. QED
  BY <1>1, <1>2, Zenon DEF Next, Act

----------------------------------------------------------------------------
(* What a run has listed it has seen or has still to yield; and as long as *)
(* no file changes, that is every file, unless the listing was truncated.  *)

Busy(w) == step[w] # "idle"

ListedRun(w) ==
  /\ todo[w] \cap seen[w] = {}
  /\ step[w] = "idle" => seen[w] = {}
  /\ step[w] \in {"purge", "done"} => todo[w] = {}
  /\ w \in quiet => Busy(w) /\ (~MayTruncate => todo[w] \cup seen[w] = Files)

Listing == \A w \in Worker : ListedRun(w)

LEMMA ListingInit == Init => Listing
BY DEF Init, Listing, ListedRun

LEMMA ListingStep ==
  ASSUME TypeInv, Listing, [Next]_vars PROVE Listing'
<1>type. RunsTyped
  BY DEF TypeInv, TypeOK
<1> USE DEF Goto, listVars, historyVars
<1>1. ASSUME NEW w \in Worker, ListedRun(w), Begin(w) PROVE ListedRun(w)'
  BY <1>1, <1>type DEF Begin, ListedRun, Busy, Files, RunsTyped
<1>2. ASSUME NEW w \in Worker, ListedRun(w), NEW p \in Path, Fetch(w, p)
      PROVE  ListedRun(w)'
  <2>1. /\ todo'[w] = todo[w] \ {p} /\ seen'[w] = seen[w] \cup {p} /\ p \in todo[w]
        /\ step'[w] \in {"scan", "save"} /\ disk' = disk /\ quiet' = quiet
    BY <1>2, <1>type DEF Fetch, RunsTyped, Upcoming
  <2>2. QED
    BY <2>1, <1>2 DEF Fetch, ListedRun, Busy, Files
<1>3. ASSUME NEW w \in Worker, Cancel(w) \/ Return(w) \/ Abandon(w)
      PROVE  ListedRun(w)'
  <2>1. Leave(w)
    BY <1>3 DEF Cancel, Return, Abandon
  <2>2. QED
    BY <2>1, <1>type DEF Leave, ListedRun, RunsTyped
<1>4. ASSUME NEW w \in Worker, ListedRun(w), Write(w) PROVE ListedRun(w)'
  <2>1. UNCHANGED <<disk, snap, todo, seen, quiet>> /\ Busy(w)
    BY <1>4 DEF Write, Create, Update, DropChunks, Mark, NoDuplicate, Process,
       SoftDelete, Purge, Busy
  <2>2. step'[w] # "idle" /\ (step'[w] \in {"purge", "done"} => todo[w] = {})
    BY <1>4, <1>type DEF Write, Create, Update, DropChunks, Mark, NoDuplicate,
       Process, SoftDelete, Purge, ListedRun, RunsTyped
  <2>3. QED
    BY <1>4, <2>1, <2>2 DEF ListedRun, Busy, Files
<1>5. ASSUME NEW w \in Worker, Act(w) PROVE ListedRun(w)'
  <2>1. ListedRun(w)
    BY DEF Listing
  <2>2. QED
    BY <2>1, <1>1, <1>2, <1>3, <1>4, <1>5, Zenon DEF Act
<1>6. ASSUME NEW w \in Worker, Act(w)
      PROVE  disk' = disk /\ quiet' \ {w} = quiet \ {w}
  <2>1. CASE Write(w)
    BY <2>1 DEF Write, Create, Update, DropChunks, Mark, NoDuplicate, Process,
       SoftDelete, Purge
  <2>2. CASE ~Write(w)
    BY <2>2, <1>6 DEF Act, Begin, Fetch, Cancel, Return, Abandon, Leave
  <2>3. QED
    BY <2>1, <2>2
<1>7. ASSUME NEW w \in Worker, Act(w) PROVE Listing'
  <2>1. ASSUME NEW v \in Worker \ {w} PROVE ListedRun(v)'
    BY <1>6, <1>7, OthersKept DEF Listing, ListedRun, SameRun, Busy, Files
  <2>2. QED
    BY <1>5, <1>7, <2>1 DEF Listing
<1>8. ASSUME \A w \in Worker : ~Act(w) PROVE Listing'
  <2>1. UNCHANGED <<step, todo, seen>>
    BY <1>8, NobodyActs
  <2>2. quiet' = {} \/ UNCHANGED <<disk, quiet>>
    <3>1. ASSUME NEW p \in Path, NEW c \in Content \cup {NoContent}, Edit(p, c)
          PROVE  quiet' = {}
      BY <3>1 DEF Edit
    <3>2. QED
      BY <1>8, <3>1, Zenon DEF Next, Act, vars
  <2>3. QED
    BY <2>1, <2>2 DEF Listing, ListedRun, Busy, Files
<1>9. QED
  BY <1>7, <1>8

----------------------------------------------------------------------------
(* One run at a time: what sync_source relies on its callers for.          *)

Alone == \A v, w \in Worker : Busy(v) /\ Busy(w) => v = w

(* What a step owes to them, with Exclusive or with a lock around it.      *)
BeginsAlone ==
  \A w \in Worker : Begin(w) => \A v \in Worker : step[v] = "idle"

LEMMA ExclusiveBegins == ASSUME Exclusive PROVE BeginsAlone
BY DEF BeginsAlone, Begin

(* The others are idle when a run acts, and stay so.                       *)
LEMMA OthersIdle ==
  ASSUME BeginsAlone, TypeInv, Alone, NEW w \in Worker, Act(w)
  PROVE  \A v \in Worker \ {w} : step[v] = "idle" /\ step'[v] = "idle"
<1>1. CASE Begin(w)
  BY <1>1, OthersKept DEF BeginsAlone, SameRun
<1>2. CASE ~Begin(w)
  <2>1. Busy(w)
    BY <1>2 DEF Act, Busy, Write, Fetch, Cancel, Return, Abandon, Create,
       Update, DropChunks, Mark, NoDuplicate, Process, SoftDelete, Purge, Goto
  <2>2. QED
    BY <2>1, OthersKept DEF Alone, Busy, SameRun
<1>3. QED
  BY <1>1, <1>2

LEMMA AloneStep ==
  ASSUME BeginsAlone, TypeInv, Alone, [Next]_vars PROVE Alone'
<1>1. ASSUME NEW w \in Worker, Act(w) PROVE Alone'
  BY <1>1, OthersIdle DEF Alone, Busy
<1>2. ASSUME \A w \in Worker : ~Act(w) PROVE Alone'
  BY <1>2, NobodyActs DEF Alone, Busy
<1>3. QED
  BY <1>1, <1>2

(* What a run knows of the table: the rows it has not come to are as it    *)
(* read them, the row in hand is what it wrote, and what it found missing  *)
(* it has deleted.                                                         *)
FreshRun(w) ==
  /\ step[w] = "scan" =>
       \A p \in Path \ seen[w] : snap[w][p] = docs[p]
  /\ step[w] = "save" =>
       \A p \in Path \ (seen[w] \ {cur[w]}) : snap[w][p] = docs[p]
  /\ step[w] \in {"save", "dedup", "mark", "process"} => cur[w] \in seen[w]
  /\ step[w] \in {"dedup", "mark", "process"} =>
       /\ \A p \in Path \ seen[w] : snap[w][p] = docs[p]
       /\ Live(cur[w]) /\ docs[cur[w]].hash = got[w] /\ docs[cur[w]].dup = NoPath
  /\ step[w] = "mark" => chunks[cur[w]] = NoContent
  /\ step[w] = "purge" => \A p \in Missing(w) : ~Live(p)

Fresh == \A w \in Worker : FreshRun(w)

LEMMA FreshStep ==
  ASSUME BeginsAlone, TypeInv, Listing, Alone, Fresh, [Next]_vars PROVE Fresh'
<1>type. TablesTyped /\ RunsTyped /\ HandTyped /\ HandKnown /\ HandHasRow
  BY DEF TypeInv, TypeOK
<1>1. ASSUME NEW w \in Worker, FreshRun(w), Begin(w) PROVE FreshRun(w)'
  BY <1>1, <1>type DEF Begin, Goto, FreshRun, RunsTyped, tableVars
<1>2. ASSUME NEW w \in Worker, FreshRun(w), NEW p \in Path, Fetch(w, p)
      PROVE  FreshRun(w)'
  <2>1. /\ seen'[w] = seen[w] \cup {p} /\ snap' = snap /\ docs' = docs
        /\ step[w] = "scan" /\ p \notin seen[w]
    BY <1>2, <1>type DEF Fetch, RunsTyped, tableVars, Upcoming, Listing, ListedRun
  <2>2. CASE step' = [step EXCEPT ![w] = "save"] /\ cur' = [cur EXCEPT ![w] = p]
    <3>1. step'[w] = "save" /\ cur'[w] = p
      BY <2>2, <1>type DEF RunsTyped, HandTyped
    <3>2. QED
      BY <2>1, <3>1, <1>2 DEF FreshRun
  <2>3. CASE UNCHANGED <<step, cur, got>>
    BY <2>1, <2>3, <1>2 DEF FreshRun
  <2>4. QED
    BY <2>2, <2>3, <1>2 DEF Fetch
<1>3. ASSUME NEW w \in Worker, Cancel(w) \/ Return(w) \/ Abandon(w)
      PROVE  FreshRun(w)'
  <2>1. Leave(w)
    BY <1>3 DEF Cancel, Return, Abandon
  <2>2. QED
    BY <2>1, <1>type DEF Leave, FreshRun, RunsTyped
<1>4. ASSUME NEW w \in Worker, FreshRun(w), Create(w) PROVE FreshRun(w)'
  <2>1. cur[w] \in Path /\ got[w] \in Content /\ clock' \in Nat /\ step'[w] = "dedup"
    BY <1>4, <1>type DEF Create, Goto, HandKnown, TablesTyped, RunsTyped
  <2>2. \A p \in Path : p = cur[w] \/ docs'[p] = docs[p]
    BY <1>4, <1>type DEF Create, TablesTyped
  <2>3. /\ docs'[cur[w]] \in Row /\ ~docs'[cur[w]].deleted
        /\ docs'[cur[w]].hash = got[w] /\ docs'[cur[w]].dup = NoPath
    BY <1>4, <2>1, <1>type, RowTyped DEF Create, TablesTyped
  <2>4. QED
    BY <1>4, <2>1, <2>2, <2>3, RowAssumption
    DEF Create, Goto, FreshRun, Live, listVars, handVars
<1>5. ASSUME NEW w \in Worker, FreshRun(w), Update(w) PROVE FreshRun(w)'
  <2>1. /\ cur[w] \in Path /\ got[w] \in Content /\ snap[w][cur[w]] \in Row
        /\ step'[w] = "dedup"
    BY <1>5, <1>type DEF Update, Goto, HandKnown, RunsTyped
  <2>2. \A p \in Path : p = cur[w] \/ docs'[p] = docs[p]
    BY <1>5, <1>type DEF Update, TablesTyped
  <2>3. /\ docs'[cur[w]] \in Row /\ ~docs'[cur[w]].deleted
        /\ docs'[cur[w]].hash = got[w] /\ docs'[cur[w]].dup = NoPath
    BY <1>5, <2>1, <1>type, RowTyped, RowKept DEF Update, TablesTyped
  <2>4. QED
    BY <1>5, <2>1, <2>2, <2>3, RowAssumption
    DEF Update, Goto, FreshRun, Live, listVars, handVars
<1>6. ASSUME NEW w \in Worker, FreshRun(w), DropChunks(w) PROVE FreshRun(w)'
  BY <1>6, <1>type DEF DropChunks, Goto, FreshRun, Live, HandKnown, TablesTyped,
     RunsTyped, listVars
<1>7. ASSUME NEW w \in Worker, FreshRun(w), NoDuplicate(w) PROVE FreshRun(w)'
  BY <1>7, <1>type DEF NoDuplicate, Goto, FreshRun, Live, RunsTyped, listVars,
     handVars, tableVars
<1>8. ASSUME NEW w \in Worker, FreshRun(w), Mark(w) PROVE FreshRun(w)'
  <2>1. \A p \in Path : p = cur[w] \/ docs'[p] = docs[p]
    BY <1>8, <1>type DEF Mark, TablesTyped
  <2>2. QED
    BY <1>8, <2>1, <1>type DEF Mark, Goto, FreshRun, RunsTyped, listVars
<1>9. ASSUME NEW w \in Worker, FreshRun(w), Process(w) PROVE FreshRun(w)'
  BY <1>9, <1>type DEF Process, Goto, FreshRun, RunsTyped, listVars
<1>10. ASSUME NEW w \in Worker, FreshRun(w), SoftDelete(w) PROVE FreshRun(w)'
  <2>1. step'[w] = "done" \/ step'[w] = "purge"
    BY <1>10, <1>type DEF SoftDelete, Goto, RunsTyped
  <2>2. ASSUME NEW p \in Missing(w) PROVE ~(Live(p)')
    <3>1. CASE Live(p)
      <4>1. docs[p] \in Row
        BY <3>1, <1>type DEF Missing, Live, TablesTyped
      <4>2. docs'[p] = [docs[p] EXCEPT !.deleted = TRUE]
        BY <3>1, <1>10 DEF SoftDelete, Missing
      <4>3. QED
        BY <4>1, <4>2 DEF Live, Row
    <3>2. CASE ~Live(p)
      BY <3>2, <1>10 DEF SoftDelete, Live, Missing
    <3>3. QED
      BY <3>1, <3>2
  <2>3. Missing(w)' = Missing(w)
    BY <1>10 DEF SoftDelete, Missing, listVars
  <2>4. QED
    BY <2>1, <2>2, <2>3 DEF FreshRun
<1>11. ASSUME NEW w \in Worker, FreshRun(w), Purge(w) PROVE FreshRun(w)'
  BY <1>11, <1>type DEF Purge, Goto, FreshRun, RunsTyped
<1>12. ASSUME NEW w \in Worker, Act(w) PROVE FreshRun(w)'
  <2>1. FreshRun(w)
    BY DEF Fresh
  <2>2. QED
    BY <2>1, <1>1, <1>2, <1>3, <1>4, <1>5, <1>6, <1>7, <1>8, <1>9, <1>10, <1>11,
       <1>12, Zenon DEF Act, Write
<1>13. ASSUME NEW w \in Worker, Act(w) PROVE Fresh'
  <2>1. \A v \in Worker \ {w} : step'[v] = "idle"
    BY <1>13, OthersIdle
  <2>2. \A v \in Worker \ {w} : FreshRun(v)'
    BY <2>1 DEF FreshRun
  <2>3. QED
    BY <1>12, <1>13, <2>2 DEF Fresh
<1>14. ASSUME \A w \in Worker : ~Act(w) PROVE Fresh'
  BY <1>14, NobodyActs DEF Fresh, FreshRun, Live, Missing
<1>15. QED
  BY <1>13, <1>14

SerialInv == TypeInv /\ Listing /\ Alone /\ Fresh

LEMMA SerialInit == Init => SerialInv
<1>1. Init => Alone /\ Fresh
  BY DEF Init, Alone, Busy, Fresh, FreshRun
<1>2. QED
  BY <1>1, TypeInit, ListingInit DEF SerialInv

LEMMA SerialStep == ASSUME BeginsAlone PROVE SerialInv /\ [Next]_vars => SerialInv'
BY TypeStep, ListingStep, AloneStep, FreshStep DEF SerialInv

(* With one run at a time, the rows a run read at its start are still the  *)
(* table's when it comes to use them: no unique constraint is violated and *)
(* no update is lost.                                                      *)
THEOREM SnapshotsAreFresh == ASSUME Exclusive PROVE Spec => []SnapshotFresh
<1>1. SerialInv => SnapshotFresh
  BY DEF SerialInv, Fresh, FreshRun, SnapshotFresh
<1>2. SerialInv /\ [Next]_vars => SerialInv'
  BY ExclusiveBegins, SerialStep
<1>3. QED
  BY <1>1, <1>2, SerialInit, PTL DEF Spec

(* Whatever overlaps, a run soft-deletes no document whose file has been   *)
(* there all along, provided that the connector lists everything.          *)
THEOREM OnlyMissingDeleted ==
  ASSUME ~MayTruncate PROVE Spec => DeletesOnlyMissing
<1> DEFINE Inv == TypeInv /\ Listing
<1>1. Init => Inv
  BY TypeInit, ListingInit
<1>2. Inv /\ [Next]_vars => Inv'
  BY TypeStep, ListingStep
<1>3. ASSUME Inv, NEW w \in quiet, NEW p \in Path, SoftDelete(w), Live(p), ~Live(p)'
      PROVE  p \notin Files
  <2>1. p \in Missing(w)
    BY <1>3 DEF SoftDelete, Live
  <2>2. w \in Worker /\ todo[w] = {}
    BY <1>3 DEF SoftDelete, TypeInv, TypeOK, HistoryTyped
  <2>3. todo[w] \cup seen[w] = Files
    BY <1>3, <2>2 DEF Listing, ListedRun
  <2>4. QED
    BY <2>1, <2>2, <2>3 DEF Missing
<1>4. Inv /\ [Next]_vars =>
        [\A w \in quiet, p \in Path :
           SoftDelete(w) /\ Live(p) /\ ~Live(p)' => p \notin Files]_vars
  <2> HIDE DEF Inv
  <2>1. QED
    BY <1>3
<1> HIDE DEF Inv
<1>5. QED
  BY <1>1, <1>2, <1>4, PTL DEF Spec, DeletesOnlyMissing

----------------------------------------------------------------------------
(* Chunks follow rows.                                                     *)

Settled(p) ==
  chunks[p] = IF Live(p) /\ docs[p].dup = NoPath THEN docs[p].hash ELSE NoContent

LEMMA ChunksStep ==
  ASSUME BeginsAlone, SerialInv, ChunksFollowRows, [Next]_vars
  PROVE  ChunksFollowRows'
<1>type. TablesTyped /\ RunsTyped /\ HandTyped /\ HandKnown /\ HandHasRow
  BY DEF SerialInv, TypeInv, TypeOK
(* It is enough that a step disturbs only documents that it takes in hand  *)
(* or leaves torn, and that those it lets go of are settled.               *)
<1> DEFINE Calm(w) ==
      \A p \in Path :
        \/ p \in torn' \cup InHand(w)'
        \/ Settled(p)'
        \/ p \notin torn \cup InHand(w) /\ UNCHANGED <<docs[p], chunks[p]>>
<1>old. \A p \in Path : p \in torn \/ (\E w \in Worker : p \in InHand(w)) \/ Settled(p)
  BY DEF ChunksFollowRows, Settled
<1>new. (\A p \in Path : \/ p \in torn' \/ (\E w \in Worker : p \in InHand(w)')
                         \/ Settled(p)')
          => ChunksFollowRows'
  BY DEF ChunksFollowRows, Settled
<1>1. ASSUME NEW w \in Worker, Create(w) \/ Update(w) PROVE Calm(w)
  <2>1. cur[w] \in Path /\ step'[w] = "dedup" /\ cur' = cur
    BY <1>1, <1>type DEF Create, Update, Goto, HandKnown, RunsTyped, handVars
  <2>2. \A p \in Path : p = cur[w] \/ UNCHANGED <<docs[p], chunks[p]>>
    BY <1>1, <1>type DEF Create, Update, TablesTyped
  <2>3. InHand(w)' = {cur[w]} /\ InHand(w) = {} /\ torn' = torn
    BY <2>1, <1>1 DEF Create, Update, Goto, InHand, historyVars
  <2>4. QED
    BY <2>2, <2>3
<1>2. ASSUME NEW w \in Worker, DropChunks(w) \/ NoDuplicate(w) PROVE Calm(w)
  <2>1. /\ cur[w] \in Path /\ step'[w] \in {"mark", "process"} /\ cur' = cur
        /\ step[w] = "dedup"
    BY <1>2, <1>type DEF DropChunks, NoDuplicate, Goto, HandKnown, RunsTyped, handVars
  <2>2. \A p \in Path : p = cur[w] \/ UNCHANGED <<docs[p], chunks[p]>>
    BY <1>2, <1>type DEF DropChunks, NoDuplicate, TablesTyped, tableVars
  <2>3. InHand(w)' = {cur[w]} /\ InHand(w) = {cur[w]} /\ torn' = torn
    BY <2>1, <1>2 DEF DropChunks, NoDuplicate, InHand, historyVars
  <2>4. QED
    BY <2>2, <2>3
<1>3. ASSUME NEW w \in Worker, Mark(w) PROVE Calm(w)
  <2>1. /\ cur[w] \in Path /\ canon[w] \in Path /\ docs[cur[w]] \in Row
        /\ step[w] = "mark" /\ chunks[cur[w]] = NoContent
    BY <1>3, <1>type DEF Mark, Goto, HandKnown, HandHasRow, TablesTyped, SerialInv,
       Fresh, FreshRun
  <2>2. \A p \in Path : p = cur[w] \/ UNCHANGED <<docs[p], chunks[p]>>
    BY <1>3, <1>type DEF Mark, TablesTyped
  <2>3. docs'[cur[w]] = [docs[cur[w]] EXCEPT !.dup = canon[w]]
    BY <1>3, <2>1, <1>type DEF Mark, TablesTyped
  <2>4. docs'[cur[w]].dup # NoPath /\ chunks' = chunks
    BY <1>3, <2>1, <2>3, PathAssumption DEF Mark, Row, NoPath
  <2>5. ASSUME NEW p \in Path, p = cur[w] PROVE Settled(p)'
    BY <2>1, <2>4, <2>5 DEF Settled
  <2>6. InHand(w) = {cur[w]} /\ torn' = torn \ {cur[w]}
    BY <2>1, <1>3 DEF Mark, InHand
  <2>7. QED
    BY <2>2, <2>5, <2>6
<1>4. ASSUME NEW w \in Worker, Process(w) PROVE Calm(w)
  <2>1. /\ cur[w] \in Path /\ step[w] = "process" /\ Live(cur[w])
        /\ docs[cur[w]].hash = got[w] /\ docs[cur[w]].dup = NoPath
    BY <1>4, <1>type DEF Process, Goto, HandKnown, SerialInv, Fresh, FreshRun
  <2>2. \A p \in Path : p = cur[w] \/ UNCHANGED <<docs[p], chunks[p]>>
    BY <1>4, <1>type DEF Process, TablesTyped
  <2>3. chunks'[cur[w]] = got[w] /\ docs' = docs
    BY <1>4, <2>1, <1>type DEF Process, TablesTyped
  <2>4. ASSUME NEW p \in Path, p = cur[w] PROVE Settled(p)'
    BY <2>1, <2>3, <2>4 DEF Settled, Live
  <2>5. InHand(w) = {cur[w]} /\ torn' = torn \ {cur[w]}
    BY <2>1, <1>4 DEF Process, InHand
  <2>6. QED
    BY <2>2, <2>4, <2>5
<1>5. ASSUME NEW w \in Worker, SoftDelete(w) PROVE Calm(w)
  <2>1. /\ step[w] = "scan" /\ torn' = torn /\ chunks' = chunks
        /\ step'[w] = IF Missing(w) = {} THEN "done" ELSE "purge"
    BY <1>5, <1>type DEF SoftDelete, Goto, RunsTyped, historyVars
  <2>2. \A p \in Path : p \in Missing(w) \/ UNCHANGED <<docs[p], chunks[p]>>
    BY <1>5, <2>1 DEF SoftDelete
  <2>3. Missing(w)' = Missing(w)
    BY <1>5 DEF SoftDelete, Missing, listVars
  <2>4. InHand(w)' = Missing(w) /\ InHand(w) = {}
    BY <2>1, <2>3 DEF InHand
  <2>5. QED
    BY <2>1, <2>2, <2>4
<1>6. ASSUME NEW w \in Worker, Purge(w) PROVE Calm(w)
  <2>1. step[w] = "purge" /\ docs' = docs /\ torn' = torn \ Missing(w)
    BY <1>6 DEF Purge, Goto
  <2>2. \A p \in Path : p \in Missing(w) \/ UNCHANGED <<docs[p], chunks[p]>>
    BY <1>6, <2>1, <1>type DEF Purge, TablesTyped
  <2>3. \A p \in Missing(w) : Settled(p)'
    <3>1. \A p \in Missing(w) : ~Live(p) /\ chunks'[p] = NoContent
      BY <1>6, <2>1 DEF Purge, Missing, SerialInv, Fresh, FreshRun
    <3>2. QED
      BY <2>1, <3>1 DEF Settled, Live
  <2>4. InHand(w) = Missing(w)
    BY <2>1 DEF InHand
  <2>5. QED
    BY <2>1, <2>2, <2>3, <2>4
<1>7. ASSUME NEW w \in Worker, Cancel(w) \/ Return(w) \/ Abandon(w) PROVE Calm(w)
  <2>1. UNCHANGED <<docs, chunks>> /\ torn \cup InHand(w) \subseteq torn'
    BY <1>7 DEF Cancel, Return, Abandon, InHand, tableVars
  <2>2. QED
    BY <2>1
<1>8. ASSUME NEW w \in Worker, Begin(w) \/ (\E p \in Path : Fetch(w, p))
      PROVE  Calm(w)
  <2>1. UNCHANGED <<docs, chunks, torn>> /\ step[w] \in {"idle", "scan"}
    BY <1>8 DEF Begin, Fetch, Goto, tableVars, historyVars
  <2>2. InHand(w) = {}
    BY <2>1 DEF InHand
  <2>3. QED
    BY <2>1, <2>2
<1>9. ASSUME NEW w \in Worker, Act(w) PROVE Calm(w)
  <2> HIDE DEF Calm
  <2>1. QED
    BY <1>1, <1>2, <1>3, <1>4, <1>5, <1>6, <1>7, <1>8, <1>9, Zenon DEF Act, Write
<1>10. ASSUME NEW w \in Worker, Act(w) PROVE ChunksFollowRows'
  <2>1. \A v \in Worker \ {w} : InHand(v)' = InHand(v)
    BY <1>10, OthersKept DEF SerialInv, SameRun, InHand, Missing
  <2>2. ASSUME NEW p \in Path
        PROVE  \/ p \in torn' \/ (\E v \in Worker : p \in InHand(v)') \/ Settled(p)'
    <3>1. CASE p \in torn' \cup InHand(w)' \/ Settled(p)'
      BY <3>1
    <3>2. CASE p \notin torn \cup InHand(w) /\ UNCHANGED <<docs[p], chunks[p]>>
      BY <3>2, <2>1, <1>old DEF Settled, Live
    <3>3. QED
      BY <3>1, <3>2, <1>9, <1>10
  <2>3. QED
    BY <2>2, <1>new
<1>11. ASSUME \A w \in Worker : ~Act(w) PROVE ChunksFollowRows'
  BY <1>11, NobodyActs DEF ChunksFollowRows, InHand, Missing, Live
<1>12. QED
  BY <1>10, <1>11

(* With one run at a time, at every moment and after any failure, only the *)
(* documents a run has in hand or has left torn can have other chunks than *)
(* their row calls for.                                                    *)
THEOREM ChunksFollow == ASSUME Exclusive PROVE Spec => []ChunksFollowRows
<1>1. Init => ChunksFollowRows
  BY DEF Init, NoRows, ChunksFollowRows, Live
<1>2. SerialInv /\ [Next]_vars => SerialInv'
  BY ExclusiveBegins, SerialStep
<1>3. SerialInv /\ ChunksFollowRows /\ [Next]_vars => ChunksFollowRows'
  BY ExclusiveBegins, ChunksStep
<1>4. QED
  BY <1>1, <1>2, <1>3, SerialInit, PTL DEF Spec

----------------------------------------------------------------------------
(* An undisturbed run leaves a mirror of the files, and the next ones find *)
(* nothing to write.                                                       *)

Synced(p) == Live(p) /\ docs[p].hash = disk[p]

Mirrored == \A p \in Path : IF p \in Files THEN Synced(p) ELSE ~Live(p)

(* How far an undisturbed run has got.                                     *)
MirrorRun(w) ==
  w \in quiet =>
    /\ step[w] \in {"save", "dedup", "mark", "process"} => got[w] = disk[cur[w]]
    /\ step[w] # "save" => \A p \in seen[w] : Synced(p)
    /\ step[w] = "save" => \A p \in seen[w] \ {cur[w]} : Synced(p)
    /\ step[w] \in {"purge", "done"} => \A p \in Path \ seen[w] : ~Live(p)

CalmInv ==
  calm => /\ Mirrored
          /\ \A w \in Worker : Busy(w) => w \in quiet
          /\ \A w \in Worker : step[w] \in {"idle", "scan", "done"}

MirrorInv == SerialInv /\ (\A w \in Worker : MirrorRun(w)) /\ CalmInv

(* Between Fetch and the deletion pass, a run's step is a change to the    *)
(* document in hand at most.                                               *)
LEMMA HandStep ==
  ASSUME SerialInv, NEW w \in Worker,
         Create(w) \/ Update(w) \/ DropChunks(w) \/ NoDuplicate(w) \/ Mark(w)
           \/ Process(w)
  PROVE  /\ UNCHANGED <<disk, seen, quiet, calm>>
         /\ step[w] \in {"save", "dedup", "mark", "process"}
         /\ step'[w] \in {"scan", "dedup", "mark", "process"}
         /\ step'[w] # "scan" => cur'[w] = cur[w] /\ got'[w] = got[w]
         /\ \A p \in Path : p = cur[w] \/ docs'[p] = docs[p]
         /\ \A p \in Path : p = cur[w] => Live(p)' /\ docs'[p].hash = got[w]
<1>type. TablesTyped /\ RunsTyped /\ HandTyped /\ HandKnown /\ HandHasRow
  BY DEF SerialInv, TypeInv, TypeOK
<1>1. CASE Create(w) \/ Update(w)
  <2>1. /\ cur[w] \in Path /\ got[w] \in Content /\ clock' \in Nat
        /\ snap[w][cur[w]] # NoDoc => snap[w][cur[w]] \in Row
        /\ step[w] = "save" /\ step'[w] = "dedup"
    BY <1>1, <1>type DEF Create, Update, Goto, HandKnown, TablesTyped, RunsTyped,
       tableVars
  <2>2. \A p \in Path : p = cur[w] \/ docs'[p] = docs[p]
    BY <1>1, <1>type DEF Create, Update, TablesTyped
  <2>3. /\ docs'[cur[w]] \in Row /\ ~docs'[cur[w]].deleted
        /\ docs'[cur[w]].hash = got[w]
    <3>1. CASE Create(w)
      BY <3>1, <2>1, <1>type, RowTyped DEF Create, TablesTyped
    <3>2. CASE Update(w)
      BY <3>2, <2>1, <1>type, RowTyped, RowKept DEF Update, TablesTyped
    <3>3. QED
      BY <3>1, <3>2, <1>1
  <2>4. UNCHANGED <<disk, seen, quiet, calm, cur, got>>
    BY <1>1 DEF Create, Update, listVars, handVars, historyVars
  <2>5. QED
    BY <2>1, <2>2, <2>3, <2>4, RowAssumption DEF Live
<1>2. CASE DropChunks(w) \/ NoDuplicate(w) \/ Process(w)
  <2>1. UNCHANGED <<disk, seen, quiet, calm, docs>>
    BY <1>2 DEF DropChunks, NoDuplicate, Process, listVars, historyVars, tableVars
  <2>2. /\ step[w] \in {"dedup", "process"} /\ step'[w] \in {"scan", "mark", "process"}
        /\ step'[w] # "scan" => UNCHANGED <<cur, got>>
    BY <1>2, <1>type DEF DropChunks, NoDuplicate, Process, Goto, RunsTyped, handVars
  <2>3. Live(cur[w]) /\ docs[cur[w]].hash = got[w]
    BY <2>2 DEF SerialInv, Fresh, FreshRun
  <2>4. QED
    BY <2>1, <2>2, <2>3 DEF Live
<1>3. CASE Mark(w)
  <2>1. /\ cur[w] \in Path /\ docs[cur[w]] \in Row /\ canon[w] \in Path
        /\ step[w] = "mark" /\ step'[w] = "scan"
        /\ Live(cur[w]) /\ docs[cur[w]].hash = got[w]
    BY <1>3, <1>type DEF Mark, Goto, HandKnown, HandHasRow, TablesTyped, RunsTyped,
       SerialInv, Fresh, FreshRun
  <2>2. \A p \in Path : p = cur[w] \/ docs'[p] = docs[p]
    BY <1>3, <1>type DEF Mark, TablesTyped
  <2>3. docs'[cur[w]] = [docs[cur[w]] EXCEPT !.dup = canon[w]]
    BY <1>3, <2>1, <1>type DEF Mark, TablesTyped
  <2>4. /\ docs'[cur[w]] \in Row /\ docs'[cur[w]].hash = docs[cur[w]].hash
        /\ docs'[cur[w]].deleted = docs[cur[w]].deleted
    BY <2>1, <2>3 DEF Row
  <2>5. UNCHANGED <<disk, seen, quiet, calm>>
    BY <1>3 DEF Mark, listVars
  <2>6. QED
    BY <2>1, <2>2, <2>4, <2>5, RowAssumption DEF Live
<1>4. QED
  BY <1>1, <1>2, <1>3

(* Once everything has been yielded, what the run has not seen is gone.    *)
LEMMA DeletionStep ==
  ASSUME SerialInv, NEW w \in Worker, SoftDelete(w)
  PROVE  /\ UNCHANGED <<disk, seen, quiet, calm>> /\ todo[w] = {}
         /\ step[w] = "scan" /\ step'[w] = IF Missing(w) = {} THEN "done" ELSE "purge"
         /\ Missing(w) = {p \in Path \ seen[w] : Live(p)}
         /\ \A p \in Path : IF p \in Missing(w) THEN ~Live(p)'
                                                ELSE docs'[p] = docs[p]
<1>type. TablesTyped /\ RunsTyped
  BY DEF SerialInv, TypeInv, TypeOK
<1>1. /\ UNCHANGED <<disk, seen, quiet, calm>> /\ todo[w] = {} /\ step[w] = "scan"
      /\ step'[w] = IF Missing(w) = {} THEN "done" ELSE "purge"
  BY <1>type DEF SoftDelete, Goto, RunsTyped, listVars, historyVars
<1>2. Missing(w) = {p \in Path \ seen[w] : Live(p)}
  <2>1. \A p \in Path \ seen[w] : snap[w][p] = docs[p]
    BY <1>1 DEF SerialInv, Fresh, FreshRun
  <2>2. QED
    BY <2>1 DEF Missing, Live
<1>3. ASSUME NEW p \in Path, p \in Missing(w) PROVE ~Live(p)'
  <2>1. Live(p) /\ docs[p] \in Row
    BY <1>2, <1>3, <1>type DEF Live, TablesTyped
  <2>2. docs'[p] = [docs[p] EXCEPT !.deleted = TRUE]
    BY <1>3, <2>1 DEF SoftDelete
  <2>3. QED
    BY <2>1, <2>2 DEF Live, Row
<1>4. ASSUME NEW p \in Path, p \notin Missing(w) PROVE docs'[p] = docs[p]
  BY <1>4 DEF SoftDelete
<1>5. QED
  BY <1>1, <1>2, <1>3, <1>4

Hand(w) == Create(w) \/ Update(w) \/ DropChunks(w) \/ NoDuplicate(w) \/ Mark(w)
             \/ Process(w)

(* One run's part of the invariant, step by step.                          *)
LEMMA MirrorRunStep ==
  ASSUME ~MayTruncate, SerialInv, NEW w \in Worker, MirrorRun(w), Act(w)
  PROVE  MirrorRun(w)'
<1>type. /\ TablesTyped /\ RunsTyped /\ HandTyped /\ HandKnown /\ HandHasRow
         /\ seen[w] \subseteq Path
  BY DEF SerialInv, TypeInv, TypeOK, RunsTyped
<1>1. CASE Begin(w)
  <2>1. seen'[w] = {} /\ step'[w] = "scan"
    BY <1>1, <1>type DEF Begin, Goto, SerialInv, Listing, ListedRun, RunsTyped
  <2>2. QED
    BY <2>1 DEF MirrorRun
<1>2. ASSUME NEW p \in Path, Fetch(w, p) PROVE MirrorRun(w)'
  <2>1. /\ seen'[w] = seen[w] \cup {p} /\ step[w] = "scan" /\ p \notin seen[w]
        /\ UNCHANGED <<disk, docs, quiet>>
    BY <1>2, <1>type DEF Fetch, RunsTyped, tableVars, historyVars, Upcoming,
       SerialInv, Listing, ListedRun
  <2>2. snap[w][p] = docs[p]
    BY <2>1 DEF SerialInv, Fresh, FreshRun
  <2>3. CASE /\ step' = [step EXCEPT ![w] = "save"] /\ cur' = [cur EXCEPT ![w] = p]
             /\ got' = [got EXCEPT ![w] = disk[p]]
    <3>1. step'[w] = "save" /\ cur'[w] = p /\ got'[w] = disk[p]
      BY <2>3, <1>type DEF RunsTyped, HandTyped
    <3>2. w \in quiet => \A q \in seen[w] : Synced(q)
      BY <2>1 DEF MirrorRun
    <3>3. QED
      BY <2>1, <3>1, <3>2 DEF MirrorRun, Synced, Live
  <2>4. CASE Unchanged(snap[w][p], disk[p]) /\ UNCHANGED <<step, cur, got>>
    BY <2>1, <2>2, <2>4 DEF MirrorRun, Unchanged, Synced, Live
  <2>5. QED
    BY <2>3, <2>4, <1>2 DEF Fetch
<1>3. CASE Cancel(w) \/ Return(w) \/ Abandon(w)
  <2>1. w \notin quiet'
    BY <1>3 DEF Cancel, Return, Abandon, Leave
  <2>2. QED
    BY <2>1 DEF MirrorRun
<1>4. CASE Hand(w)
  <2> USE <1>4 DEF Hand
  <2>1. SUFFICES ASSUME w \in quiet
                 PROVE  /\ step'[w] # "scan" => got'[w] = disk[cur'[w]]
                        /\ \A p \in seen[w] : Synced(p)'
    BY HandStep DEF MirrorRun, Synced, Live
  <2>2. got[w] = disk[cur[w]]
    BY <2>1, HandStep DEF MirrorRun
  <2>3. ASSUME NEW p \in seen[w], p # cur[w] PROVE Synced(p)'
    <3>1. Synced(p)
      BY <2>1, <2>3 DEF MirrorRun
    <3>2. docs'[p] = docs[p] /\ disk' = disk
      BY <2>3, <1>type, HandStep
    <3>3. QED
      BY <3>1, <3>2 DEF Synced, Live
  <2>4. ASSUME NEW p \in seen[w], p = cur[w] PROVE Synced(p)'
    BY <2>2, <2>4, <1>type, HandStep DEF Synced
  <2>5. QED
    BY <2>2, <2>3, <2>4, HandStep
<1>5. CASE SoftDelete(w)
  <2>1. ASSUME NEW p \in Path, p \in seen[w] PROVE docs'[p] = docs[p]
    BY <1>5, <2>1, DeletionStep
  <2>2. ASSUME NEW p \in Path \ seen[w] PROVE ~Live(p)'
    BY <1>5, DeletionStep DEF Live
  <2>3. QED
    BY <1>5, <2>1, <2>2, <1>type, DeletionStep DEF MirrorRun, Synced, Live
<1>6. CASE Purge(w)
  <2>1. /\ UNCHANGED <<disk, docs, seen, quiet>> /\ step[w] = "purge"
        /\ step'[w] = "done"
    BY <1>6, <1>type DEF Purge, Goto, RunsTyped, listVars
  <2>2. QED
    BY <2>1 DEF MirrorRun, Synced, Live
<1>7. QED
  BY <1>1, <1>2, <1>3, <1>4, <1>5, <1>6, Zenon DEF Act, Write, Hand

(* While nothing has changed since an undisturbed run returned, runs do    *)
(* nothing but look.                                                       *)
LEMMA CalmStep ==
  ASSUME BeginsAlone, ~MayTruncate, MirrorInv, NEW w \in Worker, Act(w)
  PROVE  CalmInv'
<1>inv. /\ SerialInv /\ MirrorRun(w) /\ CalmInv
        /\ TablesTyped /\ RunsTyped /\ HandTyped /\ ListedRun(w)
  BY DEF MirrorInv, SerialInv, TypeInv, TypeOK, Listing
<1>others. \A v \in Worker \ {w} : step[v] = "idle" /\ step'[v] = "idle"
  BY <1>inv, OthersIdle DEF SerialInv
(* It is enough to see that the table still mirrors the files.             *)
<1>frame. ASSUME Mirrored', step'[w] \in {"idle", "scan", "done"},
                 step'[w] = "idle" \/ w \in quiet'
          PROVE  CalmInv'
  BY <1>frame, <1>others DEF CalmInv, Busy
<1>1. CASE Begin(w)
  <2>1. UNCHANGED <<disk, docs, calm>> /\ step'[w] = "scan" /\ w \in quiet'
    BY <1>1, <1>inv DEF Begin, Goto, RunsTyped, tableVars
  <2>2. calm => Mirrored'
    BY <2>1, <1>inv DEF CalmInv, Mirrored, Synced, Live, Files
  <2>3. QED
    BY <2>1, <2>2, <1>frame DEF CalmInv
<1>2. ASSUME NEW p \in Path, Fetch(w, p) PROVE CalmInv'
  <2>1. /\ UNCHANGED <<disk, docs, quiet, calm>> /\ p \in Files
        /\ step[w] = "scan" /\ p \notin seen[w]
    BY <1>2, <1>inv DEF Fetch, tableVars, historyVars, Upcoming, ListedRun
  <2>2. SUFFICES ASSUME calm PROVE CalmInv'
    BY <2>1 DEF CalmInv
  <2>3. Mirrored /\ w \in quiet
    BY <2>1, <2>2, <1>inv DEF CalmInv, Busy
  <2>4. Unchanged(snap[w][p], disk[p])
    <3>1. snap[w][p] = docs[p]
      BY <2>1, <1>inv DEF SerialInv, Fresh, FreshRun
    <3>2. QED
      BY <2>1, <2>3, <3>1 DEF Mirrored, Synced, Live, Unchanged
  <2>5. step' = step
    BY <2>4, <1>2 DEF Fetch
  <2>6. Mirrored'
    BY <2>1, <2>3 DEF Mirrored, Synced, Live, Files
  <2>7. QED
    BY <2>1, <2>3, <2>5, <2>6, <1>frame
<1>3. CASE Cancel(w) \/ Abandon(w)
  <2>1. UNCHANGED <<disk, docs, calm>> /\ step'[w] = "idle"
    BY <1>3, <1>inv DEF Cancel, Abandon, Leave, RunsTyped, tableVars
  <2>2. calm => Mirrored'
    BY <2>1, <1>inv DEF CalmInv, Mirrored, Synced, Live, Files
  <2>3. QED
    BY <2>1, <2>2, <1>frame DEF CalmInv
<1>4. CASE Return(w)
  <2>1. /\ UNCHANGED <<disk, docs>> /\ calm' = (calm \/ w \in quiet)
        /\ step[w] = "done" /\ step'[w] = "idle"
    BY <1>4, <1>inv DEF Return, Leave, RunsTyped, tableVars
  <2>2. ASSUME w \in quiet PROVE Mirrored
    <3>1. seen[w] = Files
      BY <2>1, <2>2, <1>inv DEF ListedRun
    <3>2. QED
      BY <2>1, <2>2, <3>1, <1>inv DEF MirrorRun, Mirrored
  <2>3. calm' => Mirrored'
    BY <2>1, <2>2, <1>inv DEF CalmInv, Mirrored, Synced, Live, Files
  <2>4. QED
    BY <2>1, <2>3, <1>frame DEF CalmInv
<1>5. CASE Hand(w) \/ Purge(w)
  <2>1. calm' = calm /\ step[w] \notin {"idle", "scan", "done"}
    <3>1. CASE Hand(w)
      BY <3>1, <1>inv, HandStep DEF Hand
    <3>2. CASE Purge(w)
      BY <3>2 DEF Purge, Goto
    <3>3. QED
      BY <3>1, <3>2, <1>5
  <2>2. QED
    BY <2>1, <1>inv DEF CalmInv
<1>6. CASE SoftDelete(w)
  <2>1. /\ UNCHANGED <<disk, quiet, calm>> /\ step[w] = "scan" /\ todo[w] = {}
        /\ step'[w] = IF Missing(w) = {} THEN "done" ELSE "purge"
        /\ Missing(w) = {p \in Path \ seen[w] : Live(p)}
        /\ Missing(w) = {} => \A p \in Path : docs'[p] = docs[p]
    BY <1>6, <1>inv, DeletionStep
  <2>2. SUFFICES ASSUME calm PROVE CalmInv'
    BY <2>1 DEF CalmInv
  <2>3. Mirrored /\ w \in quiet
    BY <2>1, <2>2, <1>inv DEF CalmInv, Busy
  <2>4. Missing(w) = {}
    <3>1. seen[w] = Files
      BY <2>1, <2>3, <1>inv DEF ListedRun
    <3>2. QED
      BY <2>1, <2>3, <3>1 DEF Mirrored
  <2>5. Mirrored'
    BY <2>1, <2>3, <2>4 DEF Mirrored, Synced, Live, Files
  <2>6. QED
    BY <2>1, <2>3, <2>4, <2>5, <1>frame
<1>7. QED
  BY <1>1, <1>2, <1>3, <1>4, <1>5, <1>6, Zenon DEF Act, Write, Hand

LEMMA MirrorStep ==
  ASSUME BeginsAlone, ~MayTruncate PROVE MirrorInv /\ [Next]_vars => MirrorInv'
<1> SUFFICES ASSUME MirrorInv, [Next]_vars PROVE MirrorInv'
  OBVIOUS
<1>1. SerialInv /\ SerialInv'
  BY SerialStep DEF MirrorInv
<1>2. ASSUME NEW w \in Worker, Act(w) PROVE MirrorInv'
  <2>1. MirrorRun(w)'
    BY <1>1, <1>2, MirrorRunStep DEF MirrorInv
  <2>2. ASSUME NEW v \in Worker \ {w} PROVE MirrorRun(v)'
    <3>1. step'[v] = "idle"
      BY <1>1, <1>2, OthersIdle DEF SerialInv
    <3>2. v \notin quiet'
      BY <1>1, <3>1 DEF SerialInv, Listing, ListedRun, Busy
    <3>3. QED
      BY <3>2 DEF MirrorRun
  <2>3. CalmInv'
    BY <1>2, CalmStep
  <2>4. QED
    BY <1>1, <2>1, <2>2, <2>3 DEF MirrorInv
<1>3. ASSUME \A w \in Worker : ~Act(w) PROVE MirrorInv'
  <2>1. UNCHANGED <<docs, step, seen, cur, got>>
    BY <1>3, NobodyActs
  <2>2. (quiet' = {} /\ calm' = FALSE) \/ UNCHANGED <<disk, quiet, calm>>
    <3>1. ASSUME NEW p \in Path, NEW c \in Content \cup {NoContent}, Edit(p, c)
          PROVE  quiet' = {} /\ calm' = FALSE
      BY <3>1 DEF Edit
    <3>2. CASE UNCHANGED vars
      BY <3>2 DEF vars, historyVars
    <3>3. QED
      BY <1>3, <3>1, <3>2, Zenon DEF Next, Act
  <2>3. QED
    BY <1>1, <2>1, <2>2 DEF MirrorInv, MirrorRun, CalmInv, Mirrored, Synced, Live,
       Files, Busy
<1>4. QED
  BY <1>2, <1>3

LEMMA MirrorInit == Init => MirrorInv
<1>1. Init => (\A w \in Worker : MirrorRun(w)) /\ CalmInv
  BY DEF Init, MirrorRun, CalmInv
<1>2. QED
  BY <1>1, SerialInit DEF MirrorInv

LEMMA MirrorDone == ASSUME ~MayTruncate PROVE MirrorInv => MirrorsDisk
<1> SUFFICES ASSUME MirrorInv, NEW w \in quiet, step[w] = "done", NEW p \in Path
             PROVE  IF p \in Files THEN Live(p) /\ docs[p].hash = disk[p]
                                   ELSE ~Live(p)
  BY DEF MirrorsDisk
<1>1. w \in Worker
  BY DEF MirrorInv, SerialInv, TypeInv, TypeOK, HistoryTyped
<1>2. seen[w] = Files
  BY <1>1 DEF MirrorInv, SerialInv, Listing, ListedRun
<1>3. QED
  BY <1>1, <1>2 DEF MirrorInv, MirrorRun, Synced

(* A run that finds every file, with none changing meanwhile and no other  *)
(* run, ends with exactly the files on disk live and of their hash.        *)
THEOREM RunsMirror ==
  ASSUME Exclusive, ~MayTruncate PROVE Spec => []MirrorsDisk
<1>1. MirrorInv => MirrorsDisk
  BY MirrorDone
<1>2. MirrorInv /\ [Next]_vars => MirrorInv'
  BY ExclusiveBegins, MirrorStep
<1>3. QED
  BY <1>1, <1>2, MirrorInit, PTL DEF Spec

(* After such a run, further runs write nothing until a file changes.      *)
THEOREM RunsAreIdempotent ==
  ASSUME Exclusive, ~MayTruncate PROVE Spec => []ZeroWrites
<1>1. MirrorInv => ZeroWrites
  BY DEF MirrorInv, CalmInv, ZeroWrites
<1>2. MirrorInv /\ [Next]_vars => MirrorInv'
  BY ExclusiveBegins, MirrorStep
<1>3. QED
  BY <1>1, <1>2, MirrorInit, PTL DEF Spec

----------------------------------------------------------------------------
(* The stats of an undisturbed run count, at any moment, what it has dealt *)
(* with so far.                                                            *)

Was(w, p) == snap[w][p] # NoDoc /\ ~snap[w][p].deleted

Counted(w)  == IF step[w] = "save" THEN seen[w] \ {cur[w]} ELSE seen[w]
Appeared(w) == {p \in Counted(w) : ~Was(w, p)}
Changed(w)  == {p \in Counted(w) : Was(w, p) /\ snap[w][p].hash # disk[p]}
Gone(w)     == {p \in Path \ seen[w] : Was(w, p)}

StatsRun(w) ==
  /\ step[w] = "idle" => stats[w] = NoStats
  /\ w \in quiet =>
       /\ stats[w].added = Cardinality(Appeared(w))
       /\ stats[w].updated = Cardinality(Changed(w))
       /\ stats[w].deleted =
            IF step[w] \in {"purge", "done"} THEN Cardinality(Gone(w)) ELSE 0
       /\ step[w] = "save" => ~Unchanged(snap[w][cur[w]], disk[cur[w]])

StatsInv == SerialInv /\ \A w \in Worker : StatsRun(w)

(* Counting one document more.                                             *)
LEMMA CountOne ==
  ASSUME NEW S \in SUBSET Path, NEW p \in Path, p \notin S
  PROVE  Cardinality(S \cup {p}) = Cardinality(S) + 1
<1>1. IsFiniteSet(S)
  BY PathAssumption, FS_Subset
<1>2. QED
  BY <1>1, FS_AddElement

LEMMA CountFields ==
  ASSUME NEW count \in Stats, NEW row \in Row \cup {NoDoc}
  PROVE  LET new == Count(count, row)
             fresh == row = NoDoc \/ row.deleted
         IN  /\ new.added = IF fresh THEN count.added + 1 ELSE count.added
             /\ new.updated = IF fresh THEN count.updated ELSE count.updated + 1
             /\ new.deleted = count.deleted
BY DEF Count, Stats

(* Saving the document in hand counts it, on the side it belongs to.       *)
LEMMA SaveCounts ==
  ASSUME SerialInv, NEW w \in Worker, StatsRun(w), Create(w) \/ Update(w)
  PROVE  StatsRun(w)'
<1>type. RunsTyped /\ HandTyped /\ HandKnown
  BY DEF SerialInv, TypeInv, TypeOK
<1> DEFINE p == cur[w]
           row == snap[w][p]
<1>1. /\ p \in Path /\ row \in Row \cup {NoDoc} /\ stats[w] \in Stats
      /\ seen[w] \in SUBSET Path /\ p \in seen[w]
      /\ step[w] = "save" /\ step'[w] = "dedup"
      /\ UNCHANGED <<disk, snap, seen, cur, quiet>>
      /\ stats'[w] = Count(stats[w], row)
  <2>1. /\ step[w] = "save" /\ step'[w] = "dedup"
        /\ UNCHANGED <<disk, snap, seen, cur, quiet>>
        /\ stats'[w] = Count(stats[w], row)
    BY <1>type DEF Create, Update, Goto, RunsTyped, listVars, handVars, historyVars
  <2>2. p \in Path /\ p \in seen[w]
    BY <2>1, <1>type DEF HandKnown, SerialInv, Fresh, FreshRun
  <2>3. QED
    BY <2>1, <2>2, <1>type DEF RunsTyped
<1>2. SUFFICES ASSUME w \in quiet PROVE StatsRun(w)'
  BY <1>1 DEF StatsRun
<1>3. Counted(w)' = Counted(w) \cup {p} /\ p \notin Counted(w) /\ Counted(w) \subseteq Path
  BY <1>1 DEF Counted
<1>4. ~Unchanged(row, disk[p])
  BY <1>1, <1>2 DEF StatsRun
<1>5. \A q \in Path : Was(w, q)' = Was(w, q)
  BY <1>1 DEF Was
<1>6. CASE ~Was(w, p)
  <2>1. Appeared(w)' = Appeared(w) \cup {p} /\ Changed(w)' = Changed(w)
    BY <1>1, <1>3, <1>5, <1>6 DEF Appeared, Changed
  <2>2. Cardinality(Appeared(w)') = Cardinality(Appeared(w)) + 1
    BY <1>1, <1>3, <2>1, CountOne DEF Appeared
  <2>3. /\ stats'[w].added = stats[w].added + 1
        /\ stats'[w].updated = stats[w].updated
        /\ stats'[w].deleted = stats[w].deleted
    BY <1>1, <1>6, CountFields DEF Was
  <2>4. QED
    BY <1>1, <1>2, <2>1, <2>2, <2>3 DEF StatsRun
<1>7. CASE Was(w, p)
  <2>1. row.hash # disk[p]
    BY <1>4, <1>7 DEF Was, Unchanged
  <2>2. Changed(w)' = Changed(w) \cup {p} /\ Appeared(w)' = Appeared(w)
    BY <1>1, <1>3, <1>5, <1>7, <2>1 DEF Appeared, Changed
  <2>3. Cardinality(Changed(w)') = Cardinality(Changed(w)) + 1
    BY <1>1, <1>3, <2>2, CountOne DEF Changed
  <2>4. /\ stats'[w].added = stats[w].added
        /\ stats'[w].updated = stats[w].updated + 1
        /\ stats'[w].deleted = stats[w].deleted
    BY <1>1, <1>7, CountFields DEF Was
  <2>5. QED
    BY <1>1, <1>2, <2>2, <2>3, <2>4 DEF StatsRun
<1>8. QED
  BY <1>6, <1>7

LEMMA StatsRunStep ==
  ASSUME SerialInv, NEW w \in Worker, StatsRun(w), Act(w)
  PROVE  StatsRun(w)'
<1>type. /\ TablesTyped /\ RunsTyped /\ HandTyped /\ HandKnown
         /\ seen[w] \in SUBSET Path /\ stats[w] \in Stats
  BY DEF SerialInv, TypeInv, TypeOK, RunsTyped
<1>1. CASE Begin(w)
  <2>1. /\ seen'[w] = {} /\ step'[w] = "scan" /\ stats'[w] = NoStats
    BY <1>1, <1>type
    DEF Begin, Goto, SerialInv, Listing, ListedRun, RunsTyped, StatsRun
  <2>2. Appeared(w)' = {} /\ Changed(w)' = {}
    BY <2>1 DEF Appeared, Changed, Counted
  <2>3. QED
    BY <2>1, <2>2, FS_EmptySet DEF StatsRun, NoStats
<1>2. ASSUME NEW p \in Path, Fetch(w, p) PROVE StatsRun(w)'
  <2>1. /\ seen'[w] = seen[w] \cup {p} /\ step[w] = "scan" /\ p \notin seen[w]
        /\ UNCHANGED <<disk, snap, stats, quiet>>
    BY <1>2, <1>type DEF Fetch, RunsTyped, historyVars, Upcoming, SerialInv,
       Listing, ListedRun
  <2>2. CASE /\ ~Unchanged(snap[w][p], disk[p])
             /\ step' = [step EXCEPT ![w] = "save"] /\ cur' = [cur EXCEPT ![w] = p]
    <3>1. step'[w] = "save" /\ cur'[w] = p
      BY <2>2, <1>type DEF RunsTyped, HandTyped
    <3>2. Counted(w)' = Counted(w)
      BY <2>1, <3>1 DEF Counted
    <3>3. Appeared(w)' = Appeared(w) /\ Changed(w)' = Changed(w)
      BY <2>1, <3>2 DEF Appeared, Changed, Was
    <3>4. QED
      BY <2>1, <2>2, <3>1, <3>3 DEF StatsRun
  <2>3. CASE Unchanged(snap[w][p], disk[p]) /\ UNCHANGED <<step, cur, got>>
    <3>1. Counted(w)' = Counted(w) \cup {p}
      BY <2>1, <2>3 DEF Counted
    <3>2. Appeared(w)' = Appeared(w) /\ Changed(w)' = Changed(w)
      BY <2>1, <2>3, <3>1 DEF Appeared, Changed, Was, Unchanged
    <3>3. QED
      BY <2>1, <2>3, <3>2 DEF StatsRun
  <2>4. QED
    BY <2>2, <2>3, <1>2 DEF Fetch
<1>3. CASE Cancel(w) \/ Return(w) \/ Abandon(w)
  <2>1. w \notin quiet' /\ stats'[w] = NoStats
    BY <1>3, <1>type DEF Cancel, Return, Abandon, Leave, RunsTyped
  <2>2. QED
    BY <2>1 DEF StatsRun
<1>4. CASE Create(w) \/ Update(w)
  BY <1>4, SaveCounts
<1>5. CASE DropChunks(w) \/ NoDuplicate(w) \/ Mark(w) \/ Process(w)
  <2>1. /\ step[w] \in {"dedup", "mark", "process"}
        /\ step'[w] \in {"scan", "mark", "process"}
        /\ UNCHANGED <<disk, snap, seen, stats, quiet>>
    BY <1>5, <1>type DEF DropChunks, NoDuplicate, Mark, Process, Goto, RunsTyped,
       listVars, historyVars
  <2>2. Appeared(w)' = Appeared(w) /\ Changed(w)' = Changed(w)
    BY <2>1 DEF Appeared, Changed, Counted, Was
  <2>3. QED
    BY <2>1, <2>2 DEF StatsRun
<1>6. CASE SoftDelete(w)
  <2>1. /\ step[w] = "scan" /\ step'[w] \in {"purge", "done"}
        /\ UNCHANGED <<disk, snap, seen, quiet>>
        /\ stats'[w] = [stats[w] EXCEPT !.deleted =
                          Cardinality({p \in Missing(w) : Live(p)})]
    BY <1>6, <1>type DEF SoftDelete, Goto, RunsTyped, listVars, historyVars
  <2>2. {p \in Missing(w) : Live(p)} = Gone(w)
    <3>1. Missing(w) = {p \in Path \ seen[w] : Live(p)}
      BY <1>6, DeletionStep
    <3>2. QED
      BY <3>1 DEF Missing, Gone, Was
  <2>3. Gone(w)' = Gone(w) /\ Appeared(w)' = Appeared(w) /\ Changed(w)' = Changed(w)
    BY <2>1 DEF Gone, Appeared, Changed, Counted, Was
  <2>4. /\ stats'[w].added = stats[w].added /\ stats'[w].updated = stats[w].updated
        /\ stats'[w].deleted = Cardinality(Gone(w))
    BY <2>1, <2>2, <1>type DEF Stats
  <2>5. QED
    BY <2>1, <2>3, <2>4 DEF StatsRun
<1>7. CASE Purge(w)
  <2>1. /\ step[w] = "purge" /\ step'[w] = "done"
        /\ UNCHANGED <<disk, snap, seen, stats, quiet>>
    BY <1>7, <1>type DEF Purge, Goto, RunsTyped, listVars
  <2>2. Gone(w)' = Gone(w) /\ Appeared(w)' = Appeared(w) /\ Changed(w)' = Changed(w)
    BY <2>1 DEF Gone, Appeared, Changed, Counted, Was
  <2>3. QED
    BY <2>1, <2>2 DEF StatsRun
<1>8. QED
  BY <1>1, <1>2, <1>3, <1>4, <1>5, <1>6, <1>7, Zenon DEF Act, Write

LEMMA StatsStep == ASSUME BeginsAlone PROVE StatsInv /\ [Next]_vars => StatsInv'
<1> SUFFICES ASSUME StatsInv, [Next]_vars PROVE StatsInv'
  OBVIOUS
<1>1. SerialInv /\ SerialInv'
  BY SerialStep DEF StatsInv
<1>2. ASSUME NEW w \in Worker, Act(w) PROVE StatsInv'
  <2>1. StatsRun(w)'
    BY <1>1, <1>2, StatsRunStep DEF StatsInv
  <2>2. ASSUME NEW v \in Worker \ {w} PROVE StatsRun(v)'
    <3>1. step[v] = "idle" /\ step'[v] = "idle" /\ stats'[v] = stats[v]
      BY <1>1, <1>2, OthersIdle, OthersKept DEF SerialInv, SameRun
    <3>2. v \notin quiet'
      BY <1>1, <3>1 DEF SerialInv, Listing, ListedRun, Busy
    <3>3. QED
      BY <3>1, <3>2 DEF StatsInv, StatsRun
  <2>3. QED
    BY <1>1, <2>1, <2>2 DEF StatsInv
<1>3. ASSUME \A w \in Worker : ~Act(w) PROVE StatsInv'
  <2>1. UNCHANGED <<step, snap, seen, cur, stats>>
    BY <1>3, NobodyActs
  <2>2. quiet' = {} \/ UNCHANGED <<disk, quiet>>
    <3>1. ASSUME NEW p \in Path, NEW c \in Content \cup {NoContent}, Edit(p, c)
          PROVE  quiet' = {}
      BY <3>1 DEF Edit
    <3>2. CASE UNCHANGED vars
      BY <3>2 DEF vars, historyVars
    <3>3. QED
      BY <1>3, <3>1, <3>2, Zenon DEF Next, Act
  <2>3. ASSUME NEW w \in Worker PROVE StatsRun(w)'
    <3>1. StatsRun(w)
      BY DEF StatsInv
    <3>2. CASE quiet' = {}
      BY <2>1, <3>1, <3>2 DEF StatsRun
    <3>3. CASE UNCHANGED <<disk, quiet>>
      <4>1. /\ Appeared(w)' = Appeared(w)
            /\ Changed(w)' = Changed(w)
            /\ Gone(w)' = Gone(w)
        BY <2>1, <3>3 DEF Appeared, Changed, Gone, Counted, Was
      <4>2. QED
        BY <2>1, <3>1, <3>3, <4>1 DEF StatsRun
    <3>4. QED
      BY <2>2, <3>2, <3>3
  <2>4. QED
    BY <1>1, <2>3 DEF StatsInv
<1>4. QED
  BY <1>2, <1>3

LEMMA StatsInit == Init => StatsInv
<1>1. Init => \A w \in Worker : StatsRun(w)
  BY DEF Init, StatsRun
<1>2. QED
  BY <1>1, SerialInit DEF StatsInv

LEMMA StatsDone == ASSUME ~MayTruncate PROVE StatsInv => StatsAreTrue
<1> SUFFICES ASSUME StatsInv, NEW w \in quiet, step[w] = "done"
             PROVE  stats[w] =
               [added |-> Cardinality({p \in Files : ~Was(w, p)}),
                updated |-> Cardinality({p \in Files : Was(w, p)
                                            /\ snap[w][p].hash # disk[p]}),
                deleted |-> Cardinality({p \in Path \ Files : Was(w, p)})]
  BY DEF StatsAreTrue, Was
<1>1. w \in Worker /\ stats[w] \in Stats
  BY DEF StatsInv, SerialInv, TypeInv, TypeOK, HistoryTyped, RunsTyped
<1>2. seen[w] = Files
  BY <1>1 DEF StatsInv, SerialInv, Listing, ListedRun
<1>3. StatsRun(w)
  BY <1>1 DEF StatsInv
<1>4. /\ stats[w].added = Cardinality({p \in Files : ~Was(w, p)})
      /\ stats[w].updated = Cardinality({p \in Files : Was(w, p)
                                            /\ snap[w][p].hash # disk[p]})
      /\ stats[w].deleted = Cardinality({p \in Path \ Files : Was(w, p)})
  BY <1>2, <1>3 DEF StatsRun, Appeared, Changed, Gone, Counted
<1>5. QED
  BY <1>1, <1>4 DEF Stats

(* What the stats of an undisturbed run tell the user is what happened.    *)
THEOREM StatsTellTheTruth ==
  ASSUME Exclusive, ~MayTruncate PROVE Spec => []StatsAreTrue
<1>1. StatsInv => StatsAreTrue
  BY StatsDone
<1>2. StatsInv /\ [Next]_vars => StatsInv'
  BY ExclusiveBegins, StatsStep
<1>3. QED
  BY <1>1, <1>2, StatsInit, PTL DEF Spec

=============================================================================
