-------------------------- MODULE SourceSyncProofs --------------------------
(***************************************************************************)
(* Proofs about SyncControl and SourceSync for any number of processes,    *)
(* pages and files.                                                        *)
(*                                                                         *)
(* SyncControl.  The typing of SaveRun needs to know that a process past   *)
(* sync_source has an outcome, so ControlTypeOK is proved together with    *)
(* OutcomeKnown.  Mutual exclusion is inductive once it is said that a     *)
(* holder implies a held lock; the status invariant is inductive given     *)
(* mutual exclusion and what each process knows of its own SyncRun row.    *)
(*                                                                         *)
(* SourceSync.  As long as no sync outlives the lock, the lock makes runs  *)
(* serial, although sync_source does not look at the lock and the lock     *)
(* knows nothing of sync_source; and what SyncControl and Reconcile keep   *)
(* each on its own, with the runs serial, they keep together.              *)
(***************************************************************************)
EXTENDS SourceSync, ReconcileProofs, SequenceTheorems, TLAPS

----------------------------------------------------------------------------
(* SyncControl.                                                            *)

(* A process that is past sync_source knows how it ended.                  *)
OutcomeKnown ==
  /\ \A w \in Worker : pc[w] \in AfterSync => outcome[w] \in Final
  /\ \A w \in Worker : pc[w] = "settled" => outcome[w] = "cancelled"

(* The lock is held whenever somebody is inside it, and by one process.    *)
LockHeld ==
  /\ \A w \in Worker : Holding(w) => lock
  /\ MutualExclusion

(* A raised flag has reached every process that could see it.              *)
FlagReaches == cancel => \A w \in Worker : Exposed(w) => w \in armed

(* What a process in mid-sync knows of its row, which is the newest.       *)
RowKnown ==
  \A w \in Worker : pc[w] \in {"recorded", "settled"} =>
    run[w] = Len(runs) /\ runs # <<>> /\ runs[Len(runs)] = outcome[w]

(* The rows are only ever appended to and overwritten in place.            *)
LEMMA RunsAppend ==
  ASSUME NEW s \in Seq(RunStatus)
  PROVE  /\ Append(s, "running") \in Seq(RunStatus)
         /\ Len(Append(s, "running")) = Len(s) + 1
         /\ Append(s, "running")[Len(s) + 1] = "running"
         /\ Append(s, "running") # <<>>
<1>1. "running" \in RunStatus
  BY DEF RunStatus
<1>2. QED
  BY <1>1, AppendProperties

LEMMA RunsUpdate ==
  ASSUME NEW s \in Seq(RunStatus), NEW i \in Nat, NEW x \in RunStatus
  PROVE  /\ [s EXCEPT ![i] = x] \in Seq(RunStatus)
         /\ Len([s EXCEPT ![i] = x]) = Len(s)
         /\ i \in 1..Len(s) => [s EXCEPT ![i] = x][i] = x
<1> DEFINE t == [s EXCEPT ![i] = x]
<1>1. Len(s) \in Nat /\ DOMAIN s = 1..Len(s) /\ s \in [1..Len(s) -> RunStatus]
  BY LenProperties
<1>2. t \in [1..Len(s) -> RunStatus]
  BY <1>1
<1>3. t \in Seq(RunStatus) /\ Len(t) = Len(s)
  BY <1>1, <1>2
<1>4. i \in 1..Len(s) => t[i] = x
  BY <1>1
<1>5. QED
  BY <1>3, <1>4

----------------------------------------------------------------------------

ControlTypeInv == ControlTypeOK /\ OutcomeKnown

LEMMA ControlTypeInit == ControlInit => ControlTypeInv
<1> SUFFICES ASSUME ControlInit PROVE ControlTypeInv
  OBVIOUS
<1> USE BoundAssumption DEF ControlInit
<1>1. runs \in Seq(RunStatus)
  OBVIOUS
<1>2. /\ pc \in [Worker -> Inside \cup Outside] /\ run \in [Worker -> Nat]
      /\ tries \in [Worker -> 0..MaxRetries]
      /\ outcome \in [Worker -> Final \cup {"none"}]
  BY DEF Inside, Outside
<1>3. /\ click \in [Browser -> {"idle", "allowed"}]
      /\ patch \in [Patch -> SourceStatus \cup {"unsent", "saved"}]
      /\ meant \in [Browser -> SUBSET Worker]
  OBVIOUS
<1>4. /\ backlog \in [0..MaxRetries -> Nat]
      /\ requests \in 0..MaxRequests /\ crashes \in 0..MaxCrashes
  OBVIOUS
<1>5. OutcomeKnown
  BY DEF OutcomeKnown, AfterSync
<1>6. QED
  BY <1>1, <1>2, <1>3, <1>4, <1>5 DEF ControlTypeInv, ControlTypeOK, SourceStatus

(* Types, and every process past sync_source knows its outcome.            *)
LEMMA ControlTypeStep == ControlTypeInv /\ [ControlNext]_controlVars => ControlTypeInv'
<1> SUFFICES ASSUME ControlTypeInv, [ControlNext]_controlVars PROVE ControlTypeInv'
  OBVIOUS
<1> USE BoundAssumption DEF ControlTypeInv, ControlTypeOK, OutcomeKnown, Inside, Outside,
     BeforeRun, AfterSync, Final, SourceStatus, cacheVars, statusVars, brokerVars,
     processVars, pageVars, boundVars, flagVars
<1>1. ASSUME NEW w \in Worker, NEW n \in 0..MaxRetries, StartTask(w, n)
      PROVE  ControlTypeInv'
  BY <1>1 DEF StartTask, TakeLock
<1>2. ASSUME NEW w \in Worker, NEW n \in 0..MaxRetries, SkipTask(w, n)
      PROVE  ControlTypeInv'
  BY <1>2 DEF SkipTask
<1>3. ASSUME NEW w \in Worker, ClearCancel(w) PROVE ControlTypeInv'
  BY <1>3 DEF ClearCancel, MoveOn, DropFlag
<1>4. ASSUME NEW w \in Worker, MarkSyncing(w) PROVE ControlTypeInv'
  BY <1>4 DEF MarkSyncing, MoveOn
<1>5. ASSUME NEW w \in Worker, CreateRun(w) PROVE ControlTypeInv'
  <2>1. runs' \in Seq(RunStatus) /\ Len(runs') \in Nat
    BY <1>5, RunsAppend, LenProperties DEF CreateRun
  <2>2. QED
    BY <1>5, <2>1 DEF CreateRun, MoveOn
<1>6. ASSUME NEW w \in Worker, NEW how \in Final, EndSync(w, how)
      PROVE  ControlTypeInv'
  BY <1>6 DEF EndSync, MoveOn
<1>7. ASSUME NEW w \in Worker, SaveRun(w) PROVE ControlTypeInv'
  <2>1. outcome[w] \in RunStatus
    BY <1>7 DEF SaveRun, MoveOn
  <2>2. runs' \in Seq(RunStatus)
    BY <1>7, <2>1, RunsUpdate DEF SaveRun
  <2>3. QED
    BY <1>7, <2>2 DEF SaveRun, MoveOn
<1>8. ASSUME NEW w \in Worker, ClearOwnCancel(w) PROVE ControlTypeInv'
  BY <1>8 DEF ClearOwnCancel, MoveOn, DropFlag
<1>9. ASSUME NEW w \in Worker, SaveStatus(w) PROVE ControlTypeInv'
  BY <1>9 DEF SaveStatus, Forget
<1>10. ASSUME NEW w \in Worker, Release(w) PROVE ControlTypeInv'
  BY <1>10 DEF Release
<1>11. ASSUME NEW w \in Worker, Retry(w) PROVE ControlTypeInv'
  BY <1>11 DEF Retry
<1>12. ASSUME NEW w \in Worker, QueueBackfill(w) PROVE ControlTypeInv'
  BY <1>12 DEF QueueBackfill
<1>13. ASSUME NEW w \in Worker, StartCommand(w) PROVE ControlTypeInv'
  BY <1>13 DEF StartCommand, TakeLock
<1>14. ASSUME NEW w \in Worker, Crash(w) PROVE ControlTypeInv'
  BY <1>14 DEF Crash, Forget
<1>15. ASSUME RequestSync PROVE ControlTypeInv'
  BY <1>15 DEF RequestSync
<1>16. ASSUME ConsumeBackfill \/ ExpireLock \/ ExpireCancel PROVE ControlTypeInv'
  BY <1>16 DEF ConsumeBackfill, ExpireLock, ExpireCancel, DropFlag
<1>17. ASSUME NEW b \in Browser, ReadStatus(b) \/ RaiseFlag(b) PROVE ControlTypeInv'
  BY <1>17 DEF ReadStatus, RaiseFlag
<1>patch. ASSUME NEW q \in Patch, ReadRow(q) \/ WriteRow(q) PROVE ControlTypeInv'
  <2>1. CASE ReadRow(q)
    BY <2>1 DEF ReadRow
  <2>2. CASE WriteRow(q)
    BY <2>2, Zenon DEF WriteRow
  <2>3. QED
    BY <1>patch, <2>1, <2>2
<1>18. CASE UNCHANGED controlVars
  BY <1>18 DEF controlVars
<1> HIDE DEF ControlTypeInv
<1>19. ASSUME NEW w \in Worker, Step(w) PROVE ControlTypeInv'
  BY <1>1, <1>2, <1>3, <1>4, <1>5, <1>6, <1>7, <1>8, <1>9, <1>10, <1>11,
     <1>12, <1>19, Zenon DEF Step, Complete, Fail, SeeCancel, Final, RunStatus
<1>20. QED
  BY <1>13, <1>14, <1>15, <1>16, <1>17, <1>patch, <1>18, <1>19, Zenon DEF ControlNext

(* Type correctness for every set of processes and every bound.            *)
THEOREM ControlTypeCorrect == ControlSpec => []ControlTypeOK
<1>1. ControlTypeInv => ControlTypeOK
  BY DEF ControlTypeInv
<1>2. QED
  BY <1>1, ControlTypeInit, ControlTypeStep, PTL DEF ControlSpec

----------------------------------------------------------------------------

(* Which process a step moves, and whether it is inside the lock.          *)
LEMMA LockStep ==
  SyncFitsTimeout /\ ControlTypeInv /\ LockHeld /\ [ControlNext]_controlVars => LockHeld'
<1> SUFFICES ASSUME SyncFitsTimeout, ControlTypeInv, LockHeld, [ControlNext]_controlVars
             PROVE  LockHeld'
  OBVIOUS
<1> USE DEF ControlTypeInv, ControlTypeOK, LockHeld, MutualExclusion, Holding, Inside,
     BeforeRun, AfterSync, cacheVars, processVars
(* Entering needs a free lock, so nobody else is inside.                   *)
<1>1. ASSUME NEW w \in Worker, pc[w] = "idle", TakeLock,
             pc' = [pc EXCEPT ![w] = "locked"]
      PROVE  LockHeld'
  BY <1>1 DEF TakeLock
(* Moving on inside the lock changes neither the lock nor who is inside.   *)
<1>2. ASSUME NEW w \in Worker, NEW to \in Inside, Holding(w), lock' = lock,
             pc' = [pc EXCEPT ![w] = to]
      PROVE  LockHeld'
  BY <1>2
(* Leaving, or moving on outside.                                          *)
<1>3. ASSUME NEW w \in Worker, Release(w) PROVE LockHeld'
  BY <1>3 DEF Release
<1>4. ASSUME NEW w \in Worker, pc' = [pc EXCEPT ![w] = "idle"], lock' = lock
      PROVE  LockHeld'
  BY <1>4
(* Nobody is inside when the key expires.                                  *)
<1>5. ASSUME ExpireLock PROVE LockHeld'
  BY <1>5 DEF ExpireLock, TimeoutPasses
<1>6. ASSUME UNCHANGED <<lock, pc>> PROVE LockHeld'
  BY <1>6
<1> HIDE DEF LockHeld
<1>7. ASSUME NEW w \in Worker, NEW n \in 0..MaxRetries,
             StartTask(w, n) \/ SkipTask(w, n)
      PROVE  LockHeld'
  BY <1>7, <1>1, <1>6 DEF StartTask, SkipTask
<1>8. ASSUME NEW w \in Worker, ClearCancel(w) \/ MarkSyncing(w) \/ CreateRun(w)
                               \/ SaveRun(w) \/ ClearOwnCancel(w)
      PROVE  LockHeld'
  BY <1>8, <1>2 DEF ClearCancel, MarkSyncing, CreateRun, SaveRun,
     ClearOwnCancel, MoveOn
<1>9. ASSUME NEW w \in Worker, Complete(w) \/ Fail(w) \/ SeeCancel(w)
      PROVE  LockHeld'
  BY <1>9, <1>2 DEF Complete, Fail, SeeCancel, EndSync, MoveOn
<1>10. ASSUME NEW w \in Worker, SaveStatus(w) PROVE LockHeld'
  BY <1>10, <1>2 DEF SaveStatus
<1>11. ASSUME NEW w \in Worker, Retry(w) \/ QueueBackfill(w) \/ Crash(w)
       PROVE  LockHeld'
  BY <1>11, <1>4 DEF Retry, QueueBackfill, Crash
<1>12. ASSUME NEW w \in Worker, StartCommand(w) PROVE LockHeld'
  BY <1>12, <1>1 DEF StartCommand
<1>13. ASSUME RequestSync \/ ConsumeBackfill \/ ExpireCancel PROVE LockHeld'
  BY <1>13, <1>6 DEF RequestSync, ConsumeBackfill, ExpireCancel
<1>14. ASSUME NEW b \in Browser, ReadStatus(b) \/ RaiseFlag(b) PROVE LockHeld'
  BY <1>14, <1>6 DEF ReadStatus, RaiseFlag
<1>patch. ASSUME NEW q \in Patch, ReadRow(q) \/ WriteRow(q) PROVE LockHeld'
  BY <1>patch, <1>6 DEF ReadRow, WriteRow
<1>15. CASE UNCHANGED controlVars
  BY <1>15, <1>6 DEF controlVars
<1>16. ASSUME NEW w \in Worker, Step(w) PROVE LockHeld'
  BY <1>3, <1>7, <1>8, <1>9, <1>10, <1>11, <1>16, Zenon DEF Step
<1>17. QED
  BY <1>5, <1>11, <1>12, <1>13, <1>14, <1>patch, <1>15, <1>16, Zenon DEF ControlNext

(* The lock excludes, whoever contends for it, as long as no sync outlives *)
(* the lock's timeout.                                                     *)
THEOREM LockExcludes ==
  ASSUME SyncFitsTimeout
  PROVE  ControlSpec => []MutualExclusion
<1>1. ControlInit => LockHeld
  BY DEF ControlInit, LockHeld, MutualExclusion, Holding, Inside, BeforeRun, AfterSync
<1>2. LockHeld => MutualExclusion
  BY DEF LockHeld
<1>3. ControlTypeInv /\ LockHeld /\ [ControlNext]_controlVars => LockHeld'
  BY LockStep
<1>4. QED
  BY <1>1, <1>2, <1>3, ControlTypeInit, ControlTypeStep, PTL DEF ControlSpec

----------------------------------------------------------------------------

(* Only clear_cancel lets a process see a flag, and it drops the flag; a   *)
(* flag raised afterwards is raised for every process that can see it.     *)
LEMMA FlagStep == ControlTypeInv /\ FlagReaches /\ [ControlNext]_controlVars => FlagReaches'
<1> SUFFICES ASSUME ControlTypeInv, FlagReaches, [ControlNext]_controlVars PROVE FlagReaches'
  OBVIOUS
<1> USE DEF ControlTypeInv, ControlTypeOK, FlagReaches, Exposed, cacheVars, processVars,
     flagVars
<1>1. ASSUME DropFlag PROVE FlagReaches'
  BY <1>1 DEF DropFlag
<1>2. ASSUME NEW b \in Browser, RaiseFlag(b) PROVE FlagReaches'
  BY <1>2 DEF RaiseFlag
(* Otherwise the process that moves could see the flag before, or cannot.  *)
<1>3. ASSUME NEW w \in Worker, NEW to \in Inside \cup Outside,
             pc' = [pc EXCEPT ![w] = to], Exposed(w)' => Exposed(w),
             UNCHANGED <<cancel, armed>>
      PROVE  FlagReaches'
  BY <1>3
<1>4. ASSUME NEW w \in Worker, NEW to \in Inside \cup Outside,
             pc' = [pc EXCEPT ![w] = to], ~Exposed(w)', Forget(w),
             UNCHANGED cancel
      PROVE  FlagReaches'
  BY <1>4 DEF Forget
<1>5. ASSUME UNCHANGED <<cancel, armed, pc>> PROVE FlagReaches'
  BY <1>5
<1> HIDE DEF FlagReaches
<1> USE DEF Inside, Outside, BeforeRun, AfterSync
<1>6. ASSUME NEW w \in Worker, NEW n \in 0..MaxRetries,
             StartTask(w, n) \/ SkipTask(w, n)
      PROVE  FlagReaches'
  BY <1>6, <1>3, <1>5 DEF StartTask, SkipTask
<1>7. ASSUME NEW w \in Worker, ClearCancel(w) \/ ClearOwnCancel(w)
      PROVE  FlagReaches'
  BY <1>7, <1>1 DEF ClearCancel, ClearOwnCancel
<1>8. ASSUME NEW w \in Worker, MarkSyncing(w) \/ CreateRun(w) \/ SaveRun(w)
      PROVE  FlagReaches'
  BY <1>8, <1>3 DEF MarkSyncing, CreateRun, SaveRun, MoveOn
<1>9. ASSUME NEW w \in Worker, Complete(w) \/ Fail(w) \/ SeeCancel(w)
      PROVE  FlagReaches'
  BY <1>9, <1>3 DEF Complete, Fail, SeeCancel, EndSync, MoveOn
<1>10. ASSUME NEW w \in Worker, SaveStatus(w) PROVE FlagReaches'
  BY <1>10, <1>4 DEF SaveStatus
<1>11. ASSUME NEW w \in Worker, Crash(w) PROVE FlagReaches'
  BY <1>11, <1>4 DEF Crash
<1>12. ASSUME NEW w \in Worker, Retry(w) \/ QueueBackfill(w) PROVE FlagReaches'
  BY <1>12, <1>3 DEF Retry, QueueBackfill
<1>13. ASSUME NEW w \in Worker, Release(w) PROVE FlagReaches'
  BY <1>13, <1>3 DEF Release
<1>14. ASSUME NEW w \in Worker, StartCommand(w) PROVE FlagReaches'
  BY <1>14, <1>3 DEF StartCommand
<1>15. ASSUME RequestSync \/ ConsumeBackfill \/ ExpireLock PROVE FlagReaches'
  BY <1>15, <1>5 DEF RequestSync, ConsumeBackfill, ExpireLock
<1>16. ASSUME ExpireCancel PROVE FlagReaches'
  BY <1>16, <1>1 DEF ExpireCancel
<1>17. ASSUME NEW b \in Browser, ReadStatus(b) PROVE FlagReaches'
  BY <1>17, <1>5 DEF ReadStatus
<1>patch. ASSUME NEW q \in Patch, ReadRow(q) \/ WriteRow(q) PROVE FlagReaches'
  BY <1>patch, <1>5 DEF ReadRow, WriteRow
<1>18. CASE UNCHANGED controlVars
  BY <1>18, <1>5 DEF controlVars
<1>19. ASSUME NEW w \in Worker, Step(w) PROVE FlagReaches'
  BY <1>6, <1>7, <1>8, <1>9, <1>10, <1>12, <1>13, <1>19, Zenon DEF Step
<1>20. QED
  BY <1>2, <1>11, <1>14, <1>15, <1>16, <1>17, <1>patch, <1>18, <1>19, Zenon DEF
     ControlNext

(* No sync is cancelled by a request that predates its own start, with or  *)
(* without the lock.                                                       *)
THEOREM CancelsAreFresh == ControlSpec => NoStaleCancel
<1>1. ControlInit => FlagReaches
  BY DEF ControlInit, FlagReaches
<1>2. FlagReaches => \A w \in Worker : SeeCancel(w) => w \in armed
  BY DEF FlagReaches, SeeCancel, EndSync, MoveOn, Exposed
<1>3. FlagReaches /\ [ControlNext]_controlVars
        => [\A w \in Worker : SeeCancel(w) => w \in armed]_controlVars
  BY <1>2
<1>4. QED
  BY <1>1, <1>3, ControlTypeInit, ControlTypeStep, FlagStep, PTL DEF ControlSpec, NoStaleCancel

(* While a sync works, no other process is where the flag is cleared, and  *)
(* the flag's own timeout cannot pass.                                     *)
THEOREM CancelsArrive ==
  ASSUME SyncFitsTimeout
  PROVE  ControlSpec => CancelNotLost
<1> DEFINE Kept == \A w \in Worker :
       cancel /\ pc[w] = "working" /\ pc'[w] = "working" => cancel'
<1>1. ASSUME ControlTypeInv, LockHeld, [ControlNext]_controlVars PROVE [Kept]_controlVars
  <2> SUFFICES ASSUME NEW w \in Worker, cancel, pc[w] = "working",
                      pc'[w] = "working"
               PROVE  cancel'
    OBVIOUS
  <2>1. Holding(w)
    BY DEF Holding, Inside
  <2>2. ASSUME NEW v \in Worker PROVE ~ClearCancel(v) /\ ~ClearOwnCancel(v)
    <3>1. v # w => ~Holding(v)
      BY <1>1, <2>1 DEF LockHeld, MutualExclusion
    <3>2. QED
      BY <3>1 DEF ClearCancel, ClearOwnCancel, MoveOn, Holding, Inside,
         BeforeRun, AfterSync
  <2>3. ~ExpireCancel
    BY <2>1 DEF ExpireCancel, TimeoutPasses
  <2>4. ASSUME NEW v \in Worker, Step(v) PROVE cancel'
    BY <2>2, <2>4 DEF Step, StartTask, SkipTask, MarkSyncing, CreateRun,
       Complete, Fail, SeeCancel, EndSync, SaveRun, SaveStatus, Release,
       Retry, QueueBackfill, cacheVars
  <2>5. ASSUME NEW v \in Worker, StartCommand(v) \/ Crash(v) PROVE cancel'
    BY <2>5 DEF StartCommand, Crash, cacheVars
  <2>6. QED
    BY <1>1, <2>3, <2>4, <2>5 DEF ControlNext, RequestSync, ConsumeBackfill,
       ExpireLock, ReadStatus, RaiseFlag, ReadRow, WriteRow, cacheVars, controlVars
<1>2. ControlInit => LockHeld
  BY DEF ControlInit, LockHeld, MutualExclusion, Holding, Inside, BeforeRun, AfterSync
<1>3. ControlTypeInv /\ LockHeld /\ [ControlNext]_controlVars => LockHeld'
  BY LockStep
<1> HIDE DEF Kept
<1>4. ControlSpec => [][Kept]_controlVars
  BY <1>1, <1>2, <1>3, ControlTypeInit, ControlTypeStep, PTL DEF ControlSpec
<1>5. QED
  BY <1>4 DEF Kept, CancelNotLost

----------------------------------------------------------------------------

StatusInv == StatusMatchesLastRun /\ RowKnown

(* A step that touches neither table and moves its process to a place from *)
(* which nothing more is claimed, or from one where the same was claimed.  *)
LEMMA StatusKept ==
  ASSUME ControlTypeInv, StatusInv, UNCHANGED <<status, stale, runs>>,
         NEW w \in Worker,
         \A v \in Worker \ {w} :
           pc'[v] = pc[v] /\ run'[v] = run[v] /\ outcome'[v] = outcome[v],
         ~Syncing(w)'
  PROVE  StatusInv'
BY DEF ControlTypeInv, ControlTypeOK, StatusInv, StatusMatchesLastRun, RowKnown, Syncing

LEMMA StatusStep ==
  ControlTypeInv /\ LockHeld /\ StatusInv /\ [ControlNext]_controlVars => StatusInv'
<1> SUFFICES ASSUME ControlTypeInv, LockHeld, StatusInv, [ControlNext]_controlVars PROVE StatusInv'
  OBVIOUS
<1> USE DEF ControlTypeInv, ControlTypeOK, cacheVars, statusVars, processVars
<1>1. ASSUME NEW w \in Worker, NEW n \in 0..MaxRetries,
             StartTask(w, n) \/ SkipTask(w, n)
      PROVE  StatusInv'
  <2>1. CASE StartTask(w, n)
    BY <2>1, StatusKept DEF StartTask, Syncing
  <2>2. CASE SkipTask(w, n)
    BY <2>2 DEF SkipTask, StatusInv, StatusMatchesLastRun, RowKnown, Syncing
  <2>3. QED
    BY <1>1, <2>1, <2>2
<1>2. ASSUME NEW w \in Worker, ClearCancel(w) \/ Retry(w) \/ QueueBackfill(w)
                               \/ Release(w) \/ Crash(w) \/ StartCommand(w)
      PROVE  StatusInv'
  BY <1>2, StatusKept DEF ClearCancel, Retry, QueueBackfill, Release, Crash,
     StartCommand, MoveOn, Syncing
(* The steps that write a table: everyone else is outside the lock.        *)
<1>3. ASSUME NEW w \in Worker, Holding(w), NEW v \in Worker, v # w
      PROVE  ~Syncing(v)
  BY <1>3 DEF LockHeld, MutualExclusion, Holding, Syncing, Inside, BeforeRun,
     AfterSync
<1>4. ASSUME NEW w \in Worker, MarkSyncing(w) PROVE StatusInv'
  <2>1. Holding(w)
    BY <1>4 DEF MarkSyncing, MoveOn, Holding, Inside, BeforeRun
  <2>2. QED
    BY <1>3, <1>4, <2>1 DEF MarkSyncing, MoveOn, StatusInv, StatusMatchesLastRun,
       RowKnown, Syncing
<1>5. ASSUME NEW w \in Worker, CreateRun(w) PROVE StatusInv'
  <2>1. Holding(w)
    BY <1>5 DEF CreateRun, MoveOn, Holding, Inside, BeforeRun
  <2>2. /\ runs' # <<>> /\ Len(runs') = Len(runs) + 1
        /\ runs'[Len(runs')] = "running"
    BY <1>5, RunsAppend DEF CreateRun
  <2>3. \A v \in Worker : v # w => ~Syncing(v)
    BY <1>3, <2>1
  <2>4. QED
    BY <1>5, <2>2, <2>3 DEF CreateRun, MoveOn, StatusInv, StatusMatchesLastRun,
       RowKnown, Syncing
<1>6. ASSUME NEW w \in Worker, NEW how \in Final, EndSync(w, how)
      PROVE  StatusInv'
  BY <1>6 DEF EndSync, MoveOn, StatusInv, StatusMatchesLastRun, RowKnown, Syncing
<1>7. ASSUME NEW w \in Worker, SaveRun(w) PROVE StatusInv'
  <2>1. Holding(w) /\ Syncing(w)
    BY <1>7 DEF SaveRun, MoveOn, Holding, Inside, AfterSync, Syncing
  <2>2. \A v \in Worker : v # w => ~Syncing(v)
    BY <1>3, <2>1
  <2>3. outcome[w] \in RunStatus
    BY <1>7 DEF SaveRun, MoveOn, OutcomeKnown, AfterSync, Final
  <2>4. run[w] = Len(runs) /\ Len(runs) \in Nat /\ (stale \/ status = "syncing")
    BY <1>7, <2>1, LenProperties
       DEF SaveRun, MoveOn, StatusInv, StatusMatchesLastRun
  <2>5. Len(runs) # 0
    BY <1>7, EmptySeq DEF SaveRun, MoveOn, StatusInv, StatusMatchesLastRun
  <2>6. Len(runs') = Len(runs) /\ runs'[Len(runs)] = outcome[w] /\ runs' # <<>>
    BY <1>7, <2>3, <2>4, <2>5, RunsUpdate DEF SaveRun
  <2>7. QED
    BY <1>7, <2>2, <2>4, <2>6 DEF SaveRun, MoveOn, StatusInv,
       StatusMatchesLastRun, RowKnown, Syncing
<1>8. ASSUME NEW w \in Worker, ClearOwnCancel(w) PROVE StatusInv'
  BY <1>8 DEF ClearOwnCancel, MoveOn, StatusInv, StatusMatchesLastRun, RowKnown,
     Syncing
<1>9. ASSUME NEW w \in Worker, SaveStatus(w) PROVE StatusInv'
  <2>1. Holding(w)
    BY <1>9 DEF SaveStatus, Holding, Inside, AfterSync
  <2>2. \A v \in Worker : v # w => ~Syncing(v)
    BY <1>3, <2>1
  <2>3. runs # <<>> /\ runs[Len(runs)] = outcome[w] /\ outcome[w] \in Final
    BY <1>9 DEF SaveStatus, StatusInv, RowKnown, OutcomeKnown, AfterSync
  <2>4. QED
    BY <1>9, <2>2, <2>3 DEF SaveStatus, StatusInv, StatusMatchesLastRun,
       RowKnown, Syncing, Final, RunStatus
<1>10. ASSUME UNCHANGED <<status, stale, runs, pc, run, outcome>> PROVE StatusInv'
  BY <1>10 DEF StatusInv, StatusMatchesLastRun, RowKnown, Syncing
<1> HIDE DEF ControlTypeInv
<1>11. ASSUME NEW w \in Worker, Step(w) PROVE StatusInv'
  BY <1>1, <1>2, <1>4, <1>5, <1>6, <1>7, <1>8, <1>9, <1>11, Zenon
     DEF Step, Complete, Fail, SeeCancel, Final, RunStatus
<1>12. ASSUME NEW b \in Browser, ReadStatus(b) \/ RaiseFlag(b) PROVE StatusInv'
  BY <1>10, <1>12 DEF ReadStatus, RaiseFlag
(* What a PATCH writes is either the status as it is, or stale.            *)
<1>patch. ASSUME NEW q \in Patch, ReadRow(q) \/ WriteRow(q) PROVE StatusInv'
  <2>1. CASE ReadRow(q)
    BY <1>10, <2>1 DEF ReadRow
  <2>2. CASE WriteRow(q)
    <3>1. UNCHANGED <<runs, pc, run, outcome>> /\ status' = patch[q]
          /\ stale' = (stale \/ patch[q] # status)
      BY <2>2 DEF WriteRow
    <3>2. CASE ~stale'
      BY <3>1, <3>2 DEF StatusInv, StatusMatchesLastRun, RowKnown, Syncing
    <3>3. CASE stale'
      BY <3>1, <3>3 DEF StatusInv, StatusMatchesLastRun, RowKnown
    <3>4. QED
      BY <3>1, <3>2, <3>3
  <2>3. QED
    BY <1>patch, <2>1, <2>2
<1>13. ASSUME RequestSync \/ ConsumeBackfill \/ ExpireLock \/ ExpireCancel
       PROVE  StatusInv'
  BY <1>10, <1>13 DEF RequestSync, ConsumeBackfill, ExpireLock, ExpireCancel
<1>14. CASE UNCHANGED controlVars
  BY <1>10, <1>14 DEF controlVars
<1>15. QED
  BY <1>2, <1>11, <1>12, <1>patch, <1>13, <1>14, Zenon DEF ControlNext

(* Whatever crashes, a sync in progress has the newest SyncRun row, and    *)
(* Source.status agrees with the newest row unless a PATCH has written     *)
(* back an older status since a sync last saved it.                        *)
THEOREM StatusIsTrue ==
  ASSUME SyncFitsTimeout
  PROVE  ControlSpec => []StatusMatchesLastRun
<1>1. ControlInit => LockHeld /\ StatusInv
  BY DEF ControlInit, LockHeld, MutualExclusion, Holding, Inside, BeforeRun, AfterSync,
     StatusInv, StatusMatchesLastRun, RowKnown, Syncing
<1>2. ControlTypeInv /\ LockHeld /\ [ControlNext]_controlVars => LockHeld'
  BY LockStep
<1>3. StatusInv => StatusMatchesLastRun
  BY DEF StatusInv
<1>4. QED
  BY <1>1, <1>2, <1>3, ControlTypeInit, ControlTypeStep, StatusStep, PTL DEF ControlSpec

----------------------------------------------------------------------------
(* What holds of the SyncRun rows even when a sync outlives the lock and   *)
(* another overlaps it: each process has a row of its own.                 *)

(* The places from the creation of the row to the save of its outcome.     *)
Recording(w) == pc[w] \in {"working", "closing"}

OwnRows ==
  /\ \A w \in Worker : run[w] <= Len(runs)
  /\ \A v, w \in Worker : run[v] = run[w] /\ run[v] # 0 => v = w
  /\ \A w \in Worker : Recording(w) => run[w] # 0 /\ runs[run[w]] = "running"
  /\ \A w \in Worker : pc[w] \in BeforeRun \cup Outside => run[w] = 0

RunningRows ==
  \A i \in 1..Len(runs) :
    runs[i] = "running" => crashes > 0 \/ \E w \in Worker : run[w] = i /\ Recording(w)

RowsInv == ControlTypeInv /\ OwnRows /\ RunningRows

(* An outcome that is recorded stays.                                      *)
FinalStay ==
  \A i \in DOMAIN runs : runs[i] # "running" => i \in DOMAIN runs' /\ runs'[i] = runs[i]

(* A step of w that leaves the rows alone.                                 *)
LEMMA RowsKept ==
  ASSUME RowsInv, ControlTypeInv', UNCHANGED runs, crashes' >= crashes, NEW w \in Worker,
         \A v \in Worker \ {w} : pc'[v] = pc[v] /\ run'[v] = run[v],
         \/ Recording(w) /\ Recording(w)' /\ run'[w] = run[w]
         \/ ~Recording(w) /\ pc'[w] \notin BeforeRun \cup Outside /\ ~Recording(w)' /\ run'[w] = run[w]
         \/ ~Recording(w) /\ ~Recording(w)' /\ run'[w] = 0
         \/ crashes' > 0 /\ ~Recording(w)' /\ run'[w] = 0
  PROVE  RowsInv' /\ FinalStay
<1>1. /\ Len(runs) \in Nat /\ \A v \in Worker : run[v] \in Nat /\ run'[v] \in Nat
      /\ crashes \in Nat /\ crashes' \in Nat
  BY LenProperties, BoundAssumption DEF RowsInv, ControlTypeInv, ControlTypeOK
<1>2. OwnRows'
  <2>1. run'[w] = run[w] \/ run'[w] = 0
    OBVIOUS
  <2>2. \A v \in Worker : run'[v] <= Len(runs)
    BY <1>1, <2>1 DEF RowsInv, OwnRows
  <2>3. \A u, v \in Worker : run'[u] = run'[v] /\ run'[u] # 0 => u = v
    BY <1>1, <2>1 DEF RowsInv, OwnRows
  <2>4. ASSUME NEW v \in Worker, Recording(v)' PROVE run'[v] # 0 /\ runs[run'[v]] = "running"
    <3>1. run'[v] = run[v] /\ Recording(v)
      BY <2>4 DEF Recording
    <3>2. QED
      BY <3>1 DEF RowsInv, OwnRows
  <2>5. ASSUME NEW v \in Worker, pc'[v] \in BeforeRun \cup Outside PROVE run'[v] = 0
    <3>1. CASE v = w
      <4>1. ~Recording(w)'
        BY <2>5, <3>1 DEF Recording, BeforeRun, Outside
      <4>2. QED
        BY <2>5, <3>1, <4>1
    <3>2. CASE v # w
      BY <2>5, <3>2 DEF RowsInv, OwnRows
    <3>3. QED
      BY <3>1, <3>2
  <2>6. QED
    BY <2>2, <2>3, <2>4, <2>5 DEF OwnRows
<1>3. ASSUME NEW i \in 1..Len(runs), runs[i] = "running", ~(crashes' > 0)
      PROVE  \E v \in Worker : run'[v] = i /\ Recording(v)'
  <2>1. ~(crashes > 0)
    BY <1>1, <1>3
  <2>2. PICK v \in Worker : run[v] = i /\ Recording(v)
    BY <1>3, <2>1 DEF RowsInv, RunningRows
  <2>3. run'[v] = i /\ Recording(v)'
    BY <1>1, <1>3, <2>2 DEF Recording
  <2>4. QED
    BY <2>3
<1>4. RunningRows'
  BY <1>3 DEF RunningRows
<1>5. QED
  BY <1>2, <1>4 DEF RowsInv, FinalStay

LEMMA RowsStep == RowsInv /\ [ControlNext]_controlVars => RowsInv' /\ FinalStay
<1> SUFFICES ASSUME RowsInv, [ControlNext]_controlVars PROVE RowsInv' /\ FinalStay
  OBVIOUS
<1> USE DEF cacheVars, statusVars, processVars, boundVars
<1>0. ControlTypeInv /\ ControlTypeInv'
  BY ControlTypeStep DEF RowsInv
<1>t. /\ runs \in Seq(RunStatus) /\ Len(runs) \in Nat /\ crashes \in Nat
      /\ \A v \in Worker : run[v] \in Nat
      /\ pc \in [Worker -> Inside \cup Outside] /\ run \in [Worker -> Nat]
  BY <1>0, LenProperties, BoundAssumption DEF ControlTypeInv, ControlTypeOK
<1>1. ASSUME NEW w \in Worker, NEW n \in 0..MaxRetries, StartTask(w, n) PROVE RowsInv' /\ FinalStay
  BY <1>0, <1>1, <1>t, RowsKept DEF StartTask, Recording, RowsInv, OwnRows, Outside
<1>2. ASSUME UNCHANGED <<runs, crashes, pc, run>> PROVE RowsInv' /\ FinalStay
  BY <1>0, <1>2 DEF RowsInv, OwnRows, RunningRows, Recording, FinalStay
<1>3. ASSUME NEW w \in Worker, NEW n \in 0..MaxRetries, SkipTask(w, n) PROVE RowsInv' /\ FinalStay
  BY <1>2, <1>3 DEF SkipTask
<1>4. ASSUME NEW w \in Worker,
             ClearCancel(w) \/ MarkSyncing(w) \/ Retry(w) \/ QueueBackfill(w)
      PROVE  RowsInv' /\ FinalStay
  BY <1>0, <1>4, <1>t, RowsKept
     DEF ClearCancel, MarkSyncing, Retry, QueueBackfill, MoveOn, Recording, RowsInv, OwnRows,
         BeforeRun, Outside
<1>5. ASSUME NEW w \in Worker, NEW how \in Final, EndSync(w, how) PROVE RowsInv' /\ FinalStay
  BY <1>0, <1>5, <1>t, RowsKept DEF EndSync, MoveOn, Recording
<1>6. ASSUME NEW w \in Worker, ClearOwnCancel(w) \/ SaveStatus(w) PROVE RowsInv' /\ FinalStay
  BY <1>0, <1>6, <1>t, RowsKept
     DEF ClearOwnCancel, SaveStatus, MoveOn, Recording, BeforeRun, Outside
<1>7. ASSUME NEW w \in Worker, Release(w) PROVE RowsInv' /\ FinalStay
  BY <1>0, <1>7, <1>t, RowsKept DEF Release, Recording
<1>8. ASSUME NEW w \in Worker, StartCommand(w) PROVE RowsInv' /\ FinalStay
  BY <1>0, <1>8, <1>t, RowsKept DEF StartCommand, Recording, RowsInv, OwnRows, Outside
<1>9. ASSUME NEW w \in Worker, Crash(w) PROVE RowsInv' /\ FinalStay
  BY <1>0, <1>9, <1>t, RowsKept DEF Crash, Recording
<1>10. ASSUME NEW w \in Worker, CreateRun(w) PROVE RowsInv' /\ FinalStay
  <2> DEFINE L == Len(runs)
  <2>1. /\ Len(runs') = L + 1 /\ runs'[L + 1] = "running" /\ L + 1 # 0
        /\ \A i \in 1..L : runs'[i] = runs[i]
        /\ DOMAIN runs = 1..L /\ DOMAIN runs' = 1..L + 1
    <3>1. "running" \in RunStatus
      BY DEF RunStatus
    <3>2. runs' = Append(runs, "running") /\ runs' \in Seq(RunStatus)
      BY <1>10, <1>t, <3>1, AppendProperties DEF CreateRun
    <3>3. QED
      BY <1>t, <3>1, <3>2, AppendProperties, LenProperties
  <2>2. /\ run'[w] = L + 1 /\ pc'[w] = "working" /\ pc[w] = "marked" /\ crashes' = crashes
        /\ \A v \in Worker \ {w} : run'[v] = run[v] /\ pc'[v] = pc[v]
    BY <1>10, <1>t, <2>1 DEF CreateRun, MoveOn
  <2> HIDE DEF L
  <2>3. \A v \in Worker : run[v] <= L /\ run[v] \in Nat
    BY <1>t DEF RowsInv, OwnRows, L
  <2>4. OwnRows'
    <3>1. \A v \in Worker : run'[v] <= L + 1
      BY <1>t, <2>2, <2>3 DEF L
    <3>2. \A u, v \in Worker : run'[u] = run'[v] /\ run'[u] # 0 => u = v
      BY <1>t, <2>2, <2>3 DEF RowsInv, OwnRows, L
    <3>3. ASSUME NEW v \in Worker, Recording(v)' PROVE run'[v] # 0 /\ runs'[run'[v]] = "running"
      <4>1. CASE v = w
        BY <2>1, <2>2, <4>1
      <4>2. CASE v # w
        <5>1. run'[v] = run[v] /\ run[v] # 0 /\ runs[run[v]] = "running"
          BY <2>2, <3>3, <4>2 DEF RowsInv, OwnRows, Recording
        <5>2. run[v] \in 1..L
          BY <1>t, <2>3, <5>1 DEF L
        <5>3. QED
          BY <2>1, <5>1, <5>2
      <4>3. QED
        BY <4>1, <4>2
    <3>4. \A v \in Worker : pc'[v] \in BeforeRun \cup Outside => run'[v] = 0
      BY <2>2 DEF RowsInv, OwnRows, BeforeRun, Outside
    <3>5. QED
      BY <2>1, <3>1, <3>2, <3>3, <3>4 DEF OwnRows
  <2>5. ASSUME NEW i \in 1..Len(runs'), runs'[i] = "running", ~(crashes' > 0)
        PROVE  \E v \in Worker : run'[v] = i /\ Recording(v)'
    <3>1. CASE i = L + 1
      BY <2>2, <3>1 DEF Recording
    <3>2. CASE i # L + 1
      <4>1. i \in 1..L /\ runs[i] = "running"
        BY <1>t, <2>1, <2>5, <3>2 DEF L
      <4>2. PICK v \in Worker : run[v] = i /\ Recording(v)
        BY <2>2, <2>5, <4>1 DEF RowsInv, RunningRows, L
      <4>3. v # w
        BY <2>2, <4>2 DEF Recording
      <4>4. QED
        BY <2>2, <4>2, <4>3 DEF Recording
    <3>3. QED
      BY <3>1, <3>2
  <2>6. RunningRows'
    BY <2>5 DEF RunningRows
  <2>7. FinalStay
    BY <1>t, <2>1 DEF FinalStay, L
  <2>8. QED
    BY <1>0, <2>4, <2>6, <2>7 DEF RowsInv
<1>11. ASSUME NEW w \in Worker, SaveRun(w) PROVE RowsInv' /\ FinalStay
  <2>1. /\ pc[w] = "closing" /\ pc'[w] = "recorded" /\ run' = run /\ crashes' = crashes
        /\ \A v \in Worker \ {w} : pc'[v] = pc[v]
        /\ runs' = [runs EXCEPT ![run[w]] = outcome[w]]
    BY <1>11, <1>t DEF SaveRun, MoveOn
  <2>2. /\ run[w] # 0 /\ run[w] \in 1..Len(runs) /\ runs[run[w]] = "running"
        /\ outcome[w] \in RunStatus /\ outcome[w] # "running"
    <3>1. run[w] # 0 /\ run[w] <= Len(runs) /\ runs[run[w]] = "running"
      BY <2>1 DEF RowsInv, OwnRows, Recording
    <3>2. outcome[w] \in Final
      BY <1>0, <2>1 DEF ControlTypeInv, OutcomeKnown, AfterSync
    <3>3. QED
      BY <1>t, <3>1, <3>2 DEF Final, RunStatus
  <2>3. /\ Len(runs') = Len(runs) /\ DOMAIN runs = 1..Len(runs) /\ DOMAIN runs' = 1..Len(runs)
        /\ runs'[run[w]] = outcome[w]
        /\ \A i \in 1..Len(runs) : i # run[w] => runs'[i] = runs[i]
    BY <1>t, <2>1, <2>2, ExceptSeq, LenProperties
  <2>4. OwnRows'
    <3>1. ASSUME NEW v \in Worker, Recording(v)' PROVE run'[v] # 0 /\ runs'[run'[v]] = "running"
      <4>1. v # w /\ pc[v] = pc'[v]
        BY <2>1, <3>1 DEF Recording
      <4>2. run[v] # 0 /\ runs[run[v]] = "running" /\ run[v] <= Len(runs)
        BY <3>1, <4>1 DEF RowsInv, OwnRows, Recording
      <4>3. run[v] # run[w]
        BY <4>1, <4>2 DEF RowsInv, OwnRows
      <4>4. run[v] \in 1..Len(runs)
        BY <1>t, <4>2
      <4>5. QED
        BY <2>1, <2>3, <4>2, <4>3, <4>4
    <3>2. \A v \in Worker : pc'[v] \in BeforeRun \cup Outside => run'[v] = 0
      BY <2>1 DEF RowsInv, OwnRows, BeforeRun, Outside
    <3>3. QED
      BY <2>1, <2>3, <3>1, <3>2 DEF RowsInv, OwnRows
  <2>5. ASSUME NEW i \in 1..Len(runs'), runs'[i] = "running", ~(crashes' > 0)
        PROVE  \E v \in Worker : run'[v] = i /\ Recording(v)'
    <3>1. i \in 1..Len(runs) /\ i # run[w] /\ runs[i] = "running"
      BY <2>2, <2>3, <2>5
    <3>2. PICK v \in Worker : run[v] = i /\ Recording(v)
      BY <2>1, <2>5, <3>1 DEF RowsInv, RunningRows
    <3>3. v # w
      BY <3>1, <3>2
    <3>4. QED
      BY <2>1, <3>2, <3>3 DEF Recording
  <2>6. RunningRows'
    BY <2>5 DEF RunningRows
  <2>7. FinalStay
    BY <2>2, <2>3 DEF FinalStay
  <2>8. QED
    BY <1>0, <2>4, <2>6, <2>7 DEF RowsInv
<1>12. ASSUME NEW w \in Worker, Step(w) PROVE RowsInv' /\ FinalStay
  BY <1>1, <1>3, <1>4, <1>5, <1>6, <1>7, <1>10, <1>11, <1>12, Zenon
     DEF Step, Complete, Fail, SeeCancel, Final, RunStatus
<1>13. ASSUME NEW b \in Browser, ReadStatus(b) \/ RaiseFlag(b) PROVE RowsInv' /\ FinalStay
  BY <1>2, <1>13 DEF ReadStatus, RaiseFlag
<1>patch. ASSUME NEW q \in Patch, ReadRow(q) \/ WriteRow(q) PROVE RowsInv' /\ FinalStay
  BY <1>2, <1>patch DEF ReadRow, WriteRow
<1>14. ASSUME RequestSync \/ ConsumeBackfill \/ ExpireLock \/ ExpireCancel
       PROVE  RowsInv' /\ FinalStay
  BY <1>2, <1>14 DEF RequestSync, ConsumeBackfill, ExpireLock, ExpireCancel
<1>15. CASE UNCHANGED controlVars
  BY <1>2, <1>15 DEF controlVars
<1>16. QED
  BY <1>8, <1>9, <1>12, <1>13, <1>patch, <1>14, <1>15, Zenon DEF ControlNext

LEMMA RowsInit == ControlInit => RowsInv
<1> SUFFICES ASSUME ControlInit PROVE RowsInv
  OBVIOUS
<1>1. ControlTypeInv
  BY ControlTypeInit
<1>2. runs = <<>> /\ Len(runs) = 0 /\ \A w \in Worker : run[w] = 0 /\ pc[w] = "idle"
  BY DEF ControlInit
<1>3. QED
  BY <1>1, <1>2 DEF RowsInv, OwnRows, RunningRows, Recording

(* Unless a process is killed, a SyncRun row that says running is that of  *)
(* a sync which is still going to save its outcome, whether or not syncs   *)
(* overlap (the except branch of sync_source_with_tracking).               *)
THEOREM RunningRowsAreOwned ==
  ControlSpec =>
    [](\A i \in 1..Len(runs) :
         runs[i] = "running" => crashes > 0 \/ \E w \in Worker : run[w] = i /\ Recording(w))
<1>1. RowsInv => \A i \in 1..Len(runs) :
        runs[i] = "running" => crashes > 0 \/ \E w \in Worker : run[w] = i /\ Recording(w)
  BY DEF RowsInv, RunningRows
<1>2. QED
  BY <1>1, RowsInit, RowsStep, PTL DEF ControlSpec

(* The outcome of a sync that is recorded is never overwritten, neither by *)
(* a sync that overlaps it nor by one that follows.                        *)
THEOREM OutcomesStay ==
  ControlSpec =>
    [][\A i \in DOMAIN runs :
         runs[i] # "running" => i \in DOMAIN runs' /\ runs'[i] = runs[i]]_controlVars
<1>1. RowsInv /\ [ControlNext]_controlVars =>
        [\A i \in DOMAIN runs :
           runs[i] # "running" => i \in DOMAIN runs' /\ runs'[i] = runs[i]]_controlVars
  BY RowsStep DEF FinalStay
<1>2. QED
  BY <1>1, RowsInit, RowsStep, PTL DEF ControlSpec

----------------------------------------------------------------------------
(* SourceSync: sync_source under the lock.                                 *)

(* The two parts.                                                          *)

LEMMA StepOfControl ==
  ASSUME [SyncNext]_syncVars PROVE [ControlNext]_controlVars
<1>1. CASE ControlStep
  BY <1>1, Zenon DEF ControlStep, Elsewhere, AroundSync, ControlNext, Step
<1>2. CASE EditStep \/ UNCHANGED syncVars
  BY <1>2 DEF EditStep, syncVars
<1>3. ASSUME NEW w \in Worker,
             BeginRun(w) \/ NextDocument(w) \/ WriteStep(w)
      PROVE  UNCHANGED controlVars
  BY <1>3, Zenon DEF BeginRun, NextDocument, WriteStep
<1>4. ASSUME NEW w \in Worker,
             CancelRun(w) \/ ReturnRun(w) \/ FailRun(w) \/ CrashRun(w)
      PROVE  Step(w) \/ Crash(w)
  BY <1>4, Zenon DEF CancelRun, ReturnRun, FailRun, CrashRun, Step
<1>5. QED
  BY <1>1, <1>2, <1>3, <1>4, Zenon DEF SyncNext, ControlNext

(* What a process does to the documents, while it works and as it ends.    *)
DocStep(w) == BeginRun(w) \/ NextDocument(w) \/ WriteStep(w)
EndStep(w) == CancelRun(w) \/ ReturnRun(w) \/ FailRun(w) \/ CrashRun(w)

LEMMA ActOfRun ==
  ASSUME NEW w \in Worker
  PROVE  /\ DocStep(w) => Act(w) /\ pc[w] = "working" /\ UNCHANGED controlVars
         /\ EndStep(w) => \/ Cancel(w) \/ Return(w) \/ Abandon(w)
                          \/ step[w] = "idle" /\ UNCHANGED docVars
<1>1. DocStep(w) => Act(w) /\ pc[w] = "working" /\ UNCHANGED controlVars
  BY Zenon DEF DocStep, BeginRun, NextDocument, WriteStep, Act
<1>2. EndStep(w) => \/ Cancel(w) \/ Return(w) \/ Abandon(w)
                    \/ step[w] = "idle" /\ UNCHANGED docVars
  BY Zenon DEF EndStep, CancelRun, ReturnRun, FailRun, CrashRun
<1>3. QED
  BY <1>1, <1>2

(* A step is the control's, an edit, or one process's work or its end.     *)
LEMMA WhoSteps ==
  ASSUME [SyncNext]_syncVars
  PROVE  \/ ControlStep \/ EditStep \/ UNCHANGED syncVars
         \/ \E w \in Worker : DocStep(w) \/ EndStep(w)
BY Zenon DEF SyncNext, DocStep, EndStep

LEMMA StepOfReconcile ==
  ASSUME [SyncNext]_syncVars PROVE [Next]_vars
<1>1. CASE ControlStep \/ UNCHANGED syncVars
  BY <1>1, Zenon DEF ControlStep, syncVars, docVars
<1>2. CASE EditStep
  BY <1>2, Zenon DEF EditStep, Next
<1>3. ASSUME NEW w \in Worker, DocStep(w) PROVE Next
  BY <1>3, ActOfRun, Zenon DEF Act, Next
<1>4. ASSUME NEW w \in Worker, EndStep(w) PROVE [Next]_vars
  BY <1>4, ActOfRun, Zenon DEF docVars, Next
<1>5. QED
  BY <1>1, <1>2, <1>3, <1>4, WhoSteps, Zenon

----------------------------------------------------------------------------
(* Documents are only worked on from inside `with sync_lock`.              *)
RunsInside == \A w \in Worker : Busy(w) => pc[w] = "working"

LockInv == ControlTypeInv /\ LockHeld /\ TypeInv /\ RunsInside

LEMMA LockInit == SyncInit => LockInv
<1> SUFFICES ASSUME SyncInit PROVE LockInv
  OBVIOUS
<1>1. LockHeld
  BY DEF SyncInit, ControlInit, LockHeld, MutualExclusion, Holding, Inside,
     BeforeRun, AfterSync
<1>2. RunsInside
  BY DEF SyncInit, Init, RunsInside, Busy
<1>3. QED
  BY <1>1, <1>2, ControlTypeInit, TypeInit DEF SyncInit, LockInv

(* Around sync_source, no process that works moves.                        *)
LEMMA ControlStays ==
  ASSUME ControlStep, NEW w \in Worker, pc[w] = "working", ControlTypeInv
  PROVE  pc'[w] = "working"
<1> USE DEF ControlTypeInv, ControlTypeOK, MoveOn, processVars
<1>1. CASE Elsewhere
  <2>1. UNCHANGED pc
    BY <1>1 DEF Elsewhere, RequestSync, ConsumeBackfill, ExpireLock,
       ExpireCancel, ReadStatus, RaiseFlag, ReadRow, WriteRow
  <2>2. QED
    BY <2>1
<1>2. ASSUME NEW u \in Worker, AroundSync(u) PROVE pc'[w] = "working"
  <2>1. ASSUME NEW n \in 0..MaxRetries, StartTask(u, n) \/ SkipTask(u, n)
        PROVE  pc'[w] = "working"
    BY <2>1 DEF StartTask, SkipTask
  <2>2. CASE StartCommand(u) \/ ClearCancel(u) \/ MarkSyncing(u) \/ CreateRun(u)
    BY <2>2 DEF StartCommand, ClearCancel, MarkSyncing, CreateRun
  <2>3. CASE SaveRun(u) \/ ClearOwnCancel(u) \/ SaveStatus(u)
    BY <2>3 DEF SaveRun, ClearOwnCancel, SaveStatus
  <2>4. CASE Release(u) \/ Retry(u) \/ QueueBackfill(u)
    BY <2>4 DEF Release, Retry, QueueBackfill
  <2>5. QED
    BY <1>2, <2>1, <2>2, <2>3, <2>4, Zenon DEF AroundSync
<1>3. QED
  BY <1>1, <1>2 DEF ControlStep

(* The end of a run moves its own process and no other.                    *)
LEMMA EndMoves ==
  ASSUME ControlTypeInv, TypeInv, NEW w \in Worker, EndStep(w)
  PROVE  /\ step'[w] = "idle" /\ \A v \in Worker \ {w} : SameRun(v)
         /\ \A v \in Worker \ {w} : pc'[v] = pc[v]
         /\ UNCHANGED <<disk, docs, chunks, status, stale, runs, edits, asOf>>
<1>1. step'[w] = "idle"
  BY ActOfRun, Zenon DEF Cancel, Return, Abandon, Leave, docVars, vars,
     TypeInv, TypeOK, RunsTyped
<1>2. \A v \in Worker \ {w} : SameRun(v)
  <2>1. CASE Cancel(w) \/ Return(w) \/ Abandon(w)
    BY <2>1, OthersKept DEF Act
  <2>2. CASE UNCHANGED docVars
    BY <2>2 DEF docVars, vars, SameRun, listVars, handVars
  <2>3. QED
    BY <2>1, <2>2, ActOfRun
<1>3. \A v \in Worker \ {w} : pc'[v] = pc[v]
  BY DEF EndStep, CancelRun, ReturnRun, FailRun, CrashRun, SeeCancel, Complete,
     Fail, EndSync, MoveOn, Crash, ControlTypeInv, ControlTypeOK
<1>4. UNCHANGED <<disk, docs, chunks, edits>>
  BY ActOfRun DEF Cancel, Return, Abandon, docVars, vars, tableVars
<1>5. UNCHANGED <<status, stale, runs, asOf>>
  BY DEF EndStep, CancelRun, ReturnRun, FailRun, CrashRun, SeeCancel, Complete,
     Fail, EndSync, Crash, statusVars
<1>6. QED
  BY <1>1, <1>2, <1>3, <1>4, <1>5

(* Whoever is at work on the documents after a step was and is "working".  *)
LEMMA BusyWork ==
  ASSUME LockInv, [SyncNext]_syncVars, NEW w \in Worker, step'[w] # "idle"
  PROVE  pc[w] = "working" /\ pc'[w] = "working"
<1>inv. ControlTypeInv /\ TypeInv /\ (step[w] # "idle" => pc[w] = "working")
  BY DEF LockInv, RunsInside, Busy
<1>1. CASE ControlStep
  <2>1. step' = step
    BY <1>1 DEF ControlStep, docVars, vars
  <2>2. QED
    BY <1>1, <2>1, <1>inv, ControlStays
<1>2. CASE EditStep \/ UNCHANGED syncVars
  <2>1. UNCHANGED <<step, pc>>
    BY <1>2 DEF EditStep, Edit, syncVars, docVars, vars, controlVars, processVars
  <2>2. QED
    BY <2>1, <1>inv
<1>3. ASSUME NEW u \in Worker, DocStep(u)
      PROVE  pc[w] = "working" /\ pc'[w] = "working"
  <2>1. pc' = pc /\ pc[u] = "working" /\ Act(u)
    BY <1>3, ActOfRun DEF controlVars, processVars
  <2>2. w # u => step'[w] = step[w]
    BY <2>1, <1>inv, OthersKept DEF SameRun
  <2>3. QED
    BY <2>1, <2>2, <1>inv
<1>4. ASSUME NEW u \in Worker, EndStep(u)
      PROVE  pc[w] = "working" /\ pc'[w] = "working"
  <2>1. w # u /\ step'[w] = step[w] /\ pc'[w] = pc[w]
    BY <1>4, <1>inv, EndMoves DEF SameRun
  <2>2. QED
    BY <2>1, <1>inv
<1>5. QED
  BY <1>1, <1>2, <1>3, <1>4, WhoSteps, Zenon

(* So a run begins when no other is in progress: what Reconcile's proofs   *)
(* ask of its callers.                                                     *)
LEMMA RunsBeginAlone ==
  ASSUME LockInv, [SyncNext]_syncVars PROVE BeginsAlone
<1> SUFFICES ASSUME NEW w \in Worker, Begin(w), NEW v \in Worker
             PROVE  step[v] = "idle"
  BY DEF BeginsAlone
<1>1. step[w] = "idle" /\ step'[w] = "scan"
  BY DEF Begin, Goto, LockInv, TypeInv, TypeOK, RunsTyped
<1>2. pc[w] = "working"
  BY <1>1, BusyWork
<1>3. step[v] # "idle" => pc[v] = "working"
  BY DEF LockInv, RunsInside, Busy
<1>4. pc[v] = "working" => v = w
  BY <1>2 DEF LockInv, LockHeld, MutualExclusion, Holding, Inside
<1>5. QED
  BY <1>1, <1>3, <1>4

LEMMA LockInvStep ==
  ASSUME SyncFitsTimeout PROVE LockInv /\ [SyncNext]_syncVars => LockInv'
<1> SUFFICES ASSUME LockInv, [SyncNext]_syncVars PROVE LockInv'
  OBVIOUS
<1>1. ControlTypeInv' /\ LockHeld'
  BY StepOfControl, ControlTypeStep, LockStep DEF LockInv
<1>2. TypeInv'
  BY StepOfReconcile, TypeStep DEF LockInv
<1>3. RunsInside'
  BY BusyWork DEF RunsInside, Busy
<1>4. QED
  BY <1>1, <1>2, <1>3 DEF LockInv

----------------------------------------------------------------------------
(* Types.                                                                  *)

LEMMA AsOfStep ==
  ASSUME TypeInv, TypeInv', asOf \in 0..edits, [SyncNext]_syncVars
  PROVE  asOf' \in 0..edits' /\ (asOf' = edits' => \/ asOf = edits
                                                   \/ \E w \in Worker : BeginRun(w))
<1> USE DEF TypeInv, TypeOK
<1>1. CASE ControlStep \/ UNCHANGED syncVars
  BY <1>1 DEF ControlStep, syncVars, docVars, vars
<1>2. CASE EditStep
  BY <1>2 DEF EditStep, Edit
<1>3. ASSUME NEW w \in Worker, BeginRun(w)
      PROVE  asOf' = edits /\ edits' = edits
  BY <1>3 DEF BeginRun, Begin
<1>4. ASSUME NEW w \in Worker, NextDocument(w) \/ WriteStep(w)
      PROVE  asOf' = asOf /\ edits' = edits
  BY <1>4 DEF NextDocument, Fetch, WriteStep, Write, Create, Update,
     DropChunks, Mark, NoDuplicate, Process, SoftDelete, Purge
<1>5. ASSUME NEW w \in Worker, EndStep(w)
      PROVE  asOf' = asOf /\ edits' = edits
  <2>1. asOf' = asOf
    BY <1>5 DEF EndStep, CancelRun, ReturnRun, FailRun, CrashRun
  <2>2. edits' = edits
    BY <1>5, ActOfRun DEF Cancel, Return, Abandon, docVars, vars
  <2>3. QED
    BY <2>1, <2>2
<1>6. QED
  BY <1>1, <1>2, <1>3, <1>4, <1>5, WhoSteps DEF DocStep

(* Every variable of the whole keeps its type, lock or no lock.            *)
THEOREM SyncTypeCorrect == SyncSpec => []SyncTypeOK
<1> DEFINE Inv == ControlTypeInv /\ TypeInv /\ asOf \in 0..edits
<1>1. SyncInit => Inv
  BY ControlTypeInit, TypeInit DEF SyncInit, Init
<1>2. Inv /\ [SyncNext]_syncVars => Inv'
  BY StepOfControl, ControlTypeStep, StepOfReconcile, TypeStep, AsOfStep
<1>3. Inv => SyncTypeOK
  BY DEF ControlTypeInv, TypeInv, SyncTypeOK
<1>4. QED
  BY <1>1, <1>2, <1>3, PTL DEF SyncSpec

----------------------------------------------------------------------------
(* Runs are serial.                                                        *)

(* Every step is a step of the serial specification, or does not touch the *)
(* documents.                                                              *)
LEMMA StepOfSerial ==
  ASSUME BeginsAlone, [Next]_vars PROVE [Serial!Next]_vars
<1>same. Serial!Worker = Worker
  BY DEF Worker, Serial!Worker
<1>1. ASSUME NEW w \in Worker, Begin(w) PROVE Serial!Begin(w)
  <2>1. \A v \in Worker : step[v] = "idle"
    BY <1>1 DEF BeginsAlone
  <2>2. QED
    BY <1>1, <2>1, <1>same DEF Begin, Serial!Begin, Goto, Serial!Goto, Files,
       Serial!Files, tableVars, Serial!tableVars, handVars, Serial!handVars
<1>2. ASSUME NEW w \in Worker, NEW p \in Path, Fetch(w, p)
      PROVE  Serial!Fetch(w, p)
  BY <1>2 DEF Fetch, Serial!Fetch, Upcoming, Serial!Upcoming, Files,
     Serial!Files, Unchanged, Serial!Unchanged, tableVars, Serial!tableVars,
     historyVars, Serial!historyVars
<1>3. ASSUME NEW w \in Worker, Write(w) PROVE Serial!Write(w)
  <2> USE DEF Goto, Serial!Goto, tableVars, Serial!tableVars, listVars,
       Serial!listVars, handVars, Serial!handVars, historyVars,
       Serial!historyVars, PutDown, Serial!PutDown, NoPath, Serial!NoPath
  <2>1. Create(w) => Serial!Create(w)
    BY DEF Create, Serial!Create, Count, Serial!Count
  <2>2. Update(w) => Serial!Update(w)
    BY DEF Update, Serial!Update, Count, Serial!Count
  <2>3. Canonical(cur[w], got[w]) = Serial!Canonical(cur[w], got[w])
    BY DEF Canonical, Serial!Canonical, Candidates, Serial!Candidates, Live,
       Serial!Live, Earlier, Serial!Earlier
  <2>4. DropChunks(w) => Serial!DropChunks(w)
    BY <2>3 DEF DropChunks, Serial!DropChunks
  <2>5. NoDuplicate(w) => Serial!NoDuplicate(w)
    BY <2>3 DEF NoDuplicate, Serial!NoDuplicate
  <2>6. Mark(w) => Serial!Mark(w)
    BY DEF Mark, Serial!Mark
  <2>7. Process(w) => Serial!Process(w)
    BY DEF Process, Serial!Process
  <2>8. SoftDelete(w) => Serial!SoftDelete(w)
    <3>1. Missing(w) = Serial!Missing(w)
      BY DEF Missing, Serial!Missing
    <3>2. {p \in Missing(w) : Live(p)} = {p \in Serial!Missing(w) : Serial!Live(p)}
      BY <3>1 DEF Live, Serial!Live
    <3>3. ASSUME NEW S PROVE Cardinality(S) = Serial!Cardinality(S)
      BY Zenon DEF Cardinality, Serial!Cardinality
    <3>4. QED
      BY <3>1, <3>2, <3>3 DEF SoftDelete, Serial!SoftDelete
  <2>9. Purge(w) => Serial!Purge(w)
    BY DEF Purge, Serial!Purge, Missing, Serial!Missing
  <2>10. QED
    BY <1>3, <2>1, <2>2, <2>4, <2>5, <2>6, <2>7, <2>8, <2>9, Zenon
    DEF Write, Serial!Write
<1>4. ASSUME NEW w \in Worker, Cancel(w) \/ Return(w) \/ Abandon(w)
      PROVE  Serial!Cancel(w) \/ Serial!Return(w) \/ Serial!Abandon(w)
  <2> USE DEF Leave, Serial!Leave, PutDown, Serial!PutDown, NoRows,
       Serial!NoRows, NoStats, Serial!NoStats, NoPath, Serial!NoPath,
       tableVars, Serial!tableVars, Upcoming, Serial!Upcoming, Files,
       Serial!Files
  <2>1. Cancel(w) => Serial!Cancel(w)
    BY DEF Cancel, Serial!Cancel
  <2>2. Return(w) => Serial!Return(w)
    BY DEF Return, Serial!Return
  <2>3. Abandon(w) => Serial!Abandon(w)
    BY DEF Abandon, Serial!Abandon, InHand, Serial!InHand, Missing,
       Serial!Missing
  <2>4. QED
    BY <1>4, <2>1, <2>2, <2>3
<1>5. ASSUME NEW p \in Path, NEW c \in Content \cup {NoContent}, Edit(p, c)
      PROVE  Serial!Edit(p, c)
  BY <1>5 DEF Edit, Serial!Edit, tableVars, Serial!tableVars, listVars,
     Serial!listVars, handVars, Serial!handVars
<1>6. QED
  BY <1>1, <1>2, <1>3, <1>4, <1>5, <1>same, Zenon DEF Next, Serial!Next

(* While no sync outlives the lock, what any number of workers, shells and *)
(* pages do to the documents is what serial runs of sync_source could do.  *)
THEOREM LockMakesSerial ==
  ASSUME SyncFitsTimeout PROVE SyncSpec => RunsAreSerial
<1>1. SyncInit => Serial!Init
  BY DEF SyncInit, Init, Serial!Init, NoRows, Serial!NoRows, NoStats,
     Serial!NoStats, NoPath, Serial!NoPath, Worker, Serial!Worker
<1>2. LockInv /\ [SyncNext]_syncVars => [Serial!Next]_docVars
  BY RunsBeginAlone, StepOfReconcile, StepOfSerial DEF docVars
<1>3. QED
  BY <1>1, <1>2, LockInit, LockInvStep, PTL DEF SyncSpec, RunsAreSerial

----------------------------------------------------------------------------
(* What each part keeps on its own, with the runs serial, holds of the     *)
(* whole.                                                                  *)

WholeInv == LockInv /\ StatusInv

LEMMA WholeInit == SyncInit => WholeInv
<1>1. SyncInit => StatusInv
  BY DEF SyncInit, ControlInit, StatusInv, StatusMatchesLastRun, RowKnown,
     Syncing
<1>2. QED
  BY <1>1, LockInit DEF WholeInv

LEMMA WholeStep ==
  ASSUME SyncFitsTimeout PROVE WholeInv /\ [SyncNext]_syncVars => WholeInv'
BY LockInvStep, StepOfControl, StatusStep DEF WholeInv, LockInv

(* One process at a time, with the status and the SyncRun row it should    *)
(* have: SyncControl's guarantees, of the whole.                           *)
THEOREM SyncKeepsControl ==
  ASSUME SyncFitsTimeout
  PROVE  SyncSpec => []MutualExclusion /\ []StatusMatchesLastRun
<1>1. WholeInv => MutualExclusion /\ StatusMatchesLastRun
  BY DEF WholeInv, LockInv, LockHeld, StatusInv
<1>2. QED
  BY <1>1, WholeInit, WholeStep, PTL DEF SyncSpec

(* sync_source finds its rows as it read them, and the chunks follow the   *)
(* rows: sync_source does not ensure it, the lock does.                    *)
THEOREM SyncKeepsRows ==
  ASSUME SyncFitsTimeout
  PROVE  SyncSpec => []SnapshotFresh /\ []ChunksFollowRows
<1> DEFINE Inv == WholeInv /\ SerialInv /\ ChunksFollowRows
<1>1. SyncInit => Inv
  BY WholeInit, SerialInit
  DEF SyncInit, Init, NoRows, ChunksFollowRows, Live
<1>2. Inv /\ [SyncNext]_syncVars => Inv'
  BY WholeStep, StepOfReconcile, RunsBeginAlone, SerialStep, ChunksStep
  DEF WholeInv
<1>3. Inv => SnapshotFresh /\ ChunksFollowRows
  BY DEF SerialInv, Fresh, FreshRun, SnapshotFresh
<1>4. QED
  BY <1>1, <1>2, <1>3, PTL DEF SyncSpec

(* And what a run that nobody disturbed leaves behind, says and repeats.   *)
THEOREM SyncKeepsPromises ==
  ASSUME SyncFitsTimeout, ~MayTruncate
  PROVE  SyncSpec => []MirrorsDisk /\ []StatsAreTrue /\ []ZeroWrites
<1> DEFINE Inv == WholeInv /\ MirrorInv /\ StatsInv
<1>1. SyncInit => Inv
  BY WholeInit, MirrorInit, StatsInit DEF SyncInit
<1>2. Inv /\ [SyncNext]_syncVars => Inv'
  BY WholeStep, StepOfReconcile, RunsBeginAlone, MirrorStep, StatsStep
  DEF WholeInv
<1>3. Inv => MirrorsDisk /\ StatsAreTrue /\ ZeroWrites
  BY MirrorDone, StatsDone DEF MirrorInv, CalmInv, ZeroWrites
<1>4. QED
  BY <1>1, <1>2, <1>3, PTL DEF SyncSpec

(* Documents only change under a RUNNING row, crashes or not, and under    *)
(* SYNCING unless a PATCH has written back an older status.                *)
THEOREM WritesTracked ==
  ASSUME SyncFitsTimeout PROVE SyncSpec => WritesAreTracked
<1> DEFINE Tracked == docs' # docs \/ chunks' # chunks =>
                        /\ runs[Len(runs)] = "running"
                        /\ status = "syncing" \/ stale
<1>1. ASSUME WholeInv, [SyncNext]_syncVars PROVE Tracked
  <2>1. CASE ControlStep \/ EditStep \/ UNCHANGED syncVars
    BY <2>1 DEF ControlStep, EditStep, Edit, syncVars, docVars, vars, tableVars
  <2>2. ASSUME NEW w \in Worker, EndStep(w) PROVE Tracked
    BY <1>1, <2>2, EndMoves DEF WholeInv, LockInv
  <2>3. ASSUME NEW w \in Worker, DocStep(w) PROVE Tracked
    <3>1. pc[w] = "working"
      BY <2>3, ActOfRun
    <3>2. QED
      BY <1>1, <3>1 DEF WholeInv, StatusInv, StatusMatchesLastRun, Syncing
  <2>4. QED
    BY <1>1, <2>1, <2>2, <2>3, WhoSteps, Zenon
<1>2. WholeInv /\ [SyncNext]_syncVars => [Tracked]_syncVars
  BY <1>1
<1>3. QED
  BY <1>2, WholeInit, WholeStep, PTL DEF SyncSpec, WritesAreTracked

----------------------------------------------------------------------------
(* READY means mirrored.                                                   *)

(* If no file changed since the newest run listed them: a run in progress  *)
(* is undisturbed; one that returned and is still being recorded has left  *)
(* the files mirrored; and so has the one whose row says SUCCESS, whatever *)
(* the source says.                                                        *)
Returned(w) == pc[w] \in {"closing", "recorded"} /\ outcome[w] = "success"
SaysMirrored == runs # <<>> /\ runs[Len(runs)] = "success"

Truthful ==
  asOf = edits =>
    /\ \A w \in Worker : Busy(w) => w \in quiet
    /\ \A w \in Worker : Returned(w) => Mirrored
    /\ SaysMirrored => Mirrored

ReadyInv == WholeInv /\ MirrorInv /\ asOf \in 0..edits /\ Truthful

LEMMA ReadyInit == SyncInit => ReadyInv
<1> SUFFICES ASSUME SyncInit PROVE ReadyInv
  OBVIOUS
<1>1. Truthful
  BY DEF SyncInit, ControlInit, Init, Truthful, Busy, Returned, SaysMirrored
<1>2. asOf \in 0..edits
  BY DEF SyncInit, Init
<1>3. QED
  BY <1>1, <1>2, WholeInit, MirrorInit DEF ReadyInv, SyncInit

(* While a process works, nobody else is past the end of a run, and the    *)
(* newest row says so.                                                     *)
LEMMA WorkingAlone ==
  ASSUME WholeInv, NEW w \in Worker, pc[w] = "working"
  PROVE  runs[Len(runs)] = "running" /\ \A v \in Worker : ~Returned(v)
<1>1. runs[Len(runs)] = "running"
  BY DEF WholeInv, StatusInv, StatusMatchesLastRun
<1>2. ASSUME NEW v \in Worker, Returned(v) PROVE FALSE
  <2>1. Holding(v) /\ Holding(w) /\ pc[v] # "working"
    BY <1>2 DEF Returned, Holding, Inside, AfterSync
  <2>2. QED
    BY <2>1 DEF WholeInv, LockInv, LockHeld, MutualExclusion
<1>3. QED
  BY <1>1, <1>2

(* The tables, the keys and the processes around sync_source.              *)
LEMMA TruthfulControl ==
  ASSUME WholeInv, Truthful, ControlStep PROVE Truthful'
<1>1. UNCHANGED <<docVars, asOf>>
  BY DEF ControlStep
<1>2. /\ Mirrored' = Mirrored /\ UNCHANGED <<step, quiet, edits>>
      /\ \A w \in Worker : Busy(w)' = Busy(w)
  BY <1>1 DEF docVars, vars, tableVars, historyVars, Mirrored, Synced, Files,
     Live, Busy
<1> SUFFICES ASSUME asOf = edits
             PROVE  /\ \A w \in Worker : Returned(w)' => Mirrored
                    /\ SaysMirrored' => Mirrored
  BY <1>1, <1>2 DEF Truthful
<1> USE DEF MoveOn, cacheVars, statusVars, processVars
<1>type. ControlTypeInv /\ StatusInv
  BY DEF WholeInv, LockInv
<1>3. CASE Elsewhere
  <2>1. UNCHANGED <<pc, outcome, runs>>
    BY <1>3 DEF Elsewhere, RequestSync, ConsumeBackfill, ExpireLock,
       ExpireCancel, ReadStatus, RaiseFlag, ReadRow, WriteRow
  <2>2. QED
    BY <2>1 DEF Truthful, Returned, SaysMirrored
<1>4. ASSUME NEW w \in Worker, AroundSync(w)
      PROVE  /\ \A v \in Worker : Returned(v)' => Returned(v)
             /\ SaysMirrored' => \/ SaysMirrored
                                 \/ Returned(w)
  <2> USE <1>type DEF ControlTypeInv, ControlTypeOK
  <2>1. CASE SaveStatus(w)
    BY <2>1 DEF SaveStatus, SaysMirrored, Returned
  <2>2. CASE SaveRun(w)
    <3>1. /\ pc[w] = "closing" /\ pc' = [pc EXCEPT ![w] = "recorded"]
          /\ UNCHANGED outcome /\ runs' = [runs EXCEPT ![run[w]] = outcome[w]]
          /\ run[w] = Len(runs) /\ runs # <<>>
      BY <2>2 DEF SaveRun, StatusInv, StatusMatchesLastRun
    <3>2. outcome[w] \in RunStatus
      BY <3>1 DEF OutcomeKnown, AfterSync, Final
    <3>3. run[w] \in 1..Len(runs)
      BY <3>1, EmptySeq, LenProperties
    <3>4. runs'[Len(runs')] = outcome[w]
      BY <3>1, <3>2, <3>3, RunsUpdate
    <3>5. QED
      BY <3>1, <3>4 DEF SaysMirrored, Returned
  <2>3. CASE CreateRun(w)
    <3>1. runs'[Len(runs')] = "running" /\ UNCHANGED outcome
          /\ pc' = [pc EXCEPT ![w] = "working"]
      BY <2>3, RunsAppend DEF CreateRun
    <3>2. QED
      BY <3>1 DEF SaysMirrored, Returned
  <2>4. CASE MarkSyncing(w)
    BY <2>4 DEF MarkSyncing, SaysMirrored, Returned
  <2>5. CASE \E n \in 0..MaxRetries : StartTask(w, n) \/ SkipTask(w, n)
    BY <2>5 DEF StartTask, SkipTask, SaysMirrored, Returned
  <2>6. CASE StartCommand(w) \/ ClearCancel(w) \/ ClearOwnCancel(w)
    BY <2>6 DEF StartCommand, ClearCancel, ClearOwnCancel, SaysMirrored, Returned
  <2>7. CASE Release(w) \/ Retry(w) \/ QueueBackfill(w)
    BY <2>7 DEF Release, Retry, QueueBackfill, SaysMirrored, Returned
  <2>8. QED
    BY <1>4, <2>1, <2>2, <2>3, <2>4, <2>5, <2>6, <2>7, Zenon DEF AroundSync
<1>5. QED
  BY <1>3, <1>4 DEF ControlStep, Truthful

(* sync_source at work: nobody claims anything meanwhile but the run.      *)
LEMMA TruthfulWork ==
  ASSUME ReadyInv, NEW w \in Worker, DocStep(w), MirrorInv', WholeInv'
  PROVE  Truthful'
<1>1. /\ Act(w) /\ pc[w] = "working" /\ UNCHANGED <<pc, outcome, runs>>
  BY ActOfRun DEF controlVars, processVars, statusVars
<1>2. runs'[Len(runs')] = "running" /\ \A v \in Worker : ~Returned(v)'
  BY <1>1, WorkingAlone DEF ReadyInv, Returned
<1>3. ASSUME asOf' = edits', NEW v \in Worker, Busy(v)' PROVE v \in quiet'
  <2>1. pc[v] = "working"
    BY <1>1, <1>3 DEF WholeInv, LockInv, RunsInside
  <2>2. v = w
    BY <1>1, <2>1 DEF ReadyInv, WholeInv, LockInv, LockHeld, MutualExclusion,
       Holding, Inside
  <2>3. CASE BeginRun(w)
    BY <2>2, <2>3 DEF BeginRun, Begin
  <2>4. CASE NextDocument(w) \/ WriteStep(w)
    <3>1. UNCHANGED <<asOf, edits, quiet>> /\ Busy(w)
      BY <2>4 DEF NextDocument, Fetch, WriteStep, Write, Create, Update,
         DropChunks, Mark, NoDuplicate, Process, SoftDelete, Purge, Goto, Busy,
         historyVars
    <3>2. QED
      BY <1>3, <2>2, <3>1 DEF ReadyInv, Truthful
  <2>5. QED
    BY <2>3, <2>4 DEF DocStep
<1>4. QED
  BY <1>2, <1>3 DEF Truthful, SaysMirrored

(* sync_source returns, undisturbed or not, raises or dies.                *)
LEMMA TruthfulEnd ==
  ASSUME ~MayTruncate, ReadyInv, NEW w \in Worker, EndStep(w) PROVE Truthful'
<1>inv. ControlTypeInv /\ TypeInv /\ MirrorInv /\ WholeInv
  BY DEF ReadyInv, WholeInv, LockInv
<1>1. /\ step'[w] = "idle" /\ (\A v \in Worker \ {w} : SameRun(v))
      /\ \A v \in Worker \ {w} : pc'[v] = pc[v]
      /\ UNCHANGED <<disk, docs, chunks, status, stale, runs, edits, asOf>>
  BY <1>inv, EndMoves
<1>2. Mirrored' = Mirrored
  BY <1>1 DEF Mirrored, Synced, Files, Live
<1>3. SaysMirrored' => SaysMirrored
  BY <1>1 DEF SaysMirrored
<1>4. \A v \in Worker \ {w} : Busy(v)' = Busy(v) /\ (v \in quiet => v \in quiet')
  <2>1. quiet' = quiet \/ quiet' = quiet \ {w}
    BY ActOfRun DEF Cancel, Return, Abandon, Leave, docVars, vars, historyVars
  <2>2. QED
    BY <1>1, <2>1 DEF Busy, SameRun
<1>5. ASSUME NEW v \in Worker \ {w} PROVE outcome'[v] = outcome[v]
  BY <1>inv DEF EndStep, CancelRun, ReturnRun, FailRun, CrashRun, SeeCancel,
     Complete, Fail, EndSync, Crash, ControlTypeInv, ControlTypeOK
<1>6. ASSUME Returned(w)', asOf = edits PROVE Mirrored
  <2>1. ReturnRun(w)
    BY <1>6, <1>inv DEF EndStep, CancelRun, FailRun, CrashRun, SeeCancel, Fail,
       EndSync, MoveOn, Crash, ControlTypeInv, ControlTypeOK, Returned
  <2>2. step[w] = "done"
    BY <2>1 DEF ReturnRun, Return
  <2>3. w \in quiet
    BY <1>6, <2>2 DEF ReadyInv, Truthful, Busy
  <2>4. QED
    BY <2>2, <2>3, <1>inv, MirrorDone DEF MirrorsDisk, Mirrored, Synced
<1>7. QED
  BY <1>1, <1>2, <1>3, <1>4, <1>5, <1>6 DEF ReadyInv, Truthful, Returned, Busy

LEMMA ReadyStep ==
  ASSUME SyncFitsTimeout, ~MayTruncate
  PROVE  ReadyInv /\ [SyncNext]_syncVars => ReadyInv'
<1> SUFFICES ASSUME ReadyInv, [SyncNext]_syncVars PROVE ReadyInv'
  OBVIOUS
<1>1. WholeInv' /\ MirrorInv'
  BY WholeStep, StepOfReconcile, RunsBeginAlone, MirrorStep
  DEF ReadyInv, WholeInv
<1>2. asOf' \in 0..edits'
  BY <1>1, AsOfStep DEF ReadyInv, WholeInv, LockInv
<1>3. Truthful'
  <2>1. CASE ControlStep
    BY <2>1, TruthfulControl DEF ReadyInv
  <2>2. CASE EditStep
    <3>1. asOf' = asOf /\ edits' = edits + 1
      BY <2>2 DEF EditStep, Edit
    <3>2. edits \in Nat
      BY DEF ReadyInv, WholeInv, LockInv, TypeInv, TypeOK
    <3>3. QED
      BY <3>1, <3>2 DEF ReadyInv, Truthful
  <2>3. CASE UNCHANGED syncVars
    BY <2>3 DEF ReadyInv, Truthful, syncVars, docVars, vars, controlVars,
       processVars, statusVars, tableVars, historyVars, Busy, Returned,
       SaysMirrored, Mirrored, Synced, Files, Live
  <2>4. ASSUME NEW w \in Worker, DocStep(w) PROVE Truthful'
    BY <1>1, <2>4, TruthfulWork
  <2>5. ASSUME NEW w \in Worker, EndStep(w) PROVE Truthful'
    BY <2>5, TruthfulEnd
  <2>6. QED
    BY <2>1, <2>2, <2>3, <2>4, <2>5, WhoSteps, Zenon
<1>4. QED
  BY <1>1, <1>2, <1>3 DEF ReadyInv

(* A source that says READY, whose last run says SUCCESS, has exactly the  *)
(* files as its live documents, unless one changed since that run listed   *)
(* them: over any number of syncs, cancellations, failures and crashes.    *)
THEOREM ReadyIsTrue ==
  ASSUME SyncFitsTimeout, ~MayTruncate PROVE SyncSpec => []ReadyMeansMirrored
<1>1. ReadyInv => ReadyMeansMirrored
  BY DEF ReadyInv, Truthful, SaysMirrored, ReadyMeansMirrored, Mirrored, Synced
<1>2. QED
  BY <1>1, ReadyInit, ReadyStep, PTL DEF SyncSpec

=============================================================================
