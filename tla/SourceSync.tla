----------------------------- MODULE SourceSync -----------------------------
(***************************************************************************)
(* A source's synchronisation as a whole: SyncControl, which decides who   *)
(* may run sync_source and records how it went, around Reconcile, which    *)
(* is sync_source.  A process runs sync_source while it is "working"; the  *)
(* two meet where sync_source starts, looks at the cancel flag, returns,   *)
(* raises or is killed.  Nothing in sync_source keeps two runs apart: here *)
(* Exclusive is FALSE, and that runs are serial all the same is a property *)
(* (RunsAreSerial).                                                        *)
(***************************************************************************)
EXTENDS SyncControl, Reconcile

VARIABLE asOf    \* history: edits when the newest run listed the files

docVars  == vars
syncVars == <<controlVars, docVars, asOf>>

Serial == INSTANCE Reconcile WITH Exclusive <- TRUE

SyncTypeOK == ControlTypeOK /\ TypeOK /\ asOf \in 0..edits

SyncInit == ControlInit /\ Init /\ asOf = 0

----------------------------------------------------------------------------

(* Requests, clicks, the lock, the tables and the keys: no document moves. *)
AroundSync(w) ==
  \/ \E n \in 0..MaxRetries : StartTask(w, n) \/ SkipTask(w, n)
  \/ StartCommand(w) \/ ClearCancel(w)
  \/ MarkSyncing(w) \/ CreateRun(w) \/ SaveRun(w)
  \/ ClearOwnCancel(w) \/ SaveStatus(w) \/ Release(w)
  \/ Retry(w) \/ QueueBackfill(w)

Elsewhere ==
  \/ RequestSync \/ ConsumeBackfill
  \/ ExpireLock \/ ExpireCancel
  \/ \E b \in Browser : ReadStatus(b) \/ RaiseFlag(b)
  \/ \E q \in Patch : ReadRow(q) \/ WriteRow(q)

ControlStep ==
  /\ Elsewhere \/ \E w \in Worker : AroundSync(w)
  /\ UNCHANGED <<docVars, asOf>>

(* Someone changes a file.                                                 *)
EditStep ==
  /\ \E p \in Path, c \in Content \cup {NoContent} : Edit(p, c)
  /\ UNCHANGED <<controlVars, asOf>>

(* sync_source starts, goes on to a document that is_cancel_requested lets *)
(* through, or writes.                                                     *)
BeginRun(w) ==
  /\ pc[w] = "working" /\ Begin(w)
  /\ asOf' = edits
  /\ UNCHANGED controlVars

NextDocument(w) ==
  /\ pc[w] = "working" /\ ~cancel
  /\ \E p \in Path : Fetch(w, p)
  /\ UNCHANGED <<controlVars, asOf>>

WriteStep(w) ==
  /\ pc[w] = "working" /\ Write(w)
  /\ UNCHANGED <<controlVars, asOf>>

(* sync_source returns, cancelled or not; it raises; its process dies.     *)
CancelRun(w) == Cancel(w) /\ SeeCancel(w) /\ UNCHANGED asOf

ReturnRun(w) == Return(w) /\ Complete(w) /\ UNCHANGED asOf

(* validate_config or test_connection raises, or anything later does.      *)
FailRun(w) ==
  /\ Fail(w)
  /\ \/ Abandon(w)
     \/ MayFail /\ step[w] = "idle" /\ UNCHANGED docVars
  /\ UNCHANGED asOf

CrashRun(w) ==
  /\ Crash(w)
  /\ \/ MayFail /\ Abandon(w)
     \/ step[w] = "idle" /\ UNCHANGED docVars
  /\ UNCHANGED asOf

SyncNext ==
  \/ ControlStep \/ EditStep
  \/ \E w \in Worker :
       \/ BeginRun(w) \/ NextDocument(w) \/ WriteStep(w) \/ CancelRun(w)
       \/ ReturnRun(w) \/ FailRun(w) \/ CrashRun(w)

SyncSpec == SyncInit /\ [][SyncNext]_syncVars

----------------------------------------------------------------------------
(* What must hold.                                                         *)

(* The lock makes runs of sync_source serial: what the processes do to the *)
(* documents is a behaviour of Reconcile in which a run begins only when   *)
(* no other is in progress, so everything checked and proved of Reconcile  *)
(* with Exclusive = TRUE holds of the whole.                               *)
RunsAreSerial == Serial!Init /\ [][Serial!Next]_docVars

(* Source.status and SyncRun tell the truth about the documents: READY     *)
(* with SUCCESS as the last run means that the live documents are the      *)
(* files, as they are now unless one changed after that run listed them.   *)
ReadyMeansMirrored ==
  /\ status = "ready" /\ runs # <<>> /\ runs[Len(runs)] = "success"
  /\ asOf = edits
  => \A p \in Path : IF p \in Files
                     THEN Live(p) /\ docs[p].hash = disk[p]
                     ELSE ~Live(p)

(* Documents change only while the newest SyncRun says RUNNING and the     *)
(* source says SYNCING, unless a PATCH has written back an older status:   *)
(* but for that, the pages that poll the status miss no change.            *)
WritesAreTracked ==
  [][docs' # docs \/ chunks' # chunks =>
       /\ runs[Len(runs)] = "running"
       /\ status = "syncing" \/ stale]_syncVars

=============================================================================
