---------------------------- MODULE SyncControl ----------------------------
(***************************************************************************)
(* The control side of a source's synchronisation, for one Source: the     *)
(* lock and the cancel flag in the Redis cache (sources/locking.py), the   *)
(* Celery task and the management command that take the lock, the view     *)
(* that raises the cancel flag, and the Source.status and SyncRun rows     *)
(* that sync_source_with_tracking writes around sync_source.  What         *)
(* sync_source does to the documents is module Reconcile; here it is the   *)
(* stretch of time a process spends in pc = "working".                     *)
(***************************************************************************)
EXTENDS Processes, Naturals, Sequences, FiniteSets

CONSTANTS
  Browser,          \* pages whose Cancel button posts to cancel_sync
  Patch,            \* PATCH and PUT requests on the source
  MaxRetries,       \* retry_kwargs of the task
  MaxRequests,      \* bound: syncs asked for by users in one behaviour
  MaxCrashes,       \* bound: processes killed in one behaviour
  SyncFitsTimeout   \* TRUE: no sync outlives LOCK_TIMEOUT_SECONDS

ASSUME BoundAssumption ==
  MaxRetries \in Nat /\ MaxRequests \in Nat /\ MaxCrashes \in Nat
ASSUME TimeoutAssumption == SyncFitsTimeout \in BOOLEAN

VARIABLES
  lock,      \* the key sync-lock:<id> exists; its value names no owner
  cancel,    \* the key sync-cancel:<id> exists
  status,    \* Source.status
  runs,      \* SyncRun.status of the SyncRun rows, oldest first
  backlog,   \* backlog[n]: sync messages in the broker carrying n retries
  backfill,  \* a backfill_embeddings_task message is in the broker
  pc,        \* where each process is
  tries,     \* request.retries of the task a process runs
  run,       \* the index in runs of the row a process created, or 0
  outcome,   \* how sync_source ended in a process
  click,     \* a Cancel click: answered, or between its read and its write
  patch,     \* a PATCH: unsent, the status in the row it has read, or saved
  requests,  \* syncs asked for so far (bound)
  crashes,   \* processes killed so far (bound)
  \* History: who has written the status, which syncs a cancel was meant for.
  stale,     \* a PATCH has written back a status other than the current one,
             \* and no sync has saved one since
  meant,     \* meant[b]: syncs in progress when b's click read the status
  aimed,     \* syncs in progress when the raised flag's click read it
  armed      \* syncs in progress when the flag was raised

cacheVars   == <<lock, cancel>>
statusVars  == <<status, stale, runs>>
brokerVars  == <<backlog, backfill>>
processVars == <<pc, tries, run, outcome>>
pageVars    == <<click, patch>>
boundVars   == <<requests, crashes>>
flagVars    == <<meant, aimed, armed>>
controlVars == <<cacheVars, statusVars, brokerVars, processVars, pageVars,
                 boundVars, flagVars>>

----------------------------------------------------------------------------

(* Where a process is inside `with sync_lock(...)`, in program order.      *)
BeforeRun == {"locked", "cleared", "marked"}
AfterSync == {"closing", "recorded", "settled", "leaving"}
Inside    == BeforeRun \cup {"working"} \cup AfterSync
Outside   == {"idle", "queueing", "raising"}

Holding(w)  == pc[w] \in Inside
(* From the save of SYNCING to the save of READY or ERROR.                 *)
Syncing(w)  == pc[w] \in {"marked", "working", "closing", "recorded", "settled"}
(* Past clear_cancel, and still able to see a flag.                        *)
Exposed(w)  == pc[w] \in {"cleared", "marked", "working"}

RunStatus == {"running", "success", "failed", "cancelled"}
Final     == RunStatus \ {"running"}
SourceStatus == {"pending", "syncing", "ready", "error"}

ControlTypeOK ==
  /\ lock \in BOOLEAN /\ cancel \in BOOLEAN
  /\ status \in SourceStatus /\ stale \in BOOLEAN
  /\ runs \in Seq(RunStatus)
  /\ backlog \in [0..MaxRetries -> Nat] /\ backfill \in BOOLEAN
  /\ pc \in [Worker -> Inside \cup Outside]
  /\ tries \in [Worker -> 0..MaxRetries]
  /\ run \in [Worker -> Nat]
  /\ outcome \in [Worker -> Final \cup {"none"}]
  /\ click \in [Browser -> {"idle", "allowed"}]
  /\ patch \in [Patch -> SourceStatus \cup {"unsent", "saved"}]
  /\ requests \in 0..MaxRequests /\ crashes \in 0..MaxCrashes
  /\ meant \in [Browser -> SUBSET Worker]
  /\ aimed \in SUBSET Worker /\ armed \in SUBSET Worker

ControlInit ==
  /\ lock = FALSE /\ cancel = FALSE
  /\ status = "pending" /\ stale = FALSE /\ runs = <<>>
  /\ backlog = [n \in 0..MaxRetries |-> 0] /\ backfill = FALSE
  /\ pc = [w \in Worker |-> "idle"]
  /\ tries = [w \in Worker |-> 0]
  /\ run = [w \in Worker |-> 0]
  /\ outcome = [w \in Worker |-> "none"]
  /\ click = [b \in Browser |-> "idle"]
  /\ patch = [q \in Patch |-> "unsent"]
  /\ requests = 0 /\ crashes = 0
  /\ meant = [b \in Browser |-> {}] /\ aimed = {} /\ armed = {}

----------------------------------------------------------------------------
(* Users.                                                                  *)

(* POST sources/<id>/sync: enqueue a task, whatever the source is doing.   *)
RequestSync ==
  /\ requests < MaxRequests
  /\ requests' = requests + 1
  /\ backlog' = [backlog EXCEPT ![0] = @ + 1]
  /\ UNCHANGED <<cacheVars, statusVars, backfill, processVars, pageVars, crashes,
                 flagVars>>

(* POST sources/<id>/cancel_sync: read the status, answer 409 unless it is *)
(* SYNCING; the flag is raised by a later step.                            *)
ReadStatus(b) ==
  /\ click[b] = "idle"
  /\ status = "syncing"
  /\ click' = [click EXCEPT ![b] = "allowed"]
  /\ meant' = [meant EXCEPT ![b] = {w \in Worker : Syncing(w)}]
  /\ UNCHANGED <<cacheVars, statusVars, brokerVars, processVars, patch,
                 boundVars, aimed, armed>>

(* request_cancel.                                                         *)
RaiseFlag(b) ==
  /\ click[b] = "allowed"
  /\ click' = [click EXCEPT ![b] = "idle"]
  /\ cancel' = TRUE
  /\ aimed' = aimed \cup meant[b]
  /\ armed' = armed \cup {w \in Worker : Exposed(w)}
  /\ meant' = [meant EXCEPT ![b] = {}]
  /\ UNCHANGED <<lock, statusVars, brokerVars, processVars, patch, boundVars>>

(* PATCH or PUT sources/<id>: get_object reads the row, validation takes   *)
(* more statements.                                                        *)
ReadRow(q) ==
  /\ patch[q] = "unsent"
  /\ patch' = [patch EXCEPT ![q] = status]
  /\ UNCHANGED <<cacheVars, statusVars, brokerVars, processVars, click,
                 boundVars, flagVars>>

(* The serializer's save: instance.save() without update_fields writes     *)
(* every column of the row, the read-only status as it was read included.  *)
WriteRow(q) ==
  /\ patch[q] \in SourceStatus
  /\ patch' = [patch EXCEPT ![q] = "saved"]
  /\ status' = patch[q]
  /\ stale' = (stale \/ patch[q] # status)
  /\ UNCHANGED <<cacheVars, runs, brokerVars, processVars, click, boundVars,
                 flagVars>>

----------------------------------------------------------------------------
(* The task, the command and the lock.                                     *)

(* Fault: cache.set in place of cache.add.                                 *)
TakeLockBlindly == lock' = TRUE

(* cache.add: set the key unless it exists.                                *)
TakeLock == ~lock /\ lock' = TRUE

(* A worker takes a message off the broker, which forgets it (early ack).  *)
StartTask(w, n) ==
  /\ w \in Task /\ pc[w] = "idle"
  /\ backlog[n] > 0
  /\ backlog' = [backlog EXCEPT ![n] = @ - 1]
  /\ TakeLock
  /\ pc' = [pc EXCEPT ![w] = "locked"]
  /\ tries' = [tries EXCEPT ![w] = n]
  /\ UNCHANGED <<cancel, statusVars, backfill, run, outcome, pageVars, boundVars,
                 flagVars>>

(* The lock is held: the task returns {"skipped": True}, its message gone. *)
SkipTask(w, n) ==
  /\ w \in Task /\ pc[w] = "idle"
  /\ backlog[n] > 0 /\ lock
  /\ backlog' = [backlog EXCEPT ![n] = @ - 1]
  /\ UNCHANGED <<cacheVars, statusVars, backfill, processVars, pageVars,
                 boundVars, flagVars>>

(* The command refuses to run while the lock is held.                      *)
StartCommand(w) ==
  /\ w \in Command /\ pc[w] = "idle"
  /\ requests < MaxRequests
  /\ requests' = requests + 1
  /\ TakeLock
  /\ pc' = [pc EXCEPT ![w] = "locked"]
  /\ UNCHANGED <<cancel, statusVars, brokerVars, tries, run, outcome, pageVars,
                 crashes, flagVars>>

(* The exit of `with sync_lock`: cache.delete, whoever owns the key now.   *)
Release(w) ==
  /\ pc[w] = "leaving"
  /\ lock' = FALSE
  /\ pc' = [pc EXCEPT ![w] =
       IF w \in Command THEN "idle"
       ELSE IF outcome[w] = "failed" THEN "raising" ELSE "queueing"]
  /\ outcome' = [outcome EXCEPT ![w] = "none"]
  /\ run' = [run EXCEPT ![w] = 0]
  /\ UNCHANGED <<cancel, statusVars, brokerVars, tries, pageVars, boundVars,
                 flagVars>>

(* autoretry_for=(Exception,): publish the task again, up to max_retries.  *)
Retry(w) ==
  /\ pc[w] = "raising"
  /\ pc' = [pc EXCEPT ![w] = "idle"]
  /\ backlog' = IF tries[w] < MaxRetries
                THEN [backlog EXCEPT ![tries[w] + 1] = @ + 1] ELSE backlog
  /\ UNCHANGED <<cacheVars, statusVars, backfill, tries, run, outcome, pageVars,
                 boundVars, flagVars>>

(* backfill_embeddings_task.delay(), only when the sync did not raise.     *)
QueueBackfill(w) ==
  /\ pc[w] = "queueing"
  /\ pc' = [pc EXCEPT ![w] = "idle"]
  /\ backfill' = TRUE
  /\ UNCHANGED <<cacheVars, statusVars, backlog, tries, run, outcome, pageVars,
                 boundVars, flagVars>>

(* The backfill task itself is module EmbeddingBackfill.                   *)
ConsumeBackfill ==
  /\ backfill
  /\ backfill' = FALSE
  /\ UNCHANGED <<cacheVars, statusVars, backlog, processVars, pageVars, boundVars,
                 flagVars>>

----------------------------------------------------------------------------
(* sync_source_with_tracking.                                              *)

MoveOn(w, from, to) == pc[w] = from /\ pc' = [pc EXCEPT ![w] = to]

DropFlag == cancel' = FALSE /\ aimed' = {} /\ armed' = {}

(* Fault: the defensive clear_cancel at the start is left out.             *)
ClearNothing(w) ==
  /\ MoveOn(w, "locked", "cleared")
  /\ UNCHANGED <<cacheVars, statusVars, brokerVars, tries, run, outcome, pageVars,
                 boundVars, flagVars>>

(* The defensive clear_cancel at the start.                                *)
ClearCancel(w) ==
  /\ MoveOn(w, "locked", "cleared")
  /\ DropFlag
  /\ UNCHANGED <<lock, statusVars, brokerVars, tries, run, outcome, pageVars,
                 boundVars, meant>>

(* Fault: the save of SYNCING is left out.                                 *)
MarkNothing(w) ==
  /\ MoveOn(w, "cleared", "marked")
  /\ UNCHANGED <<cacheVars, statusVars, brokerVars, tries, run, outcome, pageVars,
                 boundVars, flagVars>>

MarkSyncing(w) ==
  /\ MoveOn(w, "cleared", "marked")
  /\ status' = "syncing" /\ stale' = FALSE
  /\ UNCHANGED <<cacheVars, runs, brokerVars, tries, run, outcome, pageVars,
                 boundVars, flagVars>>

CreateRun(w) ==
  /\ MoveOn(w, "marked", "working")
  /\ runs' = Append(runs, "running")
  /\ run' = [run EXCEPT ![w] = Len(runs')]
  /\ UNCHANGED <<cacheVars, status, stale, brokerVars, tries, outcome, pageVars,
                 boundVars, flagVars>>

(* Fault: whether sync_source succeeded is not recorded.                   *)
EndSyncSilently(w, how) ==
  /\ MoveOn(w, "working", "closing")
  /\ UNCHANGED <<cacheVars, statusVars, brokerVars, tries, run, outcome, pageVars,
                 boundVars, flagVars>>

(* sync_source returns or raises.                                          *)
EndSync(w, how) ==
  /\ MoveOn(w, "working", "closing")
  /\ outcome' = [outcome EXCEPT ![w] = how]
  /\ UNCHANGED <<cacheVars, statusVars, brokerVars, tries, run, pageVars,
                 boundVars, flagVars>>

(* Fault: a cancelled run is recorded as a success.                        *)
CancelAsSuccess(w) == cancel /\ EndSync(w, "success")

Complete(w)  == EndSync(w, "success")
Fail(w)      == EndSync(w, "failed")
(* The once-per-document check finds the flag up.                          *)
SeeCancel(w) == cancel /\ EndSync(w, "cancelled")

SaveRun(w) ==
  /\ MoveOn(w, "closing", "recorded")
  /\ runs' = [runs EXCEPT ![run[w]] = outcome[w]]
  /\ UNCHANGED <<cacheVars, status, stale, brokerVars, tries, run, outcome, pageVars,
                 boundVars, flagVars>>

(* if stats.cancelled: clear_cancel(source.id)                             *)
ClearOwnCancel(w) ==
  /\ outcome[w] = "cancelled"
  /\ MoveOn(w, "recorded", "settled")
  /\ DropFlag
  /\ UNCHANGED <<lock, statusVars, brokerVars, tries, run, outcome, pageVars,
                 boundVars, meant>>

(* A sync that ends is no longer what a click still under way was about.   *)
Forget(w) ==
  /\ meant' = [b \in Browser |-> meant[b] \ {w}]
  /\ aimed' = aimed \ {w}
  /\ armed' = armed \ {w}

(* Fault: the except branch saves the run but not the source.              *)
SaveStatusUnlessFailed(w) ==
  /\ pc[w] = IF outcome[w] = "cancelled" THEN "settled" ELSE "recorded"
  /\ pc' = [pc EXCEPT ![w] = "leaving"]
  /\ status' = IF outcome[w] = "failed" THEN status ELSE "ready"
  /\ stale' = FALSE
  /\ Forget(w)
  /\ UNCHANGED <<cacheVars, runs, brokerVars, tries, run, outcome, pageVars,
                 boundVars>>

(* Fault: a failed sync is reported READY.                                 *)
SaveStatusReady(w) ==
  /\ pc[w] = IF outcome[w] = "cancelled" THEN "settled" ELSE "recorded"
  /\ pc' = [pc EXCEPT ![w] = "leaving"]
  /\ status' = "ready" /\ stale' = FALSE
  /\ Forget(w)
  /\ UNCHANGED <<cacheVars, runs, brokerVars, tries, run, outcome, pageVars,
                 boundVars>>

SaveStatus(w) ==
  /\ pc[w] = IF outcome[w] = "cancelled" THEN "settled" ELSE "recorded"
  /\ pc' = [pc EXCEPT ![w] = "leaving"]
  /\ status' = IF outcome[w] = "failed" THEN "error" ELSE "ready"
  /\ stale' = FALSE
  /\ Forget(w)
  /\ UNCHANGED <<cacheVars, runs, brokerVars, tries, run, outcome, pageVars,
                 boundVars>>

----------------------------------------------------------------------------
(* The environment: killed processes and expiring keys.                    *)

(* SIGKILL or an out-of-memory kill: no finally block runs.                *)
Crash(w) ==
  /\ pc[w] # "idle" /\ crashes < MaxCrashes
  /\ crashes' = crashes + 1
  /\ pc' = [pc EXCEPT ![w] = "idle"]
  /\ outcome' = [outcome EXCEPT ![w] = "none"]
  /\ run' = [run EXCEPT ![w] = 0]
  /\ Forget(w)
  /\ UNCHANGED <<cacheVars, statusVars, brokerVars, tries, pageVars, requests>>

(* Both keys live for LOCK_TIMEOUT_SECONDS.  When every sync fits in that  *)
(* time, a key can only expire once the process that needs it is gone.     *)
TimeoutPasses == SyncFitsTimeout => \A w \in Worker : ~Holding(w)

(* Fault: the lock key is added without a timeout.                         *)
KeepLock ==
  /\ lock /\ FALSE
  /\ UNCHANGED controlVars

ExpireLock ==
  /\ lock /\ TimeoutPasses
  /\ lock' = FALSE
  /\ UNCHANGED <<cancel, statusVars, brokerVars, processVars, pageVars, boundVars,
                 flagVars>>

ExpireCancel ==
  /\ cancel /\ TimeoutPasses
  /\ DropFlag
  /\ UNCHANGED <<lock, statusVars, brokerVars, processVars, pageVars, boundVars,
                 meant>>

----------------------------------------------------------------------------

(* One step of the code a process runs.                                    *)
Step(w) ==
  \/ \E n \in 0..MaxRetries : StartTask(w, n) \/ SkipTask(w, n)
  \/ ClearCancel(w) \/ MarkSyncing(w) \/ CreateRun(w)
  \/ Complete(w) \/ Fail(w) \/ SeeCancel(w)
  \/ SaveRun(w) \/ ClearOwnCancel(w) \/ SaveStatus(w)
  \/ Release(w) \/ Retry(w) \/ QueueBackfill(w)

ControlNext ==
  \/ RequestSync \/ ConsumeBackfill \/ ExpireLock \/ ExpireCancel
  \/ \E b \in Browser : ReadStatus(b) \/ RaiseFlag(b)
  \/ \E q \in Patch : ReadRow(q) \/ WriteRow(q)
  \/ \E w \in Worker : Step(w) \/ StartCommand(w) \/ Crash(w)

(* Processes that run keep running, and keys expire.  Nobody is obliged to *)
(* ask for a sync, to cancel one, or to crash.                             *)
ControlFairness ==
  /\ \A w \in Worker : WF_controlVars(Step(w))
  /\ WF_controlVars(ExpireLock)
  /\ WF_controlVars(ConsumeBackfill)

ControlSpec == ControlInit /\ [][ControlNext]_controlVars /\ ControlFairness

----------------------------------------------------------------------------
(* What must hold.                                                         *)

(* Two processes are never inside `with sync_lock` of one source at once.  *)
MutualExclusion ==
  \A v, w \in Worker : Holding(v) /\ Holding(w) => v = w

(* While a process works on the documents or records how that went, its   *)
(* row is the newest and says running.  And unless a PATCH has written     *)
(* back an older status, Source.status agrees with the newest row: SYNCING *)
(* while a sync is in progress, else READY after a success or cancellation *)
(* and ERROR after a failure; the next sync ends the exception.            *)
StatusMatchesLastRun ==
  /\ \A w \in Worker : pc[w] \in {"working", "closing"} =>
       run[w] = Len(runs) /\ runs # <<>> /\ runs[Len(runs)] = "running"
  /\ ~stale =>
       /\ status = "pending" => runs = <<>>
       /\ status = "ready" =>
            runs # <<>> /\ runs[Len(runs)] \in {"success", "cancelled"}
       /\ status = "error" => runs # <<>> /\ runs[Len(runs)] = "failed"
       /\ \A w \in Worker : Syncing(w) => status = "syncing"

(* No request writes the status: it is among the read_only_fields of the   *)
(* serializer.                                                             *)
StatusIsReadOnly ==
  [][\A q \in Patch : WriteRow(q) => status' = status]_controlVars

(* A sync is cancelled only by a request raised while it was in progress,  *)
(* never by a flag left over from an earlier one (sync.py, the defensive   *)
(* clear_cancel).                                                          *)
NoStaleCancel ==
  [][\A w \in Worker : SeeCancel(w) => w \in armed]_controlVars

(* A cancel request stays up for as long as the sync it reached works: no  *)
(* other sync's clear_cancel takes it away before the next check.          *)
CancelNotLost ==
  [][\A w \in Worker :
       cancel /\ pc[w] = "working" /\ pc'[w] = "working" => cancel']_controlVars

(* cancel_sync "can't set a flag that lingers and cancels some unrelated   *)
(* sync started later" (views.py): a sync is only cancelled by a click     *)
(* that saw that very sync in progress.                                    *)
CancelHitsItsTarget ==
  [][\A w \in Worker : SeeCancel(w) => w \in aimed]_controlVars

(* The lock never stays for ever, crashes included.                        *)
LockRecovers == lock ~> ~lock

(* As long as nothing is killed and no PATCH writes back an older status,  *)
(* a source does not stay SYNCING.                                         *)
StatusSettles ==
  status = "syncing" /\ crashes = 0 /\ ~stale
    ~> status # "syncing" \/ crashes > 0 \/ stale

=============================================================================
