------------------------------ MODULE MCTasks ------------------------------
(***************************************************************************)
(* SyncControl and EmbeddingBackfill, which share no state, in one state   *)
(* space: a behaviour is about the syncs of a source or about backfills.   *)
(***************************************************************************)
EXTENDS SyncControl, EmbeddingBackfill

Init == ControlInit /\ BackfillInit

(* Bound: a PATCH comes only in behaviours in which no process is killed   *)
(* and one sync is asked for, whose retry is another.                      *)
PatchApart ==
  \/ \A q \in Patch : patch'[q] = "unsent"
  \/ crashes' = 0 /\ requests' <= 1

(* Neither is ever in its initial state again once it has taken a step.    *)
Next ==
  \/ BackfillInit /\ ControlNext /\ PatchApart /\ UNCHANGED backfillVars
  \/ ControlInit /\ BackfillNext /\ UNCHANGED controlVars

Spec ==
  /\ Init /\ [][Next]_<<controlVars, backfillVars>>
  /\ ControlFairness /\ BackfillFairness

=============================================================================
