---------------------------- MODULE MCReconcile ----------------------------
(* Reconcile for TLC: contents are interchangeable, and no property tells  *)
(* them apart.  Paths are not: their order breaks ties of created_at.      *)
EXTENDS Reconcile, TLC

ContentSymmetry == Permutations(Content)

----------------------------------------------------------------------------
(* The story of a rename: one file, renamed while no sync is in progress,  *)
(* and syncs that nothing disturbs.                                        *)

RenameInit == Init /\ Cardinality(Files) = 1

Rename(p, q) ==
  /\ \A w \in Worker : step[w] = "idle"
  /\ p \in Files /\ q \notin Files /\ edits < MaxEdits
  /\ disk' = [disk EXCEPT ![p] = NoContent, ![q] = disk[p]]
  /\ calm' = FALSE /\ edits' = edits + 1
  /\ UNCHANGED <<tableVars, step, listVars, handVars, stats, quiet, torn>>

RenameNext ==
  \/ \E p, q \in Path : Rename(p, q)
  \/ \E w \in Worker : \/ Begin(w) \/ (\E p \in Path : Fetch(w, p))
                       \/ Write(w) \/ Return(w)

RenameSpec == RenameInit /\ [][RenameNext]_vars
=============================================================================
