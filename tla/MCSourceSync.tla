---------------------------- MODULE MCSourceSync ----------------------------
(* SourceSync for TLC: worker processes are interchangeable, and contents. *)
EXTENDS SourceSync, TLC

WorkerAndContentSymmetry == Permutations(Task) \cup Permutations(Content)

(* Bound: a PATCH comes only in behaviours in which no file changes and no *)
(* process is killed.                                                      *)
PatchAlone ==
  \/ \A q \in Patch : patch[q] = "unsent"
  \/ crashes = 0 /\ edits = 0
=============================================================================
