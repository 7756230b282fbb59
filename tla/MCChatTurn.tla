----------------------------- MODULE MCChatTurn -----------------------------
(* ChatTurn for TLC.                                                       *)
EXTENDS ChatTurn

(* Bound: what happens after the last turn is over is not followed: what a *)
(* sync or a deletion does to an answer it does after the first one too.   *)
TurnsLeft == \E t \in Turn : pc[t] # "done"
=============================================================================
