----------------------------- MODULE MCFrontend -----------------------------
(***************************************************************************)
(* ChatPage and CorpusPage, which share no state, in one state space: a    *)
(* behaviour is about one of the pages.                                    *)
(***************************************************************************)
EXTENDS ChatPage, CorpusPage

Init == ChatPageInit /\ CorpusInit

ChatUntouched ==
  /\ url = NoConversation /\ gone = {}
  /\ \A s \in Send : send[s].at = "idle"
  /\ \A l \in Load : load[l].at = "idle"

CorpusUntouched == selectedSourceId = None /\ sources = Source

(* A corpus page that has gone astray is not followed further.             *)
Next ==
  \/ CorpusUntouched /\ ChatPageNext /\ UNCHANGED corpusVars
  \/ ChatUntouched /\ ~disturbed /\ CorpusNext /\ UNCHANGED chatPageVars

(* Bound: one stream breaks off, in a behaviour with one conversation      *)
(* opened at most.                                                         *)
Broken == {s \in Send : send[s].at \in {"cut", "unanswered"}}
BreakOrReload ==
  \/ Broken = {}
  \/ Cardinality(Broken) = 1 /\ \A l \in Load : l > 1 => load[l].at = "idle"

Spec == Init /\ [][Next]_<<chatPageVars, corpusVars>> /\ ChatPageFairness

----------------------------------------------------------------------------

MCListing == <<<<1, 2>>, <<2>>>>

=============================================================================
