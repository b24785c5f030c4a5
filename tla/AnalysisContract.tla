---------------------------- MODULE AnalysisContract ----------------------------
(***************************************************************************)
(* What AnalysisService.analyze promises BatchAnalyzer: a call about a     *)
(* text of Sources screenshots ends, once, with one of the answers of      *)
(* AnalysisResponse or with an exception.                                  *)
(***************************************************************************)
EXTENDS AnalysisResponse

CONSTANTS
    Sources,      \* how many [SOURCE S<k>] blocks the text has
    NoAnswer      \* nothing returned yet

VARIABLES status, answer

vars == <<status, answer>>

Init == status = "open" /\ answer = NoAnswer

Answer ==
    /\ status = "open" /\ status' = "answered"
    /\ answer' \in AnalyzeResponse(Sources)

Raise ==
    /\ status = "open" /\ status' = "raised"
    /\ answer' = NoAnswer

Next == Answer \/ Raise

Spec == Init /\ [][Next]_vars
FairSpec == Spec /\ WF_vars(Next)
=============================================================================
