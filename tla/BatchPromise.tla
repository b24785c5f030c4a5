------------------------------ MODULE BatchPromise ------------------------------
(***************************************************************************)
(* What BatchAnalyzer.analyze_batch promises run_in_threadpool's caller in *)
(* app/main.py: the screenshots of the batch are settled a few at a time,  *)
(* none of them twice, and the batch either delivers memos for all of them *)
(* or fails as a whole with nothing delivered.                             *)
(***************************************************************************)
VARIABLES
    items,      \* the screenshots of the batch
    settled,    \* those some memo lists
    outcome     \* "open", "done" or "failed"

vars == <<items, settled, outcome>>

Init == settled = {} /\ outcome = "open"

Settle ==
    /\ outcome = "open" /\ outcome' = "open"
    /\ \E S \in SUBSET (items \ settled) : S # {} /\ settled' = settled \cup S
    /\ items' = items

Deliver ==
    /\ outcome = "open" /\ settled = items
    /\ outcome' = "done"
    /\ UNCHANGED <<items, settled>>

Fail ==
    /\ outcome = "open" /\ settled # items
    /\ outcome' = "failed"
    /\ settled' = {}
    /\ items' = items

Next == Settle \/ Deliver \/ Fail

Spec == Init /\ [][Next]_vars
FairSpec == Spec /\ WF_vars(Next)
=============================================================================
