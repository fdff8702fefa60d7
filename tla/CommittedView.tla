----------------------------- MODULE CommittedView -----------------------------
(***************************************************************************)
(* What a reader of the transaction log promises: it makes the committed   *)
(* transactions visible one at a time, each as a whole, in order, never    *)
(* more than `limit' of them, and stops the moment the limit is reached.   *)
(***************************************************************************)
EXTENDS Integers

CONSTANTS Lists, MaxCount, MaxLimit

VARIABLES
    limit,      \* how many transactions are committed
    view,       \* the visible count of each list
    committed,  \* how many transactions are visible
    outcome     \* "open", "done" or "failed"

viewVars == <<limit, view, committed, outcome>>

Init ==
    /\ limit \in 0..MaxLimit
    /\ view = [l \in Lists |-> 0]
    /\ committed = 0
    /\ outcome = "open"

(* One whole transaction: some lists get a new count, the others keep      *)
(* theirs.                                                                 *)
Commit ==
    /\ outcome = "open"
    /\ committed < limit
    /\ \E updates \in [Lists -> 0..MaxCount] :
         view' = [l \in Lists |-> IF updates[l] # 0 THEN updates[l] ELSE view[l]]
    /\ committed' = committed + 1
    /\ outcome' = IF committed' = limit THEN "done" ELSE "open"
    /\ UNCHANGED limit

(* The log ends early, or is rejected.                                     *)
Finish ==
    /\ outcome = "open"
    /\ outcome' \in {"done", "failed"}
    /\ UNCHANGED <<limit, view, committed>>

Spec == Init /\ [][Commit \/ Finish]_viewVars
=============================================================================
