------------------------- MODULE MCRevisionSelection -------------------------
(* RevisionSelection on small lists; revision ids are interchangeable.     *)
EXTENDS RevisionSelection, Functions, TLC

RidSymmetry == Permutations(Rids)

(* Bound: encryption and a second context do not come in one list, as no   *)
(* condition of the code looks at both.                                    *)
Bound ==
    LET seen == Range(revisions) \cup IF inside THEN {current} ELSE {} IN
    \/ \A r \in seen : ~r.encrypted /\ ~r.marker
    \/ \A r \in seen : r.ctx = Default
=============================================================================
