------------------------------- MODULE MCTxnLog -------------------------------
(* TxnLogHistory on every log of a few fragments, cyclic ones included.    *)
EXTENDS TxnLogHistory

(* bound: the entries read, more than any parse reads that ends.           *)
MaxRead == Rounds * MaxEntries + 1

Endless == Len(hist) >= MaxRead /\ UNCHANGED hvars
MCNext == (Len(hist) < MaxRead /\ HNext) \/ Endless
(* Fair: the parser is one loop of one thread that never pauses for good.  *)
MCSpec == HInit /\ [][MCNext]_hvars /\ WF_hvars(MCNext)
=============================================================================
