----------------------------- MODULE TxnLogHistory -----------------------------
(***************************************************************************)
(* TxnLog with three history variables, so that what                       *)
(* parse_transaction_log returns can be stated in terms of what it has     *)
(* read and of the whole chain, and a reference definition of the          *)
(* committed counts.                                                       *)
(***************************************************************************)
EXTENDS TxnLog, FiniteSetsExt

VARIABLES
    first, \* header.fcr_transaction_log
    hist,  \* the entries read so far
    mark   \* how many of them belong to the transactions applied so far

hvars == <<vars, first, hist, mark>>

HInit == Init /\ first = current /\ hist = <<>> /\ mark = 0

HNext ==
    /\ Next
    /\ UNCHANGED first
    /\ hist' = IF pc = "scan" /\ queue # <<>> THEN Append(hist, Head(queue))
                                             ELSE hist
    /\ mark' = IF txns' # txns THEN Len(hist') ELSE mark

HSpec == HInit /\ [][HNext]_hvars

(* Entry i says that list l has some nodes.                                *)
Writes(i, l) == hist[i].src = l /\ hist[i].value # 0

(* v is what the latest entry for l among entries from+1..to says, 0 if    *)
(* there is none.                                                          *)
IsLatest(v, l, from, to) ==
    IF v = 0 THEN \A i \in from+1..to : ~Writes(i, l)
    ELSE \E i \in from+1..to :
            /\ Writes(i, l)
            /\ hist[i].value = v
            /\ \A j \in i+1..to : ~Writes(j, l)

(* Each count is the latest one written by the applied transactions, and   *)
(* the open transaction holds the latest one written since: an entry that  *)
(* a sentinel has not closed is never visible, and a later transaction     *)
(* wins over an earlier one, also across fragments.                        *)
LatestCommittedWins ==
    \A l \in Lists : /\ IsLatest(last[l], l, 0, mark)
                     /\ IsLatest(pending[l], l, mark, Len(hist))

(* Once the limit is reached not one more entry is read: what follows the  *)
(* limit-th sentinel was never committed and may be torn.                  *)
NothingReadAfterLimit ==
    (limit > 0 /\ txns = limit) => mark = Len(hist) /\ pc = "done"

-----------------------------------------------------------------------------
(* Stream[n][r]: the entries of the chain that starts at r, over at most n *)
(* fragments.                                                              *)
Stream[n \in Nat] == [r \in Ref |->
    IF n = 0 \/ r \notin Frags THEN <<>>
    ELSE log[r].entries \o Stream[n - 1][log[r].next]]

(* A chain that returns to a fragment either has a sentinel in each round, *)
(* and then ends within this many fragments, or never ends.                *)
Rounds == (MaxLimit + 1) * Cardinality(Frags)

(* The length of the part of the log that the first n transactions fill.   *)
SentinelsIn(s) == {i \in DOMAIN s : s[i].src = Sentinel}
ClosedBy(s, n) == Max({0} \cup
    {i \in SentinelsIn(s) : Cardinality({j \in SentinelsIn(s) : j <= i}) <= n})

ReferenceCount(s, n, l) ==
    LET W == {i \in 1..ClosedBy(s, n) : s[i].src = l /\ s[i].value # 0}
    IN  IF W = {} THEN 0 ELSE s[Max(W)].value

(* parse_transaction_log returns, for every list, the count of the latest  *)
(* entry in the first `limit' transactions of the whole chain.             *)
ReturnsCommittedCounts ==
    pc = "done" =>
        LET s == Stream[Rounds][first]
        IN  \A l \in Lists : last[l] = ReferenceCount(s, limit, l)
=============================================================================
