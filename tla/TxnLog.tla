-------------------------------- MODULE TxnLog --------------------------------
(***************************************************************************)
(* The transaction log of a .one file and the function that reads it,      *)
(* parse_transaction_log (onestore/txn_log.py).                            *)
(*                                                                         *)
(* The log is a chain of fragments.  Each fragment is a table of entries   *)
(* and a reference to the next fragment.  A sentinel entry ends a          *)
(* transaction; any other entry says how many nodes a file node list has.  *)
(* Only the first `limit' (header.c_transactions_in_log) transactions are  *)
(* applied: what a writer appended after them was never committed.         *)
(*                                                                         *)
(* The file is the pair log, limit: chosen by Init, never changed.  The    *)
(* other variables are the locals of parse_transaction_log.                *)
(***************************************************************************)
EXTENDS Integers, Sequences, FiniteSets

CONSTANTS
    Lists,       \* file node list ids that entries name (srcID)
    Frags,       \* places in the file that hold a whole fragment
    Sentinel,    \* srcID = 1
    Nil,         \* a reference that ends the chain: zero, nil, or cb = 0
    OutOfFile,   \* a reference that validate_in_file rejects
    TooSmall,    \* a reference inside the file with cb < 12
    MaxCount,    \* bound: the largest count of an entry
    MaxEntries,  \* bound: entries of one fragment
    MaxLimit     \* bound: cTransactionsInLog

ASSUME SentinelIsNoList == Sentinel \notin Lists
ASSUME RefKinds == /\ {Nil, OutOfFile, TooSmall} \cap Frags = {}
                   /\ Nil \notin {OutOfFile, TooSmall}
ASSUME FileIsFinite == IsFiniteSet(Frags)
ASSUME Bounds == {MaxCount, MaxEntries, MaxLimit} \subseteq Nat

Entry == [src : Lists, value : 0..MaxCount]
           \cup {[src |-> Sentinel, value |-> 0]}

Ref == Frags \cup {Nil, OutOfFile, TooSmall}

Fragment == [entries : UNION {[1..n -> Entry] : n \in 0..MaxEntries},
             next : Ref]

(* A dictionary FileNodeListID -> count.  No count of 0 ever enters one,   *)
(* so 0 stands for an absent key.                                          *)
Counts == [Lists -> 0..MaxCount]
Empty  == [l \in Lists |-> 0]

VARIABLES
    log,      \* the file: the fragment at each place
    limit,    \* the file: header.c_transactions_in_log
    pc,       \* "start", "fetch", "scan", "done" or "failed"
    current,  \* current_fcr
    queue,    \* the entries of the current fragment still to be read
    pending,  \* pending_updates
    last,     \* last_count_by_list_id
    txns      \* committed_txns

file == <<log, limit>>
vars == <<log, limit, pc, current, queue, pending, last, txns>>

TypeOK ==
    /\ log \in [Frags -> Fragment]
    /\ limit \in 0..MaxLimit
    /\ pc \in {"start", "fetch", "scan", "done", "failed"}
    /\ current \in Ref
    /\ pc = "scan" => current \in Frags
    /\ queue \in Seq(Entry)
    /\ pending \in Counts
    /\ last \in Counts
    /\ txns \in 0..limit

Init ==
    /\ log \in [Frags -> Fragment]
    /\ limit \in 0..MaxLimit
    /\ pc = "start"
    /\ current \in Frags \cup {OutOfFile, TooSmall}
    /\ queue = <<>>
    /\ pending = Empty
    /\ last = Empty
    /\ txns = 0

-----------------------------------------------------------------------------
(* dict.update                                                             *)
Update(old, new) ==
    [l \in Lists |-> IF new[l] # 0 THEN new[l] ELSE old[l]]

Begin ==
    /\ pc = "start"
    /\ pc' = IF limit = 0 \/ current = OutOfFile THEN "failed" ELSE "fetch"
    /\ UNCHANGED <<file, current, queue, pending, last, txns>>

(* TransactionLogFragment.parse                                            *)
FetchFragment ==
    /\ pc = "fetch"
    /\ current \in Frags
    /\ queue' = log[current].entries
    /\ pc' = "scan"
    /\ UNCHANGED <<file, current, pending, last, txns>>

RejectFragment ==
    /\ pc = "fetch"
    /\ current \in {OutOfFile, TooSmall}
    /\ pc' = "failed"
    /\ UNCHANGED <<file, current, queue, pending, last, txns>>

(* A sentinel applies the open transaction; the last one that counts ends  *)
(* the parse, whatever follows it in this fragment or in the next ones.    *)
ReadSentinelKeepsPending ==
    /\ pc = "scan" /\ queue # <<>>
    /\ Head(queue).src = Sentinel
    /\ last' = Update(last, pending)
    /\ txns' = txns + 1
    /\ IF txns' >= limit THEN pc' = "done" ELSE pc' = pc
    /\ queue' = Tail(queue)
    /\ UNCHANGED <<file, current, pending>>

ReadSentinelRunsOn ==
    /\ pc = "scan" /\ queue # <<>>
    /\ Head(queue).src = Sentinel
    /\ last' = Update(last, pending)
    /\ pending' = Empty
    /\ txns' = txns + 1
    /\ queue' = Tail(queue)
    /\ UNCHANGED <<file, pc, current>>

ReadSentinel ==
    /\ pc = "scan" /\ queue # <<>>
    /\ Head(queue).src = Sentinel
    /\ last' = Update(last, pending)
    /\ pending' = Empty
    /\ txns' = txns + 1
    /\ IF txns' >= limit THEN pc' = "done" ELSE pc' = pc
    /\ queue' = Tail(queue)
    /\ UNCHANGED <<file, current>>

(* A count of 0 is warned about and ignored.                               *)
SkipZeroEntry ==
    /\ pc = "scan" /\ queue # <<>>
    /\ Head(queue).src \in Lists
    /\ Head(queue).value = 0
    /\ queue' = Tail(queue)
    /\ UNCHANGED <<file, pc, current, pending, last, txns>>

ReadUpdateDirectly ==
    /\ pc = "scan" /\ queue # <<>>
    /\ Head(queue).src \in Lists
    /\ Head(queue).value # 0
    /\ last' = [last EXCEPT ![Head(queue).src] = Head(queue).value]
    /\ queue' = Tail(queue)
    /\ UNCHANGED <<file, pc, current, pending, txns>>

ReadUpdate ==
    /\ pc = "scan" /\ queue # <<>>
    /\ Head(queue).src \in Lists
    /\ Head(queue).value # 0
    /\ pending' = [pending EXCEPT ![Head(queue).src] = Head(queue).value]
    /\ queue' = Tail(queue)
    /\ UNCHANGED <<file, pc, current, last, txns>>

(* The end of a fragment: a transaction may go on in the next one.         *)
FollowNextStays ==
    /\ pc = "scan" /\ queue = <<>>
    /\ log[current].next # Nil
    /\ pc' = "fetch"
    /\ UNCHANGED <<file, current, queue, pending, last, txns>>

FollowNext ==
    /\ pc = "scan" /\ queue = <<>>
    /\ log[current].next # Nil
    /\ current' = log[current].next
    /\ pc' = IF current' = OutOfFile THEN "failed" ELSE "fetch"
    /\ UNCHANGED <<file, queue, pending, last, txns>>

(* The end of the chain: the open transaction, if any, is dropped.         *)
EndOfChainCommits ==
    /\ pc = "scan" /\ queue = <<>>
    /\ log[current].next = Nil
    /\ pc' = "done"
    /\ last' = Update(last, pending)
    /\ UNCHANGED <<file, current, queue, pending, txns>>

EndOfChain ==
    /\ pc = "scan" /\ queue = <<>>
    /\ log[current].next = Nil
    /\ pc' = "done"
    /\ UNCHANGED <<file, current, queue, pending, last, txns>>

(* The parser has returned or raised.                                      *)
Stopped ==
    /\ pc \in {"done", "failed"}
    /\ UNCHANGED vars

Next ==
    \/ Begin
    \/ FetchFragment
    \/ RejectFragment
    \/ ReadSentinel
    \/ SkipZeroEntry
    \/ ReadUpdate
    \/ FollowNext
    \/ EndOfChain
    \/ Stopped

Spec == Init /\ [][Next]_vars

-----------------------------------------------------------------------------
(* What the parser does implements the atomic reading of whole committed   *)
(* transactions: no partial transaction is ever visible in `last', none    *)
(* beyond the limit is applied, and the limit-th one ends the parse.       *)
View == INSTANCE CommittedView WITH
            view <- last, committed <- txns,
            outcome <- IF pc \in {"done", "failed"} THEN pc ELSE "open"

ImplementsCommittedView == View!Spec

(* No fragment comes after itself in the chain.                            *)
Acyclic ==
    \E rank \in [Frags -> 1..Cardinality(Frags)] :
        \A f \in Frags : log[f].next \in Frags => rank[log[f].next] < rank[f]

(* On a chain without a cycle the parser returns or raises.                *)
AcyclicTerminates == Acyclic => <>(pc \in {"done", "failed"})

=============================================================================
