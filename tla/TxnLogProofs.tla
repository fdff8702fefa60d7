----------------------------- MODULE TxnLogProofs -----------------------------
(***************************************************************************)
(* Proofs about parse_transaction_log, for any sets of lists and fragments *)
(* and any bounds: TxnLog's type invariant, that it implements             *)
(* CommittedView, and TxnLogHistory's LatestCommittedWins.                 *)
(***************************************************************************)
EXTENDS TxnLogHistory, SequenceTheorems, FiniteSetTheorems,
        WellFoundedInduction, TLAPS

(* dict.update of two dictionaries of counts is one.                       *)
LEMMA UpdateType ==
    ASSUME NEW old \in Counts, NEW new \in Counts
    PROVE  Update(old, new) \in Counts
BY DEF Counts, Update

(* The parser only reads on below the limit: the strengthening that makes  *)
(* the bound of TypeOK on txns inductive.                                  *)
BelowLimit ==
    /\ pc = "start" => txns = 0
    /\ pc \in {"fetch", "scan"} => txns < limit
    /\ pc = "failed" => limit = 0 \/ txns < limit

TInv == TypeOK /\ BelowLimit

LEMMA TInvInit == Init => TInv
BY Bounds DEF Init, TInv, TypeOK, BelowLimit, Ref, Counts, Empty

(* Every step, whatever the entry or the reference it meets, keeps TInv.   *)
LEMMA TInvNext == TInv /\ [Next]_vars => TInv'
<1> SUFFICES ASSUME TInv, [Next]_vars PROVE TInv'
    OBVIOUS
<1> USE Bounds DEF TInv, TypeOK, BelowLimit
<1>1. CASE Begin
    BY <1>1 DEF Begin, file
<1>2. CASE FetchFragment
    <2>1. log[current].entries \in Seq(Entry)
        BY <1>2 DEF FetchFragment, Fragment
    <2> QED BY <1>2, <2>1 DEF FetchFragment, file
<1>3. CASE RejectFragment
    BY <1>3 DEF RejectFragment, file
<1>4. CASE ReadSentinel
    <2>1. Update(last, pending) \in Counts /\ Empty \in Counts
        BY UpdateType DEF Counts, Empty
    <2>2. Tail(queue) \in Seq(Entry)
        BY <1>4 DEF ReadSentinel
    <2> QED BY <1>4, <2>1, <2>2 DEF ReadSentinel, file
<1>5. CASE SkipZeroEntry
    BY <1>5 DEF SkipZeroEntry, file
<1>6. CASE ReadUpdate
    <2>1. Head(queue) \in Entry /\ Tail(queue) \in Seq(Entry)
        BY <1>6 DEF ReadUpdate
    <2>2. Head(queue).value \in 0..MaxCount
        BY <2>1 DEF Entry
    <2> QED BY <1>6, <2>1, <2>2 DEF ReadUpdate, file, Counts
<1>7. CASE FollowNext
    BY <1>7, RefKinds DEF FollowNext, file, Fragment, Ref
<1>8. CASE EndOfChain
    BY <1>8 DEF EndOfChain, file
<1>9. CASE UNCHANGED vars
    BY <1>9 DEF vars
<1> QED BY <1>1, <1>2, <1>3, <1>4, <1>5, <1>6, <1>7, <1>8, <1>9
        DEF Next, Stopped

LEMMA TInvAlways == Spec => []TInv
BY TInvInit, TInvNext, PTL DEF Spec

(* The type invariant holds in every reachable state.                      *)
THEOREM TypeCorrect == Spec => []TypeOK
BY TInvAlways, PTL DEF TInv

-----------------------------------------------------------------------------
(* The parser implements CommittedView: ReadSentinel is Commit, the steps  *)
(* that return early or raise are Finish, all others stutter.              *)
THEOREM Refinement == Spec => ImplementsCommittedView
<1>1. Init => View!Init
    BY DEF Init, View!Init, Empty
<1>2. TInv /\ [Next]_vars => [View!Commit \/ View!Finish]_(View!viewVars)
    <2> SUFFICES ASSUME TInv, [Next]_vars
                 PROVE  [View!Commit \/ View!Finish]_(View!viewVars)
        OBVIOUS
    <2> USE DEF TInv, TypeOK, BelowLimit
    <2>1. CASE ReadSentinel
        <3>1. pending \in [Lists -> 0..MaxCount]
            BY DEF Counts
        <3>2. last' = [l \in Lists |-> IF pending[l] # 0 THEN pending[l] ELSE last[l]]
            BY <2>1 DEF ReadSentinel, Update
        <3>3. txns' = txns + 1 /\ txns' <= limit /\ txns < limit /\ limit' = limit
            BY <2>1, Bounds DEF ReadSentinel, file
        <3>4. pc = "scan" /\ pc' = IF txns' = limit THEN "done" ELSE "scan"
            BY <2>1, <3>3, Bounds DEF ReadSentinel
        <3>5. View!Commit
            BY <3>1, <3>2, <3>3, <3>4 DEF View!Commit
        <3> QED BY <3>5
    <2>2. CASE ~ReadSentinel
        <3>1. UNCHANGED <<limit, last, txns>>
            BY <2>2 DEF Next, Begin, FetchFragment, RejectFragment, SkipZeroEntry,
                        ReadUpdate, FollowNext, EndOfChain, Stopped, vars, file
        <3>2. pc \in {"done", "failed"} => pc' = pc
            BY <2>2 DEF Next, Begin, FetchFragment, RejectFragment, SkipZeroEntry,
                        ReadUpdate, FollowNext, EndOfChain, Stopped, vars, file
        <3>3. pc' \in {"start", "fetch", "scan", "done", "failed"}
            BY TInvNext
        <3> QED BY <3>1, <3>2, <3>3 DEF View!Finish, View!viewVars
    <2> QED BY <2>1, <2>2
<1> QED BY <1>1, <1>2, TInvAlways, PTL
        DEF Spec, ImplementsCommittedView, View!Spec

-----------------------------------------------------------------------------
HTypeOK ==
    /\ hist \in Seq(Entry)
    /\ mark \in 0..Len(hist)

HInv == TInv /\ HTypeOK /\ LatestCommittedWins

(* What reading one entry adds to the history.                             *)
LEMMA OneMoreEntry ==
    ASSUME TInv, HTypeOK, HNext, pc = "scan", queue # <<>>
    PROVE  /\ Head(queue) \in Entry
           /\ hist' \in Seq(Entry)
           /\ Len(hist') = Len(hist) + 1
           /\ \A i \in 1..Len(hist) : hist'[i] = hist[i]
           /\ hist'[Len(hist) + 1] = Head(queue)
<1>1. queue \in Seq(Entry)
    BY DEF TInv, TypeOK
<1>2. Head(queue) \in Entry
    BY <1>1
<1>3. hist' = Append(hist, Head(queue))
    BY DEF HNext
<1> QED BY <1>2, <1>3 DEF HTypeOK

(* A sentinel makes the open transaction visible: for each list either     *)
(* that transaction wrote it last, or the count it had stays the latest.   *)
LEMMA SentinelKeepsLatest ==
    ASSUME HInv, HNext, ReadSentinel
    PROVE  HTypeOK' /\ LatestCommittedWins'
<1> USE DEF HInv
<1>n. PICK n \in Nat : n = Len(hist)
    BY DEF HTypeOK
<1>1. pc = "scan" /\ queue # <<>> /\ Head(queue).src = Sentinel
    BY DEF ReadSentinel
<1>2. /\ hist' \in Seq(Entry) /\ Len(hist') = n + 1
      /\ \A i \in 1..n : hist'[i] = hist[i]
      /\ hist'[n + 1].src = Sentinel
    BY <1>1, <1>n, OneMoreEntry
<1>3. mark' = n + 1
    BY <1>2 DEF HNext, ReadSentinel, TInv, TypeOK
<1>4. mark \in 0..n
    BY <1>n DEF HTypeOK
<1>5. ASSUME NEW l \in Lists
      PROVE  /\ IsLatest(last[l], l, 0, mark)'
             /\ IsLatest(pending[l], l, mark, Len(hist))'
    <2>1. \A i \in 1..n : Writes(i, l)' <=> Writes(i, l)
        BY <1>2 DEF Writes
    <2>2. ~Writes(n + 1, l)'
        BY <1>2, SentinelIsNoList DEF Writes
    <2>3. IsLatest(last[l], l, 0, mark) /\ IsLatest(pending[l], l, mark, n)
        BY <1>n DEF LatestCommittedWins
    <2>4. last'[l] = (IF pending[l] # 0 THEN pending[l] ELSE last[l]) /\ pending'[l] = 0
        BY DEF ReadSentinel, Update, Empty
    <2>5. CASE pending[l] # 0
        <3>1. PICK i \in mark+1..n :
                /\ Writes(i, l) /\ hist[i].value = pending[l]
                /\ \A j \in i+1..n : ~Writes(j, l)
            BY <2>3, <2>5 DEF IsLatest
        <3>2. i \in 1..n+1 /\ Writes(i, l)' /\ hist'[i].value = last'[l]
            BY <3>1, <2>1, <2>4, <2>5, <1>2, <1>4
        <3>3. \A j \in i+1..n+1 : ~Writes(j, l)'
            BY <3>1, <2>1, <2>2, <1>4
        <3>4. last'[l] # 0
            BY <2>4, <2>5
        <3> QED BY <1>2, <1>3, <1>4, <2>4, <3>2, <3>3, <3>4 DEF IsLatest
    <2>6. CASE pending[l] = 0
        <3>1. \A i \in mark+1..n+1 : ~Writes(i, l)'
            BY <2>1, <2>2, <2>3, <2>6, <1>4 DEF IsLatest
        <3>2. CASE last[l] = 0
            <4>1. \A i \in 1..n+1 : ~Writes(i, l)'
                BY <3>1, <3>2, <2>1, <2>3, <1>4 DEF IsLatest
            <4> QED BY <4>1, <3>2, <2>4, <2>6, <1>2, <1>3, <1>4 DEF IsLatest
        <3>3. CASE last[l] # 0
            <4>1. PICK i \in 1..mark :
                    /\ Writes(i, l) /\ hist[i].value = last[l]
                    /\ \A j \in i+1..mark : ~Writes(j, l)
                BY <2>3, <3>3 DEF IsLatest
            <4>2. i \in 1..n+1 /\ Writes(i, l)' /\ hist'[i].value = last'[l]
                BY <4>1, <2>1, <2>4, <2>6, <1>2, <1>4
            <4>3. \A j \in i+1..n+1 : ~Writes(j, l)'
                BY <4>1, <3>1, <2>1, <1>4
            <4> QED BY <1>2, <1>3, <1>4, <2>4, <2>6, <3>3, <4>2, <4>3 DEF IsLatest
        <3> QED BY <3>2, <3>3
    <2> QED BY <2>5, <2>6
<1> QED BY <1>2, <1>3, <1>4, <1>5 DEF HTypeOK, LatestCommittedWins

(* An update of list k becomes the latest of the open transaction; a count *)
(* of 0 writes nothing.                                                    *)
LEMMA EntryKeepsLatest ==
    ASSUME HInv, HNext, SkipZeroEntry \/ ReadUpdate
    PROVE  HTypeOK' /\ LatestCommittedWins'
<1> DEFINE e == Head(queue)
<1> USE DEF HInv
<1>n. PICK n \in Nat : n = Len(hist)
    BY DEF HTypeOK
<1>1. pc = "scan" /\ queue # <<>> /\ e.src \in Lists
    BY DEF SkipZeroEntry, ReadUpdate
<1>2. /\ e \in Entry /\ hist' \in Seq(Entry) /\ Len(hist') = n + 1
      /\ \A i \in 1..n : hist'[i] = hist[i]
      /\ hist'[n + 1] = e
    BY <1>1, <1>n, OneMoreEntry
<1>3. mark' = mark /\ last' = last
    BY DEF HNext, SkipZeroEntry, ReadUpdate
<1>4. mark \in 0..n
    BY <1>n DEF HTypeOK
<1>5. ASSUME NEW l \in Lists
      PROVE  /\ IsLatest(last[l], l, 0, mark)'
             /\ IsLatest(pending[l], l, mark, Len(hist))'
    <2>1. \A i \in 1..n : Writes(i, l)' <=> Writes(i, l)
        BY <1>2 DEF Writes
    <2>2. IsLatest(last[l], l, 0, mark) /\ IsLatest(pending[l], l, mark, n)
        BY <1>n DEF LatestCommittedWins
    <2>3. IsLatest(last[l], l, 0, mark)'
        BY <2>1, <2>2, <1>2, <1>3, <1>4 DEF IsLatest
    <2>4. Writes(n + 1, l)' <=> (e.src = l /\ e.value # 0)
        BY <1>2 DEF Writes
    <2>5. CASE e.src = l /\ e.value # 0
        <3>1. pending'[l] = e.value
            BY <2>5 DEF ReadUpdate, SkipZeroEntry, TInv, TypeOK, Counts
        <3>2. n + 1 \in mark+1..n+1 /\ (n + 1) + 1 > n + 1
            BY <1>4
        <3> QED BY <2>3, <2>4, <2>5, <3>1, <3>2, <1>2, <1>3, <1>4 DEF IsLatest
    <2>6. CASE ~(e.src = l /\ e.value # 0)
        <3>1. pending'[l] = pending[l]
            BY <2>6 DEF ReadUpdate, SkipZeroEntry, TInv, TypeOK, Counts
        <3>2. ~Writes(n + 1, l)'
            BY <2>4, <2>6
        <3>3. CASE pending[l] = 0
            <4>1. \A i \in mark+1..n+1 : ~Writes(i, l)'
                BY <3>2, <3>3, <2>1, <2>2, <1>4 DEF IsLatest
            <4> QED BY <4>1, <3>1, <3>3, <2>3, <1>2, <1>3, <1>4 DEF IsLatest
        <3>4. CASE pending[l] # 0
            <4>1. PICK i \in mark+1..n :
                    /\ Writes(i, l) /\ hist[i].value = pending[l]
                    /\ \A j \in i+1..n : ~Writes(j, l)
                BY <2>2, <3>4 DEF IsLatest
            <4>2. i \in mark+1..n+1 /\ Writes(i, l)' /\ hist'[i].value = pending'[l]
                BY <4>1, <3>1, <2>1, <1>2, <1>4
            <4>3. \A j \in i+1..n+1 : ~Writes(j, l)'
                BY <4>1, <3>2, <2>1, <1>4
            <4> QED BY <4>2, <4>3, <3>1, <3>4, <2>3, <1>2, <1>3, <1>4 DEF IsLatest
        <3> QED BY <3>3, <3>4
    <2> QED BY <2>5, <2>6
<1> QED BY <1>2, <1>3, <1>4, <1>5 DEF HTypeOK, LatestCommittedWins

(* All other steps leave the dictionaries and the history as they are.     *)
LEMMA OtherStepsKeepLatest ==
    ASSUME HInv, [HNext]_hvars, ~ReadSentinel, ~SkipZeroEntry, ~ReadUpdate
    PROVE  HTypeOK' /\ LatestCommittedWins'
<1>1. UNCHANGED <<last, pending, hist, mark>>
    BY DEF HNext, Next, Begin, FetchFragment, RejectFragment, FollowNext,
           EndOfChain, Stopped, vars, hvars, file
<1>2. HTypeOK /\ LatestCommittedWins
    BY DEF HInv
<1>3. HTypeOK'
    BY <1>1, <1>2 DEF HTypeOK
<1>4. LatestCommittedWins'
    BY <1>1, <1>2 DEF LatestCommittedWins, IsLatest, Writes
<1> QED BY <1>3, <1>4

LEMMA HInvInit == HInit => HInv
BY TInvInit DEF HInit, Init, HInv, HTypeOK, LatestCommittedWins, IsLatest, Empty

LEMMA HInvNext == HInv /\ [HNext]_hvars => HInv'
<1> SUFFICES ASSUME HInv, [HNext]_hvars PROVE HInv'
    OBVIOUS
<1>1. TInv'
    BY TInvNext DEF HInv, HNext, hvars
<1>2. HTypeOK' /\ LatestCommittedWins'
    <2>1. CASE HNext
        BY <2>1, SentinelKeepsLatest, EntryKeepsLatest, OtherStepsKeepLatest
    <2>2. CASE UNCHANGED hvars
        BY <2>2 DEF HInv, HTypeOK, LatestCommittedWins, IsLatest, Writes, hvars, vars
    <2> QED BY <2>1, <2>2
<1> QED BY <1>1, <1>2 DEF HInv

(* parse_transaction_log returns the latest committed count of each list.  *)
THEOREM LatestWins == HSpec => []LatestCommittedWins
BY HInvInit, HInvNext, PTL DEF HSpec, HInv

(* The limit-th sentinel is the last entry parse_transaction_log reads.    *)
THEOREM StopsAtLimit == HSpec => []NothingReadAfterLimit
<1>1. HInit => NothingReadAfterLimit
    BY Bounds DEF HInit, Init, NothingReadAfterLimit
<1>2. HInv /\ NothingReadAfterLimit /\ [HNext]_hvars => NothingReadAfterLimit'
    <2> SUFFICES ASSUME HInv, NothingReadAfterLimit, [HNext]_hvars
                 PROVE  NothingReadAfterLimit'
        OBVIOUS
    <2> USE DEF HInv, TInv, TypeOK, BelowLimit, NothingReadAfterLimit
    <2>1. CASE HNext /\ ReadSentinel
        BY <2>1, Bounds DEF HNext, ReadSentinel, file
    <2>2. CASE HNext /\ ~ReadSentinel
        <3>1. UNCHANGED <<limit, txns, mark>>
            BY <2>2 DEF HNext, Next, Begin, FetchFragment, RejectFragment,
                SkipZeroEntry, ReadUpdate, FollowNext, EndOfChain, Stopped, vars, file
        <3>2. pc \in {"done", "failed"} => hist' = hist /\ pc' = pc
            BY <2>2 DEF HNext, Next, Begin, FetchFragment, RejectFragment,
                SkipZeroEntry, ReadUpdate, FollowNext, EndOfChain, Stopped, vars
        <3> QED BY <3>1, <3>2, Bounds
    <2>3. CASE UNCHANGED hvars
        BY <2>3 DEF hvars, vars
    <2> QED BY <2>1, <2>2, <2>3
<1> QED BY <1>1, <1>2, HInvInit, HInvNext, PTL DEF HSpec
-----------------------------------------------------------------------------
(* A set of numbers that is not empty has a least element: the intervals   *)
(* up to its elements are finite sets, and inclusion of those is           *)
(* well-founded.                                                           *)
LEMMA LeastNatural ==
    ASSUME NEW T, T \subseteq Nat, T # {}
    PROVE  \E x \in T : \A y \in T : x <= y
<1> DEFINE F == {0..n : n \in T}
<1>1. \A n \in Nat : 0..n \in FiniteSubsetsOf(Nat)
  <2> TAKE n \in Nat
  <2>1. IsFiniteSet(0..n)
    BY FS_Interval
  <2> QED
    BY <2>1 DEF FiniteSubsetsOf
<1>2. F \subseteq FiniteSubsetsOf(Nat) /\ F # {}
  BY <1>1
<1>3. \E x \in F : \A y \in F : ~ (<<y, x>> \in StrictSubsetOrdering(Nat))
  <2> HIDE DEF F
  <2> QED
    BY <1>2, FS_StrictSubsetOrderingWellFounded, WFMin
<1>4. PICK n \in T : \A m \in T : ~ (<<0..m, 0..n>> \in StrictSubsetOrdering(Nat))
  BY <1>3
<1>5. \A m \in T : n <= m
  <2> SUFFICES ASSUME NEW m \in T, m < n PROVE FALSE
    OBVIOUS
  <2>1. n \in 0..n /\ n \notin 0..m
    OBVIOUS
  <2>2. 0..m \subseteq 0..n /\ 0..m # 0..n /\ 0..m \subseteq Nat /\ 0..n \subseteq Nat
    BY <2>1
  <2> QED
    BY <1>4, <2>2 DEF StrictSubsetOrdering
<1> QED
  BY <1>5

LEMMA MaxIs ==
    ASSUME NEW S, S \subseteq Nat, NEW m \in S, \A x \in S : x <= m
    PROVE  Max(S) = m
<1>1. \A y \in S : m >= y
  OBVIOUS
<1>2. Max(S) \in S /\ \A y \in S : Max(S) >= y
  BY <1>1 DEF Max
<1>3. Max(S) >= m /\ m >= Max(S) /\ m \in Nat /\ Max(S) \in Nat
  BY <1>2
<1> QED
  BY <1>3

LEMMA TimesGrows ==
    ASSUME NEW a \in Nat, NEW b \in Nat, NEW n \in Nat, a <= b
    PROVE  a * n \in Nat /\ a * n <= b * n /\ (a + 1) * n = a * n + n
OBVIOUS

(* A step from each number to the next gives a function on all of them.    *)
IsLoop(g, n, init, turn) ==
    g[0] = init /\ \A k \in 1..n : g[k] = turn[g[k - 1]]

LEMMA LoopExists ==
    ASSUME NEW T, NEW init \in T, NEW turn \in [T -> T], NEW n \in Nat
    PROVE  \E g \in [Nat -> T] : IsLoop(g, n, init, turn)
<1> DEFINE Bad == {m \in Nat : ~ \E g \in [Nat -> T] : IsLoop(g, m, init, turn)}
<1> SUFFICES ASSUME Bad # {} PROVE FALSE
  OBVIOUS
<1>1. PICK m \in Bad : \A j \in Bad : m <= j
  <2>1. Bad \subseteq Nat
    OBVIOUS
  <2> HIDE DEF Bad
  <2> QED
    BY <2>1, LeastNatural
<1>2. m \in Nat /\ ~ \E g \in [Nat -> T] : IsLoop(g, m, init, turn)
  OBVIOUS
<1>3. CASE m = 0
  <2> DEFINE g == [k \in Nat |-> init]
  <2>1. g \in [Nat -> T] /\ IsLoop(g, 0, init, turn)
    BY DEF IsLoop
  <2> QED
    BY <1>2, <1>3, <2>1
<1>4. CASE m # 0
  <2>1. m - 1 \in Nat /\ m - 1 < m
    BY <1>2, <1>4
  <2>2. m - 1 \notin Bad
    BY <1>1, <1>2, <2>1
  <2>3. PICK g \in [Nat -> T] : IsLoop(g, m - 1, init, turn)
    BY <2>1, <2>2
  <2>4. turn[g[m - 1]] \in T
    BY <2>1
  <2> DEFINE h == [k \in Nat |-> IF k = m THEN turn[g[m - 1]] ELSE g[k]]
  <2>5. h \in [Nat -> T]
    BY <2>4
  <2>6. \A k \in 0..(m - 1) : h[k] = g[k]
    BY <1>2
  <2>7. h[m] = turn[g[m - 1]] /\ m - 1 \in 0..(m - 1) /\ 0 \in 0..(m - 1)
    BY <2>1
  <2> HIDE DEF h
  <2>8. \A k \in 1..m : h[k] = turn[h[k - 1]]
    <3> TAKE k \in 1..m
    <3>1. CASE k = m
      BY <2>6, <2>7, <3>1
    <3>2. CASE k # m
      <4>1. k \in 1..(m - 1) /\ k \in 0..(m - 1) /\ k - 1 \in 0..(m - 1)
        BY <3>2, <1>2
      <4>2. g[k] = turn[g[k - 1]]
        BY <2>3, <4>1 DEF IsLoop
      <4> QED
        BY <2>6, <4>1, <4>2
    <3> QED
      BY <3>1, <3>2
  <2>9. h[0] = init
    BY <2>3, <2>6, <2>7 DEF IsLoop
  <2> QED
    BY <1>2, <2>5, <2>8, <2>9 DEF IsLoop
<1> QED
  BY <1>3, <1>4

LEMMA LoopsAgree ==
    ASSUME NEW init, NEW turn, NEW n \in Nat, NEW g, NEW h,
           IsLoop(g, n, init, turn), IsLoop(h, n, init, turn)
    PROVE  g[n] = h[n]
<1> DEFINE Bad == {k \in Nat : k <= n /\ g[k] # h[k]}
<1> SUFFICES ASSUME Bad # {} PROVE FALSE
  OBVIOUS
<1>1. PICK k \in Bad : \A j \in Bad : k <= j
  <2>1. Bad \subseteq Nat
    OBVIOUS
  <2> HIDE DEF Bad
  <2> QED
    BY <2>1, LeastNatural
<1>2. k \in Nat /\ k <= n /\ g[k] # h[k]
  OBVIOUS
<1>3. k # 0
  BY <1>2 DEF IsLoop
<1>4. k - 1 \in Nat /\ k - 1 < k /\ k - 1 <= n /\ k \in 1..n
  BY <1>2, <1>3
<1>5. k - 1 \notin Bad
  BY <1>1, <1>2, <1>4
<1>6. g[k - 1] = h[k - 1]
  BY <1>4, <1>5
<1> QED
  BY <1>2, <1>4, <1>6 DEF IsLoop

LEMMA EndlessLoop ==
    ASSUME NEW T, NEW init \in T, NEW turn \in [T -> T]
    PROVE  \E f \in [Nat -> T] :
              f[0] = init /\ \A k \in Nat \ {0} : f[k] = turn[f[k - 1]]
<1> DEFINE G(n) == CHOOSE g \in [Nat -> T] : IsLoop(g, n, init, turn)
           f == [n \in Nat |-> G(n)[n]]
<1>1. \A n \in Nat : G(n) \in [Nat -> T] /\ IsLoop(G(n), n, init, turn)
  BY LoopExists
<1> HIDE DEF G
<1>2. f \in [Nat -> T]
  BY <1>1
<1>3. f[0] = init
  BY <1>1 DEF IsLoop
<1>4. ASSUME NEW k \in Nat \ {0} PROVE f[k] = turn[f[k - 1]]
  <2>1. k \in Nat /\ k - 1 \in Nat /\ k \in 1..k
    OBVIOUS
  <2>2. G(k)[k] = turn[G(k)[k - 1]]
    BY <1>1, <2>1 DEF IsLoop
  <2>3. IsLoop(G(k), k - 1, init, turn)
    <3>1. \A j \in 1..(k - 1) : j \in 1..k
      BY <2>1
    <3> QED
      BY <1>1, <3>1 DEF IsLoop
  <2>4. IsLoop(G(k - 1), k - 1, init, turn)
    BY <1>1, <2>1
  <2>5. G(k)[k - 1] = G(k - 1)[k - 1]
    BY <2>1, <2>3, <2>4, LoopsAgree
  <2> QED
    BY <2>1, <2>2, <2>5
<1> HIDE DEF f
<1> QED
  BY <1>2, <1>3, <1>4

-----------------------------------------------------------------------------
(* The entries of the chain from each place, one fragment more at a time.  *)
LongerBy(t) == [r \in Ref |-> IF r \notin Frags THEN <<>>
                              ELSE log[r].entries \o t[log[r].next]]

IsStream(g) ==
    /\ g \in [Nat -> [Ref -> Seq(Entry)]]
    /\ \A r \in Ref : g[0][r] = <<>>
    /\ \A n \in Nat, r \in Ref : r \notin Frags => g[n][r] = <<>>
    /\ \A n \in Nat, r \in Frags :
           g[n + 1][r] = log[r].entries \o g[n][log[r].next]

LEMMA FragmentType ==
    ASSUME TypeOK, NEW r \in Frags
    PROVE  /\ r \in Ref /\ log[r].entries \in Seq(Entry) /\ log[r].next \in Ref
<1>1. log[r] \in Fragment
  BY DEF TypeOK
<1> QED
  BY <1>1 DEF Fragment, Ref

LEMMA StreamIs == TypeOK => IsStream(Stream)
<1> SUFFICES ASSUME TypeOK PROVE IsStream(Stream)
  OBVIOUS
<1> DEFINE T    == [Ref -> Seq(Entry)]
           none == [r \in Ref |-> <<>>]
           turn == [t \in T |-> LongerBy(t)]
           Is(f) == f = [n \in Nat |-> [r \in Ref |->
                          IF n = 0 \/ r \notin Frags THEN <<>>
                          ELSE log[r].entries \o f[n - 1][log[r].next]]]
           out == CHOOSE f : Is(f)
<1>1. none \in T
  BY EmptySeq
<1>2. ASSUME NEW t \in T PROVE LongerBy(t) \in T
  <2>1. ASSUME NEW r \in Frags PROVE log[r].entries \o t[log[r].next] \in Seq(Entry)
    BY FragmentType, ConcatProperties
  <2> QED
    BY <2>1, EmptySeq DEF LongerBy
<1>3. turn \in [T -> T]
  BY <1>2
<1>4. PICK g \in [Nat -> T] : g[0] = none /\ \A k \in Nat \ {0} : g[k] = turn[g[k - 1]]
  <2> HIDE DEF T, none, turn
  <2> QED
    BY <1>1, <1>3, EndlessLoop
<1>5. \A k \in Nat \ {0} : g[k] = LongerBy(g[k - 1])
  <2> TAKE k \in Nat \ {0}
  <2>1. g[k - 1] \in T
    OBVIOUS
  <2> QED
    BY <1>4, <2>1
<1>6. Is(g)
  <2> DEFINE h == [n \in Nat |-> [r \in Ref |->
                          IF n = 0 \/ r \notin Frags THEN <<>>
                          ELSE log[r].entries \o g[n - 1][log[r].next]]]
  <2>1. ASSUME NEW n \in Nat PROVE g[n] = h[n]
    <3>1. CASE n = 0
      BY <1>4, <3>1
    <3>2. CASE n # 0
      BY <1>5, <3>2 DEF LongerBy
    <3> QED
      BY <3>1, <3>2
  <2> QED
    BY <2>1
<1>7. Is(out)
  BY <1>6
<1>8. PICK f : Is(f) /\ Stream = f
  <2>1. Stream = out
    BY DEF Stream
  <2> HIDE DEF Is
  <2> QED
    BY <1>7, <2>1
<1>9. \A n \in Nat : f[n] = [r \in Ref |->
                          IF n = 0 \/ r \notin Frags THEN <<>>
                          ELSE log[r].entries \o f[n - 1][log[r].next]]
  BY <1>8
<1>10. f[0] = none
  BY <1>9
<1>11. \A k \in Nat \ {0} : f[k] = LongerBy(f[k - 1])
  <2> TAKE k \in Nat \ {0}
  <2>1. k \in Nat /\ k # 0
    OBVIOUS
  <2> QED
    BY <1>9, <2>1 DEF LongerBy
<1>12. ASSUME NEW n \in Nat PROVE f[n] = g[n]
  <2> DEFINE Bad == {k \in Nat : f[k] # g[k]}
  <2> SUFFICES ASSUME Bad # {} PROVE FALSE
    OBVIOUS
  <2>1. PICK k \in Bad : \A j \in Bad : k <= j
    <3>1. Bad \subseteq Nat
      OBVIOUS
    <3> HIDE DEF Bad
    <3> QED
      BY <3>1, LeastNatural
  <2>2. k \in Nat /\ f[k] # g[k] /\ k # 0
    BY <1>4, <1>10
  <2>3. k - 1 \in Nat /\ k - 1 < k
    BY <2>2
  <2>4. k - 1 \notin Bad
    BY <2>1, <2>2, <2>3
  <2> QED
    BY <1>5, <1>11, <2>2, <2>3, <2>4
<1>13. ASSUME NEW n \in Nat, NEW r \in Ref
      PROVE  /\ n = 0 \/ r \notin Frags => g[n][r] = <<>>
             /\ r \in Frags => g[n + 1][r] = log[r].entries \o g[n][log[r].next]
  <2>1. n + 1 \in Nat \ {0} /\ (n + 1) - 1 = n
    OBVIOUS
  <2>2. g[n + 1] = LongerBy(g[n])
    BY <1>5, <2>1
  <2>3. n # 0 => g[n] = LongerBy(g[n - 1])
    BY <1>5
  <2> QED
    BY <1>4, <2>2, <2>3 DEF LongerBy
<1>14. IsStream(g)
  BY <1>13 DEF IsStream, Ref
<1>15. f = g
  <2>1. f = [n \in Nat |-> f[n]]
    BY <1>8
  <2> QED
    BY <1>12, <2>1
<1> QED
  BY <1>8, <1>14, <1>15

(* A chain holds at least what the part of it read so far says.            *)
LEMMA ReadOneEntry ==
    ASSUME NEW S, NEW s \in Seq(S), NEW q \in Seq(S), q # <<>>
    PROVE  /\ Append(s, Head(q)) \in Seq(S) /\ Tail(q) \in Seq(S)
           /\ Append(s, Head(q)) \o Tail(q) = s \o q
<1>1. PICK x \in S, t \in Seq(S) : x = Head(q) /\ t = Tail(q)
  BY HeadTailProperties
<1>2. <<x>> \in Seq(S)
  OBVIOUS
<1>3. Append(s, x) = s \o <<x>>
  BY AppendIsConcat
<1>4. q = <<x>> \o t
  <2>1. Len(q) \in Nat \ {0} /\ 1 \in 1..Len(q) /\ Len(q) \in 1..Len(q)
    BY EmptySeq
  <2>2. SubSeq(q, 1, Len(q)) = <<q[1]>> \o SubSeq(q, 1 + 1, Len(q))
    BY <2>1, SubSeqRecursiveFirst
  <2>3. SubSeq(q, 1, Len(q)) = q /\ Tail(q) = SubSeq(q, 2, Len(q)) /\ Head(q) = q[1]
    BY <2>1, SubSeqFull, TailIsSubSeq
  <2> QED
    BY <1>1, <2>2, <2>3
<1>5. (s \o <<x>>) \o t = s \o q /\ s \o <<x>> \in Seq(S)
  BY <1>2, <1>4, ConcatAssociative, ConcatProperties
<1> QED
  BY <1>1, <1>3, <1>5

-----------------------------------------------------------------------------
(* How far the parser is along the chain.  k fragments lie behind it, and  *)
(* V are those of them that it has passed since the last sentinel: the     *)
(* rest of the chain follows what it has read, and k is bounded by the     *)
(* sentinels read.                                                         *)

Ahead(k) ==
    IF pc = "scan"
    THEN \A m \in Nat : Stream[k + 1 + m][first] = (hist \o queue) \o Stream[m][log[current].next]
    ELSE \A m \in Nat : Stream[k + m][first] = hist \o Stream[m][current]

(* The fragments of V come one after the other, hold no sentinel, and lead *)
(* to the current one.                                                     *)
LeadsOn(V, to) ==
    \A f \in V : /\ SentinelsIn(log[f].entries) = {}
                 /\ log[f].next \in V \cup {to}

FragCount == Cardinality(Frags)

(* The current fragment has shown a sentinel, or all of its sentinels are  *)
(* still to be read.                                                       *)
Shown(k, V) == V = {} /\ k + 1 <= txns * FragCount
NotShown(k, V) ==
    /\ k <= txns * FragCount + Cardinality(V)
    /\ pc = "scan" => (SentinelsIn(queue) = {} => SentinelsIn(log[current].entries) = {})

OnWay(k, V) ==
    /\ pc \in {"start", "fetch", "scan"}
    /\ Ahead(k)
    /\ current \notin V /\ LeadsOn(V, current)
    /\ (pc = "scan" /\ Shown(k, V)) \/ NotShown(k, V)

(* A ring of fragments without a sentinel is never left.                   *)
InRing(V) ==
    /\ pc \in {"fetch", "scan"}
    /\ current \in V /\ LeadsOn(V, current)
    /\ pc = "scan" => SentinelsIn(queue) = {}

(* The parser has returned: at the limit, or at the end of the chain.      *)
Returned ==
    /\ pc = "done"
    /\ \/ txns = limit /\ \E rest \in Seq(Entry) : Stream[Rounds][first] = hist \o rest
       \/ txns < limit /\ Stream[Rounds][first] = hist

InChain ==
    /\ first \in Ref
    /\ \/ \E k \in Nat, V \in SUBSET Frags : OnWay(k, V)
       \/ \E V \in SUBSET Frags : InRing(V)
       \/ Returned
       \/ pc = "failed"

(* The sentinels read are the transactions applied, and mark is where the  *)
(* last of them is.                                                        *)
CountsSentinels ==
    /\ txns = Cardinality(SentinelsIn(hist))
    /\ mark \in {0} \cup SentinelsIn(hist)
    /\ \A i \in SentinelsIn(hist) : i <= mark

CInv == HInv /\ CountsSentinels /\ InChain

LEMMA SameStream == log' = log => Stream' = Stream
BY DEF Stream, Ref

(* The chain stays ahead when an entry moves from the queue to the history *)
LEMMA AheadOfEntry ==
    ASSUME HInv, NEW k \in Nat, Ahead(k), HNext, pc = "scan", queue # <<>>,
           queue' = Tail(queue), log' = log, current' = current, pc' = "scan"
    PROVE  Ahead(k)'
<1>1. hist' = Append(hist, Head(queue)) /\ first' = first
  BY DEF HNext
<1>2. hist' \o queue' = hist \o queue
  BY <1>1, ReadOneEntry DEF HInv, HTypeOK, TInv, TypeOK
<1> QED
  BY <1>1, <1>2, SameStream DEF Ahead

(* What lies behind the limit-th sentinel is the rest of the chain.        *)
LEMMA RestBehindLimit ==
    ASSUME HInv, NEW k \in Nat, Ahead(k), HNext, pc = "scan", queue # <<>>,
           queue' = Tail(queue), log' = log, current' = current, first \in Ref,
           k + 1 <= Rounds, Rounds \in Nat
    PROVE  \E rest \in Seq(Entry) : (Stream[Rounds][first] = hist \o rest)'
<1>1. hist' = Append(hist, Head(queue)) /\ first' = first
  BY DEF HNext
<1>2. hist \in Seq(Entry) /\ queue \in Seq(Entry) /\ current \in Frags /\ TypeOK
  BY DEF HInv, HTypeOK, TInv, TypeOK
<1>3. hist' \in Seq(Entry) /\ queue' \in Seq(Entry) /\ hist' \o queue' = hist \o queue
  BY <1>1, <1>2, ReadOneEntry
<1>4. PICK m \in Nat : k + 1 + m = Rounds
  <2>1. Rounds - (k + 1) \in Nat /\ k + 1 + (Rounds - (k + 1)) = Rounds
    OBVIOUS
  <2> QED
    BY <2>1
<1>5. PICK more \in Seq(Entry) : more = Stream[m][log[current].next]
  BY <1>2, StreamIs, FragmentType DEF IsStream
<1>6. Stream[Rounds][first] = (hist \o queue) \o more
  BY <1>4, <1>5 DEF Ahead
<1>7. queue' \o more \in Seq(Entry) /\ (hist' \o queue') \o more = hist' \o (queue' \o more)
  BY <1>3, ConcatProperties, ConcatAssociative
<1>8. Stream' = Stream /\ Rounds' = Rounds
  BY SameStream DEF Rounds
<1> QED
  BY <1>1, <1>3, <1>6, <1>7, <1>8

(* Fragments as numbers: a set of them has at most FragCount.              *)
LEMMA FragsCounted ==
    ASSUME NEW V \in SUBSET Frags
    PROVE  /\ FragCount \in Nat /\ Cardinality(V) \in Nat
           /\ Cardinality(V) <= FragCount
           /\ \A f \in Frags \ V : Cardinality(V \cup {f}) = Cardinality(V) + 1
                                   /\ Cardinality(V) + 1 <= FragCount
<1>1. IsFiniteSet(V) /\ FragCount \in Nat /\ Cardinality(V) \in Nat /\ Cardinality(V) <= FragCount
  BY FileIsFinite, FS_Subset, FS_CardinalityType DEF FragCount
<1>2. ASSUME NEW f \in Frags \ V
      PROVE  Cardinality(V \cup {f}) = Cardinality(V) + 1 /\ Cardinality(V) + 1 <= FragCount
  <2>1. Cardinality(V \cup {f}) = Cardinality(V) + 1
    BY <1>1, FS_AddElement
  <2>2. V \cup {f} \in SUBSET Frags
    OBVIOUS
  <2>3. Cardinality(V \cup {f}) <= FragCount
    BY <2>2, FileIsFinite, FS_Subset DEF FragCount
  <2> QED
    BY <2>1, <2>3
<1> QED
  BY <1>1, <1>2

LEMMA RoundsSuffice ==
    ASSUME NEW n \in Nat, n <= MaxLimit
    PROVE  /\ Rounds \in Nat /\ n * FragCount \in Nat /\ n * FragCount <= Rounds
           /\ n < MaxLimit => n * FragCount + FragCount <= Rounds
           /\ (n + 1) * FragCount = n * FragCount + FragCount
<1>1. FragCount \in Nat /\ MaxLimit \in Nat
  BY FragsCounted, Bounds
<1>2. Rounds = (MaxLimit + 1) * FragCount
  BY DEF Rounds, FragCount
<1>3. PICK c \in Nat : c = FragCount
  BY <1>1
<1>4. n + 1 \in Nat /\ MaxLimit + 1 \in Nat /\ n <= MaxLimit + 1 /\ n + 1 <= MaxLimit + 1
  BY <1>1
<1>5. /\ n * c \in Nat /\ n * c <= (MaxLimit + 1) * c /\ (n + 1) * c = n * c + c
      /\ (n + 1) * c \in Nat /\ (n + 1) * c <= (MaxLimit + 1) * c /\ (MaxLimit + 1) * c \in Nat
  BY <1>4, TimesGrows
<1> QED
  BY <1>2, <1>3, <1>5

-----------------------------------------------------------------------------
(* InChain, step by step.                                                  *)
LEMMA InChainInit == HInit => InChain
<1> SUFFICES ASSUME HInit PROVE InChain
  OBVIOUS
<1>1. TypeOK /\ first = current /\ hist = <<>> /\ pc = "start" /\ first \in Ref /\ txns = 0
  BY TInvInit DEF HInit, Init, TInv, Ref
<1>2. \A m \in Nat : Stream[0 + m][first] = hist \o Stream[m][current]
  <2> TAKE m \in Nat
  <2>1. Stream[m][current] \in Seq(Entry)
    BY <1>1, StreamIs DEF IsStream
  <2> QED
    BY <1>1, <2>1, ConcatEmptySeq
<1>3. Cardinality({}) = 0 /\ FragCount \in Nat
  BY FS_EmptySet, FragsCounted
<1>4. OnWay(0, {})
  BY <1>1, <1>2, <1>3 DEF OnWay, Ahead, LeadsOn, NotShown
<1> QED
  BY <1>1, <1>4 DEF InChain

(* Begin and FetchFragment: the current fragment is opened.                *)
LEMMA BeginInChain ==
    ASSUME HInv, InChain, HNext, Begin PROVE InChain'
<1>1. /\ pc = "start" /\ pc' \in {"failed", "fetch"} /\ log' = log /\ first' = first
      /\ UNCHANGED <<current, queue, hist, txns>>
  BY DEF HNext, Begin, file
<1>2. PICK k \in Nat, V \in SUBSET Frags : OnWay(k, V)
  BY <1>1 DEF InChain, InRing, Returned
<1>3. pc' = "fetch" => OnWay(k, V)'
  BY <1>1, <1>2, SameStream DEF OnWay, Ahead, LeadsOn, Shown, NotShown, SentinelsIn
<1> QED
  BY <1>1, <1>3 DEF InChain

LEMMA FetchInChain ==
    ASSUME HInv, InChain, HNext, FetchFragment PROVE InChain'
<1>1. /\ pc = "fetch" /\ pc' = "scan" /\ log' = log /\ first' = first /\ current \in Frags
      /\ UNCHANGED <<current, hist, txns>> /\ queue' = log[current].entries
  BY DEF HNext, FetchFragment, file
<1>2. TypeOK /\ hist \in Seq(Entry)
  BY DEF HInv, TInv, HTypeOK
<1>3. ASSUME NEW k \in Nat, NEW V \in SUBSET Frags, OnWay(k, V) PROVE OnWay(k, V)'
  <2>1. ASSUME NEW m \in Nat
        PROVE  Stream[k + 1 + m][first] = (hist \o queue') \o Stream[m][log[current].next]
    <3>1. m + 1 \in Nat /\ k + (m + 1) = k + 1 + m
      OBVIOUS
    <3>2. Stream[k + (m + 1)][first] = hist \o Stream[m + 1][current]
      BY <1>1, <1>3, <3>1 DEF OnWay, Ahead
    <3>3. Stream[m + 1][current] = log[current].entries \o Stream[m][log[current].next]
      BY <1>1, <1>2, StreamIs DEF IsStream
    <3>4. log[current].entries \in Seq(Entry) /\ Stream[m][log[current].next] \in Seq(Entry)
      BY <1>1, <1>2, FragmentType, StreamIs DEF IsStream
    <3>5. PICK e \in Seq(Entry), x \in Seq(Entry), h \in Seq(Entry) :
            e = log[current].entries /\ x = Stream[m][log[current].next] /\ h = hist
      BY <1>2, <3>4
    <3>6. (h \o e) \o x = h \o (e \o x)
      BY ConcatAssociative
    <3> QED
      BY <1>1, <3>1, <3>2, <3>3, <3>5, <3>6
  <2>2. Ahead(k)'
    BY <1>1, <2>1, SameStream DEF Ahead
  <2>3. NotShown(k, V)'
    BY <1>1, <1>3 DEF OnWay, NotShown, SentinelsIn
  <2> QED
    BY <1>1, <1>3, <2>2, <2>3 DEF OnWay, LeadsOn, SentinelsIn
<1>4. ASSUME NEW V \in SUBSET Frags, InRing(V) PROVE InRing(V)'
  BY <1>1, <1>4 DEF InRing, LeadsOn, SentinelsIn
<1> QED
  BY <1>1, <1>3, <1>4 DEF InChain, Returned

(* An entry that is no sentinel moves on.                                  *)
LEMMA EntryInChain ==
    ASSUME HInv, InChain, HNext, SkipZeroEntry \/ ReadUpdate PROVE InChain'
<1>1. /\ pc = "scan" /\ pc' = "scan" /\ log' = log /\ first' = first
      /\ queue # <<>> /\ queue' = Tail(queue) /\ UNCHANGED <<current, txns>>
      /\ Head(queue).src \in Lists
  BY DEF HNext, SkipZeroEntry, ReadUpdate, file
<1>2. queue \in Seq(Entry)
  BY DEF HInv, TInv, TypeOK
<1>3. SentinelsIn(queue') = {} => SentinelsIn(queue) = {}
  <2> SUFFICES ASSUME SentinelsIn(queue') = {}, NEW i \in SentinelsIn(queue) PROVE FALSE
    OBVIOUS
  <2>1. /\ Head(queue) = queue[1] /\ Len(queue) \in Nat /\ DOMAIN queue = 1..Len(queue)
        /\ Len(queue') = Len(queue) - 1 /\ DOMAIN queue' = 1..Len(queue')
        /\ \A j \in 1..Len(queue') : queue'[j] = queue[j + 1]
    BY <1>1, <1>2, HeadTailProperties, LenProperties
  <2>2. i \in 1..Len(queue) /\ queue[i].src = Sentinel
    BY <2>1 DEF SentinelsIn
  <2>3. i # 1
    BY <1>1, <2>1, <2>2, SentinelIsNoList
  <2>4. i - 1 \in 1..Len(queue') /\ queue'[i - 1] = queue[i]
    BY <2>1, <2>2, <2>3
  <2> QED
    BY <2>1, <2>2, <2>4 DEF SentinelsIn
<1>4. ASSUME NEW k \in Nat, NEW V \in SUBSET Frags, OnWay(k, V) PROVE OnWay(k, V)'
  <2>1. Ahead(k)'
    BY <1>1, <1>4, AheadOfEntry DEF OnWay
  <2> QED
    BY <1>1, <1>3, <1>4, <2>1 DEF OnWay, LeadsOn, Shown, NotShown, SentinelsIn
<1>5. ASSUME NEW V \in SUBSET Frags, InRing(V) PROVE InRing(V)'
  <2>1. SentinelsIn(queue') = {}
    <3> SUFFICES ASSUME NEW i \in SentinelsIn(queue') PROVE FALSE
      OBVIOUS
    <3>1. /\ Len(queue) \in Nat /\ DOMAIN queue = 1..Len(queue)
          /\ Len(queue') = Len(queue) - 1 /\ DOMAIN queue' = 1..Len(queue')
          /\ \A j \in 1..Len(queue') : queue'[j] = queue[j + 1]
      BY <1>1, <1>2, HeadTailProperties, LenProperties
    <3>2. i + 1 \in SentinelsIn(queue)
      BY <3>1 DEF SentinelsIn
    <3> QED
      BY <1>1, <1>5, <3>2 DEF InRing
  <2> QED
    BY <1>1, <1>5, <2>1 DEF InRing, LeadsOn, SentinelsIn
<1> QED
  BY <1>1, <1>4, <1>5 DEF InChain, Returned

(* A sentinel: V starts anew, the limit-th one ends the parse.             *)
LEMMA SentinelInChain ==
    ASSUME HInv, InChain, HNext, ReadSentinel PROVE InChain'
<1>1. /\ pc = "scan" /\ log' = log /\ first' = first /\ limit' = limit
      /\ queue # <<>> /\ queue' = Tail(queue) /\ current' = current
      /\ Head(queue).src = Sentinel /\ txns' = txns + 1
      /\ pc' = IF txns + 1 >= limit THEN "done" ELSE "scan"
  BY DEF HNext, ReadSentinel, file
<1>2. /\ queue \in Seq(Entry) /\ txns \in Nat /\ limit \in Nat /\ limit <= MaxLimit
      /\ MaxLimit \in Nat /\ txns < limit /\ current \in Frags /\ first \in Ref
  BY <1>1, Bounds DEF HInv, TInv, TypeOK, BelowLimit, InChain
<1>3. ASSUME NEW V \in SUBSET Frags, InRing(V) PROVE FALSE
  <2>1. 1 \in SentinelsIn(queue)
    BY <1>1, <1>2, EmptySeq, LenProperties DEF SentinelsIn
  <2> QED
    BY <1>1, <1>3, <2>1 DEF InRing
<1>4. PICK k \in Nat, V \in SUBSET Frags : OnWay(k, V)
  BY <1>1, <1>3 DEF InChain, Returned
<1>5. k + 1 <= (txns + 1) * FragCount
  <2>1. txns * FragCount \in Nat /\ FragCount \in Nat /\ (txns + 1) * FragCount = txns * FragCount + FragCount
    BY <1>2, RoundsSuffice, FragsCounted
  <2>2. Cardinality(V) \in Nat /\ Cardinality(V) + 1 <= FragCount
    BY <1>2, <1>4, FragsCounted DEF OnWay
  <2>3. k <= txns * FragCount + Cardinality(V) \/ k + 1 <= txns * FragCount
    BY <1>4 DEF OnWay, Shown, NotShown
  <2>n. PICK p \in Nat, c \in Nat, v \in Nat : p = txns * FragCount /\ c = FragCount /\ v = Cardinality(V)
    BY <2>1, <2>2
  <2>4. (txns + 1) * FragCount = p + c /\ v + 1 <= c /\ (k <= p + v \/ k + 1 <= p)
    BY <2>1, <2>2, <2>3, <2>n
  <2> QED
    BY <2>4
<1>6. Ahead(k)
  BY <1>4 DEF OnWay
<1>7. CASE txns + 1 < limit
  <2>1. pc' = "scan"
    BY <1>1, <1>2, <1>7
  <2>2. Ahead(k)'
    BY <1>1, <1>6, <2>1, AheadOfEntry
  <2>3. OnWay(k, {})'
    BY <1>1, <1>5, <2>1, <2>2 DEF OnWay, LeadsOn, Shown, FragCount
  <2> QED
    BY <1>1, <1>2, <2>3 DEF InChain
<1>8. CASE ~(txns + 1 < limit)
  <2>1. pc' = "done" /\ txns' = limit' /\ txns + 1 <= MaxLimit /\ txns + 1 \in Nat
    BY <1>1, <1>2, <1>8
  <2>2. (txns + 1) * FragCount \in Nat /\ (txns + 1) * FragCount <= Rounds /\ Rounds \in Nat
    BY <2>1, RoundsSuffice
  <2>3. k + 1 <= Rounds
    BY <1>5, <2>2
  <2>4. \E rest \in Seq(Entry) : (Stream[Rounds][first] = hist \o rest)'
    BY <1>1, <1>2, <1>6, <2>2, <2>3, RestBehindLimit
  <2>5. Returned'
    BY <2>1, <2>4 DEF Returned
  <2> QED
    BY <1>1, <1>2, <2>5 DEF InChain
<1> QED
  BY <1>7, <1>8

(* The next fragment: one that lies behind since the last sentinel closes  *)
(* a ring.                                                                 *)
LEMMA FollowInChain ==
    ASSUME HInv, InChain, HNext, FollowNext PROVE InChain'
<1>1. /\ pc = "scan" /\ queue = <<>> /\ log' = log /\ first' = first
      /\ UNCHANGED <<txns, hist, queue>> /\ current' = log[current].next
      /\ pc' = IF current' = OutOfFile THEN "failed" ELSE "fetch"
  BY DEF HNext, FollowNext, file
<1>2. /\ TypeOK /\ hist \in Seq(Entry) /\ current \in Frags /\ txns \in Nat /\ txns <= MaxLimit
      /\ OutOfFile \notin Frags /\ SentinelsIn(queue) = {}
  <2>1. DOMAIN queue = {}
    BY <1>1
  <2> QED
    BY <1>1, <2>1, Bounds, RefKinds DEF HInv, TInv, TypeOK, HTypeOK, SentinelsIn
<1>3. ASSUME NEW V \in SUBSET Frags, InRing(V) PROVE InRing(V)'
  BY <1>1, <1>2, <1>3 DEF InRing, LeadsOn, SentinelsIn
<1>4. ASSUME NEW k \in Nat, NEW V \in SUBSET Frags, OnWay(k, V), pc' = "fetch"
      PROVE  InChain'
  <2>1. ASSUME NEW m \in Nat
        PROVE  Stream[(k + 1) + m][first] = hist \o Stream[m][current']
    <3>1. hist \o queue = hist
      BY <1>1, <1>2, ConcatEmptySeq
    <3> QED
      BY <1>1, <1>4, <3>1 DEF OnWay, Ahead
  <2>2. Ahead(k + 1)'
    BY <1>1, <1>4, <2>1, SameStream DEF Ahead
  <2>3. CASE Shown(k, V)
    <3>1. OnWay(k + 1, {})'
      <4>1. Cardinality({}) = 0 /\ txns * FragCount \in Nat
        BY <1>2, FS_EmptySet, RoundsSuffice
      <4>2. k + 1 <= txns * FragCount + Cardinality({})
        BY <2>3, <4>1 DEF Shown
      <4> QED
        BY <1>1, <1>4, <2>2, <4>2 DEF OnWay, LeadsOn, NotShown, FragCount
    <3> QED
      BY <1>1, <3>1 DEF InChain
  <2>4. CASE NotShown(k, V)
    <3>1. PICK W \in SUBSET Frags : W = V \cup {current}
      BY <1>2
    <3>2. LeadsOn(W, current')
      BY <3>1, <1>1, <1>2, <1>4, <2>4 DEF OnWay, LeadsOn, NotShown
    <3>3. k + 1 <= txns * FragCount + Cardinality(W)
      <4>1. Cardinality(W) = Cardinality(V) + 1 /\ Cardinality(V) \in Nat
        BY <3>1, <1>2, <1>4, FragsCounted DEF OnWay
      <4>2. PICK p \in Nat : p = txns * FragCount
        BY <1>2, RoundsSuffice
      <4> QED
        BY <2>4, <4>1, <4>2 DEF NotShown
    <3>4. CASE current' \in W
      <4>1. InRing(W)'
        BY <1>1, <1>4, <3>2, <3>4 DEF InRing, LeadsOn, SentinelsIn
      <4> QED
        BY <1>1, <3>1, <4>1 DEF InChain
    <3>5. CASE current' \notin W
      <4>1. OnWay(k + 1, W)'
        BY <1>1, <1>4, <2>2, <3>2, <3>3, <3>5 DEF OnWay, LeadsOn, NotShown, SentinelsIn, FragCount
      <4> QED
        BY <1>1, <3>1, <4>1 DEF InChain
    <3> QED
      BY <3>4, <3>5
  <2> QED
    BY <1>4, <2>3, <2>4 DEF OnWay
<1> QED
  BY <1>1, <1>3, <1>4 DEF InChain, Returned

(* The end of the chain: what was read is all of it.                       *)
LEMMA EndInChain ==
    ASSUME HInv, InChain, HNext, EndOfChain PROVE InChain'
<1>1. /\ pc = "scan" /\ queue = <<>> /\ log' = log /\ first' = first /\ limit' = limit
      /\ UNCHANGED <<txns, hist>> /\ log[current].next = Nil /\ pc' = "done"
  BY DEF HNext, EndOfChain, file
<1>2. /\ TypeOK /\ hist \in Seq(Entry) /\ current \in Frags /\ txns \in Nat /\ txns < limit
      /\ limit <= MaxLimit /\ limit \in Nat /\ MaxLimit \in Nat /\ Nil \notin Frags /\ Nil \in Ref
  BY <1>1, Bounds, RefKinds DEF HInv, TInv, TypeOK, BelowLimit, HTypeOK, Ref
<1>3. ASSUME NEW V \in SUBSET Frags, InRing(V) PROVE FALSE
  BY <1>1, <1>2, <1>3 DEF InRing, LeadsOn
<1>4. PICK k \in Nat, V \in SUBSET Frags : OnWay(k, V)
  BY <1>1, <1>3 DEF InChain, Returned
<1>5. Rounds \in Nat /\ k + 1 <= Rounds
  <2>1. /\ Rounds \in Nat /\ txns * FragCount \in Nat /\ txns * FragCount <= Rounds
        /\ txns * FragCount + FragCount <= Rounds
    BY <1>2, RoundsSuffice
  <2>2. FragCount \in Nat /\ Cardinality(V) \in Nat /\ Cardinality(V) + 1 <= FragCount
    BY <1>2, <1>4, FragsCounted DEF OnWay
  <2>3. k <= txns * FragCount + Cardinality(V) \/ k + 1 <= txns * FragCount
    BY <1>4 DEF OnWay, Shown, NotShown
  <2>n. PICK p \in Nat, c \in Nat, v \in Nat : p = txns * FragCount /\ c = FragCount /\ v = Cardinality(V)
    BY <2>1, <2>2
  <2>4. /\ Rounds \in Nat /\ p <= Rounds /\ p + c <= Rounds
        /\ v + 1 <= c /\ (k <= p + v \/ k + 1 <= p)
    BY <2>1, <2>2, <2>3, <2>n
  <2> QED
    BY <2>4
<1>6. PICK m \in Nat : k + 1 + m = Rounds
  <2>1. Rounds - (k + 1) \in Nat /\ k + 1 + (Rounds - (k + 1)) = Rounds
    BY <1>5
  <2> QED
    BY <2>1
<1>7. Stream[Rounds][first] = (hist \o <<>>) \o <<>>
  <2>1. Stream[m][Nil] = <<>>
    BY <1>2, StreamIs DEF IsStream
  <2> QED
    BY <1>1, <1>4, <1>6, <2>1 DEF OnWay, Ahead
<1>8. Stream[Rounds][first] = hist
  BY <1>2, <1>7, ConcatEmptySeq
<1>9. Stream' = Stream /\ Rounds' = Rounds
  BY <1>1, SameStream DEF Rounds
<1>10. Returned'
  BY <1>1, <1>2, <1>8, <1>9 DEF Returned
<1> QED
  BY <1>1, <1>10 DEF InChain

LEMMA InChainNext == HInv /\ InChain /\ [HNext]_hvars => InChain'
<1> SUFFICES ASSUME HInv, InChain, [HNext]_hvars PROVE InChain'
  OBVIOUS
<1>1. CASE HNext /\ ~Stopped /\ ~RejectFragment
  BY <1>1, BeginInChain, FetchInChain, EntryInChain, SentinelInChain, FollowInChain, EndInChain
  DEF HNext, Next
<1>2. CASE HNext /\ RejectFragment
  BY <1>2 DEF HNext, RejectFragment, InChain
<1>3. CASE HNext /\ Stopped
  <2>1. UNCHANGED <<vars, first>> /\ pc \in {"done", "failed"} /\ hist' = hist
    BY <1>3 DEF HNext, Stopped, vars
  <2>2. first \in Ref /\ (Returned \/ pc = "failed")
    BY <2>1 DEF InChain, OnWay, InRing
  <2>3. Stream' = Stream /\ Rounds' = Rounds /\ first' = first /\ limit' = limit /\ txns' = txns /\ pc' = pc
    BY <2>1, SameStream DEF Rounds, vars
  <2>4. Returned => Returned'
    BY <2>1, <2>3 DEF Returned
  <2> QED
    BY <2>2, <2>3, <2>4 DEF InChain
<1>4. CASE UNCHANGED hvars
  <2>1. UNCHANGED <<log, limit, pc, current, queue, txns, first, hist>>
    BY <1>4 DEF hvars, vars
  <2>2. Stream' = Stream /\ Rounds' = Rounds /\ FragCount' = FragCount
    BY <2>1, SameStream DEF Rounds, FragCount
  <2>3. ASSUME NEW k \in Nat, NEW V \in SUBSET Frags
        PROVE  (OnWay(k, V) => OnWay(k, V)') /\ (InRing(V) => InRing(V)')
    BY <2>1, <2>2 DEF OnWay, InRing, Ahead, LeadsOn, Shown, NotShown, SentinelsIn
  <2>4. Returned => Returned'
    BY <2>1, <2>2 DEF Returned
  <2> QED
    BY <2>1, <2>3, <2>4 DEF InChain
<1> QED
  BY <1>1, <1>2, <1>3, <1>4

-----------------------------------------------------------------------------
(* The sentinels are the transactions.                                     *)
LEMMA SentinelsOfLonger ==
    ASSUME NEW s \in Seq(Entry), NEW e \in Entry
    PROVE  /\ SentinelsIn(s) \subseteq 1..Len(s) /\ IsFiniteSet(SentinelsIn(s))
           /\ SentinelsIn(Append(s, e)) = IF e.src = Sentinel THEN SentinelsIn(s) \cup {Len(s) + 1}
                                                              ELSE SentinelsIn(s)
           /\ Len(s) \in Nat /\ Len(Append(s, e)) = Len(s) + 1
<1>1. /\ Len(s) \in Nat /\ DOMAIN s = 1..Len(s)
      /\ Append(s, e) \in Seq(Entry) /\ Len(Append(s, e)) = Len(s) + 1
      /\ \A i \in 1..Len(s) : Append(s, e)[i] = s[i]
      /\ Append(s, e)[Len(s) + 1] = e
  BY LenProperties, AppendProperties
<1>2. DOMAIN Append(s, e) = 1..(Len(s) + 1)
  BY <1>1, LenProperties
<1>3. IsFiniteSet(1..Len(s)) /\ SentinelsIn(s) \subseteq 1..Len(s)
  BY <1>1, FS_Interval DEF SentinelsIn
<1>4. IsFiniteSet(SentinelsIn(s))
  BY <1>3, FS_Subset
<1>5. ASSUME NEW i
      PROVE  i \in SentinelsIn(Append(s, e)) <=> (i \in SentinelsIn(s) \/ (e.src = Sentinel /\ i = Len(s) + 1))
  BY <1>1, <1>2 DEF SentinelsIn
<1> QED
  BY <1>1, <1>3, <1>4, <1>5

LEMMA CountsInit == HInit => CountsSentinels
<1> SUFFICES ASSUME HInit PROVE CountsSentinels
  OBVIOUS
<1>1. SentinelsIn(hist) = {} /\ txns = 0 /\ mark = 0
  BY DEF HInit, Init, SentinelsIn
<1> QED
  BY <1>1, FS_EmptySet DEF CountsSentinels

LEMMA CountsNext == HInv /\ CountsSentinels /\ [HNext]_hvars => CountsSentinels'
<1> SUFFICES ASSUME HInv, CountsSentinels, [HNext]_hvars PROVE CountsSentinels'
  OBVIOUS
<1>1. CASE HNext /\ pc = "scan" /\ queue # <<>>
  <2>1. PICK e \in Entry : e = Head(queue)
    BY <1>1, HeadTailProperties DEF HInv, TInv, TypeOK
  <2>2. hist' = Append(hist, e) /\ hist \in Seq(Entry)
    BY <1>1, <2>1 DEF HNext, HInv, HTypeOK
  <2>3. /\ SentinelsIn(hist) \subseteq 1..Len(hist) /\ IsFiniteSet(SentinelsIn(hist))
        /\ SentinelsIn(hist') = IF e.src = Sentinel THEN SentinelsIn(hist) \cup {Len(hist) + 1}
                                                    ELSE SentinelsIn(hist)
        /\ Len(hist) \in Nat /\ Len(hist') = Len(hist) + 1
    BY <2>2, SentinelsOfLonger
  <2>4. CASE e.src = Sentinel
    <3>1. txns' = txns + 1 /\ txns \in Nat
      BY <1>1, <2>1, <2>4, SentinelIsNoList, Bounds
      DEF HNext, Next, Begin, FetchFragment, RejectFragment, ReadSentinel, SkipZeroEntry,
          ReadUpdate, FollowNext, EndOfChain, Stopped, HInv, TInv, TypeOK
    <3>2. mark' = Len(hist) + 1
      BY <1>1, <2>3, <3>1 DEF HNext
    <3>3. Cardinality(SentinelsIn(hist')) = Cardinality(SentinelsIn(hist)) + 1
      BY <2>3, <2>4, FS_AddElement
    <3> QED
      BY <2>3, <2>4, <3>1, <3>2, <3>3 DEF CountsSentinels
  <2>5. CASE e.src # Sentinel
    <3>1. txns' = txns
      BY <1>1, <2>1, <2>5
      DEF HNext, Next, Begin, FetchFragment, RejectFragment, ReadSentinel, SkipZeroEntry,
          ReadUpdate, FollowNext, EndOfChain, Stopped, vars
    <3> QED
      BY <1>1, <2>3, <2>5, <3>1 DEF CountsSentinels, HNext
  <2> QED
    BY <2>4, <2>5
<1>2. CASE HNext /\ ~(pc = "scan" /\ queue # <<>>)
  <2>1. hist' = hist /\ txns' = txns /\ mark' = mark
    BY <1>2 DEF HNext, Next, Begin, FetchFragment, RejectFragment, ReadSentinel, SkipZeroEntry,
          ReadUpdate, FollowNext, EndOfChain, Stopped, vars
  <2> QED
    BY <2>1 DEF CountsSentinels, SentinelsIn
<1>3. CASE UNCHANGED hvars
  BY <1>3 DEF hvars, vars, CountsSentinels, SentinelsIn
<1> QED
  BY <1>1, <1>2, <1>3

-----------------------------------------------------------------------------
(* The reference definition at the end: of what was read and what follows  *)
(* it, the first limit transactions end at mark.                           *)
LEMMA ClosedAtMark ==
    ASSUME NEW h \in Seq(Entry), NEW rest \in Seq(Entry), NEW n \in Nat, NEW t \in 0..n, NEW m,
           t = Cardinality(SentinelsIn(h)), m \in {0} \cup SentinelsIn(h),
           \A i \in SentinelsIn(h) : i <= m, t = n \/ rest = <<>>
    PROVE  ClosedBy(h \o rest, n) = m
<1> DEFINE s == h \o rest
           Upto(i) == {j \in SentinelsIn(s) : j <= i}
           S == {0} \cup {i \in SentinelsIn(s) : Cardinality(Upto(i)) <= n}
<1>1. /\ s \in Seq(Entry) /\ Len(s) = Len(h) + Len(rest) /\ DOMAIN s = 1..Len(s)
      /\ Len(h) \in Nat /\ Len(rest) \in Nat /\ DOMAIN h = 1..Len(h)
      /\ \A i \in 1..Len(h) : s[i] = h[i]
  BY ConcatProperties, LenProperties
<1>2. /\ SentinelsIn(s) \subseteq 1..Len(s) /\ SentinelsIn(h) \subseteq 1..Len(h)
      /\ \A i \in SentinelsIn(s) : i <= Len(h) => i \in SentinelsIn(h)
      /\ SentinelsIn(h) \subseteq SentinelsIn(s)
  BY <1>1 DEF SentinelsIn
<1> HIDE DEF s
<1>3. IsFiniteSet(SentinelsIn(s)) /\ IsFiniteSet(SentinelsIn(h))
  <2>1. PICK e \in Entry : TRUE
    BY Bounds DEF Entry
  <2> QED
    BY <1>1, <2>1, SentinelsOfLonger
<1>4. ASSUME NEW i \in SentinelsIn(h) PROVE i \in S
  <2>1. Upto(i) \in SUBSET SentinelsIn(h)
    BY <1>1, <1>2
  <2>2. Cardinality(Upto(i)) <= t
    BY <1>3, <2>1, FS_Subset
  <2>3. Cardinality(Upto(i)) \in Nat
    BY <1>3, <2>1, FS_Subset, FS_CardinalityType
  <2> HIDE DEF Upto
  <2> QED
    BY <1>2, <2>2, <2>3
<1>5. ASSUME NEW i \in S PROVE i = 0 \/ i \in SentinelsIn(h)
  <2> SUFFICES ASSUME i \in SentinelsIn(s), Cardinality(Upto(i)) <= n, ~(i <= Len(h)) PROVE FALSE
    BY <1>2
  <2>1. rest # <<>>
    <3>1. rest = <<>> => Len(rest) = 0
      BY EmptySeq
    <3> QED
      BY <1>1, <1>2, <3>1
  <2>2. t = n
    BY <2>1
  <2>3. SentinelsIn(h) \cup {i} \in SUBSET Upto(i) /\ Upto(i) \in SUBSET SentinelsIn(s)
    BY <1>1, <1>2
  <2>4. IsFiniteSet(Upto(i))
    BY <1>3, <2>3, FS_Subset
  <2>5. Cardinality(SentinelsIn(h) \cup {i}) = t + 1
    <3>1. i \notin SentinelsIn(h)
      BY <1>1, <1>2
    <3> QED
      BY <1>3, <3>1, FS_AddElement
  <2>6. Cardinality(SentinelsIn(h) \cup {i}) <= Cardinality(Upto(i)) /\ Cardinality(Upto(i)) \in Nat
    <3> HIDE DEF Upto
    <3> QED
      BY <2>3, <2>4, FS_Subset, FS_CardinalityType
  <2> HIDE DEF Upto
  <2> QED
    BY <2>2, <2>5, <2>6
<1>6. S \subseteq Nat /\ m \in S /\ \A i \in S : i <= m
  <2>1. m \in Nat /\ \A i \in SentinelsIn(h) : i \in Nat
    BY <1>1, <1>2
  <2>2. m \in S
    BY <1>4
  <2> HIDE DEF S
  <2> QED
    BY <1>5, <2>1, <2>2
<1>7. Max(S) = m
  <2> HIDE DEF S
  <2> QED
    BY <1>6, MaxIs
<1> QED
  BY <1>7 DEF ClosedBy, s

LEMMA CountsAreReference ==
    ASSUME HInv, CountsSentinels, InChain, pc = "done", NEW l \in Lists
    PROVE  last[l] = ReferenceCount(Stream[Rounds][first], limit, l)
<1>1. Returned
  BY DEF InChain, OnWay, InRing
<1>2. /\ hist \in Seq(Entry) /\ limit \in Nat /\ txns \in 0..limit /\ IsLatest(last[l], l, 0, mark)
      /\ mark \in 0..Len(hist)
  BY Bounds DEF HInv, TInv, TypeOK, HTypeOK, LatestCommittedWins
<1>3. PICK rest \in Seq(Entry) : Stream[Rounds][first] = hist \o rest /\ (txns = limit \/ rest = <<>>)
  <2>1. <<>> \in Seq(Entry) /\ hist \o <<>> = hist
    BY <1>2, EmptySeq, ConcatEmptySeq
  <2> QED
    BY <1>1, <2>1 DEF Returned
<1>4. PICK h \in Seq(Entry), t \in 0..limit, m \in 0..Len(hist) :
         h = hist /\ t = txns /\ m = mark
  BY <1>2
<1>5. ClosedBy(h \o rest, limit) = m
  <2>1. /\ t = Cardinality(SentinelsIn(h)) /\ m \in {0} \cup SentinelsIn(h)
        /\ \A i \in SentinelsIn(h) : i <= m
    BY <1>4 DEF CountsSentinels
  <2> QED
    BY <1>2, <1>3, <1>4, <2>1, ClosedAtMark
<1> DEFINE s == h \o rest
           W == {i \in 1..m : s[i].src = l /\ s[i].value # 0}
<1>6. /\ Len(h) \in Nat /\ m \in Nat /\ m <= Len(h)
      /\ \A i \in 1..Len(h) : s[i] = h[i]
  BY <1>4, ConcatProperties, LenProperties
<1>7. ReferenceCount(Stream[Rounds][first], limit, l) = IF W = {} THEN 0 ELSE s[Max(W)].value
  BY <1>3, <1>4, <1>5 DEF ReferenceCount
<1>8. \A i \in 1..m : s[i] = hist[i] /\ (i \in W <=> Writes(i, l))
  BY <1>4, <1>6 DEF Writes
<1>9. CASE last[l] = 0
  <2>1. \A i \in 1..m : ~Writes(i, l)
    BY <1>2, <1>4, <1>9 DEF IsLatest
  <2>2. W = {}
    BY <1>8, <2>1
  <2> QED
    BY <1>7, <1>9, <2>2
<1>10. CASE last[l] # 0
  <2>1. PICK i \in 1..m : /\ Writes(i, l) /\ hist[i].value = last[l]
                          /\ \A j \in i+1..m : ~Writes(j, l)
    BY <1>2, <1>4, <1>10 DEF IsLatest
  <2>2. i \in W /\ s[i].value = last[l]
    BY <1>8, <2>1
  <2>3. W \subseteq Nat /\ \A j \in W : j <= i
    <3> SUFFICES ASSUME NEW j \in W, ~(j <= i) PROVE FALSE
      BY <1>6
    <3>1. j \in i+1..m /\ j \in 1..m
      BY <1>6
    <3> QED
      BY <1>8, <2>1, <3>1
  <2>4. Max(W) = i
    <3> HIDE DEF W
    <3> QED
      BY <2>2, <2>3, MaxIs
  <2> QED
    BY <1>7, <2>2, <2>4
<1> QED
  BY <1>9, <1>10

(* parse_transaction_log returns, for every list, the count of the latest  *)
(* entry in the first `limit' transactions of the whole chain: for every   *)
(* log, rings of fragments included.                                       *)
THEOREM ReturnsCommitted == HSpec => []ReturnsCommittedCounts
<1>1. HInit => CInv
  BY HInvInit, InChainInit, CountsInit DEF CInv
<1>2. CInv /\ [HNext]_hvars => CInv'
  BY HInvNext, InChainNext, CountsNext DEF CInv
<1>3. CInv => ReturnsCommittedCounts
  BY CountsAreReference DEF CInv, ReturnsCommittedCounts
<1> QED
  BY <1>1, <1>2, <1>3, PTL DEF HSpec
=============================================================================
