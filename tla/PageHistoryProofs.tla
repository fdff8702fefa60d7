---------------------------- MODULE PageHistoryProofs ----------------------------
(***************************************************************************)
(* Proofs about PageHistory: series of any number of object spaces with    *)
(* any number of revisions and pages.                                      *)
(***************************************************************************)
EXTENDS PageHistory, SequenceTheorems, FiniteSetTheorems, WellFoundedInduction, TLAPS

-----------------------------------------------------------------------------
(* Least and greatest elements, and sequences put together.                *)

(* A set of numbers that is not empty has a least element: the intervals   *)
(* up to its elements are finite sets, and inclusion of those is           *)
(* well-founded.                                                           *)
LEMMA LeastNatural ==
    ASSUME NEW T, T \subseteq Nat, T # {}
    PROVE  \E x \in T : \A y \in T : x <= y
<1> DEFINE F == {0..n : n \in T}
<1>1. \A n \in Nat : 0..n \in FiniteSubsetsOf(Nat)
  <2> TAKE n \in Nat
  <2>1. IsFiniteSet(0..n)
    BY FS_Interval
  <2> QED
    BY <2>1 DEF FiniteSubsetsOf
<1>2. F \subseteq FiniteSubsetsOf(Nat) /\ F # {}
  BY <1>1
<1>3. \E x \in F : \A y \in F : ~ (<<y, x>> \in StrictSubsetOrdering(Nat))
  <2> HIDE DEF F
  <2> QED
    BY <1>2, FS_StrictSubsetOrderingWellFounded, WFMin
<1>4. PICK n \in T : \A m \in T : ~ (<<0..m, 0..n>> \in StrictSubsetOrdering(Nat))
  BY <1>3
<1>5. \A m \in T : n <= m
  <2> SUFFICES ASSUME NEW m \in T, m < n PROVE FALSE
    OBVIOUS
  <2>1. n \in 0..n /\ n \notin 0..m
    OBVIOUS
  <2>2. 0..m \subseteq 0..n /\ 0..m # 0..n /\ 0..m \subseteq Nat /\ 0..n \subseteq Nat
    BY <2>1
  <2> QED
    BY <1>4, <2>2 DEF StrictSubsetOrdering
<1> QED
  BY <1>5

LEMMA MaxOf ==
    ASSUME NEW S, S \subseteq Nat, S # {}, NEW b \in Nat, \A x \in S : x <= b
    PROVE  Max(S) \in S /\ \A x \in S : x <= Max(S)
<1> DEFINE U == {n \in Nat : \A x \in S : x <= n}
<1>1. PICK u \in U : \A n \in U : u <= n
  BY LeastNatural
<1>2. u \in S
  <2> SUFFICES ASSUME u \notin S PROVE FALSE
    OBVIOUS
  <2>1. \A x \in S : x <= u - 1
    OBVIOUS
  <2>2. u - 1 \in Nat
    <3>1. PICK x \in S : TRUE
      OBVIOUS
    <3>2. x \in Nat /\ x <= u - 1 /\ u \in Nat
      BY <2>1
    <3> QED
      BY <3>2
  <2>3. u - 1 \in U
    BY <2>1, <2>2
  <2> QED
    BY <1>1, <2>3
<1>3. \E x \in S : \A y \in S : x >= y
  BY <1>2
<1>4. Max(S) \in S /\ \A y \in S : Max(S) >= y
  BY <1>3 DEF Max
<1> QED
  BY <1>4

LEMMA MaxIs ==
    ASSUME NEW S, S \subseteq Nat, NEW m \in S, \A x \in S : x <= m
    PROVE  Max(S) = m
<1>1. Max(S) \in S /\ \A x \in S : x <= Max(S)
  BY MaxOf
<1>2. Max(S) <= m /\ m <= Max(S) /\ m \in Nat /\ Max(S) \in Nat
  BY <1>1
<1> QED
  BY <1>2

(* The function FlattenSeq computes on the first n sequences of ss.        *)
IsFlat(g, ss, n) ==
    g = [i \in 1..n |-> IF i = 1 THEN ss[i] ELSE g[i - 1] \o ss[i]]

LEMMA FlatExists ==
    ASSUME NEW ss, NEW n \in Nat
    PROVE  \E g : IsFlat(g, ss, n)
<1> DEFINE Bad == {k \in Nat : ~ \E g : IsFlat(g, ss, k)}
<1> SUFFICES ASSUME Bad # {} PROVE FALSE
  OBVIOUS
<1>1. PICK k \in Bad : \A j \in Bad : k <= j
  <2>1. Bad \subseteq Nat
    OBVIOUS
  <2> HIDE DEF Bad
  <2> QED
    BY <2>1, LeastNatural
<1>2. k \in Nat /\ ~ \E g : IsFlat(g, ss, k)
  OBVIOUS
<1>3. CASE k = 0
  <2> DEFINE g == [i \in 1..0 |-> ss[i]]
  <2>1. IsFlat(g, ss, 0)
    BY DEF IsFlat
  <2> QED
    BY <1>2, <1>3, <2>1
<1>4. CASE k # 0
  <2>1. k - 1 \in Nat /\ k - 1 < k
    BY <1>2, <1>4
  <2>2. k - 1 \notin Bad
    BY <1>1, <1>2, <2>1
  <2>3. PICK g : IsFlat(g, ss, k - 1)
    BY <2>1, <2>2
  <2> DEFINE h == [i \in 1..k |-> IF i = 1 THEN ss[i] ELSE g[i - 1] \o ss[i]]
  <2>4. \A i \in 1..(k - 1) : h[i] = g[i]
    <3> TAKE i \in 1..(k - 1)
    <3>1. i \in 1..k
      BY <1>2
    <3>2. h[i] = IF i = 1 THEN ss[i] ELSE g[i - 1] \o ss[i]
      BY <3>1
    <3>3. g[i] = IF i = 1 THEN ss[i] ELSE g[i - 1] \o ss[i]
      BY <2>3 DEF IsFlat
    <3> QED
      BY <3>2, <3>3
  <2>5. \A i \in 1..k : i # 1 => g[i - 1] = h[i - 1]
    <3> TAKE i \in 1..k
    <3> HAVE i # 1
    <3>1. i - 1 \in 1..(k - 1)
      BY <1>2
    <3> HIDE DEF h
    <3> QED
      BY <2>4, <3>1
  <2>6. h = [i \in 1..k |-> IF i = 1 THEN ss[i] ELSE h[i - 1] \o ss[i]]
    BY <2>5
  <2>7. IsFlat(h, ss, k)
    BY <2>6 DEF IsFlat
  <2> QED
    BY <1>2, <2>7
<1> QED
  BY <1>3, <1>4

LEMMA FlatIs ==
    ASSUME NEW ss, NEW n \in Nat, n = Len(ss), n # 0
    PROVE  \E g : IsFlat(g, ss, n) /\ FlattenSeq(ss) = g[n]
<1>1. PICK g : IsFlat(g, ss, n)
  BY FlatExists
<1> DEFINE f == CHOOSE h : h = [i \in 1..Len(ss) |-> IF i = 1 THEN ss[i] ELSE h[i - 1] \o ss[i]]
<1>2. f = [i \in 1..Len(ss) |-> IF i = 1 THEN ss[i] ELSE f[i - 1] \o ss[i]]
  BY <1>1 DEF IsFlat
<1>3. FlattenSeq(ss) = f[Len(ss)]
  BY DEF FlattenSeq
<1> HIDE DEF f
<1>4. IsFlat(f, ss, n)
  BY <1>2 DEF IsFlat
<1> QED
  BY <1>3, <1>4

LEMMA FlattenAppend ==
    ASSUME NEW S, NEW ss \in Seq(Seq(S)), NEW s \in Seq(S)
    PROVE  FlattenSeq(Append(ss, s)) = FlattenSeq(ss) \o s
<1> SUFFICES ASSUME NEW tt, tt = Append(ss, s),
                    NEW n \in Nat, n = Len(ss), NEW m \in Nat, m = n + 1
             PROVE  FlattenSeq(tt) = FlattenSeq(ss) \o s
  <2>1. Len(ss) \in Nat /\ Len(ss) + 1 \in Nat
    OBVIOUS
  <2> QED
    BY <2>1
<1>1. Len(tt) = m /\ m # 0 /\ tt[m] = s /\ \A i \in 1..n : ss[i] = tt[i]
  OBVIOUS
<1>2. PICK h : IsFlat(h, tt, m) /\ FlattenSeq(tt) = h[m]
  BY <1>1, FlatIs
<1>3. h[m] = IF m = 1 THEN tt[m] ELSE h[m - 1] \o tt[m]
  <2>1. m \in 1..m
    BY <1>1
  <2> QED
    BY <1>2, <2>1 DEF IsFlat
<1>4. CASE n = 0
  <2>1. ss = <<>> /\ FlattenSeq(ss) = <<>>
    <3>1. ss = <<>>
      BY <1>4, EmptySeq
    <3>2. Len(ss) = 0
      BY <1>4
    <3>3. FlattenSeq(ss) = ss
      BY <3>2, Zenon DEF FlattenSeq
    <3> QED
      BY <3>1, <3>3
  <2>2. FlattenSeq(tt) = s
    BY <1>1, <1>2, <1>3, <1>4
  <2> QED
    BY <2>1, <2>2
<1>5. CASE n # 0
  <2>1. PICK g : IsFlat(g, ss, n) /\ FlattenSeq(ss) = g[n]
    BY <1>5, FlatIs
  <2>2. g[n] = h[n]
    <3> DEFINE Bad == {k \in 1..n : g[k] # h[k]}
    <3> SUFFICES ASSUME Bad # {} PROVE FALSE
      <4>1. n \in 1..n
        BY <1>5
      <4> QED
        BY <4>1
    <3>1. PICK k \in Bad : \A i \in Bad : k <= i
      <4>1. Bad \subseteq Nat
        OBVIOUS
      <4> HIDE DEF Bad
      <4> QED
        BY <4>1, LeastNatural
    <3>2. k \in 1..n /\ k \in 1..m /\ g[k] # h[k]
      OBVIOUS
    <3>3. /\ g[k] = IF k = 1 THEN ss[k] ELSE g[k - 1] \o ss[k]
          /\ h[k] = IF k = 1 THEN tt[k] ELSE h[k - 1] \o tt[k]
      BY <1>2, <2>1, <3>2 DEF IsFlat
    <3>4. k # 1
      BY <1>1, <3>2, <3>3
    <3>5. k - 1 \in 1..n /\ k - 1 < k
      BY <3>2, <3>4
    <3>6. g[k - 1] = h[k - 1]
      BY <3>1, <3>2, <3>5
    <3> QED
      BY <1>1, <3>2, <3>3, <3>4, <3>6
  <2>3. g[n] = h[n] /\ m - 1 = n /\ m # 1
    BY <1>5, <2>2
  <2> QED
    BY <1>1, <1>2, <1>3, <2>1, <2>3
<1> QED
  BY <1>4, <1>5

-----------------------------------------------------------------------------
(* The pages of one revision.                                              *)

AllSpaces == UNION {Space(n) : n \in Nat}

LEMMA OrderIs ==
    ASSUME NEW order \in Orders
    PROVE  order \in Seq(Oids) /\ IsInjective(order)
BY FewOids, FS_CardinalityType DEF Orders

LEMMA ExtractIs ==
    ASSUME NEW revision \in Revision
    PROVE  LET snap == Extract(revision) IN
           /\ snap \in Seq(Page)
           /\ \A i, j \in DOMAIN snap : snap[i].oid = snap[j].oid => i = j
           /\ {p.oid : p \in Range(snap)} = Range(revision.order)
<1>1. PICK order \in Orders : revision \in [order : {order}, text : [Range(order) -> Texts]]
  BY DEF Revision
<1>2. revision.order = order /\ revision.text \in [Range(order) -> Texts]
  BY <1>1
<1>3. order \in Seq(Oids) /\ IsInjective(order)
  BY OrderIs
<1> DEFINE snap == Extract(revision)
<1>4. /\ Len(order) \in Nat /\ DOMAIN order = 1..Len(order)
      /\ snap = [k \in 1..Len(order) |-> [oid |-> order[k], text |-> revision.text[order[k]]]]
  BY <1>2, <1>3 DEF Extract
<1>5. \A k \in 1..Len(order) : order[k] \in Oids /\ order[k] \in Range(order)
  BY <1>3, <1>4 DEF Range
<1>6. \A k \in 1..Len(order) : snap[k] \in Page /\ snap[k].oid = order[k]
  BY <1>2, <1>4, <1>5 DEF Page
<1>7. DOMAIN snap = 1..Len(order)
  BY <1>4
<1> HIDE DEF snap
<1>8. snap \in Seq(Page)
  <2>1. snap \in [1..Len(order) -> Page]
    BY <1>4, <1>6, <1>7
  <2> QED
    BY <1>4, <2>1
<1>9. \A i, j \in DOMAIN snap : snap[i].oid = snap[j].oid => i = j
  BY <1>3, <1>4, <1>6, <1>7 DEF IsInjective
<1>10. {p.oid : p \in Range(snap)} = Range(revision.order)
  BY <1>2, <1>4, <1>6, <1>7 DEF Range
<1> QED
  BY <1>8, <1>9, <1>10 DEF snap

LEMMA SpaceIs ==
    ASSUME NEW s \in AllSpaces
    PROVE  /\ s.latest \in Nat \ {0}
           /\ s.latest \in 1..Len(s.revisions)
           /\ \A r \in 1..s.latest : s.revisions[r] \in Revision
<1>1. PICK n \in Nat : s \in Space(n)
  BY DEF AllSpaces
<1>2. s.revisions \in [1..n -> Revision] /\ s.latest \in 1..n
  BY <1>1 DEF Space
<1>3. Len(s.revisions) = n
  BY <1>2
<1> QED
  BY <1>2, <1>3

(* What a snapshot shows of a page is at most one page.                    *)
LEMMA HitsAre ==
    ASSUME NEW revision \in Revision, NEW o \in Oids
    PROVE  LET hits == Hits(Extract(revision), o) IN
           /\ hits \subseteq Page
           /\ \A p, q \in hits : p = q
           /\ o \in Range(revision.order) => hits # {}
<1> DEFINE snap == Extract(revision)
           same == {p \in Range(snap) : p.oid = o}
<1>1. /\ snap \in Seq(Page)
      /\ \A i, j \in DOMAIN snap : snap[i].oid = snap[j].oid => i = j
      /\ {p.oid : p \in Range(snap)} = Range(revision.order)
  BY ExtractIs
<1>2. Hits(snap, o) = IF same = {} /\ Len(snap) = 1 THEN {snap[1]} ELSE same
  BY DEF Hits
<1> HIDE DEF snap
<1>3. \A p, q \in same : p = q
  <2> TAKE p, q \in same
  <2>1. PICK i \in DOMAIN snap : p = snap[i]
    BY DEF Range
  <2>2. PICK j \in DOMAIN snap : q = snap[j]
    BY DEF Range
  <2>3. p.oid = o /\ q.oid = o
    OBVIOUS
  <2> QED
    BY <1>1, <2>1, <2>2, <2>3
<1>4. same \subseteq Page
  BY <1>1 DEF Range
<1>5. Len(snap) = 1 => snap[1] \in Page
  BY <1>1
<1>6. o \in Range(revision.order) => same # {}
  BY <1>1
<1> HIDE DEF same
<1> QED
  BY <1>2, <1>3, <1>4, <1>5, <1>6 DEF snap

LEMMA StateIs ==
    ASSUME NEW s \in AllSpaces, NEW o \in Oids, NEW r \in 1..s.latest,
           NEW p \in Hits(Extract(s.revisions[r]), o)
    PROVE  p = StateOf(s, o, r) /\ p \in Page /\ r \in Shown(s, o)
<1>1. s.revisions[r] \in Revision
  BY SpaceIs
<1>2. /\ Hits(Extract(s.revisions[r]), o) \subseteq Page
      /\ \A a, b \in Hits(Extract(s.revisions[r]), o) : a = b
  BY <1>1, HitsAre
<1>3. StateOf(s, o, r) \in Hits(Extract(s.revisions[r]), o)
  BY DEF StateOf
<1> QED
  BY <1>2, <1>3 DEF Shown

-----------------------------------------------------------------------------
(* The states of one page that are collected from the first snapshots of   *)
(* an object space: u has those of the changes among the first `to'.       *)

IsStates(u, s, o, to) ==
    \E revs \in [1..Len(u) -> {r \in Changed(s, o) : r <= to}] :
      /\ \A r \in Changed(s, o) : r <= to => \E i \in 1..Len(u) : revs[i] = r
      /\ \A i, j \in 1..Len(u) : i < j => revs[i] < revs[j]
      /\ \A i \in 1..Len(u) : u[i] = StateOf(s, o, revs[i])

(* The text seen last is that of the last state collected.                 *)
LastShown(u, s, o, to) ==
    \A q \in Shown(s, o) :
        q <= to /\ (\A k \in Shown(s, o) : k <= to => k <= q)
          => u # <<>> /\ u[Len(u)].text = StateOf(s, o, q).text

LEMMA ShownAre ==
    ASSUME NEW s \in AllSpaces, NEW o
    PROVE  /\ s.latest \in Nat \ {0}
           /\ Shown(s, o) \subseteq 1..s.latest /\ Changed(s, o) \subseteq Shown(s, o)
           /\ Shown(s, o) \subseteq Nat /\ Changed(s, o) \subseteq Nat
<1>1. s.latest \in Nat \ {0}
  BY SpaceIs
<1> QED
  BY <1>1 DEF Shown, Changed

(* A revision that shows a page shows it changed if it is the first to, or *)
(* if the text differs from that of the revision that showed it before.    *)
LEMMA ChangedIs ==
    ASSUME NEW s \in AllSpaces, NEW o \in Oids, NEW u \in Seq(Page), NEW to \in Nat,
           IsStates(u, s, o, to), LastShown(u, s, o, to),
           NEW r \in Shown(s, o), r = to + 1
    PROVE  r \in Changed(s, o) <=> u = <<>> \/ StateOf(s, o, r).text # u[Len(u)].text
<1> DEFINE earlier == {q \in Shown(s, o) : q < r}
<1>1. Shown(s, o) \subseteq Nat /\ Changed(s, o) \subseteq Shown(s, o)
  BY ShownAre
<1>2. \A q \in Shown(s, o) : q < r <=> q <= to
  BY <1>1
<1>3. r \in Changed(s, o) <=>
        (earlier # {} => StateOf(s, o, Max(earlier)).text # StateOf(s, o, r).text)
  BY DEF Changed
<1>4. CASE earlier = {}
  <2>1. \A q \in Changed(s, o) : ~(q <= to)
    BY <1>1, <1>2, <1>4
  <2>2. Len(u) = 0
    <3> SUFFICES ASSUME Len(u) # 0 PROVE FALSE
      OBVIOUS
    <3>1. 1 \in 1..Len(u)
      OBVIOUS
    <3> QED
      BY <2>1, <3>1 DEF IsStates
  <2>3. u = <<>>
    BY <2>2, EmptySeq
  <2> QED
    BY <1>3, <1>4, <2>3
<1>5. CASE earlier # {}
  <2>1. Max(earlier) \in earlier /\ \A q \in earlier : q <= Max(earlier)
    <3>1. earlier \subseteq Nat /\ \A q \in earlier : q <= to
      BY <1>1, <1>2
    <3> HIDE DEF earlier
    <3> QED
      BY <1>5, <3>1, MaxOf
  <2>2. PICK q : q = Max(earlier)
    OBVIOUS
  <2>3. q \in Shown(s, o) /\ q <= to /\ \A k \in Shown(s, o) : k <= to => k <= q
    BY <1>2, <2>1, <2>2
  <2>4. u # <<>> /\ u[Len(u)].text = StateOf(s, o, q).text
    BY <2>3 DEF LastShown
  <2> QED
    BY <1>3, <1>5, <2>2, <2>4
<1> QED
  BY <1>4, <1>5

LEMMA StatesNone ==
    ASSUME NEW s \in AllSpaces, NEW o \in Oids
    PROVE  IsStates(<<>>, s, o, 0) /\ LastShown(<<>>, s, o, 0)
<1>1. /\ Shown(s, o) \subseteq 1..s.latest /\ Changed(s, o) \subseteq Shown(s, o)
      /\ s.latest \in Nat
  BY ShownAre
<1>2. \A q \in Shown(s, o) : ~(q <= 0)
  BY <1>1
<1>3. LastShown(<<>>, s, o, 0)
  BY <1>2 DEF LastShown
<1>4. {r \in Changed(s, o) : r <= 0} = {} /\ Len(<<>>) = 0
  BY <1>1, <1>2
<1>5. IsStates(<<>>, s, o, 0)
  <2> DEFINE revs == [i \in 1..0 |-> 0]
  <2>1. revs \in [1..0 -> {r \in Changed(s, o) : r <= 0}]
    OBVIOUS
  <2> QED
    BY <1>4, <2>1 DEF IsStates
<1> QED
  BY <1>3, <1>5

LEMMA StatesSkip ==
    ASSUME NEW s \in AllSpaces, NEW o \in Oids, NEW u \in Seq(Page), NEW to \in Nat, NEW r \in Nat,
           IsStates(u, s, o, to), LastShown(u, s, o, to), r = to + 1,
           r \notin Shown(s, o)
    PROVE  IsStates(u, s, o, r) /\ LastShown(u, s, o, r)
<1>1. Shown(s, o) \subseteq Nat /\ Changed(s, o) \subseteq Shown(s, o)
  BY ShownAre
<1>2. \A q \in Shown(s, o) : q <= r <=> q <= to
  BY <1>1
<1>3. {q \in Changed(s, o) : q <= r} = {q \in Changed(s, o) : q <= to}
  BY <1>1, <1>2
<1>4. IsStates(u, s, o, r)
  <2>1. PICK revs \in [1..Len(u) -> {q \in Changed(s, o) : q <= to}] :
          /\ \A q \in Changed(s, o) : q <= to => \E i \in 1..Len(u) : revs[i] = q
          /\ \A i, j \in 1..Len(u) : i < j => revs[i] < revs[j]
          /\ \A i \in 1..Len(u) : u[i] = StateOf(s, o, revs[i])
    BY DEF IsStates
  <2>2. revs \in [1..Len(u) -> {q \in Changed(s, o) : q <= r}]
    BY <1>3, <2>1
  <2>3. \A q \in Changed(s, o) : q <= r => \E i \in 1..Len(u) : revs[i] = q
    BY <1>1, <1>2, <2>1
  <2> QED
    BY <2>1, <2>2, <2>3 DEF IsStates
<1>5. LastShown(u, s, o, r)
  BY <1>2 DEF LastShown
<1> QED
  BY <1>4, <1>5

LEMMA StatesSame ==
    ASSUME NEW s \in AllSpaces, NEW o \in Oids, NEW u \in Seq(Page), NEW to \in Nat, NEW r \in Nat,
           IsStates(u, s, o, to), LastShown(u, s, o, to), r = to + 1,
           r \in Shown(s, o), u # <<>>, StateOf(s, o, r).text = u[Len(u)].text
    PROVE  IsStates(u, s, o, r) /\ LastShown(u, s, o, r)
<1>1. Shown(s, o) \subseteq Nat /\ Changed(s, o) \subseteq Shown(s, o)
  BY ShownAre
<1>2. r \notin Changed(s, o)
  BY ChangedIs
<1>3. \A q \in Changed(s, o) : q <= r <=> q <= to
  BY <1>1, <1>2
<1>4. {q \in Changed(s, o) : q <= r} = {q \in Changed(s, o) : q <= to}
  BY <1>3
<1>5. IsStates(u, s, o, r)
  <2>1. PICK revs \in [1..Len(u) -> {q \in Changed(s, o) : q <= to}] :
          /\ \A q \in Changed(s, o) : q <= to => \E i \in 1..Len(u) : revs[i] = q
          /\ \A i, j \in 1..Len(u) : i < j => revs[i] < revs[j]
          /\ \A i \in 1..Len(u) : u[i] = StateOf(s, o, revs[i])
    BY DEF IsStates
  <2>2. revs \in [1..Len(u) -> {q \in Changed(s, o) : q <= r}]
    BY <1>4, <2>1
  <2>3. \A q \in Changed(s, o) : q <= r => \E i \in 1..Len(u) : revs[i] = q
    BY <1>3, <2>1
  <2> QED
    BY <2>1, <2>2, <2>3 DEF IsStates
<1>6. LastShown(u, s, o, r)
  <2> SUFFICES ASSUME NEW q \in Shown(s, o), q <= r, \A k \in Shown(s, o) : k <= r => k <= q
               PROVE  u # <<>> /\ u[Len(u)].text = StateOf(s, o, q).text
    BY DEF LastShown
  <2>1. q = r
    BY <1>1
  <2> QED
    BY <2>1
<1> QED
  BY <1>5, <1>6

LEMMA StatesSee ==
    ASSUME NEW s \in AllSpaces, NEW o \in Oids, NEW u \in Seq(Page), NEW to \in Nat, NEW r \in Nat,
           IsStates(u, s, o, to), LastShown(u, s, o, to), r = to + 1,
           r \in Shown(s, o), NEW p \in Page, p = StateOf(s, o, r),
           u = <<>> \/ p.text # u[Len(u)].text
    PROVE  IsStates(Append(u, p), s, o, r) /\ LastShown(Append(u, p), s, o, r)
<1>1. Shown(s, o) \subseteq Nat /\ Changed(s, o) \subseteq Shown(s, o)
  BY ShownAre
<1>2. r \in Changed(s, o)
  BY ChangedIs
<1>3. \A q \in Changed(s, o) : q <= r <=> q <= to \/ q = r
  BY <1>1
<1>4. PICK v \in Seq(Page), n \in Nat :
        /\ v = Append(u, p) /\ n = Len(u) /\ Len(v) = n + 1 /\ v # <<>>
        /\ v[n + 1] = p /\ \A i \in 1..n : v[i] = u[i]
  <2>1. PICK v : v = Append(u, p)
    OBVIOUS
  <2>2. PICK n : n = Len(u)
    OBVIOUS
  <2>3. /\ v \in Seq(Page) /\ n \in Nat /\ Len(v) = n + 1 /\ v # <<>>
        /\ v[n + 1] = p /\ \A i \in 1..n : v[i] = u[i]
    BY <2>1, <2>2
  <2> QED
    BY <2>1, <2>2, <2>3
<1>5. IsStates(v, s, o, r)
  <2>1. PICK revs \in [1..Len(u) -> {q \in Changed(s, o) : q <= to}] :
          /\ \A q \in Changed(s, o) : q <= to => \E i \in 1..Len(u) : revs[i] = q
          /\ \A i, j \in 1..Len(u) : i < j => revs[i] < revs[j]
          /\ \A i \in 1..Len(u) : u[i] = StateOf(s, o, revs[i])
    BY DEF IsStates
  <2> DEFINE more == [i \in 1..(n + 1) |-> IF i <= n THEN revs[i] ELSE r]
  <2>2. more[n + 1] = r /\ \A i \in 1..n : more[i] = revs[i]
    BY <1>4
  <2>3. more \in [1..(n + 1) -> {q \in Changed(s, o) : q <= r}]
    <3>1. \A i \in 1..(n + 1) : i <= n => i \in 1..n
      BY <1>4
    <3>2. \A i \in 1..n : revs[i] \in Changed(s, o) /\ revs[i] <= to
      BY <1>4, <2>1
    <3> QED
      BY <1>1, <1>2, <3>1, <3>2
  <2> HIDE DEF more
  <2>4. ASSUME NEW q \in Changed(s, o), q <= r
        PROVE  \E i \in 1..(n + 1) : more[i] = q
    <3>1. CASE q = r
      <4>1. n + 1 \in 1..(n + 1)
        BY <1>4
      <4> QED
        BY <2>2, <3>1, <4>1
    <3>2. CASE q # r
      <4>1. q <= to
        BY <1>3, <2>4, <3>2
      <4>2. PICK i \in 1..n : revs[i] = q
        BY <1>4, <2>1, <4>1
      <4> QED
        BY <1>4, <2>2, <4>2
    <3> QED
      BY <3>1, <3>2
  <2>5. ASSUME NEW i \in 1..(n + 1), NEW j \in 1..(n + 1), i < j
        PROVE  more[i] < more[j]
    <3>1. i \in 1..n
      BY <1>4, <2>5
    <3>2. revs[i] <= to /\ revs[i] \in Nat
      BY <1>1, <1>4, <2>1, <3>1
    <3>3. CASE j = n + 1
      BY <2>2, <3>1, <3>2, <3>3
    <3>4. CASE j # n + 1
      <4>1. j \in 1..n
        BY <1>4, <3>4
      <4> QED
        BY <1>4, <2>1, <2>2, <2>5, <3>1, <4>1
    <3> QED
      BY <3>3, <3>4
  <2>6. ASSUME NEW i \in 1..(n + 1)
        PROVE  v[i] = StateOf(s, o, more[i])
    <3>1. CASE i = n + 1
      BY <1>4, <2>2, <3>1
    <3>2. CASE i # n + 1
      <4>1. i \in 1..n
        BY <1>4, <3>2
      <4> QED
        BY <1>4, <2>1, <2>2, <4>1
    <3> QED
      BY <3>1, <3>2
  <2>7. Len(v) = n + 1
    BY <1>4
  <2> HIDE <1>4
  <2>8. \E list \in [1..Len(v) -> {q \in Changed(s, o) : q <= r}] :
           /\ \A q \in Changed(s, o) : q <= r => \E i \in 1..Len(v) : list[i] = q
           /\ \A i, j \in 1..Len(v) : i < j => list[i] < list[j]
           /\ \A i \in 1..Len(v) : v[i] = StateOf(s, o, list[i])
    BY <2>3, <2>4, <2>5, <2>6, <2>7, Zenon
  <2> QED
    BY <2>8, Zenon DEF IsStates
<1>6. LastShown(v, s, o, r)
  <2> SUFFICES ASSUME NEW q \in Shown(s, o), q <= r, \A k \in Shown(s, o) : k <= r => k <= q
               PROVE  v # <<>> /\ v[Len(v)].text = StateOf(s, o, q).text
    BY DEF LastShown
  <2>1. q = r
    BY <1>1
  <2> QED
    BY <1>4, <2>1
<1> QED
  BY <1>4, <1>5, <1>6

(* All states of a page that has been seen in every snapshot: the past of  *)
(* it is its history, if it has changed.                                   *)
LEMMA StatesAreHistory ==
    ASSUME NEW s \in AllSpaces, NEW o \in Oids, NEW u \in Seq(Page),
           IsStates(u, s, o, s.latest)
    PROVE  /\ Len(u) >= 2 <=> \E q, r \in Changed(s, o) : q # r
           /\ Len(u) >= 2 => Past(u) \in Seq(Page) /\ IsHistoryIn(Past(u), s, o)
<1>1. /\ Shown(s, o) \subseteq 1..s.latest /\ Changed(s, o) \subseteq Shown(s, o)
      /\ Changed(s, o) \subseteq Nat /\ s.latest \in Nat
  BY ShownAre
<1>2. \A q \in Changed(s, o) : q <= s.latest
  BY <1>1
<1>3. PICK n \in Nat : n = Len(u)
  OBVIOUS
<1>4. PICK revs \in [1..n -> Changed(s, o)] :
        /\ \A q \in Changed(s, o) : \E i \in 1..n : revs[i] = q
        /\ \A i, j \in 1..n : i < j => revs[i] < revs[j]
        /\ \A i \in 1..n : u[i] = StateOf(s, o, revs[i])
  <2>1. {r \in Changed(s, o) : r <= s.latest} = Changed(s, o)
    BY <1>2
  <2> QED
    BY <1>2, <1>3, <2>1 DEF IsStates
<1>5. n >= 2 => \E q, r \in Changed(s, o) : q # r
  <2> HAVE n >= 2
  <2>1. 1 \in 1..n /\ 2 \in 1..n
    BY <1>3
  <2>2. revs[1] < revs[2] /\ revs[1] \in Changed(s, o) /\ revs[2] \in Changed(s, o)
    BY <1>4, <2>1
  <2>3. revs[1] # revs[2]
    BY <1>1, <2>2
  <2> QED
    BY <2>2, <2>3
<1>6. (\E q, r \in Changed(s, o) : q # r) => n >= 2
  <2> SUFFICES ASSUME NEW q \in Changed(s, o), NEW r \in Changed(s, o), q # r PROVE n >= 2
    OBVIOUS
  <2>1. PICK i \in 1..n : revs[i] = q
    BY <1>4
  <2>2. PICK j \in 1..n : revs[j] = r
    BY <1>4
  <2>3. i # j
    BY <2>1, <2>2
  <2> QED
    BY <1>3, <2>3
<1>7. ASSUME n >= 2
      PROVE  Past(u) \in Seq(Page) /\ IsHistoryIn(Past(u), s, o)
  <2>1. PICK m \in Nat : m = n - 1 /\ m # 0
    BY <1>3, <1>7
  <2>2. PICK h : h = Past(u)
    OBVIOUS
  <2>3. Front(u) = [i \in 1..m |-> u[i]] /\ Len(Front(u)) = m
    <3>1. Front(u) = SubSeq(u, 1, m)
      BY <1>3, <2>1 DEF Front
    <3>2. SubSeq(u, 1, m) = [i \in 1..m |-> u[i]]
      BY <1>3, <2>1
    <3> QED
      BY <2>1, <3>1, <3>2
  <2>4. h = [i \in 1..m |-> u[m - i + 1]]
    <3>1. \A i \in 1..m : m - i + 1 \in 1..m
      BY <2>1
    <3>2. h = [i \in 1..m |-> Front(u)[m - i + 1]]
      BY <2>2, <2>3 DEF Past, Reverse
    <3> QED
      BY <2>3, <3>1, <3>2
  <2>5. \A i \in 1..m : m - i + 1 \in 1..n /\ m - i + 1 < n
    BY <1>3, <2>1
  <2>6. h \in Seq(Page) /\ DOMAIN h = 1..m
    <3>1. h \in [1..m -> Page]
      BY <1>3, <2>4, <2>5
    <3> QED
      BY <2>1, <3>1
  <2>7. Max(Changed(s, o)) = revs[n]
    <3>1. n \in 1..n /\ revs[n] \in Changed(s, o)
      BY <1>3, <1>4, <1>7
    <3>2. ASSUME NEW q \in Changed(s, o) PROVE q <= revs[n]
      <4>1. PICK i \in 1..n : revs[i] = q
        BY <1>4
      <4>2. i = n \/ i < n
        BY <1>3
      <4> QED
        BY <1>1, <1>4, <3>1, <4>1, <4>2
    <3> QED
      BY <1>1, <3>1, <3>2, MaxIs
  <2> DEFINE past == Changed(s, o) \ {Max(Changed(s, o))}
             back == [i \in 1..m |-> revs[m - i + 1]]
  <2>8. \A i \in 1..n : revs[i] \in Changed(s, o) /\ (i # n => revs[i] \in past)
    <3> TAKE i \in 1..n
    <3>1. i # n => revs[i] < revs[n]
      <4>1. n \in 1..n /\ (i # n => i < n)
        BY <1>3, <1>7
      <4> QED
        BY <1>4, <4>1
    <3>2. revs[i] \in Nat /\ revs[n] \in Nat /\ revs[i] \in Changed(s, o)
      <4>1. n \in 1..n
        BY <1>3, <1>7
      <4> QED
        BY <1>1, <1>4, <4>1
    <3> QED
      BY <2>7, <3>1, <3>2
  <2>9. back \in [DOMAIN h -> past]
    BY <1>3, <2>5, <2>6, <2>8
  <2>10. Range(back) = past
    <3>1. ASSUME NEW q \in past PROVE q \in Range(back)
      <4>1. PICK i \in 1..n : revs[i] = q
        BY <1>4
      <4>2. i # n
        BY <2>7, <4>1
      <4>3. m - i + 1 \in 1..m /\ m - (m - i + 1) + 1 = i
        BY <1>3, <2>1, <4>2
      <4>4. back[m - i + 1] = q
        BY <4>1, <4>3
      <4> QED
        BY <4>3, <4>4 DEF Range
    <3>2. Range(back) \subseteq past
      BY <2>9 DEF Range
    <3> QED
      BY <3>1, <3>2
  <2>11. \A i, j \in DOMAIN h : i < j => back[i] > back[j]
    <3> SUFFICES ASSUME NEW i \in 1..m, NEW j \in 1..m, i < j PROVE back[j] < back[i]
      <4>1. \A i \in 1..m : back[i] \in Nat
        BY <1>1, <2>6, <2>9
      <4> QED
        BY <2>6, <4>1
    <3>1. m - j + 1 < m - i + 1
      BY <2>1
    <3>2. revs[m - j + 1] < revs[m - i + 1]
      BY <1>4, <2>5, <3>1
    <3> QED
      BY <3>2
  <2>12. \A i \in DOMAIN h : h[i] = StateOf(s, o, back[i])
    BY <1>4, <2>4, <2>5, <2>6
  <2> HIDE DEF back
  <2> QED
    BY <2>2, <2>6, <2>9, <2>10, <2>11, <2>12 DEF IsHistoryIn
<1> QED
  BY <1>3, <1>5, <1>6, <1>7

-----------------------------------------------------------------------------
(* The loops over the object spaces of a series.  The snapshots are those  *)
(* of the current object space, the states those of the page at hand in    *)
(* the snapshots looked at, and each page has the history of the last of   *)
(* the object spaces that are done with for it.                            *)

HistoryTypes ==
    /\ include \in BOOLEAN
    /\ pc \in {"series", "snapshots", "oids", "history", "done", "failed"}
    /\ spaces \in Seq(AllSpaces) /\ pages \in Seq(Page) /\ snaps \in Seq(Seq(Page))
    /\ left \subseteq Oids /\ oid \in Oids \cup {NoOid} /\ at \in Nat
    /\ unique \in Seq(Page) /\ histories \in [Oids -> Seq(Page)]

Inside    == pc \in {"snapshots", "oids", "history"}
OidsShown == {p.oid : p \in UNION {Range(snap) : snap \in Range(snaps)}}

SpaceInv ==
    /\ Inside =>
         /\ include /\ spaces # <<>> /\ Len(snaps) <= Current.latest
         /\ \A k \in 1..Len(snaps) : snaps[k] = Extract(Current.revisions[k])
    /\ pc \in {"oids", "history"} => Len(snaps) = Current.latest /\ left \subseteq OidsShown
    /\ pc = "series" => snaps = <<>>
    /\ pc # "history" /\ pc # "done" /\ pc # "failed" => oid = NoOid /\ at = 0 /\ unique = <<>>
    /\ pc = "history" =>
         /\ oid \in OidsShown /\ oid \notin left /\ at <= Len(snaps)
         /\ IsStates(unique, Current, oid, at) /\ LastShown(unique, Current, oid, at)

CurrentPages(list) == [j \in DOMAIN list |-> Extract(list[j].revisions[list[j].latest])]
PagesInv == pages = FlattenSeq(CurrentPages(spaces))

Settled(o) ==
    {k \in DOMAIN spaces :
       k < Len(spaces) \/ ~Inside \/ (pc # "snapshots" /\ o \notin left /\ o # oid)}
Told(o) == IF include THEN HasHistory(o) \cap Settled(o) ELSE {}
IsToldBy(h, list, K, o) ==
    IF K = {} THEN h = <<>> ELSE IsHistoryIn(h, list[Max(K)], o)

ToldInv == pc # "failed" => \A o \in Oids : IsToldBy(histories[o], spaces, Told(o), o)

ResultInv ==
    pc = "done" =>
        /\ DOMAIN result = DOMAIN pages
        /\ \A k \in DOMAIN pages :
             result[k].page = pages[k] /\ result[k].history = histories[pages[k].oid]

HistoryInv == HistoryTypes /\ SpaceInv /\ PagesInv /\ ToldInv /\ ResultInv

LEMMA HistoryStart == Init => HistoryInv
<1> SUFFICES ASSUME Init PROVE HistoryInv
  OBVIOUS
<1>1. HistoryTypes
  BY DEF Init, HistoryTypes
<1>2. SpaceInv
  BY DEF Init, SpaceInv, Inside
<1>3. PagesInv
  <2>1. CurrentPages(spaces) = <<>>
    BY DEF Init, CurrentPages
  <2>2. FlattenSeq(<<>>) = <<>>
    BY DEF FlattenSeq
  <2> QED
    BY <2>1, <2>2 DEF Init, PagesInv
<1>4. ToldInv
  <2>1. \A o \in Oids : Told(o) = {}
    BY DEF Init, Told, Settled
  <2> QED
    BY <2>1 DEF Init, ToldInv, IsToldBy
<1>5. ResultInv
  BY DEF Init, ResultInv
<1> QED
  BY <1>1, <1>2, <1>3, <1>4, <1>5 DEF HistoryInv

(* Steps that neither read an object space nor write a history.            *)
LEMMA ToldStays ==
    ASSUME HistoryInv, UNCHANGED <<include, spaces, histories>>, pc # "failed",
           \A o \in Oids : HasHistory(o) \cap (Settled(o))' = HasHistory(o) \cap Settled(o)
    PROVE  ToldInv'
<1>1. \A o \in Oids : (HasHistory(o))' = HasHistory(o)
  BY DEF HasHistory, SpacesOf
<1>2. \A o \in Oids : (Told(o))' = Told(o)
  BY <1>1 DEF Told
<1>3. \A o \in Oids : IsToldBy(histories[o], spaces, Told(o), o)
  BY DEF HistoryInv, ToldInv
<1>4. \A o \in Oids : IsToldBy(histories'[o], spaces', (Told(o))', o)
  BY <1>2, <1>3
<1> QED
  BY <1>4 DEF ToldInv

LEMMA OidsShownAre == HistoryTypes => OidsShown \subseteq Oids
<1> SUFFICES ASSUME HistoryTypes, NEW snap \in Range(snaps), NEW p \in Range(snap)
             PROVE  p.oid \in Oids
  BY DEF OidsShown
<1>1. snap \in Seq(Page)
  BY DEF HistoryTypes, Range
<1>2. p \in Page
  BY <1>1 DEF Range
<1> QED
  BY <1>2 DEF Page

LEMMA CurrentIs ==
    ASSUME HistoryTypes, spaces # <<>>
    PROVE  Current \in AllSpaces /\ Len(spaces) \in DOMAIN spaces /\ Current = spaces[Len(spaces)]
BY DEF HistoryTypes, Current, Last

(* The pages of which histories are made are those the object space shows. *)
LEMMA ShownIs ==
    ASSUME HistoryInv, Inside, Len(snaps) = Current.latest, NEW o \in Oids
    PROVE  o \in OidsShown <=> Len(spaces) \in SpacesOf(o)
<1>1. PICK c : c = Current
  OBVIOUS
<1>2. c \in AllSpaces /\ Len(spaces) \in DOMAIN spaces /\ c = spaces[Len(spaces)]
  BY <1>1, CurrentIs DEF HistoryInv, SpaceInv
<1>3. /\ DOMAIN snaps = 1..c.latest /\ c.latest \in Nat
      /\ \A k \in 1..c.latest : snaps[k] = Extract(c.revisions[k])
  BY <1>1, <1>2, SpaceIs DEF HistoryInv, HistoryTypes, SpaceInv
<1>4. \A k \in 1..c.latest : {p.oid : p \in Range(snaps[k])} = Range(c.revisions[k].order)
  <2> TAKE k \in 1..c.latest
  <2>1. c.revisions[k] \in Revision
    BY <1>2, SpaceIs
  <2> QED
    BY <1>3, <2>1, ExtractIs
<1>5. o \in OidsShown <=> \E k \in 1..c.latest : o \in {p.oid : p \in Range(snaps[k])}
  BY <1>3 DEF OidsShown, Range
<1>6. Len(spaces) \in SpacesOf(o) <=> \E k \in 1..c.latest : o \in Range(c.revisions[k].order)
  BY <1>2 DEF SpacesOf
<1> QED
  BY <1>4, <1>5, <1>6

LEMMA SettledAll ==
    ASSUME ~Inside, NEW o
    PROVE  Settled(o) = DOMAIN spaces
BY DEF Settled

LEMMA DoReadSpace == ASSUME HistoryInv, ReadSpace PROVE HistoryInv'
<1>0. HistoryTypes /\ SpaceInv /\ PagesInv /\ ToldInv /\ pc = "series"
  BY DEF HistoryInv, ReadSpace
<1>1. PICK n \in 1..MaxRevisions : \E s \in Space(n) :
        spaces' = Append(spaces, s) /\ pages' = pages \o Extract(s.revisions[s.latest])
  BY DEF ReadSpace
<1>2. PICK s \in Space(n) :
        spaces' = Append(spaces, s) /\ pages' = pages \o Extract(s.revisions[s.latest])
  BY <1>1
<1>3. /\ pc' = IF include THEN "snapshots" ELSE "series"
      /\ UNCHANGED <<include, snaps, left, oid, at, unique, histories, result>>
  BY DEF ReadSpace, space
<1>4. s \in AllSpaces
  <2>1. n \in Nat
    OBVIOUS
  <2> QED
    BY <2>1 DEF AllSpaces
<1>5. s.latest \in Nat \ {0} /\ Extract(s.revisions[s.latest]) \in Seq(Page)
  <2>1. s.latest \in Nat \ {0} /\ \A r \in 1..s.latest : s.revisions[r] \in Revision
    BY <1>4, SpaceIs
  <2>2. s.latest \in 1..s.latest
    BY <2>1
  <2> QED
    BY <2>1, <2>2, ExtractIs
<1>6. PICK m \in Nat : m = Len(spaces)
  BY <1>0 DEF HistoryTypes
<1>7. /\ spaces' \in Seq(AllSpaces) /\ Len(spaces') = m + 1 /\ spaces' # <<>>
      /\ spaces'[m + 1] = s /\ \A i \in 1..m : spaces'[i] = spaces[i]
      /\ DOMAIN spaces = 1..m /\ DOMAIN spaces' = 1..(m + 1)
  BY <1>0, <1>2, <1>4, <1>6 DEF HistoryTypes
<1>8. HistoryTypes'
  <2>1. pages' \in Seq(Page)
    BY <1>0, <1>2, <1>5 DEF HistoryTypes
  <2> QED
    BY <1>0, <1>3, <1>7, <2>1 DEF HistoryTypes
<1>9. SpaceInv'
  <2>1. snaps = <<>> /\ snaps' = <<>> /\ oid' = NoOid /\ at' = 0 /\ unique' = <<>>
    BY <1>0, <1>3 DEF SpaceInv
  <2>2. pc' \in {"series", "snapshots"} /\ (pc' = "snapshots" => include')
    BY <1>0, <1>3 DEF HistoryTypes
  <2>3. Current' = s
    BY <1>7 DEF Current, Last
  <2>4. Len(snaps') = 0 /\ Len(snaps') <= Current'.latest
    BY <1>5, <2>1, <2>3
  <2>5. (Inside)' => /\ include' /\ spaces' # <<>> /\ Len(snaps') <= Current'.latest
                     /\ \A k \in 1..Len(snaps') : snaps'[k] = Extract(Current'.revisions[k])
    BY <1>7, <2>2, <2>4 DEF Inside
  <2> QED
    BY <2>1, <2>2, <2>5 DEF SpaceInv
<1>10. PagesInv'
  <2> DEFINE snap == Extract(s.revisions[s.latest])
             old  == CurrentPages(spaces)
  <2>1. old = [j \in 1..m |-> Extract(spaces[j].revisions[spaces[j].latest])]
    BY <1>7 DEF CurrentPages
  <2>2. \A j \in 1..m : old[j] \in Seq(Page)
    <3> TAKE j \in 1..m
    <3>1. spaces[j] \in AllSpaces
      BY <1>0, <1>7 DEF HistoryTypes
    <3>2. spaces[j].latest \in 1..spaces[j].latest /\ spaces[j].revisions[spaces[j].latest] \in Revision
      <4>1. spaces[j].latest \in Nat \ {0} /\ \A r \in 1..spaces[j].latest : spaces[j].revisions[r] \in Revision
        BY <3>1, SpaceIs
      <4> QED
        BY <4>1
    <3> QED
      BY <2>1, <3>2, ExtractIs
  <2>3. old \in Seq(Seq(Page)) /\ Len(old) = m
    <3>1. old \in [1..m -> Seq(Page)]
      BY <2>1, <2>2
    <3> QED
      BY <1>6, <3>1
  <2>4. CurrentPages(spaces') = Append(old, snap)
    <3>1. CurrentPages(spaces') = [j \in 1..(m + 1) |-> IF j = m + 1 THEN snap ELSE old[j]]
      <4>1. \A j \in 1..(m + 1) : j # m + 1 => j \in 1..m
        BY <1>6
      <4> QED
        BY <1>7, <2>1, <4>1 DEF CurrentPages
    <3>2. Append(old, snap) = [j \in 1..(m + 1) |-> IF j = m + 1 THEN snap ELSE old[j]]
      BY <2>3, <1>6
    <3> QED
      BY <3>1, <3>2
  <2> HIDE DEF old, snap
  <2>5. FlattenSeq(Append(old, snap)) = FlattenSeq(old) \o snap
    BY <1>5, <2>3, FlattenAppend DEF snap
  <2>6. pages = FlattenSeq(old) /\ pages' = pages \o snap
    BY <1>0, <1>2 DEF PagesInv, old, snap
  <2> QED
    BY <2>4, <2>5, <2>6 DEF PagesInv
<1>11. ToldInv'
  <2>1. ASSUME NEW o \in Oids
        PROVE  IsToldBy(histories'[o], spaces', (Told(o))', o)
    <3>1. \A k \in 1..m : k \in (HasHistory(o))' <=> k \in HasHistory(o)
      BY <1>7 DEF HasHistory, SpacesOf
    <3>2. Told(o) = IF include THEN HasHistory(o) ELSE {}
      <4>1. Settled(o) = DOMAIN spaces
        BY <1>0, SettledAll DEF Inside
      <4> QED
        BY <4>1 DEF Told, HasHistory, SpacesOf
    <3>3. HasHistory(o) \subseteq 1..m
      BY <1>7 DEF HasHistory, SpacesOf
    <3>4. (Told(o))' = Told(o)
      <4>1. CASE include
        <5>1. pc' = "snapshots" /\ include'
          BY <1>3, <4>1
        <5>2. (Settled(o))' = 1..m
          BY <1>6, <1>7, <5>1 DEF Settled, Inside
        <5> QED
          BY <3>1, <3>2, <3>3, <4>1, <5>1, <5>2 DEF Told
      <4>2. CASE ~include
        BY <1>3, <4>2 DEF Told
      <4> QED
        BY <4>1, <4>2
    <3>5. Told(o) # {} => Max(Told(o)) \in 1..m
      <4>1. Told(o) \subseteq 1..m
        BY <3>2, <3>3
      <4>2. PICK K : K = Told(o)
        OBVIOUS
      <4>3. K \subseteq Nat /\ \A x \in K : x <= m
        BY <1>6, <4>1, <4>2
      <4> QED
        BY <1>6, <4>1, <4>2, <4>3, MaxOf
    <3>6. IsToldBy(histories[o], spaces, Told(o), o)
      BY <1>0 DEF ToldInv
    <3>7. Told(o) # {} => spaces'[Max(Told(o))] = spaces[Max(Told(o))]
      BY <1>7, <3>5
    <3>8. histories'[o] = histories[o]
      BY <1>3
    <3> QED
      BY <3>4, <3>6, <3>7, <3>8 DEF IsToldBy
  <2> QED
    BY <2>1 DEF ToldInv
<1>12. ResultInv'
  BY <1>3 DEF ResultInv
<1> QED
  BY <1>8, <1>9, <1>10, <1>11, <1>12 DEF HistoryInv

LEMMA DoTakeSnapshot == ASSUME HistoryInv, TakeSnapshot PROVE HistoryInv'
<1>0. /\ HistoryTypes /\ SpaceInv /\ PagesInv /\ pc = "snapshots" /\ Inside
      /\ Len(snaps) < Current.latest
      /\ snaps' = Append(snaps, Extract(Current.revisions[Len(snaps) + 1]))
      /\ UNCHANGED <<include, pc, spaces, pages, left, oid, at, unique, histories, result>>
  BY DEF HistoryInv, TakeSnapshot, Inside
<1>1. PICK c : c = Current
  OBVIOUS
<1>2. c \in AllSpaces /\ spaces # <<>>
  BY <1>0, <1>1, CurrentIs DEF SpaceInv
<1>3. PICK m \in Nat : m = Len(snaps) /\ m + 1 \in 1..c.latest /\ m + 1 <= c.latest
  <2>1. Len(snaps) \in Nat
    BY <1>0 DEF HistoryTypes
  <2>2. c.latest \in Nat
    BY <1>2, SpaceIs
  <2> QED
    BY <1>0, <1>1, <2>1, <2>2
<1>4. Extract(c.revisions[m + 1]) \in Seq(Page)
  <2>1. c.revisions[m + 1] \in Revision
    BY <1>2, <1>3, SpaceIs
  <2> QED
    BY <2>1, ExtractIs
<1>5. /\ snaps' \in Seq(Seq(Page)) /\ Len(snaps') = m + 1
      /\ \A k \in 1..m : snaps'[k] = snaps[k] /\ snaps'[m + 1] = Extract(c.revisions[m + 1])
  BY <1>0, <1>1, <1>3, <1>4 DEF HistoryTypes
<1>6. \A k \in 1..(m + 1) : snaps'[k] = Extract(c.revisions[k])
  <2> TAKE k \in 1..(m + 1)
  <2>1. CASE k = m + 1
    BY <1>0, <1>1, <1>3, <2>1 DEF HistoryTypes
  <2>2. CASE k # m + 1
    <3>1. k \in 1..m
      BY <1>3, <2>2
    <3> QED
      BY <1>0, <1>1, <1>3, <1>5, <3>1 DEF SpaceInv
  <2> QED
    BY <2>1, <2>2
<1>7. HistoryTypes'
  BY <1>0, <1>5 DEF HistoryTypes
<1>8. SpaceInv'
  <2>1. Current' = c
    BY <1>0, <1>1 DEF Current
  <2>2. include /\ oid = NoOid /\ at = 0 /\ unique = <<>>
    BY <1>0 DEF SpaceInv
  <2> QED
    BY <1>0, <1>2, <1>3, <1>5, <1>6, <2>1, <2>2 DEF SpaceInv
<1>9. PagesInv'
  BY <1>0 DEF PagesInv
<1>10. ToldInv'
  <2>1. \A o \in Oids : (Settled(o))' = Settled(o)
    BY <1>0 DEF Settled, Inside
  <2> QED
    BY <1>0, <2>1, ToldStays
<1>11. ResultInv'
  BY <1>0 DEF ResultInv
<1> QED
  BY <1>7, <1>8, <1>9, <1>10, <1>11 DEF HistoryInv

LEMMA DoEndSnapshots == ASSUME HistoryInv, EndSnapshots PROVE HistoryInv'
<1>0. /\ HistoryTypes /\ SpaceInv /\ PagesInv /\ pc = "snapshots" /\ Inside /\ pc' = "oids"
      /\ Len(snaps) = Current.latest /\ left' = OidsShown
      /\ UNCHANGED <<include, spaces, pages, snaps, oid, at, unique, histories, result>>
  BY DEF HistoryInv, EndSnapshots, Inside, OidsShown
<1>1. OidsShown \subseteq Oids
  BY <1>0, OidsShownAre
<1>2. HistoryTypes'
  BY <1>0, <1>1 DEF HistoryTypes
<1>3. SpaceInv'
  <2>1. Current' = Current /\ (OidsShown)' = OidsShown
    BY <1>0 DEF Current, OidsShown
  <2> QED
    BY <1>0, <2>1 DEF SpaceInv, Inside
<1>4. PagesInv'
  BY <1>0 DEF PagesInv
<1>5. ToldInv'
  <2>1. ASSUME NEW o \in Oids, NEW k \in HasHistory(o)
        PROVE  k \in (Settled(o))' <=> k \in Settled(o)
    <3>1. k \in SpacesOf(o) /\ k \in DOMAIN spaces
      BY <2>1 DEF HasHistory, SpacesOf
    <3>2. k \in Settled(o) <=> k < Len(spaces)
      BY <1>0, <3>1 DEF Settled
    <3>3. k \in (Settled(o))' <=> (k < Len(spaces) \/ (o \notin left' /\ o # oid'))
      BY <1>0, <3>1 DEF Settled, Inside
    <3>4. k = Len(spaces) => o \in left'
      BY <1>0, <2>1, <3>1, ShownIs
    <3>5. k <= Len(spaces) /\ k \in Nat /\ Len(spaces) \in Nat
      BY <1>0, <3>1 DEF HistoryTypes
    <3> QED
      BY <3>2, <3>3, <3>4, <3>5
  <2>2. \A o \in Oids : HasHistory(o) \cap (Settled(o))' = HasHistory(o) \cap Settled(o)
    BY <2>1
  <2> QED
    BY <1>0, <2>2, ToldStays
<1>6. ResultInv'
  BY <1>0 DEF ResultInv
<1> QED
  BY <1>2, <1>3, <1>4, <1>5, <1>6 DEF HistoryInv

LEMMA DoStartHistory == ASSUME HistoryInv, StartHistory PROVE HistoryInv'
<1>0. /\ HistoryTypes /\ SpaceInv /\ PagesInv /\ pc = "oids" /\ Inside /\ pc' = "history"
      /\ oid' \in left /\ left' = left \ {oid'}
      /\ UNCHANGED <<include, spaces, pages, snaps, at, unique, histories, result>>
  BY DEF HistoryInv, StartHistory, Inside
<1>1. /\ left \subseteq Oids /\ oid' \in Oids /\ oid = NoOid /\ at = 0 /\ unique = <<>>
      /\ left \subseteq OidsShown /\ include /\ spaces # <<>> /\ Len(snaps) = Current.latest
  BY <1>0 DEF HistoryTypes, SpaceInv
<1>2. HistoryTypes'
  BY <1>0, <1>1 DEF HistoryTypes
<1>3. SpaceInv'
  <2>1. Current' = Current /\ (OidsShown)' = OidsShown
    BY <1>0 DEF Current, OidsShown
  <2>2. PICK c \in AllSpaces, o \in Oids : c = Current /\ o = oid'
    BY <1>0, <1>1, CurrentIs
  <2>3. IsStates(<<>>, c, o, 0) /\ LastShown(<<>>, c, o, 0)
    BY StatesNone
  <2>4. IsStates(unique', Current', oid', at') /\ LastShown(unique', Current', oid', at')
    BY <1>0, <1>1, <2>1, <2>2, <2>3
  <2>5. at' <= Len(snaps')
    BY <1>0, <1>1 DEF HistoryTypes
  <2>6. \A k \in 1..Len(snaps) : snaps[k] = Extract(Current.revisions[k])
    BY <1>0 DEF SpaceInv
  <2> QED
    BY <1>0, <1>1, <2>1, <2>4, <2>5, <2>6 DEF SpaceInv, Inside, HistoryTypes
<1>4. PagesInv'
  BY <1>0 DEF PagesInv
<1>5. ToldInv'
  <2>1. ASSUME NEW o \in Oids PROVE (Settled(o))' = Settled(o)
    <3>1. (o \notin left' /\ o # oid') <=> (o \notin left /\ o # oid)
      BY <1>0, <1>1, NoOidIsNoPage
    <3> QED
      BY <1>0, <3>1 DEF Settled, Inside
  <2> QED
    BY <1>0, <2>1, ToldStays
<1>6. ResultInv'
  BY <1>0 DEF ResultInv
<1> QED
  BY <1>2, <1>3, <1>4, <1>5, <1>6 DEF HistoryInv

(* One more snapshot is looked at for the page at hand.                    *)
LEMMA DoSee ==
    ASSUME HistoryInv, pc = "history", at' = at + 1,
           UNCHANGED <<include, pc, spaces, pages, snaps, left, oid, histories, result>>,
           at < Len(snaps), unique' \in Seq(Page),
           \A c \in AllSpaces, o \in Oids : \A r \in 1..c.latest :
             /\ c = Current /\ o = oid /\ r = at + 1 /\ snaps[r] = Extract(c.revisions[r])
             /\ IsStates(unique, c, o, at) /\ LastShown(unique, c, o, at)
             => IsStates(unique', c, o, r) /\ LastShown(unique', c, o, r)
    PROVE  HistoryInv'
<1>0. HistoryTypes /\ SpaceInv /\ PagesInv /\ ResultInv /\ Inside
  BY DEF HistoryInv, Inside
<1>1. /\ oid \in OidsShown /\ oid \notin left /\ at \in Nat /\ include /\ spaces # <<>>
      /\ IsStates(unique, Current, oid, at) /\ LastShown(unique, Current, oid, at)
      /\ Len(snaps) = Current.latest
      /\ \A k \in 1..Len(snaps) : snaps[k] = Extract(Current.revisions[k])
  BY <1>0 DEF SpaceInv, HistoryTypes
<1>2. OidsShown \subseteq Oids
  BY <1>0, OidsShownAre
<1>3. PICK c \in AllSpaces, o \in Oids : c = Current /\ o = oid
  BY <1>0, <1>1, <1>2, CurrentIs
<1>4. PICK r \in 1..c.latest : r = at + 1
  <2>1. Len(snaps) \in Nat
    BY <1>0 DEF HistoryTypes
  <2> QED
    BY <1>1, <1>3, <2>1
<1>5. snaps[r] = Extract(c.revisions[r])
  BY <1>1, <1>3, <1>4
<1>6. IsStates(unique, c, o, at) /\ LastShown(unique, c, o, at)
  BY <1>1, <1>3
<1>7. IsStates(unique', c, o, r) /\ LastShown(unique', c, o, r)
  BY <1>3, <1>4, <1>5, <1>6
<1>8. HistoryTypes'
  BY <1>0, <1>1 DEF HistoryTypes
<1>9. SpaceInv'
  <2>1. Current' = Current /\ (OidsShown)' = OidsShown
    BY DEF Current, OidsShown
  <2>2. IsStates(unique', Current', oid', at') /\ LastShown(unique', Current', oid', at')
    BY <1>3, <1>4, <1>7, <2>1
  <2>3. at' <= Len(snaps')
    BY <1>0, <1>1 DEF HistoryTypes
  <2> QED
    BY <1>0, <1>1, <2>1, <2>2, <2>3 DEF SpaceInv, Inside
<1>10. PagesInv'
  BY <1>0 DEF PagesInv
<1>11. ToldInv'
  <2>1. \A p \in Oids : (Settled(p))' = Settled(p)
    BY DEF Settled, Inside
  <2> QED
    BY <2>1, ToldStays
<1>12. ResultInv'
  BY DEF ResultInv
<1> QED
  BY <1>8, <1>9, <1>10, <1>11, <1>12 DEF HistoryInv

LEMMA DoSeeState == ASSUME HistoryInv, SeeState PROVE HistoryInv'
<1>1. PICK p \in Hits(snaps[at + 1], oid) :
        unique' = IF IsChange(p) THEN Append(unique, p) ELSE unique
  BY DEF SeeState
<1>2. /\ pc = "history" /\ at < Len(snaps) /\ at' = at + 1 /\ unique \in Seq(Page) /\ at \in Nat
      /\ UNCHANGED <<include, pc, spaces, pages, snaps, left, oid, histories, result>>
  BY DEF SeeState, HistoryInv, HistoryTypes
<1>3. IsChange(p) <=> unique = <<>> \/ p.text # unique[Len(unique)].text
  BY DEF IsChange, Last
<1>4. ASSUME NEW c \in AllSpaces, NEW o \in Oids, NEW r \in 1..c.latest,
             o = oid, r = at + 1, snaps[r] = Extract(c.revisions[r])
      PROVE  p = StateOf(c, o, r) /\ p \in Page /\ r \in Shown(c, o)
  <2>1. p \in Hits(Extract(c.revisions[r]), o)
    BY <1>1, <1>4
  <2> QED
    BY <2>1, StateIs
<1>5. ASSUME NEW c \in AllSpaces, NEW o \in Oids, NEW r \in 1..c.latest,
             c = Current, o = oid, r = at + 1, snaps[r] = Extract(c.revisions[r]),
             IsStates(unique, c, o, at), LastShown(unique, c, o, at)
      PROVE  IsStates(unique', c, o, r) /\ LastShown(unique', c, o, r)
  <2>1. p = StateOf(c, o, r) /\ p \in Page /\ r \in Shown(c, o)
    BY <1>4, <1>5
  <2>2. PICK u \in Seq(Page), n \in Nat : u = unique /\ n = at
    BY <1>2
  <2>3. r \in Nat /\ r = n + 1 /\ IsStates(u, c, o, n) /\ LastShown(u, c, o, n)
    BY <1>5, <2>2
  <2>4. CASE IsChange(p)
    <3>1. u = <<>> \/ p.text # u[Len(u)].text
      BY <1>3, <2>2, <2>4
    <3>2. IsStates(Append(u, p), c, o, r) /\ LastShown(Append(u, p), c, o, r)
      BY <2>1, <2>3, <3>1, StatesSee
    <3> QED
      BY <1>1, <2>2, <2>4, <3>2
  <2>5. CASE ~IsChange(p)
    <3>1. u # <<>> /\ StateOf(c, o, r).text = u[Len(u)].text
      BY <1>3, <2>1, <2>2, <2>5
    <3>2. IsStates(u, c, o, r) /\ LastShown(u, c, o, r)
      BY <2>1, <2>3, <3>1, StatesSame
    <3> QED
      BY <1>1, <2>2, <2>5, <3>2
  <2> QED
    BY <2>4, <2>5
<1>6. unique' \in Seq(Page)
  <2>1. /\ Inside /\ HistoryTypes /\ SpaceInv
    BY <1>2 DEF HistoryInv, Inside
  <2>2. p \in Page
    <3>1. snaps[at + 1] \in Seq(Page)
      BY <1>2, <2>1 DEF HistoryTypes
    <3>2. Hits(snaps[at + 1], oid) \subseteq Page
      <4>1. PICK snap \in Seq(Page) : snap = snaps[at + 1]
        BY <3>1
      <4>2. Range(snap) \subseteq Page /\ (Len(snap) = 1 => snap[1] \in Page)
        BY DEF Range
      <4> QED
        BY <4>1, <4>2 DEF Hits
    <3> QED
      BY <1>1, <3>2
  <2> QED
    BY <1>1, <1>2, <2>2
<1> QED
  BY <1>2, <1>5, <1>6, DoSee

LEMMA DoSeeNothing == ASSUME HistoryInv, SeeNothing PROVE HistoryInv'
<1>1. /\ pc = "history" /\ at < Len(snaps) /\ at' = at + 1 /\ unique' = unique
      /\ unique \in Seq(Page) /\ at \in Nat
      /\ UNCHANGED <<include, pc, spaces, pages, snaps, left, oid, histories, result>>
      /\ Hits(snaps[at + 1], oid) = {}
  BY DEF SeeNothing, HistoryInv, HistoryTypes
<1>2. ASSUME NEW c \in AllSpaces, NEW o \in Oids, NEW r \in 1..c.latest,
             c = Current, o = oid, r = at + 1, snaps[r] = Extract(c.revisions[r]),
             IsStates(unique, c, o, at), LastShown(unique, c, o, at)
      PROVE  IsStates(unique', c, o, r) /\ LastShown(unique', c, o, r)
  <2>1. r \notin Shown(c, o)
    BY <1>1, <1>2 DEF Shown
  <2>2. PICK u \in Seq(Page), n \in Nat : u = unique /\ n = at
    BY <1>1
  <2>3. r \in Nat /\ r = n + 1 /\ IsStates(u, c, o, n) /\ LastShown(u, c, o, n)
    BY <1>2, <2>2
  <2>4. IsStates(u, c, o, r) /\ LastShown(u, c, o, r)
    BY <2>1, <2>3, StatesSkip
  <2> QED
    BY <1>1, <2>2, <2>4
<1> QED
  BY <1>1, <1>2, DoSee

LEMMA DoEndHistory == ASSUME HistoryInv, EndHistory PROVE HistoryInv'
<1>0. /\ HistoryTypes /\ SpaceInv /\ PagesInv /\ ToldInv /\ pc = "history" /\ Inside /\ pc' = "oids"
      /\ at = Len(snaps) /\ oid' = NoOid /\ at' = 0 /\ unique' = <<>>
      /\ histories' = IF Len(unique) < 2 THEN histories
                      ELSE [histories EXCEPT ![oid] = Past(unique)]
      /\ UNCHANGED <<include, spaces, pages, snaps, left, result>>
  BY DEF HistoryInv, EndHistory, Inside
<1>1. /\ oid \in OidsShown /\ oid \notin left /\ left \subseteq OidsShown /\ include /\ spaces # <<>>
      /\ IsStates(unique, Current, oid, at) /\ Len(snaps) = Current.latest
      /\ unique \in Seq(Page) /\ histories \in [Oids -> Seq(Page)]
  BY <1>0 DEF SpaceInv, HistoryTypes
<1>2. PICK c \in AllSpaces, o \in Oids, u \in Seq(Page) :
        c = Current /\ o = oid /\ u = unique
  BY <1>0, <1>1, CurrentIs, OidsShownAre
<1>3. c = spaces[Len(spaces)] /\ Len(spaces) \in DOMAIN spaces /\ IsStates(u, c, o, c.latest)
  BY <1>0, <1>1, <1>2, CurrentIs
<1>4. /\ Len(u) >= 2 <=> \E q, r \in Changed(c, o) : q # r
      /\ Len(u) >= 2 => Past(u) \in Seq(Page) /\ IsHistoryIn(Past(u), c, o)
      /\ Len(u) \in Nat
  BY <1>3, StatesAreHistory
<1>5. Len(spaces) \in HasHistory(o) <=> Len(u) >= 2
  <2>1. Len(spaces) \in SpacesOf(o)
    BY <1>0, <1>1, <1>2, ShownIs
  <2> QED
    BY <1>3, <1>4, <2>1 DEF HasHistory
<1>6. HistoryTypes'
  <2>1. histories' \in [Oids -> Seq(Page)]
    BY <1>0, <1>1, <1>2, <1>4
  <2> QED
    BY <1>0, <2>1 DEF HistoryTypes
<1>7. SpaceInv'
  <2>1. Current' = Current /\ (OidsShown)' = OidsShown
    BY <1>0 DEF Current, OidsShown
  <2> QED
    BY <1>0, <1>1, <2>1 DEF SpaceInv, Inside
<1>8. PagesInv'
  BY <1>0 DEF PagesInv
<1>9. ASSUME NEW p \in Oids
      PROVE  IsToldBy(histories'[p], spaces', (Told(p))', p)
  <2>1. (HasHistory(p))' = HasHistory(p) /\ HasHistory(p) \subseteq DOMAIN spaces
    BY <1>0 DEF HasHistory, SpacesOf
  <2>2. IsToldBy(histories[p], spaces, Told(p), p)
    BY <1>0 DEF ToldInv
  <2>3. CASE p # o
    <3>1. (Settled(p))' = Settled(p)
      BY <1>0, <1>2, <2>3, NoOidIsNoPage DEF Settled, Inside
    <3>2. (Told(p))' = Told(p)
      BY <1>0, <2>1, <3>1 DEF Told
    <3>3. histories'[p] = histories[p]
      BY <1>0, <1>1, <1>2, <2>3
    <3> QED
      BY <1>0, <2>2, <3>2, <3>3
  <2>4. CASE p = o
    <3>1. (Settled(p))' = DOMAIN spaces
      BY <1>0, <1>1, <1>2, <2>4, NoOidIsNoPage DEF Settled, Inside
    <3>2. Settled(p) = {k \in DOMAIN spaces : k < Len(spaces)}
      BY <1>0, <1>2, <2>4 DEF Settled, Inside
    <3>3. (Told(p))' = HasHistory(p)
      BY <1>0, <1>1, <2>1, <3>1 DEF Told
    <3>4. Told(p) = HasHistory(p) \cap {k \in DOMAIN spaces : k < Len(spaces)}
      BY <1>1, <3>2 DEF Told
    <3>5. DOMAIN spaces = 1..Len(spaces) /\ Len(spaces) \in Nat
      BY <1>0 DEF HistoryTypes
    <3>6. CASE Len(u) < 2
      <4>1. Len(spaces) \notin HasHistory(p)
        BY <1>4, <1>5, <2>4, <3>6
      <4>2. Told(p) = HasHistory(p)
        BY <2>1, <3>4, <3>5, <4>1
      <4> QED
        BY <1>0, <1>2, <2>2, <3>3, <3>6, <4>2
    <3>7. CASE ~(Len(u) < 2)
      <4>1. Len(spaces) \in HasHistory(p)
        BY <1>4, <1>5, <2>4, <3>7
      <4>2. Max(HasHistory(p)) = Len(spaces)
        <5>1. PICK K : K = HasHistory(p)
          OBVIOUS
        <5>2. K \subseteq Nat /\ Len(spaces) \in K /\ \A x \in K : x <= Len(spaces)
          BY <2>1, <3>5, <4>1, <5>1
        <5> QED
          BY <5>1, <5>2, MaxIs
      <4>3. histories'[p] = Past(u)
        BY <1>0, <1>1, <1>2, <2>4, <3>7
      <4>4. IsHistoryIn(Past(u), c, p)
        BY <1>4, <2>4, <3>7
      <4>5. spaces'[Max(HasHistory(p))] = c
        BY <1>0, <1>3, <4>2
      <4> QED
        BY <3>3, <4>1, <4>3, <4>4, <4>5 DEF IsToldBy
    <3> QED
      BY <3>6, <3>7
  <2> QED
    BY <2>3, <2>4
<1>10. ToldInv'
  BY <1>9 DEF ToldInv
<1>11. ResultInv'
  BY <1>0 DEF ResultInv
<1> QED
  BY <1>6, <1>7, <1>8, <1>10, <1>11 DEF HistoryInv

LEMMA DoEndSpace == ASSUME HistoryInv, EndSpace PROVE HistoryInv'
<1>0. /\ HistoryTypes /\ SpaceInv /\ PagesInv /\ pc = "oids" /\ Inside /\ pc' = "series"
      /\ left = {} /\ snaps' = <<>>
      /\ UNCHANGED <<include, spaces, pages, left, oid, at, unique, histories, result>>
  BY DEF HistoryInv, EndSpace, Inside
<1>1. HistoryTypes'
  BY <1>0 DEF HistoryTypes
<1>2. SpaceInv'
  BY <1>0 DEF SpaceInv, Inside
<1>3. PagesInv'
  BY <1>0 DEF PagesInv
<1>4. ToldInv'
  <2>1. oid = NoOid
    BY <1>0 DEF SpaceInv
  <2>2. \A o \in Oids : (Settled(o))' = Settled(o)
    BY <1>0, <2>1, NoOidIsNoPage DEF Settled, Inside
  <2> QED
    BY <1>0, <2>2, ToldStays
<1>5. ResultInv'
  BY <1>0 DEF ResultInv
<1> QED
  BY <1>1, <1>2, <1>3, <1>4, <1>5 DEF HistoryInv

LEMMA PageOid ==
    ASSUME NEW seq \in Seq(Page), NEW k \in DOMAIN seq
    PROVE  seq[k].oid \in Oids
<1>1. seq[k] \in Page
  OBVIOUS
<1> QED
  BY <1>1 DEF Page

LEMMA DoEndSeries == ASSUME HistoryInv, EndSeries PROVE HistoryInv'
<1>0. /\ HistoryTypes /\ SpaceInv /\ PagesInv /\ pc = "series" /\ ~Inside /\ pc' = "done"
      /\ result' = IF AnyHistory THEN [k \in DOMAIN pages |-> Enrich(pages[k])]
                   ELSE [k \in DOMAIN pages |-> WithoutHistory(pages[k])]
      /\ UNCHANGED <<include, spaces, pages, snaps, left, oid, at, unique, histories>>
  BY DEF HistoryInv, EndSeries, Inside, space
<1>1. HistoryTypes'
  BY <1>0 DEF HistoryTypes
<1>2. SpaceInv'
  BY <1>0 DEF SpaceInv, Inside
<1>3. PagesInv'
  BY <1>0 DEF PagesInv
<1>4. ToldInv'
  <2>1. \A o \in Oids : (Settled(o))' = Settled(o)
    BY <1>0 DEF Settled, Inside
  <2> QED
    BY <1>0, <2>1, ToldStays
<1>5. ResultInv'
  <2>1. ASSUME NEW k \in DOMAIN pages
        PROVE  result'[k].page = pages[k] /\ result'[k].history = histories[pages[k].oid]
    <3>1. pages[k].oid \in Oids
      BY <1>0, PageOid DEF HistoryTypes
    <3>2. CASE AnyHistory
      BY <1>0, <3>2 DEF Enrich
    <3>3. CASE ~AnyHistory
      <4>1. histories[pages[k].oid] = <<>>
        BY <3>1, <3>3 DEF AnyHistory
      <4> QED
        BY <1>0, <3>3, <4>1 DEF WithoutHistory
    <3> QED
      BY <3>2, <3>3
  <2>2. DOMAIN result' = DOMAIN pages
    BY <1>0
  <2> QED
    BY <1>0, <2>1, <2>2 DEF ResultInv
<1> QED
  BY <1>1, <1>2, <1>3, <1>4, <1>5 DEF HistoryInv

LEMMA DoRaise == ASSUME HistoryInv, Raise PROVE HistoryInv'
<1>0. /\ HistoryTypes /\ SpaceInv /\ PagesInv /\ pc' = "failed"
      /\ UNCHANGED <<include, spaces, pages, snaps, left, oid, at, unique, histories, result>>
  BY DEF HistoryInv, Raise, space
<1> QED
  BY <1>0 DEF HistoryInv, HistoryTypes, SpaceInv, Inside, PagesInv, ToldInv, ResultInv

LEMMA DoNothing == ASSUME HistoryInv, UNCHANGED vars PROVE HistoryInv'
<1>0. /\ HistoryTypes /\ SpaceInv /\ PagesInv /\ ToldInv /\ ResultInv
      /\ UNCHANGED <<include, pc, spaces, pages, snaps, left, oid, at, unique, histories, result>>
  BY DEF HistoryInv, vars, space
<1>1. HistoryTypes'
  BY <1>0 DEF HistoryTypes
<1>2. SpaceInv'
  <2>1. Current' = Current /\ (OidsShown)' = OidsShown
    BY <1>0 DEF Current, OidsShown
  <2> QED
    BY <1>0, <2>1 DEF SpaceInv, Inside
<1>3. PagesInv'
  BY <1>0 DEF PagesInv
<1>4. ToldInv'
  <2>1. CASE pc = "failed"
    BY <1>0, <2>1 DEF ToldInv
  <2>2. CASE pc # "failed"
    <3>1. \A o \in Oids : (Settled(o))' = Settled(o)
      BY <1>0 DEF Settled, Inside
    <3> QED
      BY <1>0, <2>2, <3>1, ToldStays
  <2> QED
    BY <2>1, <2>2
<1>5. ResultInv'
  BY <1>0 DEF ResultInv
<1> QED
  BY <1>1, <1>2, <1>3, <1>4, <1>5 DEF HistoryInv

LEMMA HistoryStep == HistoryInv /\ [Next]_vars => HistoryInv'
<1> SUFFICES ASSUME HistoryInv, [Next]_vars PROVE HistoryInv'
  OBVIOUS
<1>1. CASE ReadSpace
  BY <1>1, DoReadSpace
<1>2. CASE TakeSnapshot
  BY <1>2, DoTakeSnapshot
<1>3. CASE EndSnapshots
  BY <1>3, DoEndSnapshots
<1>4. CASE StartHistory
  BY <1>4, DoStartHistory
<1>5. CASE SeeState
  BY <1>5, DoSeeState
<1>6. CASE SeeNothing
  BY <1>6, DoSeeNothing
<1>7. CASE EndHistory
  BY <1>7, DoEndHistory
<1>8. CASE EndSpace
  BY <1>8, DoEndSpace
<1>9. CASE EndSeries
  BY <1>9, DoEndSeries
<1>10. CASE Raise
  BY <1>10, DoRaise
<1>11. CASE UNCHANGED vars
  BY <1>11, DoNothing
<1> QED
  BY <1>1, <1>2, <1>3, <1>4, <1>5, <1>6, <1>7, <1>8, <1>9, <1>10, <1>11
     DEF Next, SkipSpace, Stopped

(* The histories and the pages of a series of any number of object spaces, *)
(* with any number of revisions and pages.                                 *)
LEMMA HistoryFacts ==
    ASSUME HistoryInv
    PROVE  HistoryIsChanges /\ CurrentPagesInOrder
<1>1. CurrentPagesInOrder
  <2> SUFFICES ASSUME pc = "done"
               PROVE  [k \in DOMAIN result |-> result[k].page] = FlattenSeq(CurrentPages(spaces))
    BY DEF CurrentPagesInOrder, CurrentPages
  <2>1. /\ pages \in Seq(Page) /\ DOMAIN result = DOMAIN pages
        /\ \A k \in DOMAIN pages : result[k].page = pages[k]
    BY DEF HistoryInv, HistoryTypes, ResultInv
  <2>2. [k \in DOMAIN result |-> result[k].page] = pages
    BY <2>1
  <2> QED
    BY <2>2 DEF HistoryInv, PagesInv
<1>2. HistoryIsChanges
  <2> SUFFICES ASSUME pc = "done", NEW k \in DOMAIN result
               PROVE  LET o == result[k].page.oid
                      IN  IF include /\ HasHistory(o) # {}
                          THEN IsHistoryIn(result[k].history, spaces[Max(HasHistory(o))], o)
                          ELSE result[k].history = <<>>
    BY DEF HistoryIsChanges
  <2>1. /\ k \in DOMAIN pages /\ result[k].page = pages[k]
        /\ result[k].history = histories[pages[k].oid]
    BY DEF HistoryInv, ResultInv
  <2>2. pages[k].oid \in Oids
    BY <2>1, PageOid DEF HistoryInv, HistoryTypes
  <2>3. PICK o \in Oids : o = pages[k].oid
    BY <2>2
  <2>4. IsToldBy(histories[o], spaces, Told(o), o)
    BY DEF HistoryInv, ToldInv
  <2>5. Settled(o) = DOMAIN spaces /\ HasHistory(o) \subseteq DOMAIN spaces
    BY SettledAll DEF Inside, HasHistory, SpacesOf
  <2>6. Told(o) = IF include THEN HasHistory(o) ELSE {}
    BY <2>5 DEF Told
  <2> QED
    BY <2>1, <2>3, <2>4, <2>6 DEF IsToldBy
<1> QED
  BY <1>1, <1>2

(* Each page has exactly its past changes, newest first, for a history.    *)
THEOREM HistoriesAreChanges == Spec => []HistoryIsChanges
BY HistoryStart, HistoryStep, HistoryFacts, PTL DEF Spec

(* No page is lost or moved, whatever has a history.                       *)
THEOREM PagesKeepOrder == Spec => []CurrentPagesInOrder
BY HistoryStart, HistoryStep, HistoryFacts, PTL DEF Spec
=============================================================================
