----------------------------- MODULE DocumentProofs -----------------------------
(***************************************************************************)
(* Proofs about a document from the nodes of its file to its PDF: its      *)
(* nodes stay a tree under a client's edits (NodesStayTree), what is drawn *)
(* of it is in its nodes (SavedIsLoaded), images of an object share their  *)
(* data (PicturesAreShared), and a list item has one marker (MarkedOnce).  *)
(*                                                                         *)
(* The first half is about the loops and the recursive functions of the    *)
(* model.  A loop is defined by its turns (LoopExists), so that a fact     *)
(* about a list follows for the list with a member more (ListInduction);   *)
(* a function that calls itself on what a list of a table names is         *)
(* defined because the named have a greater rank (StructuralRecursion).    *)
(***************************************************************************)
EXTENDS NodeModel, SequenceTheorems, FiniteSetTheorems, WellFoundedInduction, TLAPS

-----------------------------------------------------------------------------
(* Numbers, sequences and the loops that make them.                        *)

(* A set of numbers that is not empty has a least element: the intervals   *)
(* up to its elements are finite sets, and inclusion of those is           *)
(* well-founded.                                                           *)
LEMMA LeastNatural ==
    ASSUME NEW T, T \subseteq Nat, T # {}
    PROVE  \E x \in T : \A y \in T : x <= y
<1> DEFINE F == {0..n : n \in T}
<1>1. \A n \in Nat : 0..n \in FiniteSubsetsOf(Nat)
  <2> TAKE n \in Nat
  <2>1. IsFiniteSet(0..n)
    BY FS_Interval
  <2> QED
    BY <2>1 DEF FiniteSubsetsOf
<1>2. F \subseteq FiniteSubsetsOf(Nat) /\ F # {}
  BY <1>1
<1>3. \E x \in F : \A y \in F : ~ (<<y, x>> \in StrictSubsetOrdering(Nat))
  <2> HIDE DEF F
  <2> QED
    BY <1>2, FS_StrictSubsetOrderingWellFounded, WFMin
<1>4. PICK n \in T : \A m \in T : ~ (<<0..m, 0..n>> \in StrictSubsetOrdering(Nat))
  BY <1>3
<1>5. \A m \in T : n <= m
  <2> SUFFICES ASSUME NEW m \in T, m < n PROVE FALSE
    OBVIOUS
  <2>1. n \in 0..n /\ n \notin 0..m
    OBVIOUS
  <2>2. 0..m \subseteq 0..n /\ 0..m # 0..n /\ 0..m \subseteq Nat /\ 0..n \subseteq Nat
    BY <2>1
  <2> QED
    BY <1>4, <2>2 DEF StrictSubsetOrdering
<1> QED
  BY <1>5

(* What is computed a step at a time, from 1 to n, exists and is unique.   *)
IsLoop(g, n, init, turn) ==
    g[0] = init /\ \A k \in 1..n : g[k] = turn[k][g[k - 1]]

LEMMA LoopExists ==
    ASSUME NEW T, NEW init \in T, NEW turn \in [Nat \ {0} -> [T -> T]], NEW n \in Nat
    PROVE  \E g \in [0..n -> T] : IsLoop(g, n, init, turn)
<1> DEFINE Bad == {m \in Nat : ~ \E g \in [0..m -> T] : IsLoop(g, m, init, turn)}
<1> SUFFICES ASSUME Bad # {} PROVE FALSE
  OBVIOUS
<1>1. PICK m \in Bad : \A j \in Bad : m <= j
  <2>1. Bad \subseteq Nat
    OBVIOUS
  <2> HIDE DEF Bad
  <2> QED
    BY <2>1, LeastNatural
<1>2. m \in Nat /\ ~ \E g \in [0..m -> T] : IsLoop(g, m, init, turn)
  OBVIOUS
<1>3. CASE m = 0
  <2> DEFINE g == [k \in 0..0 |-> init]
  <2>1. g \in [0..0 -> T] /\ IsLoop(g, 0, init, turn)
    BY DEF IsLoop
  <2> QED
    BY <1>2, <1>3, <2>1
<1>4. CASE m # 0
  <2>1. m - 1 \in Nat /\ m - 1 < m /\ m \in Nat \ {0}
    BY <1>2, <1>4
  <2>2. m - 1 \notin Bad
    BY <1>1, <1>2, <2>1
  <2>3. PICK g \in [0..(m - 1) -> T] : IsLoop(g, m - 1, init, turn)
    BY <2>1, <2>2
  <2>4. g[m - 1] \in T
    BY <2>1, <2>3
  <2>5. turn[m][g[m - 1]] \in T
    BY <2>1, <2>4
  <2> DEFINE h == [k \in 0..m |-> IF k = m THEN turn[m][g[m - 1]] ELSE g[k]]
  <2>6. h \in [0..m -> T]
    <3> SUFFICES ASSUME NEW k \in 0..m, k # m PROVE g[k] \in T
      BY <2>5
    <3>1. k \in 0..(m - 1)
      BY <1>2
    <3> QED
      BY <2>3, <3>1
  <2>7. \A k \in 0..(m - 1) : h[k] = g[k]
    BY <1>2
  <2>8. h[m] = turn[m][g[m - 1]] /\ m - 1 \in 0..(m - 1) /\ 0 \in 0..(m - 1)
    BY <2>1
  <2> HIDE DEF h
  <2>9. \A k \in 1..m : h[k] = turn[k][h[k - 1]]
    <3> TAKE k \in 1..m
    <3>1. CASE k = m
      BY <2>7, <2>8, <3>1
    <3>2. CASE k # m
      <4>1. k \in 1..(m - 1) /\ k \in 0..(m - 1) /\ k - 1 \in 0..(m - 1)
        BY <3>2, <1>2
      <4>2. g[k] = turn[k][g[k - 1]]
        BY <2>3, <4>1 DEF IsLoop
      <4> QED
        BY <2>7, <4>1, <4>2
    <3> QED
      BY <3>1, <3>2
  <2>10. h[0] = init
    BY <2>3, <2>7, <2>8 DEF IsLoop
  <2> QED
    BY <1>2, <2>6, <2>9, <2>10 DEF IsLoop
<1> QED
  BY <1>3, <1>4

LEMMA StepsAgree ==
    ASSUME NEW n \in Nat, NEW g, NEW h, g[0] = h[0],
           \A k \in 1..n : g[k - 1] = h[k - 1] => g[k] = h[k]
    PROVE  g[n] = h[n]
<1> DEFINE Bad == {k \in Nat : k <= n /\ g[k] # h[k]}
<1> SUFFICES ASSUME Bad # {} PROVE FALSE
  OBVIOUS
<1>1. PICK k \in Bad : \A j \in Bad : k <= j
  <2>1. Bad \subseteq Nat
    OBVIOUS
  <2> HIDE DEF Bad
  <2> QED
    BY <2>1, LeastNatural
<1>2. k \in Nat /\ k <= n /\ g[k] # h[k] /\ k # 0
  OBVIOUS
<1>3. k - 1 \in Nat /\ k - 1 < k /\ k - 1 <= n /\ k \in 1..n
  BY <1>2
<1>4. k - 1 \notin Bad
  BY <1>1, <1>2, <1>3
<1> QED
  BY <1>2, <1>3, <1>4

(* A set of lists that has the empty one and every longer one has all.     *)
LEMMA ListInduction ==
    ASSUME NEW S, NEW P, <<>> \in P,
           \A s \in Seq(S), e \in S : s \in P => Append(s, e) \in P
    PROVE  Seq(S) \subseteq P
<1> DEFINE Bad == {Len(s) : s \in Seq(S) \ P}
<1> SUFFICES ASSUME Bad # {} PROVE FALSE
  OBVIOUS
<1>1. PICK n \in Bad : \A m \in Bad : n <= m
  <2>1. Bad \subseteq Nat
    BY LenProperties
  <2> HIDE DEF Bad
  <2> QED
    BY <2>1, LeastNatural
<1>2. PICK s \in Seq(S) \ P : n = Len(s)
  OBVIOUS
<1>3. PICK t \in Seq(S), e \in S : s = Append(t, e)
  BY SequenceEmptyOrAppend
<1>4. Len(s) = Len(t) + 1 /\ Len(t) \in Nat
  BY <1>3, AppendProperties, LenProperties
<1>5. t \notin P
  BY <1>2, <1>3
<1>6. Len(t) \in Bad
  BY <1>5
<1> HIDE DEF Bad
<1>7. Len(s) <= Len(t)
  BY <1>1, <1>2, <1>6
<1> QED
  BY <1>4, <1>7

OnlyTurn(S, seq, wanted) ==
    [k \in Nat \ {0} |-> [t \in Seq(S) |->
        IF k \in 1..Len(seq) /\ seq[k] \in wanted THEN Append(t, seq[k]) ELSE t]]

OnlyLoop(g, S, seq, wanted) ==
    /\ g \in [0..Len(seq) -> Seq(S)]
    /\ g[0] = <<>> /\ Only(seq, wanted) = g[Len(seq)]
    /\ \A k \in 1..Len(seq) :
         g[k] = IF seq[k] \in wanted THEN Append(g[k - 1], seq[k]) ELSE g[k - 1]

LEMMA OnlyIs ==
    ASSUME NEW S, NEW seq \in Seq(S), NEW wanted
    PROVE  \E g : OnlyLoop(g, S, seq, wanted)
<1> DEFINE n     == Len(seq)
           turn  == OnlyTurn(S, seq, wanted)
           Is(f) == f = [k \in 0..n |->
                          IF k = 0 THEN <<>>
                          ELSE IF seq[k] \in wanted THEN Append(f[k - 1], seq[k]) ELSE f[k - 1]]
           out   == CHOOSE f : Is(f)
<1>1. n \in Nat /\ <<>> \in Seq(S) /\ \A k \in 1..n : seq[k] \in S
  BY LenProperties, EmptySeq, ElementOfSeq
<1>2. turn \in [Nat \ {0} -> [Seq(S) -> Seq(S)]]
  BY <1>1, AppendProperties DEF OnlyTurn
<1>3. PICK g \in [0..n -> Seq(S)] : IsLoop(g, n, <<>>, turn)
  <2> HIDE DEF turn, n
  <2> QED
    BY <1>1, <1>2, LoopExists
<1>4. \A k \in 1..n : g[k] = IF seq[k] \in wanted THEN Append(g[k - 1], seq[k]) ELSE g[k - 1]
  <2> TAKE k \in 1..n
  <2>1. k \in Nat \ {0} /\ k - 1 \in 0..n
    BY <1>1
  <2>2. g[k - 1] \in Seq(S)
    BY <2>1
  <2>3. g[k] = turn[k][g[k - 1]]
    BY <1>3 DEF IsLoop
  <2> QED
    BY <2>1, <2>2, <2>3 DEF OnlyTurn
<1>5. g[0] = <<>>
  BY <1>3 DEF IsLoop
<1>6. Is(g)
  <2>1. \A k \in 0..n : k # 0 => k \in 1..n
    <3> HIDE DEF n
    <3> QED
      BY <1>1
  <2> QED
    BY <1>4, <1>5, <2>1, Zenon
<1>7. Is(out)
  <2> HIDE DEF Is
  <2> QED
    BY <1>6
<1>8. PICK f : Is(f) /\ Only(seq, wanted) = f[n]
  <2>1. Only(seq, wanted) = out[n]
    BY DEF Only
  <2> HIDE DEF Is, n
  <2> QED
    BY <1>7, <2>1
<1>9. f = [k \in 0..n |->
            IF k = 0 THEN <<>>
            ELSE IF seq[k] \in wanted THEN Append(f[k - 1], seq[k]) ELSE f[k - 1]]
  BY <1>8
<1>10. f[0] = <<>> /\ \A k \in 1..n : f[k] = IF seq[k] \in wanted THEN Append(f[k - 1], seq[k]) ELSE f[k - 1]
  <2>1. 0 \in 0..n /\ \A k \in 1..n : k \in 0..n /\ k # 0
    BY <1>1
  <2> HIDE DEF n
  <2> QED
    BY <1>9, <2>1
<1>11. \A k \in 1..n : f[k - 1] = g[k - 1] => f[k] = g[k]
  <2> HIDE DEF n
  <2> QED
    BY <1>4, <1>10
<1>12. f[n] = g[n]
  <2>1. n \in Nat /\ f[0] = g[0]
    BY <1>1, <1>5, <1>10
  <2> HIDE DEF n
  <2> QED
    BY <1>11, <2>1, StepsAgree
<1> QED
  BY <1>4, <1>5, <1>8, <1>12 DEF OnlyLoop

LEMMA OnlyEmpty == \A wanted : Only(<<>>, wanted) = <<>>
<1> TAKE wanted
<1>1. <<>> \in Seq({}) /\ Len(<<>>) = 0
  BY EmptySeq
<1>2. PICK g : OnlyLoop(g, {}, <<>>, wanted)
  BY <1>1, OnlyIs
<1> QED
  BY <1>1, <1>2 DEF OnlyLoop

LEMMA OnlyType ==
    ASSUME NEW S, NEW seq \in Seq(S), NEW wanted
    PROVE  Only(seq, wanted) \in Seq(S)
<1>1. Len(seq) \in 0..Len(seq)
  BY LenProperties
<1>2. PICK g : OnlyLoop(g, S, seq, wanted)
  BY OnlyIs
<1> QED
  BY <1>1, <1>2 DEF OnlyLoop

LEMMA OnlyAppend ==
    ASSUME NEW S, NEW seq \in Seq(S), NEW e \in S, NEW wanted
    PROVE  Only(Append(seq, e), wanted) =
             IF e \in wanted THEN Append(Only(seq, wanted), e) ELSE Only(seq, wanted)
<1> DEFINE n == Len(seq)
           t == Append(seq, e)
<1>1. /\ n \in Nat /\ t \in Seq(S) /\ Len(t) = n + 1 /\ t[n + 1] = e
      /\ \A k \in 1..n : t[k] = seq[k]
  BY AppendProperties, LenProperties
<1> HIDE DEF t
<1>2. PICK g : OnlyLoop(g, S, seq, wanted)
  BY OnlyIs
<1>3. PICK h : OnlyLoop(h, S, t, wanted)
  BY <1>1, OnlyIs
<1>4. \A k \in 1..n : h[k] = IF t[k] \in wanted THEN Append(h[k - 1], t[k]) ELSE h[k - 1]
  BY <1>1, <1>3 DEF OnlyLoop
<1>5. \A k \in 1..n : g[k - 1] = h[k - 1] => g[k] = h[k]
  BY <1>1, <1>2, <1>4 DEF OnlyLoop
<1>6. g[n] = h[n]
  <2>1. g[0] = h[0] /\ n \in Nat
    BY <1>1, <1>2, <1>3 DEF OnlyLoop
  <2> HIDE DEF n
  <2> QED
    BY <1>5, <2>1, StepsAgree
<1>7. h[n + 1] = IF t[n + 1] \in wanted THEN Append(h[n], t[n + 1]) ELSE h[n]
  <2>1. n + 1 \in 1..Len(t) /\ (n + 1) - 1 = n
    BY <1>1
  <2> QED
    BY <1>3, <2>1 DEF OnlyLoop
<1> QED
  BY <1>1, <1>2, <1>3, <1>6, <1>7 DEF t, OnlyLoop

(* What the loops keep.                                                    *)
LEMMA RangeAppend ==
    ASSUME NEW S, NEW seq \in Seq(S), NEW e \in S
    PROVE  /\ Range(Append(seq, e)) = Range(seq) \cup {e}
           /\ IsInjective(Append(seq, e)) <=> IsInjective(seq) /\ e \notin Range(seq)
<1> DEFINE n == Len(seq)
           t == Append(seq, e)
<1>1. /\ n \in Nat /\ t \in Seq(S) /\ Len(t) = n + 1 /\ t[n + 1] = e
      /\ \A k \in 1..n : t[k] = seq[k]
      /\ DOMAIN t = 1..(n + 1) /\ DOMAIN seq = 1..n
  BY AppendProperties, LenProperties
<1> HIDE DEF t, n
<1>2. \A k \in 1..(n + 1) : k = n + 1 \/ k \in 1..n
  BY <1>1
<1>3. n + 1 \in 1..(n + 1) /\ n + 1 \notin 1..n /\ 1..n \subseteq 1..(n + 1)
  BY <1>1
<1>4. Range(t) = Range(seq) \cup {e}
  BY <1>1, <1>2, <1>3 DEF Range
<1>5. ASSUME IsInjective(t) PROVE IsInjective(seq) /\ e \notin Range(seq)
  BY <1>1, <1>3, <1>5 DEF IsInjective, Range
<1>6. ASSUME IsInjective(seq), e \notin Range(seq) PROVE IsInjective(t)
  <2> SUFFICES ASSUME NEW a \in 1..(n + 1), NEW b \in 1..(n + 1), t[a] = t[b] PROVE a = b
    BY <1>1 DEF IsInjective
  <2>1. \A k \in 1..n : t[k] # e
    BY <1>1, <1>6 DEF Range
  <2>2. a \in 1..n /\ b \in 1..n => a = b
    BY <1>1, <1>6 DEF IsInjective
  <2> QED
    BY <1>1, <1>2, <2>1, <2>2
<1> QED
  BY <1>4, <1>5, <1>6 DEF t

LEMMA RangeEmpty == Range(<<>>) = {} /\ IsInjective(<<>>)
<1>1. Len(<<>>) = 0 /\ <<>> \in Seq({})
  BY EmptySeq
<1>2. DOMAIN <<>> = {}
  BY <1>1, LenProperties
<1> QED
  BY <1>2 DEF Range, IsInjective

LEMMA EmptyRange ==
    ASSUME NEW S, NEW seq \in Seq(S), Range(seq) = {}
    PROVE  seq = <<>>
<1>1. \A k \in 1..Len(seq) : FALSE
  BY LenProperties DEF Range
<1>2. Len(seq) = 0
  BY <1>1, LenProperties
<1> QED
  BY <1>2, EmptySeq

LEMMA OnlyFacts ==
    ASSUME NEW S, NEW seq \in Seq(S), NEW wanted
    PROVE  /\ Range(Only(seq, wanted)) = Range(seq) \cap wanted
           /\ IsInjective(seq) => IsInjective(Only(seq, wanted))
<1> DEFINE Good == {s \in Seq(S) :
                      /\ Range(Only(s, wanted)) = Range(s) \cap wanted
                      /\ IsInjective(s) => IsInjective(Only(s, wanted))}
<1>1. <<>> \in Good
  BY EmptySeq, OnlyEmpty, RangeEmpty
<1>2. ASSUME NEW s \in Seq(S), NEW e \in S, s \in Good PROVE Append(s, e) \in Good
  <2> DEFINE o == Only(s, wanted)
  <2>1. o \in Seq(S) /\ Append(s, e) \in Seq(S)
    BY OnlyType, AppendProperties
  <2>2. Range(o) = Range(s) \cap wanted /\ (IsInjective(s) => IsInjective(o))
    BY <1>2
  <2>3. Only(Append(s, e), wanted) = IF e \in wanted THEN Append(o, e) ELSE o
    BY OnlyAppend
  <2> HIDE DEF o
  <2>4. /\ Range(Append(s, e)) = Range(s) \cup {e}
        /\ IsInjective(Append(s, e)) <=> IsInjective(s) /\ e \notin Range(s)
    BY RangeAppend
  <2>5. /\ Range(Append(o, e)) = Range(o) \cup {e}
        /\ IsInjective(Append(o, e)) <=> IsInjective(o) /\ e \notin Range(o)
    BY <2>1, RangeAppend
  <2>6. Range(Only(Append(s, e), wanted)) = Range(Append(s, e)) \cap wanted
    BY <2>2, <2>3, <2>4, <2>5
  <2>7. IsInjective(Append(s, e)) => IsInjective(Only(Append(s, e), wanted))
    BY <2>2, <2>3, <2>4, <2>5
  <2> QED
    BY <2>1, <2>6, <2>7
<1> HIDE DEF Good
<1>3. Seq(S) \subseteq Good
  BY <1>1, <1>2, ListInduction
<1> QED
  BY <1>3 DEF Good

LEMMA InjectiveConcat ==
    ASSUME NEW S, NEW s \in Seq(S), NEW t \in Seq(S), Range(s) \cap Range(t) = {}
    PROVE  IsInjective(s \o t) <=> IsInjective(s) /\ IsInjective(t)
<1> DEFINE m == Len(s)
           n == Len(t)
           u == s \o t
<1>1. /\ m \in Nat /\ n \in Nat /\ u \in Seq(S) /\ Len(u) = m + n
      /\ \A i \in 1..(m + n) : u[i] = IF i <= m THEN s[i] ELSE t[i - m]
      /\ DOMAIN s = 1..m /\ DOMAIN t = 1..n
  BY ConcatProperties, LenProperties
<1>2. DOMAIN u = 1..(m + n)
  BY <1>1, LenProperties
<1> HIDE DEF m, n, u
<1>3. \A i \in 1..m : i \in 1..(m + n) /\ u[i] = s[i]
  BY <1>1
<1>4. \A i \in 1..n : i + m \in 1..(m + n) /\ u[i + m] = t[i]
  <2> TAKE i \in 1..n
  <2>1. i + m \in 1..(m + n) /\ ~(i + m <= m) /\ (i + m) - m = i
    BY <1>1
  <2> QED
    BY <1>1, <2>1
<1>5. ASSUME IsInjective(u) PROVE IsInjective(s) /\ IsInjective(t)
  <2>1. \A a, b \in 1..m : s[a] = s[b] => a = b
    BY <1>2, <1>3, <1>5 DEF IsInjective
  <2>2. \A a, b \in 1..n : t[a] = t[b] => a + m = b + m
    BY <1>2, <1>4, <1>5 DEF IsInjective
  <2>3. \A a, b \in 1..n : a + m = b + m => a = b
    BY <1>1
  <2> QED
    BY <1>1, <2>1, <2>2, <2>3 DEF IsInjective
<1>6. ASSUME IsInjective(s), IsInjective(t) PROVE IsInjective(u)
  <2> SUFFICES ASSUME NEW a \in 1..(m + n), NEW b \in 1..(m + n), u[a] = u[b] PROVE a = b
    BY <1>2 DEF IsInjective
  <2>1. \A i \in 1..(m + n) : IF i <= m THEN i \in 1..m /\ u[i] = s[i]
                              ELSE i - m \in 1..n /\ u[i] = t[i - m]
    BY <1>1
  <2>2. \A i \in 1..m, j \in 1..n : s[i] # t[j]
    BY <1>1 DEF Range
  <2>3. CASE a <= m /\ b <= m
    BY <1>1, <1>6, <2>1, <2>3 DEF IsInjective
  <2>4. CASE ~(a <= m) /\ ~(b <= m)
    <3>1. t[a - m] = t[b - m] /\ a - m \in 1..n /\ b - m \in 1..n
      BY <2>1, <2>4
    <3>2. a - m = b - m
      BY <1>1, <1>6, <3>1 DEF IsInjective
    <3> QED
      BY <1>1, <3>2
  <2>5. CASE (a <= m /\ ~(b <= m)) \/ (~(a <= m) /\ b <= m)
    BY <2>1, <2>2, <2>5
  <2> QED
    BY <2>3, <2>4, <2>5
<1> QED
  BY <1>5, <1>6 DEF u

LEMMA RangeConcat ==
    ASSUME NEW S, NEW s \in Seq(S), NEW t \in Seq(S)
    PROVE  s \o t \in Seq(S) /\ Range(s \o t) = Range(s) \cup Range(t)
<1> DEFINE m == Len(s)
           n == Len(t)
           u == s \o t
<1>1. /\ m \in Nat /\ n \in Nat /\ u \in Seq(S) /\ Len(u) = m + n
      /\ \A i \in 1..(m + n) : u[i] = IF i <= m THEN s[i] ELSE t[i - m]
      /\ DOMAIN s = 1..m /\ DOMAIN t = 1..n
  BY ConcatProperties, LenProperties
<1>2. DOMAIN u = 1..(m + n)
  BY <1>1, LenProperties
<1> HIDE DEF m, n, u
<1>3. \A i \in 1..m : i \in 1..(m + n) /\ u[i] = s[i]
  BY <1>1
<1>4. \A i \in 1..n : i + m \in 1..(m + n) /\ u[i + m] = t[i]
  <2> TAKE i \in 1..n
  <2>1. i + m \in 1..(m + n) /\ ~(i + m <= m) /\ (i + m) - m = i
    BY <1>1
  <2> QED
    BY <1>1, <2>1
<1>5. \A i \in 1..(m + n) : \/ i \in 1..m /\ u[i] = s[i]
                            \/ i - m \in 1..n /\ u[i] = t[i - m]
  BY <1>1
<1>6. Range(s) \cup Range(t) \subseteq Range(u)
  <2>1. ASSUME NEW x \in Range(s) PROVE x \in Range(u)
    BY <1>1, <1>2, <1>3 DEF Range
  <2>2. ASSUME NEW x \in Range(t) PROVE x \in Range(u)
    <3>1. PICK i \in 1..n : x = t[i]
      BY <1>1 DEF Range
    <3>2. x = u[i + m] /\ i + m \in DOMAIN u
      BY <1>2, <1>4, <3>1
    <3> QED
      BY <3>2 DEF Range
  <2> QED
    BY <2>1, <2>2
<1>7. Range(u) \subseteq Range(s) \cup Range(t)
  BY <1>1, <1>2, <1>5 DEF Range
<1> QED
  BY <1>1, <1>6, <1>7 DEF u

LEMMA RangeOf ==
    ASSUME NEW S, NEW s \in Seq(S)
    PROVE  /\ Range(s) \subseteq S
           /\ \A i \in 1..Len(s) : s[i] \in Range(s)
           /\ \A x \in Range(s) : \E i \in 1..Len(s) : x = s[i]
<1>1. DOMAIN s = 1..Len(s) /\ \A i \in 1..Len(s) : s[i] \in S
  BY LenProperties, ElementOfSeq
<1> QED
  BY <1>1 DEF Range

LEMMA RangeSubSeq ==
    ASSUME NEW S, NEW s \in Seq(S), NEW i \in 1..(Len(s) + 1), NEW j \in (i - 1)..Len(s)
    PROVE  /\ SubSeq(s, i, j) \in Seq(S) /\ Range(SubSeq(s, i, j)) \subseteq Range(s)
           /\ IsInjective(s) => IsInjective(SubSeq(s, i, j))
           /\ \A k \in i..j : s[k] \in Range(SubSeq(s, i, j))
           /\ \A x \in Range(SubSeq(s, i, j)) : \E k \in i..j : x = s[k]
<1> DEFINE t == SubSeq(s, i, j)
           n == Len(s)
<1>1. n \in Nat /\ DOMAIN s = 1..n /\ \A k \in 1..n : s[k] \in S
  BY LenProperties, ElementOfSeq
<1>2. i \in Nat /\ j \in Int /\ j - i + 1 \in Nat /\ i >= 1 /\ j <= n
  BY <1>1
<1>3. /\ t \in Seq(S) /\ DOMAIN t = 1..(j - i + 1)
      /\ \A k \in 1..(j - i + 1) : t[k] = s[i + k - 1]
  <2>1. j \in (i - 1)..n
    OBVIOUS
  <2>2. t \in Seq(S) /\ Len(t) = (IF i <= j THEN j - i + 1 ELSE 0) /\ \A k \in 1..(j - i + 1) : t[k] = s[i + k - 1]
    BY SubSeqProperties
  <2>3. Len(t) = j - i + 1 /\ DOMAIN t = 1..Len(t)
    BY <1>2, <2>2, LenProperties
  <2> QED
    BY <2>2, <2>3
<1>4. \A k \in 1..(j - i + 1) : i + k - 1 \in i..j /\ i + k - 1 \in 1..n
  BY <1>2
<1>5. \A k \in i..j : k - i + 1 \in 1..(j - i + 1) /\ i + (k - i + 1) - 1 = k
  BY <1>2
<1> HIDE DEF t, n
<1>7. Range(t) \subseteq Range(s)
  BY <1>1, <1>3, <1>4 DEF Range
<1>8. \A k \in i..j : s[k] \in Range(t)
  BY <1>3, <1>5 DEF Range
<1>9. \A x \in Range(t) : \E k \in i..j : x = s[k]
  BY <1>3, <1>4 DEF Range
<1>10. ASSUME IsInjective(s) PROVE IsInjective(t)
  <2> SUFFICES ASSUME NEW a \in 1..(j - i + 1), NEW b \in 1..(j - i + 1), t[a] = t[b] PROVE a = b
    BY <1>3 DEF IsInjective
  <2>1. s[i + a - 1] = s[i + b - 1] /\ i + a - 1 \in 1..n /\ i + b - 1 \in 1..n
    BY <1>3, <1>4
  <2>2. i + a - 1 = i + b - 1
    BY <1>1, <1>10, <2>1 DEF IsInjective
  <2> QED
    BY <1>2, <2>2
<1> QED
  BY <1>3, <1>7, <1>8, <1>9, <1>10 DEF t

LEMMA RangeTail ==
    ASSUME NEW S, NEW s \in Seq(S), s # <<>>
    PROVE  /\ Tail(s) \in Seq(S) /\ Range(Tail(s)) \subseteq Range(s) /\ Head(s) \in Range(s)
<1>1. Tail(s) = SubSeq(s, 2, Len(s)) /\ Len(s) \in Nat \ {0} /\ Head(s) = s[1]
  BY TailIsSubSeq, EmptySeq, LenProperties, HeadTailProperties
<1>2. 2 \in 1..(Len(s) + 1) /\ Len(s) \in (2 - 1)..Len(s) /\ 1 \in 1..Len(s)
  BY <1>1
<1>3. SubSeq(s, 2, Len(s)) \in Seq(S) /\ Range(SubSeq(s, 2, Len(s))) \subseteq Range(s)
  BY <1>2, RangeSubSeq
<1>4. Head(s) \in Range(s)
  <2>1. \A i \in 1..Len(s) : s[i] \in Range(s)
    BY RangeOf
  <2> QED
    BY <1>1, <1>2, <2>1
<1> QED
  BY <1>1, <1>3, <1>4

LEMMA OneMember ==
    ASSUME NEW S, NEW e \in S
    PROVE  <<e>> \in Seq(S) /\ Range(<<e>>) = {e} /\ IsInjective(<<e>>)
<1> DEFINE o == <<e>>
<1>1. o \in Seq(S) /\ Len(o) = 1 /\ o[1] = e
  OBVIOUS
<1>2. DOMAIN o = {1}
  BY <1>1, LenProperties
<1> HIDE DEF o
<1>3. Range(o) = {e} /\ IsInjective(o)
  BY <1>1, <1>2 DEF Range, IsInjective
<1> QED
  BY <1>1, <1>3 DEF o

(* A list one longer or one shorter.                                       *)
LEMMA InsertAtFacts ==
    ASSUME NEW S, NEW s \in Seq(S), NEW e \in S, NEW place \in 1..(Len(s) + 1)
    PROVE  /\ InsertAt(s, place, e) \in Seq(S)
           /\ Range(InsertAt(s, place, e)) = Range(s) \cup {e}
           /\ IsInjective(s) /\ e \notin Range(s) => IsInjective(InsertAt(s, place, e))
<1> DEFINE n == Len(s)
           a == SubSeq(s, 1, place - 1)
           b == SubSeq(s, place, n)
           o == <<e>>
<1>1. n \in Nat /\ \A k \in 1..n : s[k] \in S
  BY LenProperties, ElementOfSeq
<1>2. 1 \in 1..(n + 1) /\ place - 1 \in (1 - 1)..n /\ n \in (place - 1)..n
  BY <1>1
<1>3. /\ a \in Seq(S) /\ Range(a) \subseteq Range(s) /\ (IsInjective(s) => IsInjective(a))
      /\ \A k \in 1..(place - 1) : s[k] \in Range(a)
      /\ \A x \in Range(a) : \E k \in 1..(place - 1) : x = s[k]
  <2> HIDE DEF n
  <2> QED
    BY <1>2, RangeSubSeq DEF n
<1>4. /\ b \in Seq(S) /\ Range(b) \subseteq Range(s) /\ (IsInjective(s) => IsInjective(b))
      /\ \A k \in place..n : s[k] \in Range(b)
      /\ \A x \in Range(b) : \E k \in place..n : x = s[k]
  BY <1>2, RangeSubSeq
<1>5. InsertAt(s, place, e) = (a \o o) \o b
  BY DEF InsertAt
<1>6. o \in Seq(S) /\ Range(o) = {e} /\ IsInjective(o)
  BY OneMember
<1> HIDE DEF a, b, o
<1>8. a \o o \in Seq(S) /\ Range(a \o o) = Range(a) \cup {e}
  BY <1>3, <1>6, RangeConcat
<1>9. (a \o o) \o b \in Seq(S) /\ Range((a \o o) \o b) = (Range(a) \cup {e}) \cup Range(b)
  <2> DEFINE c == a \o o
  <2>1. c \in Seq(S) /\ Range(c) = Range(a) \cup {e}
    BY <1>8
  <2> HIDE DEF c
  <2>2. c \o b \in Seq(S) /\ Range(c \o b) = Range(c) \cup Range(b)
    BY <1>4, <2>1, RangeConcat
  <2> QED
    BY <2>1, <2>2 DEF c
<1>10. Range(s) \subseteq Range(a) \cup Range(b)
  <2> SUFFICES ASSUME NEW x \in Range(s) PROVE x \in Range(a) \cup Range(b)
    OBVIOUS
  <2>1. PICK k \in 1..n : x = s[k]
    BY RangeOf
  <2>2. k \in 1..(place - 1) \/ k \in place..n
    BY <1>1
  <2> QED
    BY <1>3, <1>4, <2>1, <2>2
<1>11. ASSUME IsInjective(s), e \notin Range(s) PROVE IsInjective((a \o o) \o b)
  <2>1. IsInjective(a) /\ IsInjective(b) /\ e \notin Range(a) /\ e \notin Range(b)
    BY <1>3, <1>4, <1>11
  <2>2. Range(a) \cap Range(b) = {}
    <3> SUFFICES ASSUME NEW x \in Range(a), x \in Range(b) PROVE FALSE
      OBVIOUS
    <3>1. PICK i \in 1..(place - 1) : x = s[i]
      BY <1>3
    <3>2. PICK j \in place..n : x = s[j]
      BY <1>4
    <3>3. i \in 1..n /\ j \in 1..n /\ i # j
      BY <1>1
    <3>4. DOMAIN s = 1..n
      BY LenProperties
    <3> QED
      BY <1>11, <3>1, <3>2, <3>3, <3>4 DEF IsInjective
  <2>3. IsInjective(a \o o)
    <3>1. Range(a) \cap Range(o) = {}
      BY <1>6, <2>1
    <3> QED
      BY <1>3, <1>6, <2>1, <3>1, InjectiveConcat
  <2>4. Range(a \o o) \cap Range(b) = {}
    BY <1>8, <2>1, <2>2
  <2> QED
    BY <1>4, <1>8, <2>1, <2>3, <2>4, InjectiveConcat
<1> QED
  BY <1>3, <1>4, <1>5, <1>9, <1>10, <1>11

LEMMA RemoveAtFacts ==
    ASSUME NEW S, NEW s \in Seq(S), IsInjective(s), NEW place \in 1..Len(s)
    PROVE  /\ RemoveAt(s, place) \in Seq(S)
           /\ Range(RemoveAt(s, place)) = Range(s) \ {s[place]}
           /\ IsInjective(RemoveAt(s, place))
<1> DEFINE n == Len(s)
           a == SubSeq(s, 1, place - 1)
           b == SubSeq(s, place + 1, n)
<1>1. n \in Nat /\ (\A k \in 1..n : s[k] \in S) /\ DOMAIN s = 1..n
  BY LenProperties, ElementOfSeq
<1>2. 1 \in 1..(n + 1) /\ place - 1 \in (1 - 1)..n /\ place + 1 \in 1..(n + 1) /\ n \in ((place + 1) - 1)..n
  BY <1>1
<1>3. /\ a \in Seq(S) /\ Range(a) \subseteq Range(s) /\ IsInjective(a)
      /\ \A k \in 1..(place - 1) : s[k] \in Range(a)
      /\ \A x \in Range(a) : \E k \in 1..(place - 1) : x = s[k]
  <2> HIDE DEF n
  <2> QED
    BY <1>2, RangeSubSeq DEF n
<1>4. /\ b \in Seq(S) /\ Range(b) \subseteq Range(s) /\ IsInjective(b)
      /\ \A k \in (place + 1)..n : s[k] \in Range(b)
      /\ \A x \in Range(b) : \E k \in (place + 1)..n : x = s[k]
  BY <1>2, RangeSubSeq
<1>5. RemoveAt(s, place) = a \o b
  BY DEF RemoveAt
<1> HIDE DEF a, b, n
<1>6. a \o b \in Seq(S) /\ Range(a \o b) = Range(a) \cup Range(b)
  BY <1>3, <1>4, RangeConcat
<1>7. \A i, j \in 1..n : s[i] = s[j] => i = j
  BY <1>1 DEF IsInjective
<1>8. s[place] \notin Range(a) /\ s[place] \notin Range(b)
  <2>1. ASSUME s[place] \in Range(a) PROVE FALSE
    <3>1. PICK i \in 1..(place - 1) : s[place] = s[i]
      BY <1>3, <2>1
    <3>2. i \in 1..n /\ place \in 1..n /\ i # place
      BY <1>1 DEF n
    <3> QED
      BY <1>7, <3>1, <3>2
  <2>2. ASSUME s[place] \in Range(b) PROVE FALSE
    <3>1. PICK i \in (place + 1)..n : s[place] = s[i]
      BY <1>4, <2>2
    <3>2. i \in 1..n /\ place \in 1..n /\ i # place
      BY <1>1 DEF n
    <3> QED
      BY <1>7, <3>1, <3>2
  <2> QED
    BY <2>1, <2>2
<1>9. Range(s) \ {s[place]} \subseteq Range(a) \cup Range(b)
  <2> SUFFICES ASSUME NEW x \in Range(s), x # s[place] PROVE x \in Range(a) \cup Range(b)
    OBVIOUS
  <2>1. PICK k \in 1..n : x = s[k]
    BY RangeOf DEF n
  <2>2. k \in 1..(place - 1) \/ k \in (place + 1)..n
    BY <1>1, <2>1
  <2> QED
    BY <1>3, <1>4, <2>1, <2>2
<1>10. Range(a) \cap Range(b) = {}
  <2> SUFFICES ASSUME NEW x \in Range(a), x \in Range(b) PROVE FALSE
    OBVIOUS
  <2>1. PICK i \in 1..(place - 1) : x = s[i]
    BY <1>3
  <2>2. PICK j \in (place + 1)..n : x = s[j]
    BY <1>4
  <2>3. i \in 1..n /\ j \in 1..n /\ i # j
    BY <1>1 DEF n
  <2> QED
    BY <1>7, <2>1, <2>2, <2>3
<1>11. IsInjective(a \o b)
  BY <1>3, <1>4, <1>10, InjectiveConcat
<1> QED
  BY <1>3, <1>4, <1>5, <1>6, <1>8, <1>9, <1>11

(* The loop that joins lists.                                              *)
JoinTurn(T, seq, f) ==
    [k \in Nat \ {0} |-> [t \in Seq(T) |-> IF k \in 1..Len(seq) THEN t \o f[seq[k]] ELSE t]]

JoinLoop(g, T, seq, f) ==
    /\ g \in [0..Len(seq) -> Seq(T)]
    /\ g[0] = <<>> /\ Joined(seq, f) = g[Len(seq)]
    /\ \A k \in 1..Len(seq) : g[k] = g[k - 1] \o f[seq[k]]

Joins(T, seq, f) == \A x \in Range(seq) : f[x] \in Seq(T)

LEMMA JoinedIs ==
    ASSUME NEW S, NEW T, NEW seq \in Seq(S), NEW f, Joins(T, seq, f)
    PROVE  \E g : JoinLoop(g, T, seq, f)
<1> DEFINE n     == Len(seq)
           turn  == JoinTurn(T, seq, f)
           Is(h) == h = [k \in 0..n |-> IF k = 0 THEN <<>> ELSE h[k - 1] \o f[seq[k]]]
           out   == CHOOSE h : Is(h)
<1>1. n \in Nat /\ <<>> \in Seq(T) /\ \A k \in 1..n : f[seq[k]] \in Seq(T)
  BY LenProperties, EmptySeq, RangeOf DEF Joins
<1>2. turn \in [Nat \ {0} -> [Seq(T) -> Seq(T)]]
  BY <1>1, ConcatProperties DEF JoinTurn
<1>3. PICK g \in [0..n -> Seq(T)] : IsLoop(g, n, <<>>, turn)
  <2> HIDE DEF turn, n
  <2> QED
    BY <1>1, <1>2, LoopExists
<1>4. \A k \in 1..n : g[k] = g[k - 1] \o f[seq[k]]
  <2> TAKE k \in 1..n
  <2>1. k \in Nat \ {0} /\ k - 1 \in 0..n
    BY <1>1
  <2>2. g[k - 1] \in Seq(T)
    BY <2>1
  <2>3. g[k] = turn[k][g[k - 1]]
    BY <1>3 DEF IsLoop
  <2> QED
    BY <2>1, <2>2, <2>3 DEF JoinTurn
<1>5. g[0] = <<>>
  BY <1>3 DEF IsLoop
<1>6. Is(g)
  <2>1. \A k \in 0..n : k # 0 => k \in 1..n
    <3> HIDE DEF n
    <3> QED
      BY <1>1
  <2> QED
    BY <1>4, <1>5, <2>1, Zenon
<1>7. Is(out)
  <2> HIDE DEF Is
  <2> QED
    BY <1>6
<1>8. PICK h : Is(h) /\ Joined(seq, f) = h[n]
  <2>1. Joined(seq, f) = out[n]
    BY DEF Joined
  <2> HIDE DEF Is, n
  <2> QED
    BY <1>7, <2>1
<1>9. h = [k \in 0..n |-> IF k = 0 THEN <<>> ELSE h[k - 1] \o f[seq[k]]]
  BY <1>8
<1>10. h[0] = <<>> /\ \A k \in 1..n : h[k] = h[k - 1] \o f[seq[k]]
  <2>1. 0 \in 0..n /\ \A k \in 1..n : k \in 0..n /\ k # 0
    BY <1>1
  <2> HIDE DEF n
  <2> QED
    BY <1>9, <2>1
<1>11. \A k \in 1..n : h[k - 1] = g[k - 1] => h[k] = g[k]
  <2> HIDE DEF n
  <2> QED
    BY <1>4, <1>10
<1>12. h[n] = g[n]
  <2>1. n \in Nat /\ h[0] = g[0]
    BY <1>1, <1>5, <1>10
  <2> HIDE DEF n
  <2> QED
    BY <1>11, <2>1, StepsAgree
<1> QED
  BY <1>4, <1>5, <1>8, <1>12 DEF JoinLoop

LEMMA JoinedEmpty == \A f : Joined(<<>>, f) = <<>>
<1> TAKE f
<1>1. <<>> \in Seq({}) /\ Len(<<>>) = 0 /\ Joins({}, <<>>, f)
  BY EmptySeq, RangeEmpty DEF Joins
<1>2. PICK g : JoinLoop(g, {}, <<>>, f)
  BY <1>1, JoinedIs
<1> QED
  BY <1>1, <1>2 DEF JoinLoop

LEMMA JoinedType ==
    ASSUME NEW S, NEW T, NEW seq \in Seq(S), NEW f, Joins(T, seq, f)
    PROVE  Joined(seq, f) \in Seq(T)
<1>1. Len(seq) \in 0..Len(seq)
  BY LenProperties
<1>2. PICK g : JoinLoop(g, T, seq, f)
  BY JoinedIs
<1> QED
  BY <1>1, <1>2 DEF JoinLoop

LEMMA JoinsAppend ==
    ASSUME NEW S, NEW T, NEW seq \in Seq(S), NEW e \in S, NEW f
    PROVE  Joins(T, Append(seq, e), f) <=> Joins(T, seq, f) /\ f[e] \in Seq(T)
BY RangeAppend DEF Joins

LEMMA JoinedAppend ==
    ASSUME NEW S, NEW T, NEW seq \in Seq(S), NEW e \in S, NEW f,
           Joins(T, seq, f), f[e] \in Seq(T)
    PROVE  Joined(Append(seq, e), f) = Joined(seq, f) \o f[e]
<1> DEFINE n == Len(seq)
           t == Append(seq, e)
<1>1. /\ n \in Nat /\ t \in Seq(S) /\ Len(t) = n + 1 /\ t[n + 1] = e
      /\ \A k \in 1..n : t[k] = seq[k]
  BY AppendProperties, LenProperties
<1>0. Joins(T, t, f)
  BY JoinsAppend
<1> HIDE DEF t
<1>3. PICK g : JoinLoop(g, T, seq, f)
  BY JoinedIs
<1>4. PICK h : JoinLoop(h, T, t, f)
  BY <1>0, <1>1, JoinedIs
<1>5. \A k \in 1..n : h[k] = h[k - 1] \o f[t[k]]
  <2>1. \A k \in 1..n : k \in 1..Len(t)
    BY <1>1
  <2> QED
    BY <1>4, <2>1 DEF JoinLoop
<1>6. \A k \in 1..n : g[k - 1] = h[k - 1] => g[k] = h[k]
  BY <1>1, <1>3, <1>5 DEF JoinLoop
<1>7. g[n] = h[n]
  <2>1. g[0] = h[0] /\ n \in Nat
    BY <1>1, <1>3, <1>4 DEF JoinLoop
  <2> HIDE DEF n
  <2> QED
    BY <1>6, <2>1, StepsAgree
<1>8. h[n + 1] = h[n] \o f[t[n + 1]]
  <2>1. n + 1 \in 1..Len(t) /\ (n + 1) - 1 = n
    BY <1>1
  <2> QED
    BY <1>4, <2>1 DEF JoinLoop
<1> QED
  BY <1>1, <1>3, <1>4, <1>7, <1>8 DEF t, JoinLoop

(* What is joined: the members of all lists, each once if no two lists     *)
(* share one.                                                              *)
Apart(seq, f) ==
    /\ IsInjective(seq) /\ \A x \in Range(seq) : IsInjective(f[x])
    /\ \A x, y \in Range(seq) : x # y => Range(f[x]) \cap Range(f[y]) = {}

LEMMA JoinedFacts ==
    ASSUME NEW S, NEW T, NEW seq \in Seq(S), NEW f, Joins(T, seq, f)
    PROVE  /\ \A z : z \in Range(Joined(seq, f)) <=> \E x \in Range(seq) : z \in Range(f[x])
           /\ Apart(seq, f) => IsInjective(Joined(seq, f))
<1> DEFINE Whole(s) == \A z : z \in Range(Joined(s, f)) <=> \E x \in Range(s) : z \in Range(f[x])
           Good == {s \in Seq(S) : Joins(T, s, f) => Whole(s) /\ (Apart(s, f) => IsInjective(Joined(s, f)))}
<1>1. <<>> \in Good
  BY EmptySeq, JoinedEmpty, RangeEmpty
<1>2. ASSUME NEW s \in Seq(S), NEW e \in S, s \in Good PROVE Append(s, e) \in Good
  <2>1. Append(s, e) \in Seq(S)
    BY AppendProperties
  <2> SUFFICES ASSUME Joins(T, Append(s, e), f)
               PROVE  /\ Whole(Append(s, e))
                      /\ Apart(Append(s, e), f) => IsInjective(Joined(Append(s, e), f))
    BY <2>1
  <2> DEFINE c == Joined(s, f)
             d == f[e]
  <2>2. Joins(T, s, f) /\ d \in Seq(T) /\ Joined(Append(s, e), f) = c \o d
    <3>1. Joins(T, s, f) /\ f[e] \in Seq(T)
      BY JoinsAppend
    <3> QED
      BY <3>1, JoinedAppend
  <2>3. c \in Seq(T)
    BY <2>2, JoinedType
  <2>4. Whole(s) /\ (Apart(s, f) => IsInjective(c))
    BY <1>2, <2>2
  <2>5. /\ Range(Append(s, e)) = Range(s) \cup {e}
        /\ IsInjective(Append(s, e)) <=> IsInjective(s) /\ e \notin Range(s)
    BY RangeAppend
  <2>6. \A z : z \in Range(c) <=> \E x \in Range(s) : z \in Range(f[x])
    BY <2>4
  <2> HIDE DEF c
  <2>7. Range(c \o d) = Range(c) \cup Range(d)
    <3> HIDE DEF d
    <3> QED
      BY <2>2, <2>3, RangeConcat
  <2>8. Whole(Append(s, e))
    BY <2>2, <2>5, <2>6, <2>7
  <2>9. ASSUME Apart(Append(s, e), f) PROVE IsInjective(c \o d)
    <3>1. Apart(s, f) /\ e \notin Range(s) /\ IsInjective(d)
      BY <2>5, <2>9 DEF Apart
    <3>2. Range(c) \cap Range(d) = {}
      <4> SUFFICES ASSUME NEW z \in Range(c), z \in Range(d) PROVE FALSE
        OBVIOUS
      <4>1. PICK x \in Range(s) : z \in Range(f[x])
        BY <2>6
      <4>2. x # e /\ x \in Range(Append(s, e)) /\ e \in Range(Append(s, e))
        BY <2>5, <3>1
      <4> QED
        BY <2>9, <4>1, <4>2 DEF Apart
    <3>3. IsInjective(c)
      BY <2>4, <3>1
    <3> HIDE DEF d
    <3> QED
      BY <2>2, <2>3, <3>1, <3>2, <3>3, InjectiveConcat
  <2> QED
    BY <2>2, <2>8, <2>9
<1> HIDE DEF Good
<1>3. Seq(S) \subseteq Good
  BY <1>1, <1>2, ListInduction
<1> QED
  BY <1>3 DEF Good

LEMMA JoinedAgree ==
    ASSUME NEW S, NEW T, NEW seq \in Seq(S), NEW f, NEW g,
           Joins(T, seq, f), \A x \in Range(seq) : f[x] = g[x]
    PROVE  Joined(seq, f) = Joined(seq, g)
<1> DEFINE Good == {s \in Seq(S) : Joins(T, s, f) /\ (\A x \in Range(s) : f[x] = g[x])
                                     => Joined(s, f) = Joined(s, g)}
<1>1. <<>> \in Good
  BY EmptySeq, JoinedEmpty
<1>2. ASSUME NEW s \in Seq(S), NEW e \in S, s \in Good PROVE Append(s, e) \in Good
  <2>1. Append(s, e) \in Seq(S) /\ Range(Append(s, e)) = Range(s) \cup {e}
    BY AppendProperties, RangeAppend
  <2> SUFFICES ASSUME Joins(T, Append(s, e), f), \A x \in Range(Append(s, e)) : f[x] = g[x]
               PROVE  Joined(Append(s, e), f) = Joined(Append(s, e), g)
    BY <2>1
  <2>2. Joins(T, s, f) /\ Joined(Append(s, e), f) = Joined(s, f) \o f[e]
    <3>1. Joins(T, s, f) /\ f[e] \in Seq(T)
      BY JoinsAppend
    <3> QED
      BY <3>1, JoinedAppend
  <2>3. Joins(T, Append(s, e), g)
    BY DEF Joins
  <2>4. Joined(Append(s, e), g) = Joined(s, g) \o g[e]
    <3>1. Joins(T, s, g) /\ g[e] \in Seq(T)
      BY <2>3, JoinsAppend
    <3> QED
      BY <3>1, JoinedAppend
  <2>5. Joined(s, f) = Joined(s, g) /\ f[e] = g[e]
    BY <1>2, <2>1, <2>2
  <2> QED
    BY <2>2, <2>4, <2>5
<1> HIDE DEF Good
<1>3. Seq(S) \subseteq Good
  BY <1>1, <1>2, ListInduction
<1> QED
  BY <1>3 DEF Good

-----------------------------------------------------------------------------
(* A function whose value at x is made of those at places of a greater     *)
(* rank exists, if ranks have a bound.                                     *)
Local(S, T, rank, turn) ==
    \A f, g \in [S -> T], x \in S :
        (\A y \in S : rank[y] > rank[x] => f[y] = g[y]) => turn[f][x] = turn[g][x]

Descends(S, T, bound, rank, turn) ==
    /\ T # {} /\ bound \in Nat /\ rank \in [S -> 0..bound]
    /\ turn \in [[S -> T] -> [S -> T]] /\ Local(S, T, rank, turn)

LEMMA StructuralRecursion ==
    ASSUME NEW S, NEW T, NEW bound, NEW rank, NEW turn, Descends(S, T, bound, rank, turn)
    PROVE  \E f \in [S -> T] : f = turn[f]
<1> USE DEF Descends
<1> DEFINE Settled(f, k) == \A x \in S : rank[x] >= k => f[x] = turn[f][x]
           Some == {k \in Nat : \E f \in [S -> T] : Settled(f, k)}
<1>1. bound + 1 \in Some
  <2>1. PICK t \in T : TRUE
    OBVIOUS
  <2>2. [x \in S |-> t] \in [S -> T]
    OBVIOUS
  <2>3. \A x \in S : ~(rank[x] >= bound + 1)
    OBVIOUS
  <2>4. Settled([x \in S |-> t], bound + 1) /\ bound + 1 \in Nat
    BY <2>3
  <2> HIDE DEF Settled
  <2> QED
    BY <2>2, <2>4
<1>2. PICK k \in Some : \A j \in Some : k <= j
  <2>1. Some \subseteq Nat /\ Some # {}
    BY <1>1
  <2> HIDE DEF Some
  <2> QED
    BY <2>1, LeastNatural
<1>3. k \in Nat
  OBVIOUS
<1>4. PICK f \in [S -> T] : Settled(f, k)
  OBVIOUS
<1>5. k = 0
  <2> SUFFICES ASSUME k # 0 PROVE FALSE
    OBVIOUS
  <2>1. k - 1 \in Nat /\ k - 1 < k
    BY <1>3
  <2>2. turn[f] \in [S -> T]
    OBVIOUS
  <2> HIDE DEF Some
  <2>3. Settled(turn[f], k - 1)
    <3> SUFFICES ASSUME NEW x \in S, rank[x] >= k - 1 PROVE turn[f][x] = turn[turn[f]][x]
      OBVIOUS
    <3>1. \A y \in S : rank[y] > rank[x] => f[y] = turn[f][y]
      <4> SUFFICES ASSUME NEW y \in S, rank[y] > rank[x] PROVE f[y] = turn[f][y]
        OBVIOUS
      <4>1. rank[y] \in Nat /\ rank[x] \in Nat
        OBVIOUS
      <4>2. rank[y] >= k
        BY <1>3, <4>1
      <4> QED
        BY <1>4, <4>2
    <3> QED
      BY <2>2, <3>1 DEF Local
  <2>4. k - 1 \in Some
    BY <2>1, <2>2, <2>3 DEF Some
  <2>5. k <= k - 1
    <3> HIDE DEF Settled
    <3> QED
      BY <1>2, <2>4
  <2> QED
    BY <1>3, <2>5
<1>6. \A x \in S : f[x] = turn[f][x]
  BY <1>4, <1>5
<1>7. f \in [S -> T] /\ turn[f] \in [S -> T]
  OBVIOUS
<1> QED
  BY <1>6, <1>7

(* What holds at x if it holds at every place of a greater rank holds      *)
(* everywhere.                                                             *)
LEMMA RankInduction ==
    ASSUME NEW S, NEW bound \in Nat, NEW rank \in [S -> 0..bound], NEW P,
           \A x \in S : (\A y \in S : rank[y] > rank[x] => y \in P) => x \in P
    PROVE  S \subseteq P
<1> DEFINE Bad == {bound - rank[x] : x \in S \ P}
<1> SUFFICES ASSUME Bad # {} PROVE FALSE
  OBVIOUS
<1>1. PICK n \in Bad : \A m \in Bad : n <= m
  <2>1. Bad \subseteq Nat
    OBVIOUS
  <2> HIDE DEF Bad
  <2> QED
    BY <2>1, LeastNatural
<1>2. PICK x \in S \ P : n = bound - rank[x]
  OBVIOUS
<1>3. \A y \in S : rank[y] > rank[x] => y \in P
  <2> SUFFICES ASSUME NEW y \in S, rank[y] > rank[x], y \notin P PROVE FALSE
    OBVIOUS
  <2>1. bound - rank[y] \in Bad
    OBVIOUS
  <2>2. rank[x] \in Nat /\ rank[y] \in Nat
    OBVIOUS
  <2> HIDE DEF Bad
  <2>3. bound - rank[x] <= bound - rank[y]
    BY <1>1, <1>2, <2>1
  <2> QED
    BY <2>2, <2>3
<1> QED
  BY <1>2, <1>3

(* Sets that grow by the same step end up closed under it.                 *)
Grows(U, h, step, d) ==
    /\ h \in Nat /\ IsFiniteSet(U) /\ Cardinality(U) <= h + 1
    /\ step \in [SUBSET U -> SUBSET U] /\ \A s \in SUBSET U : s \subseteq step[s]
    /\ d \in [0..h -> SUBSET U] /\ d[0] # {}
    /\ \A n \in 1..h : d[n] = step[d[n - 1]]

LEMMA GrowthEnds ==
    ASSUME NEW U, NEW h, NEW step, NEW d, Grows(U, h, step, d)
    PROVE  step[d[h]] = d[h]
<1> USE DEF Grows
<1> DEFINE Fine(n) == step[d[n]] = d[n] \/ Cardinality(d[n]) >= n + 1
           Bad == {n \in Nat : n <= h /\ ~ Fine(n)}
<1>1. \A s \in SUBSET U : IsFiniteSet(s) /\ Cardinality(s) \in Nat
  BY FS_Subset, FS_CardinalityType
<1>2. Bad = {}
  <2> SUFFICES ASSUME Bad # {} PROVE FALSE
    OBVIOUS
  <2>1. PICK n \in Bad : \A m \in Bad : n <= m
    <3>1. Bad \subseteq Nat
      OBVIOUS
    <3> HIDE DEF Bad
    <3> QED
      BY <3>1, LeastNatural
  <2>2. n \in Nat /\ n <= h /\ ~ Fine(n)
    OBVIOUS
  <2>3. CASE n = 0
    <3>1. d[0] \in SUBSET U
      OBVIOUS
    <3>2. Cardinality(d[0]) # 0
      BY <1>1, <3>1, FS_EmptySet
    <3> QED
      BY <1>1, <2>2, <2>3, <3>1, <3>2
  <2>4. CASE n # 0
    <3>1. n - 1 \in Nat /\ n - 1 < n /\ n - 1 <= h /\ n \in 1..h /\ n - 1 \in 0..h /\ n \in 0..h
      BY <2>2, <2>4
    <3>2. n - 1 \notin Bad
      <4> HIDE DEF Bad
      <4> QED
        BY <2>1, <2>2, <3>1
    <3>3. Fine(n - 1)
      BY <3>1, <3>2
    <3>4. d[n] = step[d[n - 1]] /\ d[n - 1] \in SUBSET U /\ d[n] \in SUBSET U
      BY <3>1
    <3>5. step[d[n - 1]] # d[n - 1]
      BY <2>2, <3>4
    <3>6. Cardinality(d[n - 1]) >= n
      BY <2>2, <3>3, <3>5
    <3>7. d[n - 1] \subseteq d[n] /\ d[n - 1] # d[n]
      BY <3>4, <3>5
    <3>8. Cardinality(d[n - 1]) < Cardinality(d[n])
      <4>1. IsFiniteSet(d[n]) /\ Cardinality(d[n]) \in Nat /\ Cardinality(d[n - 1]) \in Nat
        BY <1>1, <3>4
      <4>2. Cardinality(d[n - 1]) <= Cardinality(d[n])
        BY <3>7, <4>1, FS_Subset
      <4>3. Cardinality(d[n - 1]) # Cardinality(d[n])
        BY <3>7, <4>1, FS_Subset
      <4> QED
        BY <4>1, <4>2, <4>3
    <3> QED
      BY <1>1, <2>2, <3>4, <3>6, <3>8
  <2> QED
    BY <2>3, <2>4
<1>3. Fine(h)
  BY <1>2
<1>4. CASE Cardinality(d[h]) >= h + 1
  <2>1. d[h] \in SUBSET U
    OBVIOUS
  <2>2. Cardinality(d[h]) <= Cardinality(U) /\ (Cardinality(d[h]) = Cardinality(U) => d[h] = U)
    BY <2>1, FS_Subset
  <2>3. Cardinality(d[h]) \in Nat /\ Cardinality(U) \in Nat
    BY <1>1, <2>1, FS_CardinalityType
  <2>4. d[h] = U
    BY <1>4, <2>2, <2>3
  <2> QED
    BY <2>1, <2>4
<1> QED
  BY <1>3, <1>4

-----------------------------------------------------------------------------
(* Nodes.                                                                  *)
TreeIsSeq == tree \in Seq(TreeNode)
Parents   == [NodeIds -> NodeIds \cup {NoNode}]

LEMMA NodeNumbers ==
    ASSUME TreeIsSeq
    PROVE  /\ Len(tree) \in Nat /\ Nodes = 1..Len(tree)
           /\ NodeIds = 0..(5 * Len(tree)) /\ Size = 2 * Len(tree) /\ Height \in Nat
           /\ NodeIds \cup {NoNode} = (-1)..(5 * Len(tree)) /\ NoNode \notin NodeIds
           /\ IsFiniteSet(NodeIds) /\ Cardinality(NodeIds) = Height
           /\ IsFiniteSet(NodeIds \cup {NoNode}) /\ Cardinality(NodeIds \cup {NoNode}) = Height + 1
<1> DEFINE n == Len(tree)
<1>1. n \in Nat /\ Nodes = 1..n
  BY LenProperties DEF TreeIsSeq, Nodes
<1>2. /\ NodeIds = 0..(5 * n) /\ Size = 2 * n /\ Height = 5 * n + 1 /\ Height \in Nat
      /\ NodeIds \cup {NoNode} = (-1)..(5 * n) /\ NoNode \notin NodeIds
  BY <1>1 DEF NodeIds, Size, Height, NoNode
<1>3. 5 * n \in Int /\ 5 * n >= 0 /\ 0 \in Int /\ -1 \in Int
  BY <1>1
<1>4. IsFiniteSet(0..(5 * n)) /\ Cardinality(0..(5 * n)) = 5 * n + 1
  <2> DEFINE m == 5 * n
  <2>1. m \in Int /\ m >= 0
    BY <1>3
  <2> HIDE DEF m
  <2>2. IsFiniteSet(0..m) /\ Cardinality(0..m) = m + 1
    BY <2>1, FS_Interval
  <2> QED
    BY <2>2 DEF m
<1>5. IsFiniteSet((-1)..(5 * n)) /\ Cardinality((-1)..(5 * n)) = 5 * n + 2
  <2> DEFINE m == 5 * n
  <2>1. m \in Int /\ m >= 0
    BY <1>3
  <2> HIDE DEF m
  <2>2. IsFiniteSet((-1)..m) /\ Cardinality((-1)..m) = m + 2
    BY <2>1, FS_Interval
  <2> QED
    BY <2>2 DEF m
<1>6. IsFiniteSet(NodeIds) /\ Cardinality(NodeIds) = 5 * n + 1
  BY <1>2, <1>4, Zenon
<1>7. IsFiniteSet(NodeIds \cup {NoNode}) /\ Cardinality(NodeIds \cup {NoNode}) = 5 * n + 2
  BY <1>2, <1>5, Zenon
<1> HIDE DEF n
<1>8. Cardinality(NodeIds) = Height /\ Cardinality(NodeIds \cup {NoNode}) = Height + 1
  BY <1>1, <1>2, <1>6, <1>7
<1> QED
  BY <1>1, <1>2, <1>6, <1>7, <1>8 DEF n

(* The way up from a node, and what lies below the document.               *)
UpStep ==
    [s \in SUBSET (NodeIds \cup {NoNode}) |-> s \cup {parent[y] : y \in s \ {NoNode}}]
DownStep ==
    [s \in SUBSET NodeIds |-> s \cup {y \in NodeIds : parent[y] \in s}]

AboveLoop(g, x) ==
    /\ g \in [0..Height -> SUBSET (NodeIds \cup {NoNode})]
    /\ g[0] = {x} /\ Above(x) = g[Height]
    /\ \A n \in 1..Height : g[n] = UpStep[g[n - 1]]
BelowLoop(g) ==
    /\ g \in [0..Height -> SUBSET NodeIds]
    /\ g[0] = {0} /\ InDocument = g[Height]
    /\ \A n \in 1..Height : g[n] = DownStep[g[n - 1]]

LEMMA AboveIs ==
    ASSUME TreeIsSeq, parent \in Parents, NEW x \in NodeIds
    PROVE  \E g : AboveLoop(g, x)
<1> DEFINE U == NodeIds \cup {NoNode}
           turn  == [k \in Nat \ {0} |-> UpStep]
           Is(h) == h = [n \in 0..Height |->
                           IF n = 0 THEN {x}
                           ELSE h[n - 1] \cup {parent[y] : y \in h[n - 1] \ {NoNode}}]
           out   == CHOOSE h : Is(h)
<1>1. Height \in Nat /\ {x} \in SUBSET U
  BY NodeNumbers
<1>2. UpStep \in [SUBSET U -> SUBSET U]
  BY DEF UpStep, Parents
<1>3. turn \in [Nat \ {0} -> [SUBSET U -> SUBSET U]]
  BY <1>2
<1>4. PICK g \in [0..Height -> SUBSET U] : IsLoop(g, Height, {x}, turn)
  <2> HIDE DEF turn, U
  <2> QED
    BY <1>1, <1>3, LoopExists
<1>5. \A n \in 1..Height : g[n] = UpStep[g[n - 1]] /\ g[n - 1] \in SUBSET U
  <2> TAKE n \in 1..Height
  <2>1. n \in Nat \ {0} /\ n - 1 \in 0..Height
    BY <1>1
  <2> QED
    BY <1>4, <2>1 DEF IsLoop
<1>6. g[0] = {x}
  BY <1>4 DEF IsLoop
<1>7. \A n \in 1..Height : g[n] = g[n - 1] \cup {parent[y] : y \in g[n - 1] \ {NoNode}}
  BY <1>5 DEF UpStep
<1>8. Is(g)
  <2>1. \A n \in 0..Height : n # 0 => n \in 1..Height
    BY <1>1
  <2> HIDE DEF U
  <2> QED
    BY <1>4, <1>6, <1>7, <2>1
<1>9. Is(out)
  <2> HIDE DEF U
  <2> QED
    BY <1>8
<1>10. PICK h : Is(h) /\ Above(x) = h[Height]
  <2>1. Above(x) = out[Height]
    BY DEF Above
  <2> HIDE DEF Is, out
  <2> QED
    BY <1>9, <2>1
<1>11. h[0] = {x} /\ \A n \in 1..Height : h[n] = h[n - 1] \cup {parent[y] : y \in h[n - 1] \ {NoNode}}
  <2>1. 0 \in 0..Height /\ \A n \in 1..Height : n \in 0..Height /\ n # 0
    BY <1>1
  <2> QED
    BY <1>10, <2>1
<1>12. \A n \in 1..Height : h[n - 1] = g[n - 1] => h[n] = g[n]
  BY <1>7, <1>11
<1>13. h[Height] = g[Height]
  <2>1. h[0] = g[0]
    BY <1>6, <1>11
  <2> QED
    BY <1>1, <1>12, <2>1, StepsAgree
<1> QED
  BY <1>4, <1>5, <1>6, <1>10, <1>13 DEF AboveLoop

LEMMA InDocumentIs ==
    ASSUME TreeIsSeq
    PROVE  \E g : BelowLoop(g)
<1> DEFINE turn  == [k \in Nat \ {0} |-> DownStep]
           Is(h) == h = [n \in 0..Height |->
                           IF n = 0 THEN {0}
                           ELSE h[n - 1] \cup {y \in NodeIds : parent[y] \in h[n - 1]}]
           out   == CHOOSE h : Is(h)
<1>1. Height \in Nat /\ {0} \in SUBSET NodeIds
  BY NodeNumbers
<1>2. DownStep \in [SUBSET NodeIds -> SUBSET NodeIds]
  BY DEF DownStep
<1>3. turn \in [Nat \ {0} -> [SUBSET NodeIds -> SUBSET NodeIds]]
  BY <1>2
<1>4. PICK g \in [0..Height -> SUBSET NodeIds] : IsLoop(g, Height, {0}, turn)
  <2> HIDE DEF turn
  <2> QED
    BY <1>1, <1>3, LoopExists
<1>5. \A n \in 1..Height : g[n] = DownStep[g[n - 1]] /\ g[n - 1] \in SUBSET NodeIds
  <2> TAKE n \in 1..Height
  <2>1. n \in Nat \ {0} /\ n - 1 \in 0..Height
    BY <1>1
  <2> QED
    BY <1>4, <2>1 DEF IsLoop
<1>6. g[0] = {0}
  BY <1>4 DEF IsLoop
<1>7. \A n \in 1..Height : g[n] = g[n - 1] \cup {y \in NodeIds : parent[y] \in g[n - 1]}
  BY <1>5 DEF DownStep
<1>8. Is(g)
  <2>1. \A n \in 0..Height : n # 0 => n \in 1..Height
    BY <1>1
  <2> QED
    BY <1>4, <1>6, <1>7, <2>1
<1>9. Is(out)
  BY <1>8
<1>10. PICK h : Is(h) /\ InDocument = h[Height]
  <2>1. InDocument = out[Height]
    BY DEF InDocument
  <2> HIDE DEF Is, out
  <2> QED
    BY <1>9, <2>1
<1>11. h[0] = {0} /\ \A n \in 1..Height : h[n] = h[n - 1] \cup {y \in NodeIds : parent[y] \in h[n - 1]}
  <2>1. 0 \in 0..Height /\ \A n \in 1..Height : n \in 0..Height /\ n # 0
    BY <1>1
  <2> QED
    BY <1>10, <2>1
<1>12. \A n \in 1..Height : h[n - 1] = g[n - 1] => h[n] = g[n]
  <2> SUFFICES ASSUME NEW n \in 1..Height, h[n - 1] = g[n - 1] PROVE h[n] = g[n]
    OBVIOUS
  <2>1. \A y : y \in h[n] <=> y \in g[n]
    BY <1>7, <1>11
  <2>2. h[n] \subseteq g[n] /\ g[n] \subseteq h[n]
    BY <2>1
  <2> QED
    BY <2>2
<1>13. h[Height] = g[Height]
  <2>1. h[0] = g[0]
    BY <1>6, <1>11
  <2> QED
    BY <1>1, <1>12, <2>1, StepsAgree
<1> QED
  BY <1>4, <1>5, <1>6, <1>10, <1>13 DEF BelowLoop

(* A way up that has no circle ends; the document is closed downwards, and *)
(* a set of nodes that holds the parents of its members holds the Document *)
(* if it holds anything in the document.                                   *)
NoCircle == \A s \in SUBSET NodeIds : s # {} => \E x \in s : parent[x] \notin s

LEMMA WayEnds ==
    ASSUME TreeIsSeq, parent \in Parents, NoCircle, NEW x \in NodeIds
    PROVE  NoNode \in Above(x)
<1> DEFINE U == NodeIds \cup {NoNode}
<1>1. PICK g : AboveLoop(g, x)
  BY AboveIs
<1>2. /\ g \in [0..Height -> SUBSET U] /\ g[0] = {x} /\ Above(x) = g[Height]
      /\ \A n \in 1..Height : g[n] = UpStep[g[n - 1]]
  BY <1>1 DEF AboveLoop
<1>3. IsFiniteSet(U) /\ Cardinality(U) <= Height + 1 /\ Height \in Nat
  BY NodeNumbers
<1>4. UpStep \in [SUBSET U -> SUBSET U] /\ \A s \in SUBSET U : s \subseteq UpStep[s]
  BY DEF UpStep, Parents
<1>5. UpStep[Above(x)] = Above(x)
  <2> HIDE DEF U
  <2>1. g[0] # {}
    BY <1>2
  <2>2. Grows(U, Height, UpStep, g)
    BY <1>2, <1>3, <1>4, <2>1 DEF Grows
  <2>3. UpStep[g[Height]] = g[Height]
    BY <2>2, GrowthEnds
  <2> QED
    BY <1>2, <2>3
<1>6. \A n \in 1..Height : g[n - 1] \subseteq g[n]
  <2> TAKE n \in 1..Height
  <2>1. n - 1 \in 0..Height
    BY <1>3
  <2> QED
    BY <1>2, <1>4, <2>1
<1>7. x \in Above(x) /\ Above(x) \in SUBSET U
  <2> DEFINE Bad == {n \in Nat : n <= Height /\ x \notin g[n]}
  <2>1. Bad = {}
    <3> SUFFICES ASSUME Bad # {} PROVE FALSE
      OBVIOUS
    <3>1. PICK n \in Bad : \A m \in Bad : n <= m
      <4>1. Bad \subseteq Nat
        OBVIOUS
      <4> HIDE DEF Bad
      <4> QED
        BY <4>1, LeastNatural
    <3>2. n \in Nat /\ n <= Height /\ x \notin g[n] /\ n # 0
      BY <1>2
    <3>3. n - 1 \in Nat /\ n - 1 < n /\ n - 1 <= Height /\ n \in 1..Height
      BY <1>3, <3>2
    <3>4. n - 1 \notin Bad
      <4> HIDE DEF Bad
      <4> QED
        BY <3>1, <3>2, <3>3
    <3> QED
      BY <1>6, <3>2, <3>3, <3>4
  <2>2. x \in g[Height]
    BY <1>3, <2>1
  <2> QED
    BY <1>2, <1>3, <2>2
<1>8. ASSUME NoNode \notin Above(x) PROVE FALSE
  <2>1. Above(x) \in SUBSET NodeIds /\ Above(x) # {}
    BY <1>7, <1>8
  <2>2. PICK y \in Above(x) : parent[y] \notin Above(x)
    BY <2>1 DEF NoCircle
  <2>3. parent[y] \in UpStep[Above(x)]
    BY <1>7, <1>8, <2>2 DEF UpStep
  <2> QED
    BY <1>5, <2>2, <2>3
<1> QED
  BY <1>8

LEMMA DocumentClosed ==
    ASSUME TreeIsSeq
    PROVE  /\ InDocument \subseteq NodeIds /\ 0 \in InDocument
           /\ \A y \in NodeIds : parent[y] \in InDocument => y \in InDocument
<1>1. PICK g : BelowLoop(g)
  BY InDocumentIs
<1>2. /\ g \in [0..Height -> SUBSET NodeIds] /\ g[0] = {0} /\ InDocument = g[Height]
      /\ \A n \in 1..Height : g[n] = DownStep[g[n - 1]]
  BY <1>1 DEF BelowLoop
<1>3. IsFiniteSet(NodeIds) /\ Cardinality(NodeIds) <= Height + 1 /\ Height \in Nat
  BY NodeNumbers
<1>4. DownStep \in [SUBSET NodeIds -> SUBSET NodeIds] /\ \A s \in SUBSET NodeIds : s \subseteq DownStep[s]
  BY DEF DownStep
<1>5. DownStep[InDocument] = InDocument
  <2>1. g[0] # {}
    BY <1>2
  <2>2. Grows(NodeIds, Height, DownStep, g)
    BY <1>2, <1>3, <1>4, <2>1 DEF Grows
  <2>3. DownStep[g[Height]] = g[Height]
    BY <2>2, GrowthEnds
  <2> QED
    BY <1>2, <2>3
<1>6. \A n \in 1..Height : g[n - 1] \subseteq g[n]
  <2> TAKE n \in 1..Height
  <2>1. n - 1 \in 0..Height
    BY <1>3
  <2> QED
    BY <1>2, <1>4, <2>1
<1>7. 0 \in InDocument
  <2> DEFINE Bad == {n \in Nat : n <= Height /\ 0 \notin g[n]}
  <2>1. Bad = {}
    <3> SUFFICES ASSUME Bad # {} PROVE FALSE
      OBVIOUS
    <3>1. PICK n \in Bad : \A m \in Bad : n <= m
      <4>1. Bad \subseteq Nat
        OBVIOUS
      <4> HIDE DEF Bad
      <4> QED
        BY <4>1, LeastNatural
    <3>2. n \in Nat /\ n <= Height /\ 0 \notin g[n] /\ n # 0
      BY <1>2
    <3>3. n - 1 \in Nat /\ n - 1 < n /\ n - 1 <= Height /\ n \in 1..Height
      BY <1>3, <3>2
    <3>4. n - 1 \notin Bad
      <4> HIDE DEF Bad
      <4> QED
        BY <3>1, <3>2, <3>3
    <3> QED
      BY <1>6, <3>2, <3>3, <3>4
  <2> QED
    BY <1>2, <1>3, <2>1
<1>8. InDocument \subseteq NodeIds
  BY <1>2, <1>3
<1> QED
  BY <1>5, <1>7, <1>8 DEF DownStep

LEMMA UpReachesDocument ==
    ASSUME TreeIsSeq, NEW s \in SUBSET NodeIds, NEW x \in InDocument, x \in s,
           \A y \in s \ {0} : parent[y] \in InDocument => parent[y] \in s
    PROVE  0 \in s
<1>1. PICK g : BelowLoop(g)
  BY InDocumentIs
<1>2. /\ g \in [0..Height -> SUBSET NodeIds] /\ g[0] = {0} /\ InDocument = g[Height]
      /\ \A n \in 1..Height : g[n] = DownStep[g[n - 1]]
  BY <1>1 DEF BelowLoop
<1>3. Height \in Nat
  BY NodeNumbers
<1> DEFINE Meets == {n \in Nat : n <= Height /\ \E y \in s : y \in g[n]}
<1>4. Height \in Meets
  BY <1>2, <1>3
<1>5. PICK n \in Meets : \A m \in Meets : n <= m
  <2>1. Meets \subseteq Nat /\ Meets # {}
    BY <1>4
  <2> HIDE DEF Meets
  <2> QED
    BY <2>1, LeastNatural
<1>6. PICK y \in s : y \in g[n]
  OBVIOUS
<1>7. n \in Nat /\ n <= Height
  OBVIOUS
<1>8. \A k \in 0..Height : g[k] \subseteq InDocument
  <2> DEFINE Bad == {k \in Nat : k <= Height /\ ~ (g[Height - k] \subseteq InDocument)}
  <2>1. Bad = {}
    <3> SUFFICES ASSUME Bad # {} PROVE FALSE
      OBVIOUS
    <3>1. PICK k \in Bad : \A m \in Bad : k <= m
      <4>1. Bad \subseteq Nat
        OBVIOUS
      <4> HIDE DEF Bad
      <4> QED
        BY <4>1, LeastNatural
    <3>2. k \in Nat /\ k <= Height /\ ~(g[Height - k] \subseteq InDocument)
      OBVIOUS
    <3>3. k # 0
      BY <1>2, <1>3, <3>2
    <3>4. /\ k - 1 \in Nat /\ k - 1 < k /\ k - 1 <= Height
          /\ Height - (k - 1) \in 1..Height /\ (Height - (k - 1)) - 1 = Height - k
          /\ Height - k \in 0..Height
      BY <1>3, <3>2, <3>3
    <3>5. k - 1 \notin Bad
      <4> HIDE DEF Bad
      <4> QED
        BY <3>1, <3>2, <3>4
    <3>6. g[Height - (k - 1)] \subseteq InDocument
      BY <3>4, <3>5
    <3>7. g[Height - (k - 1)] = DownStep[g[Height - k]] /\ g[Height - k] \in SUBSET NodeIds
      BY <1>2, <3>4
    <3>8. g[Height - k] \subseteq g[Height - (k - 1)]
      BY <3>7 DEF DownStep
    <3> QED
      BY <3>2, <3>6, <3>8
  <2> SUFFICES ASSUME NEW k \in 0..Height PROVE g[k] \subseteq InDocument
    OBVIOUS
  <2>2. Height - k \in Nat /\ Height - k <= Height /\ Height - (Height - k) = k
    BY <1>3
  <2> QED
    BY <2>1, <2>2
<1>9. CASE n = 0
  BY <1>2, <1>6, <1>9
<1>10. CASE n # 0 /\ y # 0
  <2>1. n - 1 \in Nat /\ n - 1 < n /\ n - 1 <= Height /\ n \in 1..Height /\ n - 1 \in 0..Height
    BY <1>3, <1>7, <1>10
  <2>2. n - 1 \notin Meets
    <3> HIDE DEF Meets
    <3> QED
      BY <1>5, <1>7, <2>1
  <2>3. g[n] = DownStep[g[n - 1]] /\ g[n - 1] \in SUBSET NodeIds
    BY <1>2, <2>1
  <2>4. y \notin g[n - 1]
    BY <2>1, <2>2
  <2>5. parent[y] \in g[n - 1]
    BY <1>6, <2>3, <2>4 DEF DownStep
  <2>6. parent[y] \in s
    BY <1>8, <1>10, <2>1, <2>5
  <2> QED
    BY <2>1, <2>2, <2>5, <2>6
<1> QED
  BY <1>6, <1>9, <1>10

-----------------------------------------------------------------------------
(* The conversion.                                                         *)
TreeIsFile ==
    /\ tree \in Seq(TreeNode) /\ blobs \in Seq(Nat)
    /\ \A i \in Nodes : tree[i].parent \in 0..(i - 1)

LEMMA IdNumbers ==
    ASSUME TreeIsFile
    PROVE  /\ TreeIsSeq /\ Len(tree) \in Nat /\ Nodes = 1..Len(tree) /\ Ids = 0..(2 * Len(tree))
           /\ \A i \in Nodes : /\ i \in Nat /\ i <= Len(tree) /\ i > 0 /\ i \in Ids /\ tree[i] \in TreeNode
                               /\ Wrapper(i) = Len(tree) + i /\ Wrapper(i) \in Ids
                               /\ Wrapper(i) > Len(tree) /\ Wrapper(i) - Len(tree) = i
                               /\ tree[i].parent \in Nat /\ tree[i].parent < i /\ tree[i].parent \in Ids
                               /\ tree[i].parent <= Len(tree)
<1> DEFINE n == Len(tree)
<1>1. n \in Nat /\ Nodes = 1..n /\ \A i \in 1..n : tree[i] \in TreeNode
  BY LenProperties, ElementOfSeq DEF TreeIsFile, Nodes
<1>2. Ids = 0..(2 * n)
  BY DEF Ids
<1>3. \A i \in Nodes : tree[i].parent \in 0..(i - 1)
  BY DEF TreeIsFile
<1>4. ASSUME NEW i \in Nodes
      PROVE  /\ i \in Nat /\ i <= n /\ i > 0 /\ i \in Ids /\ tree[i] \in TreeNode
             /\ Wrapper(i) = n + i /\ Wrapper(i) \in Ids
             /\ Wrapper(i) > n /\ Wrapper(i) - n = i
             /\ tree[i].parent \in Nat /\ tree[i].parent < i /\ tree[i].parent \in Ids
             /\ tree[i].parent <= n
  <2>1. i \in Nat /\ i <= n /\ i > 0 /\ tree[i].parent \in 0..(i - 1) /\ Wrapper(i) = n + i
    BY <1>1, <1>3 DEF Wrapper
  <2> HIDE DEF n
  <2> QED
    BY <1>1, <1>2, <2>1
<1>5. TreeIsSeq
  BY DEF TreeIsSeq, TreeIsFile
<1> QED
  BY <1>1, <1>2, <1>4, <1>5

(* The node an element was made for, and where it stands.                  *)
Maker(y) == IF y > Len(tree) THEN y - Len(tree) ELSE y
ChildOf(x, y) ==
    IF y > Len(tree) THEN Place(y - Len(tree)) = "wrapper" /\ x = tree[y - Len(tree)].parent
    ELSE Place(y) = "children" /\ x = tree[y].parent
ContentOf(x, y) ==
    /\ y <= Len(tree)
    /\ \/ Place(y) = "contents" /\ x = tree[y].parent
       \/ Place(y) = "wrapper" /\ x = Wrapper(y)

Fitting(i) == tree[i].kind \in Takes(Kind(tree[i].parent))

ChildrenStand == 
    /\ children \in [Ids -> Seq(Ids)]
    /\ \A x \in Ids : IsInjective(children[x])
    /\ \A x \in Ids : \A y \in Range(children[x]) : Maker(y) \in kept \ {0} /\ ChildOf(x, y)
ContentsStand == 
    /\ contents \in [Ids -> Seq(Ids)]
    /\ \A x \in Ids : IsInjective(contents[x])
    /\ \A x \in Ids : \A y \in Range(contents[x]) : Maker(y) \in kept \ {0} /\ ContentOf(x, y)

ConvInv ==
    /\ TreeIsFile
    /\ at \in 1..(Len(tree) + 1) /\ kept \subseteq 0..(at - 1) /\ 0 \in kept
    /\ \A i \in kept \ {0} : tree[i].parent \in kept /\ Fitting(i)
    /\ ChildrenStand /\ ContentsStand

LEMMA ConvInit == TreeInit => ConvInv
<1> SUFFICES ASSUME TreeInit PROVE ConvInv
  OBVIOUS
<1>1. TreeIsFile
  <2>1. PICK file \in Files : tree = file.tree /\ blobs = file.blobs
    BY DEF TreeInit
  <2> QED
    BY <2>1, NodesAreRecords, NodesInOrder DEF TreeIsFile, Nodes
<1>2. Len(tree) \in Nat
  BY <1>1, IdNumbers
<1>3. at = 1 /\ kept = {0} /\ children = [x \in Ids |-> <<>>] /\ contents = [x \in Ids |-> <<>>]
  BY DEF TreeInit
<1>4. <<>> \in Seq(Ids) /\ Range(<<>>) = {} /\ IsInjective(<<>>)
  BY EmptySeq, RangeEmpty
<1>5. ChildrenStand
  BY <1>3, <1>4 DEF ChildrenStand
<1>6. ContentsStand
  BY <1>3, <1>4 DEF ContentsStand
<1> QED
  BY <1>1, <1>2, <1>3, <1>5, <1>6 DEF ConvInv

OneMore(longer, table, x, y) ==
    /\ longer \in [Ids -> Seq(Ids)]
    /\ \A z \in Ids : Range(longer[z]) = IF z = x THEN Range(table[x]) \cup {y} ELSE Range(table[z])
    /\ y \notin Range(table[x]) /\ (\A z \in Ids : IsInjective(table[z]))
         => \A z \in Ids : IsInjective(longer[z])

LEMMA AddedFacts ==
    ASSUME NEW table \in [Ids -> Seq(Ids)], NEW x \in Ids, NEW y \in Ids
    PROVE  OneMore(Added(table, x, y), table, x, y)
<1> DEFINE new == Append(table[x], y)
<1>1. /\ new \in Seq(Ids) /\ Range(new) = Range(table[x]) \cup {y}
      /\ IsInjective(new) <=> IsInjective(table[x]) /\ y \notin Range(table[x])
  <2>1. table[x] \in Seq(Ids)
    OBVIOUS
  <2> QED
    BY <2>1, RangeAppend, AppendProperties
<1> HIDE DEF new
<1>2. Added(table, x, y) = [table EXCEPT ![x] = new]
  BY DEF Added, new
<1> QED
  BY <1>1, <1>2 DEF OneMore

(* What a step adds stands where it belongs.                               *)
LEMMA PlaceAgrees ==
    ASSUME UNCHANGED tree
    PROVE  /\ \A x, y : ChildOf(x, y)' <=> ChildOf(x, y)
           /\ \A x, y : ContentOf(x, y)' <=> ContentOf(x, y)
           /\ \A y : Maker(y)' = Maker(y)
           /\ \A i : Fitting(i)' <=> Fitting(i)
           /\ Ids' = Ids /\ Nodes' = Nodes
           /\ \A x : Kind(x)' = Kind(x)
           /\ \A x : Place(x)' = Place(x)
           /\ \A x : FileData(x)' = FileData(x)
BY DEF ChildOf, ContentOf, Maker, Fitting, Ids, Nodes, Kind, Place, FileData, Wrapper

LEMMA ConvertKeeps ==
    ASSUME ConvInv, ConvertNode
    PROVE  ConvInv'
<1>1. /\ at \in Nodes /\ Converts(at) /\ tree' = tree /\ blobs' = blobs
      /\ at' = at + 1 /\ kept' = kept \cup {at}
  BY DEF ConvertNode, Source
<1> DEFINE up == tree[at].parent
<1>2. /\ at \in Nat /\ at > 0 /\ at <= Len(tree) /\ at \in Ids /\ Wrapper(at) \in Ids /\ up \in Ids
      /\ Len(tree) \in Nat /\ Wrapper(at) > Len(tree) /\ Wrapper(at) - Len(tree) = at
  BY <1>1, IdNumbers DEF ConvInv
<1>3. at \notin kept
  BY <1>2 DEF ConvInv
<1>4. Maker(at) = at /\ Maker(Wrapper(at)) = at
  BY <1>2 DEF Maker
<1>5. TreeIsFile'
  BY <1>1 DEF ConvInv, TreeIsFile, Nodes
<1>6. at' \in 1..(Len(tree') + 1) /\ kept' \subseteq 0..(at' - 1) /\ 0 \in kept'
  BY <1>1, <1>2 DEF ConvInv
<1>7. \A i \in kept' \ {0} : tree'[i].parent \in kept' /\ Fitting(i)'
  <2>1. up \in kept /\ Fitting(at)
    BY <1>1 DEF Converts, Fitting
  <2>2. \A i \in kept \ {0} : tree[i].parent \in kept /\ Fitting(i)
    BY DEF ConvInv
  <2> QED
    BY <1>1, <2>1, <2>2, PlaceAgrees
<1>8. \A x \in Ids : /\ at \notin Range(children[x]) /\ Wrapper(at) \notin Range(children[x])
                     /\ at \notin Range(contents[x])
  BY <1>3, <1>4 DEF ConvInv, ChildrenStand, ContentsStand
<1> HIDE DEF up
<1>9. Place(at) \in {"title", "wrapper", "contents", "children"}
  BY DEF Place
<1>10. ChildrenStand'
  <2>1. /\ children \in [Ids -> Seq(Ids)] /\ \A x \in Ids : IsInjective(children[x])
        /\ \A x \in Ids : \A y \in Range(children[x]) : Maker(y) \in kept \ {0} /\ ChildOf(x, y)
    BY DEF ConvInv, ChildrenStand
  <2>2. /\ Place(at) = "children" => children' = Added(children, up, at)
        /\ Place(at) = "wrapper" => children' = Added(children, up, Wrapper(at))
        /\ Place(at) \notin {"children", "wrapper"} => children' = children
    BY DEF ConvertNode, up
  <2>3. ASSUME NEW new \in Ids, Maker(new) = at, ChildOf(up, new), new \notin Range(children[up]),
               children' = Added(children, up, new)
        PROVE  ChildrenStand'
    <3>1. /\ children' \in [Ids -> Seq(Ids)] /\ \A x \in Ids : IsInjective(children'[x])
          /\ \A x \in Ids : Range(children'[x]) = IF x = up THEN Range(children[up]) \cup {new}
                                                  ELSE Range(children[x])
      <4>1. OneMore(Added(children, up, new), children, up, new)
        BY <1>2, <2>1, <2>3, AddedFacts
      <4> QED
        BY <1>2, <2>1, <2>3, <4>1 DEF OneMore
    <3>2. \A x \in Ids : \A y \in Range(children'[x]) : Maker(y) \in kept' \ {0} /\ ChildOf(x, y)
      BY <1>1, <1>2, <2>1, <2>3, <3>1
    <3> QED
      BY <1>1, <3>1, <3>2, PlaceAgrees DEF ChildrenStand
  <2>4. CASE Place(at) = "children"
    <3>1. ChildOf(up, at)
      BY <1>2, <2>4 DEF ChildOf, up
    <3> QED
      BY <1>2, <1>4, <1>8, <2>2, <2>3, <2>4, <3>1
  <2>5. CASE Place(at) = "wrapper"
    <3>1. ChildOf(up, Wrapper(at))
      BY <1>2, <2>5 DEF ChildOf, up
    <3> QED
      BY <1>2, <1>4, <1>8, <2>2, <2>3, <2>5, <3>1
  <2>6. CASE Place(at) \notin {"children", "wrapper"}
    <3>1. children' = children
      BY <2>2, <2>6
    <3> QED
      BY <1>1, <2>1, <3>1, PlaceAgrees DEF ChildrenStand
  <2> QED
    BY <2>4, <2>5, <2>6
<1>11. ContentsStand'
  <2>1. /\ contents \in [Ids -> Seq(Ids)] /\ \A x \in Ids : IsInjective(contents[x])
        /\ \A x \in Ids : \A y \in Range(contents[x]) : Maker(y) \in kept \ {0} /\ ContentOf(x, y)
    BY DEF ConvInv, ContentsStand
  <2>2. /\ Place(at) = "contents" => contents' = Added(contents, up, at)
        /\ Place(at) = "wrapper" => contents' = Added(contents, Wrapper(at), at)
        /\ Place(at) \notin {"contents", "wrapper"} => contents' = contents
    BY DEF ConvertNode, up
  <2>3. ASSUME NEW list \in Ids, ContentOf(list, at), contents' = Added(contents, list, at)
        PROVE  ContentsStand'
    <3>1. /\ contents' \in [Ids -> Seq(Ids)] /\ \A x \in Ids : IsInjective(contents'[x])
          /\ \A x \in Ids : Range(contents'[x]) = IF x = list THEN Range(contents[list]) \cup {at}
                                                  ELSE Range(contents[x])
      <4>1. OneMore(Added(contents, list, at), contents, list, at)
        BY <1>2, <1>8, <2>1, <2>3, AddedFacts
      <4> QED
        BY <1>2, <1>8, <2>1, <2>3, <4>1 DEF OneMore
    <3>2. \A x \in Ids : \A y \in Range(contents'[x]) : Maker(y) \in kept' \ {0} /\ ContentOf(x, y)
      <4> SUFFICES ASSUME NEW x \in Ids, NEW y \in Range(contents'[x])
                   PROVE  Maker(y) \in kept' \ {0} /\ ContentOf(x, y)
        OBVIOUS
      <4>1. (x = list /\ y = at) \/ y \in Range(contents[x])
        BY <3>1
      <4> QED
        BY <1>1, <1>2, <1>4, <2>1, <2>3, <4>1
    <3> QED
      BY <1>1, <3>1, <3>2, PlaceAgrees DEF ContentsStand
  <2>4. CASE Place(at) = "contents"
    <3>1. ContentOf(up, at)
      BY <1>2, <2>4 DEF ContentOf, up
    <3> QED
      BY <1>2, <2>2, <2>3, <2>4, <3>1
  <2>5. CASE Place(at) = "wrapper"
    <3>1. ContentOf(Wrapper(at), at)
      BY <1>2, <2>5 DEF ContentOf
    <3> QED
      BY <1>2, <2>2, <2>3, <2>5, <3>1
  <2>6. CASE Place(at) \notin {"contents", "wrapper"}
    <3>1. contents' = contents
      BY <2>2, <2>6
    <3> QED
      BY <1>1, <2>1, <3>1, PlaceAgrees DEF ContentsStand
  <2> QED
    BY <2>4, <2>5, <2>6
<1> QED
  BY <1>5, <1>6, <1>7, <1>10, <1>11 DEF ConvInv

LEMMA ConvStays ==
    ASSUME ConvInv, tree' = tree, blobs' = blobs, kept' = kept,
           children' = children, contents' = contents, at' \in 1..(Len(tree) + 1), at' >= at
    PROVE  ConvInv'
<1>1. TreeIsFile'
  BY DEF ConvInv, TreeIsFile, Nodes
<1>2. Len(tree) \in Nat
  BY IdNumbers DEF ConvInv
<1>3. at' \in 1..(Len(tree') + 1) /\ kept' \subseteq 0..(at' - 1) /\ 0 \in kept'
  BY <1>2 DEF ConvInv
<1>4. \A i \in kept' \ {0} : tree'[i].parent \in kept' /\ Fitting(i)'
  BY PlaceAgrees DEF ConvInv
<1>5. ChildrenStand'
  BY PlaceAgrees DEF ConvInv, ChildrenStand
<1>6. ContentsStand'
  BY PlaceAgrees DEF ConvInv, ContentsStand
<1> QED
  BY <1>1, <1>3, <1>4, <1>5, <1>6 DEF ConvInv

LEMMA ConvKeeps ==
    ASSUME ConvInv, DocumentNext
    PROVE  ConvInv'
<1>1. CASE ConvertNode
  BY <1>1, ConvertKeeps
<1>2. CASE DropNode
  <2>1. at \in Nodes /\ at' = at + 1
    BY <1>2 DEF DropNode
  <2>2. at' \in 1..(Len(tree) + 1) /\ at' >= at
    BY <2>1, IdNumbers DEF ConvInv
  <2> QED
    BY <1>2, <2>2, ConvStays DEF DropNode, Source
<1>3. CASE UNCHANGED <<Source, at, kept, children, contents>>
  <2>1. at' = at /\ at \in 1..(Len(tree) + 1) /\ at' >= at
    BY <1>3, IdNumbers DEF ConvInv
  <2> QED
    BY <1>3, <2>1, ConvStays DEF Source
<1>4. ~ConvertNode /\ ~DropNode => UNCHANGED <<Source, at, kept, children, contents>>
  <2>1. (EndConvert \/ FillGroup) => UNCHANGED <<Source, at, kept, children, contents>>
    BY Zenon DEF EndConvert, FillGroup
  <2>2. DomNext => UNCHANGED <<Source, at, kept, children, contents>>
    BY Zenon DEF DomNext, Load, InsertChild, RemoveChild, ClonePage, Save, StartStory, Rest, treeVars, Source
  <2>3. StoryNext => UNCHANGED <<Source, at, kept, children, contents>>
    BY Zenon DEF StoryNext, RenderPage, RenderOutline, EndOutline, RenderElement, RenderText, RenderImage,
           RenderFile, RenderTable, PassElement, EndStory, Split, Build, treeVars, Source
  <2>4. UNCHANGED documentVars => UNCHANGED <<Source, at, kept, children, contents>>
    BY DEF documentVars, treeVars, Source
  <2> QED
    BY <2>1, <2>2, <2>3, <2>4 DEF DocumentNext, TreeNext
<1> QED
  BY <1>1, <1>2, <1>3, <1>4

-----------------------------------------------------------------------------
(* What is joined from the members of the lists of a tree.                 *)
Feeds(S, table, rank, bound) ==
    /\ bound \in Nat /\ table \in [S -> Seq(S)] /\ rank \in [S -> 0..bound]
    /\ \A x \in S : \A y \in Range(table[x]) : rank[y] > rank[x]
JoinsUp(S, base, table, F) == F = [x \in S |-> base[x] \o Joined(table[x], F)]

LEMMA JoinsMembers ==
    ASSUME NEW S, NEW T, NEW table \in [S -> Seq(S)], NEW f \in [S -> Seq(T)], NEW x \in S
    PROVE  Joins(T, table[x], f) /\ table[x] \in Seq(S) /\ Range(table[x]) \subseteq S
<1>1. table[x] \in Seq(S)
  OBVIOUS
<1>2. Range(table[x]) \subseteq S
  BY <1>1, RangeOf
<1> QED
  BY <1>1, <1>2 DEF Joins

LEMMA JoinRecursion ==
    ASSUME NEW S, NEW T, NEW table, NEW rank, NEW bound, Feeds(S, table, rank, bound),
           NEW base \in [S -> Seq(T)]
    PROVE  \E F \in [S -> Seq(T)] : JoinsUp(S, base, table, F)
<1>1. /\ bound \in Nat /\ table \in [S -> Seq(S)] /\ rank \in [S -> 0..bound]
      /\ \A x \in S : \A y \in Range(table[x]) : rank[y] > rank[x]
  BY DEF Feeds
<1> DEFINE Z == Seq(T)
           turn == [f \in [S -> Z] |-> [x \in S |-> base[x] \o Joined(table[x], f)]]
<1>2. \A f \in [S -> Z], x \in S : base[x] \o Joined(table[x], f) \in Z
  <2> TAKE f \in [S -> Z], x \in S
  <2>1. Joined(table[x], f) \in Seq(T)
    <3>1. Joins(T, table[x], f) /\ table[x] \in Seq(S)
      BY <1>1, JoinsMembers
    <3> QED
      BY <3>1, JoinedType
  <2>2. base[x] \in Seq(T)
    OBVIOUS
  <2> QED
    BY <2>1, <2>2, RangeConcat
<1>3. turn \in [[S -> Z] -> [S -> Z]]
  <2> HIDE DEF Z
  <2> QED
    BY <1>2
<1>4. Local(S, Z, rank, turn)
  <2> SUFFICES ASSUME NEW f \in [S -> Z], NEW g \in [S -> Z], NEW x \in S,
                      \A y \in S : rank[y] > rank[x] => f[y] = g[y]
               PROVE  turn[f][x] = turn[g][x]
    BY DEF Local
  <2>1. Joins(T, table[x], f) /\ table[x] \in Seq(S) /\ Range(table[x]) \subseteq S
    BY <1>1, JoinsMembers
  <2>2. \A y \in Range(table[x]) : f[y] = g[y]
    BY <1>1, <2>1
  <2>3. Joined(table[x], f) = Joined(table[x], g)
    BY <2>1, <2>2, JoinedAgree
  <2> QED
    BY <2>3
<1>5. Z # {}
  BY EmptySeq
<1>6. \E F \in [S -> Z] : F = turn[F]
  <2> HIDE DEF Z, turn
  <2>1. Descends(S, Z, bound, rank, turn)
    BY <1>1, <1>3, <1>4, <1>5 DEF Descends
  <2> QED
    BY <2>1, StructuralRecursion
<1> QED
  BY <1>6 DEF JoinsUp

LEMMA JoinUnique ==
    ASSUME NEW S, NEW T, NEW table, NEW rank, NEW bound, Feeds(S, table, rank, bound),
           NEW base, NEW F \in [S -> Seq(T)], JoinsUp(S, base, table, F),
           NEW G, JoinsUp(S, base, table, G)
    PROVE  G = F
<1>1. /\ bound \in Nat /\ table \in [S -> Seq(S)] /\ rank \in [S -> 0..bound]
      /\ \A x \in S : \A y \in Range(table[x]) : rank[y] > rank[x]
  BY DEF Feeds
<1> DEFINE Same == {x \in S : F[x] = G[x]}
<1>2. ASSUME NEW x \in S, \A y \in S : rank[y] > rank[x] => y \in Same
      PROVE  x \in Same
  <2>1. Joins(T, table[x], F) /\ table[x] \in Seq(S) /\ Range(table[x]) \subseteq S
    BY <1>1, JoinsMembers
  <2>2. \A y \in Range(table[x]) : F[y] = G[y]
    BY <1>1, <1>2, <2>1
  <2>3. Joined(table[x], F) = Joined(table[x], G)
    BY <2>1, <2>2, JoinedAgree
  <2>4. F[x] = base[x] \o Joined(table[x], F) /\ G[x] = base[x] \o Joined(table[x], G)
    BY DEF JoinsUp
  <2> QED
    BY <2>3, <2>4
<1>3. S \subseteq Same
  <2> HIDE DEF Same
  <2> QED
    BY <1>1, <1>2, RankInduction
<1>4. /\ F = [x \in S |-> base[x] \o Joined(table[x], F)]
      /\ G = [x \in S |-> base[x] \o Joined(table[x], G)]
  BY DEF JoinsUp
<1>5. \A x \in S : base[x] \o Joined(table[x], F) = base[x] \o Joined(table[x], G)
  BY <1>3, <1>4
<1> QED
  BY <1>4, <1>5

Comes(base, table, F, x, z) ==
    z \in Range(F[x]) <=> z \in Range(base[x]) \/ \E y \in Range(table[x]) : z \in Range(F[y])

LEMMA JoinedOne ==
    ASSUME NEW S, NEW T, NEW table \in [S -> Seq(S)], NEW base \in [S -> Seq(T)],
           NEW F \in [S -> Seq(T)], JoinsUp(S, base, table, F), NEW x \in S, NEW z
    PROVE  Comes(base, table, F, x, z)
<1> DEFINE rest == Joined(table[x], F)
           own  == base[x]
<1>1. Joins(T, table[x], F) /\ table[x] \in Seq(S)
  BY JoinsMembers
<1>2. rest \in Seq(T) /\ (z \in Range(rest) <=> \E y \in Range(table[x]) : z \in Range(F[y]))
  BY <1>1, JoinedType, JoinedFacts
<1>3. own \in Seq(T)
  OBVIOUS
<1>4. F[x] = own \o rest
  BY DEF JoinsUp
<1> HIDE DEF rest, own
<1>5. Range(own \o rest) = Range(own) \cup Range(rest)
  BY <1>2, <1>3, RangeConcat
<1> QED
  BY <1>2, <1>4, <1>5 DEF own, Comes

LEMMA JoinFrom ==
    ASSUME NEW S, NEW T, NEW table, NEW rank, NEW bound, Feeds(S, table, rank, bound),
           NEW base \in [S -> Seq(T)], NEW F \in [S -> Seq(T)], JoinsUp(S, base, table, F)
    PROVE  \A x \in S : \A z \in Range(F[x]) : \E v \in S : z \in Range(base[v]) /\ rank[v] >= rank[x]
<1>1. /\ bound \in Nat /\ table \in [S -> Seq(S)] /\ rank \in [S -> 0..bound]
      /\ \A x \in S : \A y \in Range(table[x]) : rank[y] > rank[x]
  BY DEF Feeds
<1> DEFINE Fine == {x \in S : \A z \in Range(F[x]) : \E v \in S : z \in Range(base[v]) /\ rank[v] >= rank[x]}
<1>2. ASSUME NEW x \in S, \A y \in S : rank[y] > rank[x] => y \in Fine
      PROVE  x \in Fine
  <2> SUFFICES ASSUME NEW z \in Range(F[x])
               PROVE  \E v \in S : z \in Range(base[v]) /\ rank[v] >= rank[x]
    OBVIOUS
  <2>1. z \in Range(base[x]) \/ \E y \in Range(table[x]) : z \in Range(F[y])
    <3>1. Comes(base, table, F, x, z)
      BY <1>1, JoinedOne
    <3> QED
      BY <3>1 DEF Comes
  <2>2. CASE z \in Range(base[x])
    BY <1>1, <2>2
  <2>3. CASE \E y \in Range(table[x]) : z \in Range(F[y])
    <3>1. PICK y \in Range(table[x]) : z \in Range(F[y])
      BY <2>3
    <3>2. y \in S /\ rank[y] > rank[x]
      BY <1>1, JoinsMembers
    <3>3. PICK v \in S : z \in Range(base[v]) /\ rank[v] >= rank[y]
      BY <1>2, <3>1, <3>2
    <3>4. rank[v] \in Nat /\ rank[y] \in Nat /\ rank[x] \in Nat
      BY <1>1, <3>2
    <3> QED
      BY <3>2, <3>3, <3>4
  <2> QED
    BY <2>1, <2>2, <2>3
<1>3. S \subseteq Fine
  <2> HIDE DEF Fine
  <2> QED
    BY <1>1, <1>2, RankInduction
<1> QED
  BY <1>3

(* If nothing is in two lists, nothing is joined twice.                    *)
Separate(S, base, table, rank) ==
    /\ \A x, y \in S : rank[x] = rank[y] => x = y
    /\ \A x \in S : IsInjective(table[x]) /\ IsInjective(base[x])
    /\ \A x, y \in S : x # y => /\ Range(table[x]) \cap Range(table[y]) = {}
                                /\ Range(base[x]) \cap Range(base[y]) = {}

LEMMA JoinApart ==
    ASSUME NEW S, NEW T, NEW table, NEW rank, NEW bound, Feeds(S, table, rank, bound),
           NEW base \in [S -> Seq(T)], NEW F \in [S -> Seq(T)], JoinsUp(S, base, table, F),
           Separate(S, base, table, rank),
           NEW w \in S, NEW x \in Range(table[w]), NEW y \in Range(table[w]), x # y
    PROVE  Range(F[x]) \cap Range(F[y]) = {}
<1>1. /\ bound \in Nat /\ table \in [S -> Seq(S)] /\ rank \in [S -> 0..bound]
      /\ \A u \in S : \A v \in Range(table[u]) : rank[v] > rank[u]
      /\ \A u \in S : rank[u] \in Nat
  BY DEF Feeds
<1> SUFFICES ASSUME NEW z \in Range(F[x]), z \in Range(F[y]) PROVE FALSE
  OBVIOUS
<1> DEFINE Up == {u \in S : z \in Range(F[u])}
           Fine == {u \in S : u \in Up => \A v \in Up : rank[u] < rank[v] =>
                                \E o \in S : v \in Range(table[o]) /\ rank[u] <= rank[o]}
<1>2. x \in S /\ y \in S /\ x \in Up /\ y \in Up
  BY <1>1, JoinsMembers
<1>3. ASSUME NEW u \in S, \A v \in S : rank[v] > rank[u] => v \in Fine
      PROVE  u \in Fine
  <2> SUFFICES ASSUME u \in Up, NEW v \in Up, rank[u] < rank[v]
               PROVE  \E o \in S : v \in Range(table[o]) /\ rank[u] <= rank[o]
    OBVIOUS
  <2>1. z \in Range(base[u]) \/ \E c \in Range(table[u]) : z \in Range(F[c])
    <3>1. Comes(base, table, F, u, z)
      BY <1>1, JoinedOne
    <3> QED
      BY <3>1 DEF Comes
  <2>2. CASE z \in Range(base[u])
    <3>1. PICK b \in S : z \in Range(base[b]) /\ rank[b] >= rank[v]
      BY JoinFrom
    <3>2. b = u
      BY <2>2, <3>1 DEF Separate
    <3> QED
      BY <1>1, <3>1, <3>2
  <2>3. CASE \E c \in Range(table[u]) : z \in Range(F[c])
    <3>1. PICK c \in Range(table[u]) : z \in Range(F[c])
      BY <2>3
    <3>2. c \in S /\ rank[c] > rank[u] /\ c \in Up /\ c \in Fine
      <4>1. c \in S /\ rank[c] > rank[u]
        BY <1>1, JoinsMembers
      <4> QED
        BY <1>3, <3>1, <4>1
    <3>3. rank[c] \in Nat /\ rank[u] \in Nat /\ rank[v] \in Nat /\ v \in S
      BY <1>1, <3>2
    <3>4. CASE rank[c] = rank[v]
      <4>1. c = v
        BY <3>2, <3>3, <3>4 DEF Separate
      <4> QED
        BY <3>1, <3>3, <4>1
    <3>5. CASE rank[c] < rank[v]
      <4>1. PICK o \in S : v \in Range(table[o]) /\ rank[c] <= rank[o]
        BY <3>2, <3>5
      <4>2. rank[o] \in Nat
        BY <1>1
      <4> QED
        BY <3>2, <3>3, <4>1, <4>2
    <3>6. CASE rank[c] > rank[v]
      <4>1. v \in Fine
        BY <1>3, <3>3
      <4>2. PICK o \in S : c \in Range(table[o]) /\ rank[v] <= rank[o]
        BY <3>2, <3>3, <3>6, <4>1
      <4>3. o = u
        BY <3>1, <4>2 DEF Separate
      <4> QED
        BY <3>3, <4>2, <4>3
    <3> QED
      BY <3>3, <3>4, <3>5, <3>6
  <2> QED
    BY <2>1, <2>2, <2>3
<1>4. S \subseteq Fine
  <2> HIDE DEF Fine
  <2> QED
    BY <1>1, <1>3, RankInduction
<1>5. ASSUME NEW u \in Range(table[w]), NEW v \in Range(table[w]), u \in Up, v \in Up, rank[u] < rank[v]
      PROVE  FALSE
  <2>1. u \in S /\ v \in S /\ rank[u] > rank[w]
    BY <1>1, JoinsMembers
  <2>2. PICK o \in S : v \in Range(table[o]) /\ rank[u] <= rank[o]
    BY <1>4, <1>5, <2>1
  <2>3. o = w
    BY <2>2 DEF Separate
  <2> QED
    BY <1>1, <2>1, <2>2, <2>3
<1>6. rank[x] # rank[y] /\ rank[x] \in Nat /\ rank[y] \in Nat
  BY <1>1, <1>2 DEF Separate
<1> HIDE DEF Up
<1> QED
  BY <1>2, <1>5, <1>6

LEMMA JoinInjective ==
    ASSUME NEW S, NEW T, NEW table, NEW rank, NEW bound, Feeds(S, table, rank, bound),
           NEW base \in [S -> Seq(T)], NEW F \in [S -> Seq(T)], JoinsUp(S, base, table, F),
           Separate(S, base, table, rank)
    PROVE  \A x \in S : IsInjective(F[x])
<1>1. /\ bound \in Nat /\ table \in [S -> Seq(S)] /\ rank \in [S -> 0..bound]
      /\ \A u \in S : \A v \in Range(table[u]) : rank[v] > rank[u]
      /\ \A u \in S : rank[u] \in Nat
  BY DEF Feeds
<1> DEFINE Fine == {x \in S : IsInjective(F[x])}
<1>2. ASSUME NEW x \in S, \A y \in S : rank[y] > rank[x] => y \in Fine
      PROVE  x \in Fine
  <2> DEFINE rest == Joined(table[x], F)
             own  == base[x]
  <2>1. Joins(T, table[x], F) /\ table[x] \in Seq(S) /\ Range(table[x]) \subseteq S
    BY <1>1, JoinsMembers
  <2>2. Apart(table[x], F)
    <3>1. \A y \in Range(table[x]) : IsInjective(F[y])
      BY <1>1, <1>2, <2>1
    <3>2. \A y, v \in Range(table[x]) : y # v => Range(F[y]) \cap Range(F[v]) = {}
      BY JoinApart
    <3>3. IsInjective(table[x])
      BY DEF Separate
    <3> QED
      BY <3>1, <3>2, <3>3 DEF Apart
  <2>3. rest \in Seq(T) /\ IsInjective(rest)
    BY <2>1, <2>2, JoinedType, JoinedFacts
  <2>4. \A z : z \in Range(rest) <=> \E y \in Range(table[x]) : z \in Range(F[y])
    BY <2>1, JoinedFacts
  <2>5. own \in Seq(T) /\ IsInjective(own)
    BY DEF Separate
  <2>6. Range(own) \cap Range(rest) = {}
    <3> SUFFICES ASSUME NEW z \in Range(own), z \in Range(rest) PROVE FALSE
      OBVIOUS
    <3>1. PICK y \in Range(table[x]) : z \in Range(F[y])
      BY <2>4
    <3>2. y \in S /\ rank[y] > rank[x]
      BY <1>1, <2>1
    <3>3. PICK v \in S : z \in Range(base[v]) /\ rank[v] >= rank[y]
      BY <3>1, <3>2, JoinFrom
    <3>4. v = x
      BY <3>3 DEF Separate
    <3> QED
      BY <1>1, <3>2, <3>3, <3>4
  <2>7. F[x] = own \o rest
    BY DEF JoinsUp
  <2> HIDE DEF own, rest
  <2>8. IsInjective(own \o rest)
    BY <2>3, <2>5, <2>6, InjectiveConcat
  <2> QED
    BY <2>7, <2>8
<1>3. S \subseteq Fine
  <2> HIDE DEF Fine
  <2> QED
    BY <1>1, <1>2, RankInduction
<1> QED
  BY <1>3

(* A recursion that stops at leaves.                                       *)
Leaved(S, leaves, base, table, F) ==
    F = [x \in S |-> IF x \in leaves THEN base[x] ELSE Joined(table[x], F)]
LeafBase(S, leaves, base)   == [x \in S |-> IF x \in leaves THEN base[x] ELSE <<>>]
LeafTable(S, leaves, table) == [x \in S |-> IF x \in leaves THEN <<>> ELSE table[x]]

Ends(S, T, leaves, base, table, rank, bound) ==
    /\ LeafBase(S, leaves, base) \in [S -> Seq(T)]
    /\ Feeds(S, LeafTable(S, leaves, table), rank, bound)
    /\ \E F \in [S -> Seq(T)] :
         /\ JoinsUp(S, LeafBase(S, leaves, base), LeafTable(S, leaves, table), F)
         /\ Leaved(S, leaves, base, table, F)
         /\ \A h : Leaved(S, leaves, base, table, h) => h = F

LEMMA LeafRecursion ==
    ASSUME NEW S, NEW T, NEW leaves, NEW table, NEW rank, NEW bound, Feeds(S, table, rank, bound),
           NEW base \in [S -> Seq(T)]
    PROVE  Ends(S, T, leaves, base, table, rank, bound)
<1> DEFINE b == LeafBase(S, leaves, base)
           t == LeafTable(S, leaves, table)
<1>1. /\ bound \in Nat /\ table \in [S -> Seq(S)] /\ rank \in [S -> 0..bound]
      /\ \A x \in S : \A y \in Range(table[x]) : rank[y] > rank[x]
  BY DEF Feeds
<1>2. <<>> \in Seq(T) /\ <<>> \in Seq(S) /\ Range(<<>>) = {}
  BY EmptySeq, RangeEmpty
<1>3. b \in [S -> Seq(T)] /\ t \in [S -> Seq(S)]
  BY <1>1, <1>2 DEF LeafBase, LeafTable
<1>4. \A x \in S : /\ x \in leaves => b[x] = base[x] /\ t[x] = <<>>
                   /\ x \notin leaves => b[x] = <<>> /\ t[x] = table[x]
  BY DEF LeafBase, LeafTable
<1> HIDE DEF b, t
<1>5. Feeds(S, t, rank, bound)
  BY <1>1, <1>2, <1>3, <1>4 DEF Feeds
<1>6. PICK F \in [S -> Seq(T)] : JoinsUp(S, b, t, F)
  BY <1>3, <1>5, JoinRecursion
<1>7. \A x \in S : F[x] = IF x \in leaves THEN base[x] ELSE Joined(table[x], F)
  <2> TAKE x \in S
  <2>1. F[x] = b[x] \o Joined(t[x], F)
    BY <1>6 DEF JoinsUp
  <2>2. CASE x \in leaves
    <3>1. Joined(t[x], F) = <<>> /\ b[x] = base[x] /\ base[x] \in Seq(T)
      BY <1>4, <2>2, JoinedEmpty
    <3> QED
      BY <2>1, <2>2, <3>1, ConcatEmptySeq
  <2>3. CASE x \notin leaves
    <3>1. b[x] = <<>> /\ t[x] = table[x]
      BY <1>4, <2>3
    <3>2. Joined(table[x], F) \in Seq(T)
      <4>1. Joins(T, table[x], F) /\ table[x] \in Seq(S)
        BY <1>1, JoinsMembers
      <4> QED
        BY <4>1, JoinedType
    <3> DEFINE j == Joined(table[x], F)
    <3>3. F[x] = <<>> \o j /\ j \in Seq(T)
      BY <2>1, <3>1, <3>2
    <3> HIDE DEF j
    <3>4. F[x] = j
      BY <3>3, ConcatEmptySeq
    <3> QED
      BY <2>3, <3>4 DEF j
  <2> QED
    BY <2>2, <2>3
<1>8. Leaved(S, leaves, base, table, F)
  <2>1. F = [x \in S |-> F[x]]
    OBVIOUS
  <2> QED
    BY <1>7, <2>1 DEF Leaved
<1>9. ASSUME NEW h, Leaved(S, leaves, base, table, h) PROVE h = F
  <2>1. h = [x \in S |-> IF x \in leaves THEN base[x] ELSE Joined(table[x], h)]
    BY <1>9 DEF Leaved
  <2> DEFINE Same == {x \in S : F[x] = h[x]}
  <2>2. ASSUME NEW x \in S, \A y \in S : rank[y] > rank[x] => y \in Same
        PROVE  x \in Same
    <3>1. Joins(T, table[x], F) /\ table[x] \in Seq(S) /\ Range(table[x]) \subseteq S
      BY <1>1, JoinsMembers
    <3>2. \A y \in Range(table[x]) : F[y] = h[y]
      BY <1>1, <2>2, <3>1
    <3>3. Joined(table[x], F) = Joined(table[x], h)
      BY <3>1, <3>2, JoinedAgree
    <3> QED
      BY <1>7, <2>1, <3>3
  <2>3. S \subseteq Same
    <3> HIDE DEF Same
    <3> QED
      BY <1>1, <2>2, RankInduction
  <2>4. h = [x \in S |-> h[x]] /\ F = [x \in S |-> F[x]]
    <3>1. \A x \in S : h[x] = IF x \in leaves THEN base[x] ELSE Joined(table[x], h)
      BY <2>1
    <3> QED
      BY <2>1, <3>1
  <2> QED
    BY <2>3, <2>4
<1> QED
  BY <1>3, <1>5, <1>6, <1>8, <1>9 DEF b, t, Ends

-----------------------------------------------------------------------------
(* Every element stands in one list, and comes after the element whose     *)
(* list it is.                                                             *)
Owner(y) ==
    IF y > Len(tree) THEN tree[y - Len(tree)].parent
    ELSE IF Place(y) = "wrapper" THEN Wrapper(y) ELSE tree[y].parent
Rank ==
    [x \in NodeIds |-> IF x > Size THEN x
                       ELSE IF x > Len(tree) THEN 2 * (x - Len(tree)) - 1 ELSE 2 * x]
IdRank == [x \in Ids |-> Rank[x]]

LEMMA RankFacts ==
    ASSUME TreeIsFile
    PROVE  /\ Ids \subseteq NodeIds /\ 5 * Len(tree) \in Nat
           /\ Rank \in [NodeIds -> 0..(5 * Len(tree))]
           /\ IdRank \in [Ids -> 0..(5 * Len(tree))]
           /\ \A x, y \in Ids : IdRank[x] = IdRank[y] => x = y
           /\ \A x \in Ids : IdRank[x] = Rank[x] /\ x <= Size /\ x \in Nat
           /\ \A x \in NodeIds : x > Size => Rank[x] = x
           /\ \A x \in Ids : Rank[x] = IF x > Len(tree) THEN 2 * (x - Len(tree)) - 1 ELSE 2 * x
<1> DEFINE n == Len(tree)
<1>1. n \in Nat /\ Ids = 0..(2 * n) /\ NodeIds = 0..(5 * n) /\ Size = 2 * n
  BY IdNumbers, NodeNumbers
<1>2. Rank = [x \in NodeIds |-> IF x > Size THEN x ELSE IF x > n THEN 2 * (x - n) - 1 ELSE 2 * x]
  BY DEF Rank
<1> HIDE DEF n
<1>3. \A x \in NodeIds : Rank[x] \in 0..(5 * n)
  BY <1>1, <1>2
<1>4. Ids \subseteq NodeIds /\ 5 * n \in Nat
  BY <1>1
<1>5. \A x \in Ids : /\ x <= Size /\ x \in Nat
                     /\ Rank[x] = IF x > n THEN 2 * (x - n) - 1 ELSE 2 * x
  BY <1>1, <1>2, <1>4
<1>6. ASSUME NEW x \in Ids, NEW y \in Ids, Rank[x] = Rank[y] PROVE x = y
  <2>1. x \in Nat /\ y \in Nat
    BY <1>5
  <2>2. CASE x > n /\ y > n
    BY <1>1, <1>5, <1>6, <2>1, <2>2
  <2>3. CASE x <= n /\ y <= n
    BY <1>1, <1>5, <1>6, <2>1, <2>3
  <2>4. CASE x > n /\ y <= n
    BY <1>1, <1>5, <1>6, <2>1, <2>4
  <2>5. CASE x <= n /\ y > n
    BY <1>1, <1>5, <1>6, <2>1, <2>5
  <2> QED
    BY <1>1, <2>1, <2>2, <2>3, <2>4, <2>5
<1> QED
  BY <1>1, <1>2, <1>3, <1>4, <1>5, <1>6 DEF IdRank, n

LEMMA OwnerFacts ==
    ASSUME ConvInv, NEW x \in Ids, NEW y \in Range(children[x]) \cup Range(contents[x])
    PROVE  /\ y \in Ids /\ y > 0 /\ x = Owner(y) /\ Rank[y] > Rank[x]
           /\ Maker(y) \in Nodes /\ Maker(y) \in kept
<1>1. TreeIsFile /\ Len(tree) \in Nat
  BY IdNumbers DEF ConvInv
<1>2. children[x] \in Seq(Ids) /\ contents[x] \in Seq(Ids)
  BY DEF ConvInv, ChildrenStand, ContentsStand
<1>3. y \in Ids
  BY <1>2, RangeOf
<1>4. Maker(y) \in kept \ {0} /\ (ChildOf(x, y) \/ ContentOf(x, y))
  BY DEF ConvInv, ChildrenStand, ContentsStand
<1>5. Maker(y) \in Nodes
  <2>1. kept \subseteq 0..(at - 1) /\ at \in 1..(Len(tree) + 1) /\ Nodes = 1..Len(tree)
    BY <1>1, IdNumbers DEF ConvInv
  <2>2. Maker(y) \in 0..(at - 1) /\ Maker(y) # 0
    BY <1>4, <2>1
  <2>3. at \in Nat /\ at <= Len(tree) + 1
    BY <1>1, <2>1
  <2> QED
    BY <1>1, <2>1, <2>2, <2>3
<1>6. /\ Rank[x] = IF x > Len(tree) THEN 2 * (x - Len(tree)) - 1 ELSE 2 * x
      /\ Rank[y] = IF y > Len(tree) THEN 2 * (y - Len(tree)) - 1 ELSE 2 * y
      /\ x \in Nat /\ y \in Nat
  BY <1>1, <1>3, RankFacts
<1>7. CASE y > Len(tree)
  <2>1. Maker(y) = y - Len(tree) /\ Place(y - Len(tree)) = "wrapper" /\ x = tree[y - Len(tree)].parent
    BY <1>1, <1>4, <1>6, <1>7 DEF Maker, ChildOf, ContentOf
  <2>2. x < y - Len(tree) /\ x <= Len(tree)
    BY <1>1, <1>5, <2>1, IdNumbers
  <2> QED
    BY <1>1, <1>3, <1>4, <1>5, <1>6, <1>7, <2>1, <2>2 DEF Owner
<1>8. CASE y <= Len(tree)
  <2>1. Maker(y) = y /\ y > 0 /\ y \in Nodes
    BY <1>1, <1>4, <1>5, <1>6, <1>8, IdNumbers DEF Maker
  <2>2. \/ Place(y) # "wrapper" /\ x = tree[y].parent
        \/ Place(y) = "wrapper" /\ x = Wrapper(y)
    BY <1>1, <1>4, <1>6, <1>8 DEF ChildOf, ContentOf
  <2>3. x = Owner(y)
    BY <1>1, <1>6, <1>8, <2>2 DEF Owner
  <2>4. CASE x = Wrapper(y)
    <3>1. x = Len(tree) + y
      BY <2>4 DEF Wrapper
    <3> QED
      BY <1>1, <1>3, <1>4, <1>5, <1>6, <1>8, <2>1, <2>3, <3>1
  <2>5. CASE x = tree[y].parent
    <3>1. x < y /\ x <= Len(tree)
      BY <1>1, <2>1, <2>5, IdNumbers
    <3> QED
      BY <1>1, <1>3, <1>4, <1>5, <1>6, <1>8, <2>1, <2>3, <3>1
  <2> QED
    BY <2>2, <2>4, <2>5
<1> QED
  BY <1>1, <1>6, <1>7, <1>8

LEMMA ListsApart ==
    ASSUME ConvInv, NEW x \in Ids
    PROVE  /\ children[x] \in Seq(Ids) /\ contents[x] \in Seq(Ids)
           /\ IsInjective(children[x]) /\ IsInjective(contents[x])
           /\ Range(children[x]) \cap Range(contents[x]) = {}
           /\ contents[x] \o children[x] \in Seq(Ids)
           /\ Range(contents[x] \o children[x]) = Range(children[x]) \cup Range(contents[x])
           /\ IsInjective(contents[x] \o children[x])
<1>1. children[x] \in Seq(Ids) /\ contents[x] \in Seq(Ids) /\ IsInjective(children[x]) /\ IsInjective(contents[x])
  BY DEF ConvInv, ChildrenStand, ContentsStand
<1>2. ASSUME NEW y \in Range(children[x]), y \in Range(contents[x]) PROVE FALSE
  <2>1. ChildOf(x, y) /\ ContentOf(x, y)
    BY <1>2 DEF ConvInv, ChildrenStand, ContentsStand
  <2>2. y \in Nat /\ Len(tree) \in Nat
    BY <1>1, RangeOf, IdNumbers DEF ConvInv
  <2> QED
    BY <2>1, <2>2 DEF ChildOf, ContentOf
<1> DEFINE c == contents[x]
           d == children[x]
<1>3. c \in Seq(Ids) /\ d \in Seq(Ids) /\ IsInjective(c) /\ IsInjective(d) /\ Range(c) \cap Range(d) = {}
  BY <1>1, <1>2
<1> HIDE DEF c, d
<1>4. c \o d \in Seq(Ids) /\ Range(c \o d) = Range(c) \cup Range(d)
  BY <1>3, RangeConcat
<1>5. IsInjective(c \o d)
  BY <1>3, InjectiveConcat
<1> QED
  BY <1>1, <1>2, <1>4, <1>5 DEF c, d

(* The kinds of what stands in a list.                                     *)
PageKinds == {"Section", "PageSeries", "Page"}
LEMMA KindsBelow ==
    ASSUME ConvInv, NEW x \in Ids
    PROVE  /\ \A y \in Range(children[x]) : /\ Kind(y) \in PageKinds => Kind(x) \in {"Section", "PageSeries"}
                                            /\ Kind(x) = "Table" => Kind(y) = "TableRow"
                                            /\ Kind(x) = "TableRow" => Kind(y) = "TableCell"
           /\ \A y \in Range(contents[x]) : Kind(y) \notin PageKinds
<1>1. TreeIsFile /\ Len(tree) \in Nat /\ Nodes = 1..Len(tree)
  BY IdNumbers DEF ConvInv
<1>2. ASSUME NEW y \in Range(children[x]) \cup Range(contents[x]), y <= Len(tree)
      PROVE  /\ y \in Nodes /\ Kind(y) = tree[y].kind /\ Kind(y) \in Takes(Kind(tree[y].parent))
             /\ y \in Ids
  <2>1. y \in Ids /\ y > 0 /\ Maker(y) \in kept
    BY OwnerFacts
  <2>2. y \in Nat
    BY <1>1, <2>1, RankFacts
  <2>3. Maker(y) = y /\ y \in Nodes
    BY <1>1, <1>2, <2>1, <2>2 DEF Maker
  <2>4. Fitting(y)
    BY <2>1, <2>3 DEF ConvInv
  <2> QED
    BY <1>1, <1>2, <2>1, <2>2, <2>3, <2>4 DEF Fitting, Kind
<1>3. ASSUME NEW y \in Range(children[x])
      PROVE  /\ Kind(y) \in PageKinds => Kind(x) \in {"Section", "PageSeries"}
             /\ Kind(x) = "Table" => Kind(y) = "TableRow"
             /\ Kind(x) = "TableRow" => Kind(y) = "TableCell"
  <2>1. ChildOf(x, y) /\ y \in Ids /\ y \in Nat /\ x \in Nat
    <3>1. y \in Ids
      BY OwnerFacts
    <3> QED
      BY <1>1, <3>1, RankFacts DEF ConvInv, ChildrenStand
  <2>2. CASE y > Len(tree)
    <3>1. Kind(y) = "OutlineElement" /\ Place(y - Len(tree)) = "wrapper" /\ x = tree[y - Len(tree)].parent
      BY <1>1, <2>1, <2>2 DEF Kind, ChildOf
    <3>2. Kind(x) = "Outline"
      BY <3>1 DEF Place
    <3> QED
      BY <3>1, <3>2 DEF PageKinds
  <2>3. CASE y <= Len(tree)
    <3>1. x = tree[y].parent
      BY <1>1, <2>1, <2>3 DEF ChildOf
    <3>2. Kind(y) \in Takes(Kind(x))
      BY <1>2, <2>3, <3>1
    <3> QED
      BY <3>2 DEF Takes, Containers, Elements, PageKinds
  <2> QED
    BY <1>1, <2>1, <2>2, <2>3
<1>4. ASSUME NEW y \in Range(contents[x]) PROVE Kind(y) \notin PageKinds
  <2>1. ContentOf(x, y)
    BY DEF ConvInv, ContentsStand
  <2>2. Kind(y) \in Takes(Kind(tree[y].parent))
    BY <1>2, <2>1 DEF ContentOf
  <2>3. Kind(tree[y].parent) \in {"Outline", "OutlineElement"}
    BY <2>1 DEF ContentOf, Place
  <2> QED
    BY <2>2, <2>3 DEF Takes, Containers, Elements, PageKinds
<1> QED
  BY <1>3, <1>4

(* The pages.                                                              *)
LEMMA PageIsNode ==
    ASSUME TreeIsFile, NEW x \in Ids, Kind(x) \notin {"Section", "OutlineElement"}
    PROVE  x \in Nodes /\ Kind(x) = tree[x].kind /\ x <= Len(tree)
<1>1. Len(tree) \in Nat /\ Nodes = 1..Len(tree) /\ Ids = 0..(2 * Len(tree))
  BY IdNumbers
<1>2. x # 0 /\ ~(x > Len(tree))
  BY <1>1 DEF Kind
<1> QED
  BY <1>1, <1>2 DEF Kind

(* The pages below an element, as Pages puts them together.                *)
FlatBase  == LeafBase(Ids, {x \in Ids : Kind(x) = "Page"}, [x \in Ids |-> <<x>>])
FlatTable == LeafTable(Ids, {x \in Ids : Kind(x) = "Page"}, children)
FlatAt(F, x) ==
    /\ FlatBase[x] = IF Kind(x) = "Page" THEN <<x>> ELSE <<>>
    /\ FlatTable[x] = IF Kind(x) = "Page" THEN <<>> ELSE children[x]
    /\ F[x] = IF Kind(x) = "Page" THEN <<x>> ELSE Joined(children[x], F)
Flat(F) ==
    /\ F \in [Ids -> Seq(Ids)] /\ JoinsUp(Ids, FlatBase, FlatTable, F) /\ Pages = F[0]
    /\ FlatBase \in [Ids -> Seq(Ids)] /\ Feeds(Ids, FlatTable, IdRank, 5 * Len(tree))
    /\ \A x \in Ids : FlatAt(F, x)

LEMMA FlatIs ==
    ASSUME ConvInv
    PROVE  \E F : Flat(F)
<1> DEFINE leaves == {x \in Ids : Kind(x) = "Page"}
           own   == [x \in Ids |-> <<x>>]
           bound == 5 * Len(tree)
           Is(h) == h = [x \in Ids |-> IF Kind(x) = "Page" THEN <<x>> ELSE Joined(children[x], h)]
           out   == CHOOSE h : Is(h)
<1>1. TreeIsFile /\ Len(tree) \in Nat /\ 0 \in Ids
  <2>1. TreeIsFile
    BY DEF ConvInv
  <2> QED
    BY <2>1, IdNumbers
<1>2. \A x \in Ids : <<x>> \in Seq(Ids)
  BY OneMember
<1>3. children \in [Ids -> Seq(Ids)]
  BY DEF ConvInv, ChildrenStand
<1>4. Feeds(Ids, children, IdRank, bound)
  <2>1. bound \in Nat /\ IdRank \in [Ids -> 0..bound]
    BY <1>1, RankFacts
  <2>2. ASSUME NEW x \in Ids, NEW y \in Range(children[x]) PROVE IdRank[y] > IdRank[x]
    <3>1. y \in Ids /\ Rank[y] > Rank[x]
      BY OwnerFacts
    <3> QED
      BY <1>1, <3>1, RankFacts
  <2> HIDE DEF bound
  <2> QED
    BY <1>3, <2>1, <2>2 DEF Feeds
<1>5. own \in [Ids -> Seq(Ids)]
  BY <1>2
<1>6. /\ FlatBase \in [Ids -> Seq(Ids)] /\ Feeds(Ids, FlatTable, IdRank, bound)
      /\ \E F \in [Ids -> Seq(Ids)] : /\ JoinsUp(Ids, FlatBase, FlatTable, F)
                                     /\ Leaved(Ids, leaves, own, children, F)
                                     /\ \A h : Leaved(Ids, leaves, own, children, h) => h = F
  <2>1. Ends(Ids, Ids, leaves, own, children, IdRank, bound)
    <3> HIDE DEF own, bound, leaves
    <3> QED
      BY <1>4, <1>5, LeafRecursion
  <2>2. FlatBase = LeafBase(Ids, leaves, own) /\ FlatTable = LeafTable(Ids, leaves, children)
    BY DEF FlatBase, FlatTable
  <2> HIDE DEF own, bound, leaves
  <2> QED
    BY <2>1, <2>2 DEF Ends
<1>7. PICK F \in [Ids -> Seq(Ids)] : /\ JoinsUp(Ids, FlatBase, FlatTable, F)
                                   /\ Leaved(Ids, leaves, own, children, F)
                                   /\ \A h : Leaved(Ids, leaves, own, children, h) => h = F
  BY <1>6
<1>8. \A x \in Ids : /\ FlatBase[x] = IF Kind(x) = "Page" THEN <<x>> ELSE <<>>
                     /\ FlatTable[x] = IF Kind(x) = "Page" THEN <<>> ELSE children[x]
  BY DEF FlatBase, FlatTable, LeafBase, LeafTable
<1>9. \A h : Is(h) <=> Leaved(Ids, leaves, own, children, h)
  <2> SUFFICES ASSUME NEW h
               PROVE  [x \in Ids |-> IF Kind(x) = "Page" THEN <<x>> ELSE Joined(children[x], h)]
                        = [x \in Ids |-> IF x \in leaves THEN own[x] ELSE Joined(children[x], h)]
    BY DEF Leaved
  <2> QED
    OBVIOUS
<1>10. Is(out) /\ Is(F)
  <2>1. Is(F)
    BY <1>7, <1>9
  <2> HIDE DEF Is
  <2> QED
    BY <2>1
<1>11. out = F
  <2> HIDE DEF Is, leaves, own, out
  <2> QED
    BY <1>7, <1>9, <1>10
<1>12. Pages = F[0]
  <2>1. Pages = out[0]
    BY DEF Pages
  <2> HIDE DEF out
  <2> QED
    BY <1>11, <2>1
<1>13. \A x \in Ids : F[x] = IF Kind(x) = "Page" THEN <<x>> ELSE Joined(children[x], F)
  <2>1. F = [x \in Ids |-> IF Kind(x) = "Page" THEN <<x>> ELSE Joined(children[x], F)]
    BY <1>10
  <2> HIDE DEF Is, out, leaves, own
  <2> QED
    BY <2>1
<1>14. \A x \in Ids : FlatAt(F, x)
  BY <1>8, <1>13 DEF FlatAt
<1>15. Flat(F)
  BY <1>6, <1>7, <1>12, <1>14 DEF Flat
<1> QED
  BY <1>15

LEMMA PagesFacts ==
    ASSUME ConvInv
    PROVE  /\ Pages \in Seq(Ids) /\ IsInjective(Pages)
           /\ \A z \in Range(Pages) : z \in Nodes /\ z \in Ids /\ Kind(z) = "Page"
<1>1. TreeIsFile /\ 0 \in Ids
  <2>1. TreeIsFile
    BY DEF ConvInv
  <2> QED
    BY <2>1, IdNumbers
<1>2. /\ Range(<<>>) = {} /\ IsInjective(<<>>)
      /\ \A x \in Ids : Range(<<x>>) = {x} /\ IsInjective(<<x>>)
  BY RangeEmpty, OneMember
<1>3. \A x \in Ids : IsInjective(children[x])
  BY DEF ConvInv, ChildrenStand
<1>4. PICK F : Flat(F)
  BY FlatIs
<1>5. /\ F \in [Ids -> Seq(Ids)] /\ JoinsUp(Ids, FlatBase, FlatTable, F) /\ Pages = F[0]
      /\ FlatBase \in [Ids -> Seq(Ids)] /\ Feeds(Ids, FlatTable, IdRank, 5 * Len(tree))
      /\ \A x \in Ids : FlatAt(F, x)
  BY <1>4 DEF Flat
<1>6. Separate(Ids, FlatBase, FlatTable, IdRank)
  <2>1. \A x, y \in Ids : IdRank[x] = IdRank[y] => x = y
    BY <1>1, RankFacts
  <2>2. \A x \in Ids : IsInjective(FlatTable[x]) /\ IsInjective(FlatBase[x])
    BY <1>2, <1>3, <1>5 DEF FlatAt
  <2>3. \A x, y \in Ids : x # y => Range(FlatTable[x]) \cap Range(FlatTable[y]) = {}
    <3> SUFFICES ASSUME NEW x \in Ids, NEW y \in Ids, x # y,
                        NEW z \in Range(FlatTable[x]), z \in Range(FlatTable[y])
                 PROVE  FALSE
      OBVIOUS
    <3>1. z \in Range(children[x]) /\ z \in Range(children[y])
      BY <1>2, <1>5 DEF FlatAt
    <3>2. x = Owner(z) /\ y = Owner(z)
      BY <3>1, OwnerFacts
    <3> QED
      BY <3>2
  <2>4. \A x, y \in Ids : x # y => Range(FlatBase[x]) \cap Range(FlatBase[y]) = {}
    <3>1. \A x \in Ids : Range(FlatBase[x]) \subseteq {x}
      BY <1>2, <1>5 DEF FlatAt
    <3> QED
      BY <3>1
  <2> QED
    BY <2>1, <2>2, <2>3, <2>4 DEF Separate
<1>7. IsInjective(Pages)
  BY <1>1, <1>5, <1>6, JoinInjective
<1>8. ASSUME NEW z \in Range(Pages) PROVE z \in Nodes /\ z \in Ids /\ Kind(z) = "Page"
  <2>1. PICK v \in Ids : z \in Range(FlatBase[v])
    BY <1>1, <1>5, JoinFrom
  <2>2. Kind(v) = "Page" /\ FlatBase[v] = <<v>>
    BY <1>2, <1>5, <2>1 DEF FlatAt
  <2>3. z = v
    BY <1>2, <2>1, <2>2
  <2> QED
    BY <1>1, <2>2, <2>3, PageIsNode
<1> QED
  BY <1>1, <1>5, <1>7, <1>8

-----------------------------------------------------------------------------
(* The nodes a document is loaded with.                                    *)
Lister(y) ==
    IF y > Size + Len(tree) THEN y - Len(tree)
    ELSE IF y > Size THEN y - Size
    ELSE IF Kind(y) = "Page" THEN 0 ELSE Owner(y)
Loadables(x) ==
    {y \in Ids : /\ Kind(y) # "Title"
                 /\ Kind(y) = "TableCell" => Kind(x) = "TableRow"}

LoadedWell(x, list) ==
    /\ list \in Seq(NodeIds) /\ IsInjective(list)
    /\ \A y \in Range(list) : /\ y \in 1..(Size + Size) /\ y \in NodeIds
                              /\ Rank[y] > Rank[x] /\ x = Lister(y)

LEMMA WiderList ==
    ASSUME NEW S, NEW T, S \subseteq T, NEW s \in Seq(S)
    PROVE  s \in Seq(T)
<1>1. \A i \in 1..Len(s) : s[i] \in T
  BY LenProperties, ElementOfSeq
<1> QED
  BY <1>1, LenProperties

LEMMA LoadableFacts ==
    ASSUME ConvInv, NEW x \in Ids, NEW seq \in Seq(Ids), IsInjective(seq),
           \A y \in Range(seq) : y \in Range(children[x]) \cup Range(contents[x]) /\ Kind(y) # "Page"
    PROVE  /\ LoadedWell(x, Loadable(x, seq)) /\ Loadable(x, seq) \in Seq(Ids)
           /\ Range(Loadable(x, seq)) = Range(seq) \cap Loadables(x)
<1> DEFINE list == Loadable(x, seq)
<1>1. list = Only(seq, Loadables(x))
  BY DEF Loadable, Loadables
<1>2. list \in Seq(Ids) /\ IsInjective(list) /\ Range(list) = Range(seq) \cap Loadables(x)
  BY <1>1, OnlyType, OnlyFacts
<1> HIDE DEF list
<1>3. /\ TreeIsFile /\ Len(tree) \in Nat /\ Ids \subseteq NodeIds /\ Size = 2 * Len(tree)
      /\ \A y \in Ids : y <= Size /\ y \in Nat
  <2>1. TreeIsFile
    BY DEF ConvInv
  <2>2. TreeIsSeq /\ Len(tree) \in Nat
    BY <2>1, IdNumbers
  <2>3. Size = 2 * Len(tree)
    BY <2>2, NodeNumbers
  <2> QED
    BY <2>1, <2>2, <2>3, RankFacts
<1>4. list \in Seq(NodeIds)
  BY <1>2, <1>3, WiderList
<1>5. ASSUME NEW y \in Range(list)
      PROVE  y \in 1..(Size + Size) /\ y \in NodeIds /\ Rank[y] > Rank[x] /\ x = Lister(y)
  <2>1. y \in Ids /\ y > 0 /\ x = Owner(y) /\ Rank[y] > Rank[x] /\ Kind(y) # "Page"
    BY <1>2, OwnerFacts
  <2>2. Lister(y) = Owner(y)
    BY <1>3, <2>1 DEF Lister
  <2> QED
    BY <1>3, <2>1, <2>2
<1> QED
  BY <1>2, <1>4, <1>5 DEF LoadedWell, list

LEMMA LoadedFacts ==
    ASSUME ConvInv
    PROVE  Loaded \in [NodeIds -> Seq(NodeIds)] /\ \A x \in NodeIds : LoadedWell(x, Loaded[x])
<1> DEFINE n == Len(tree)
<1>1. TreeIsFile
  BY DEF ConvInv
<1>2. TreeIsSeq /\ n \in Nat /\ Nodes = 1..n /\ Ids = 0..(2 * n)
  BY <1>1, IdNumbers
<1>3. NodeIds = 0..(5 * n) /\ Size = 2 * n
  BY <1>2, NodeNumbers
<1>4. Ids \subseteq NodeIds
  BY <1>1, RankFacts
<1> HIDE DEF n
<1>5. \A x \in NodeIds : x > Size => Rank[x] = x
  BY <1>1, RankFacts
<1>6. \A x \in Ids : Rank[x] \in Nat /\ (x <= n => Rank[x] = 2 * x) /\ Rank[x] <= 2 * n
  <2>1. \A x \in Ids : Rank[x] = IF x > n THEN 2 * (x - n) - 1 ELSE 2 * x
    BY <1>1, RankFacts DEF n
  <2> QED
    BY <1>2, <2>1
<1>7. LoadedWell(0, Pages)
  <2>1. Pages \in Seq(NodeIds)
    BY <1>4, PagesFacts, WiderList
  <2>2. ASSUME NEW y \in Range(Pages)
        PROVE  y \in 1..(Size + Size) /\ y \in NodeIds /\ Rank[y] > Rank[0] /\ 0 = Lister(y)
    <3>1. y \in Nodes /\ y \in Ids /\ Kind(y) = "Page"
      BY PagesFacts
    <3>2. Rank[y] = 2 * y /\ Rank[0] = 0
      BY <1>2, <1>6, <3>1
    <3>3. 0 = Lister(y)
      BY <1>2, <1>3, <3>1 DEF Lister, n
    <3> QED
      BY <1>2, <1>3, <3>1, <3>2, <3>3
  <2> QED
    BY <2>1, <2>2, PagesFacts DEF LoadedWell
<1>8. \A x : LoadedWell(x, <<>>)
  <2>1. <<>> \in Seq(NodeIds) /\ Range(<<>>) = {} /\ IsInjective(<<>>)
    BY EmptySeq, RangeEmpty
  <2> QED
    BY <2>1 DEF LoadedWell
<1>9. ASSUME NEW x \in NodeIds, x > Size, Class(x) = "Title" /\ Kind(x - Size) = "Page"
      PROVE  LoadedWell(x, <<TitleText(x - Size)>>)
  <2> DEFINE y == TitleText(x - Size)
  <2>1. x <= Size + n
    BY <1>2, <1>3, <1>9 DEF Class, n
  <2>2. y = x + n
    BY <1>2, <1>3, <1>9 DEF TitleText, n
  <2> HIDE DEF y
  <2>3. y \in NodeIds /\ y \in 1..(Size + Size) /\ y > Size
    BY <1>2, <1>3, <1>9, <2>1, <2>2
  <2>4. y > Size + n
    BY <1>2, <1>3, <1>9, <2>1, <2>2
  <2>5. Lister(y) = x
    BY <1>2, <1>3, <2>2, <2>4 DEF Lister, n
  <2>6. n > 0
    BY <1>2, <1>3, <1>9, <2>1
  <2>7. Rank[y] > Rank[x]
    BY <1>2, <1>3, <1>5, <1>9, <2>1, <2>2, <2>3, <2>6
  <2>8. <<y>> \in Seq(NodeIds) /\ Range(<<y>>) = {y} /\ IsInjective(<<y>>)
    BY <2>3, OneMember
  <2>9. LoadedWell(x, <<y>>)
    BY <2>3, <2>5, <2>7, <2>8 DEF LoadedWell
  <2> QED
    BY <2>9 DEF y
<1>10. ASSUME NEW x \in Ids, Kind(x) = "Page"
       PROVE  LoadedWell(x, <<TitleOf(x)>> \o Loadable(x, children[x]))
  <2> DEFINE o == <<TitleOf(x)>>
             t == TitleOf(x)
             l == Loadable(x, children[x])
  <2>1. x \in Nodes /\ x <= n /\ x > 0
    <3>1. x \in Nodes
      BY <1>1, <1>10, PageIsNode
    <3> QED
      BY <1>2, <3>1
  <2>2. t = Size + x
    BY DEF TitleOf
  <2> HIDE DEF t
  <2>3. t \in NodeIds /\ t \in 1..(Size + Size) /\ t > Size /\ ~(t > Size + n)
    BY <1>2, <1>3, <2>1, <2>2
  <2>4. Lister(t) = x
    BY <1>2, <1>3, <2>1, <2>2, <2>3 DEF Lister, n
  <2>5. Rank[t] > Rank[x]
    BY <1>2, <1>3, <1>5, <1>6, <2>1, <2>2, <2>3
  <2>6. o \in Seq(NodeIds) /\ Range(o) = {t} /\ IsInjective(o)
    <3>1. o = <<t>>
      BY DEF t
    <3> HIDE DEF o
    <3> QED
      BY <2>3, <3>1, OneMember
  <2>7. /\ children[x] \in Seq(Ids) /\ IsInjective(children[x])
        /\ \A y \in Range(children[x]) : y \in Range(children[x]) \cup Range(contents[x]) /\ Kind(y) # "Page"
    BY <1>10, ListsApart, KindsBelow DEF PageKinds
  <2>8. LoadedWell(x, l) /\ l \in Seq(Ids)
    BY <2>7, LoadableFacts
  <2>9. t \notin Range(l)
    <3>1. Range(l) \subseteq Ids
      BY <2>8, RangeOf
    <3> QED
      BY <1>2, <1>3, <2>3, <3>1
  <2> HIDE DEF o, l
  <2>10. l \in Seq(NodeIds) /\ IsInjective(l)
    BY <2>8 DEF LoadedWell
  <2>11. o \o l \in Seq(NodeIds) /\ Range(o \o l) = {t} \cup Range(l)
    BY <2>6, <2>10, RangeConcat
  <2>12. IsInjective(o \o l)
    BY <2>6, <2>9, <2>10, InjectiveConcat
  <2>13. LoadedWell(x, o \o l)
    BY <2>3, <2>4, <2>5, <2>8, <2>11, <2>12 DEF LoadedWell
  <2> QED
    BY <2>13 DEF o, l
<1>11. ASSUME NEW x \in Ids, Kind(x) \notin {"Section", "PageSeries"}
       PROVE  LoadedWell(x, Loadable(x, contents[x] \o children[x]))
  <2> DEFINE c == contents[x] \o children[x]
  <2>1. c \in Seq(Ids) /\ IsInjective(c) /\ Range(c) = Range(children[x]) \cup Range(contents[x])
    BY ListsApart
  <2>2. \A y \in Range(c) : y \in Range(children[x]) \cup Range(contents[x]) /\ Kind(y) # "Page"
    BY <1>11, <2>1, KindsBelow DEF PageKinds
  <2> HIDE DEF c
  <2>3. LoadedWell(x, Loadable(x, c))
    BY <2>1, <2>2, LoadableFacts
  <2> QED
    BY <2>3 DEF c
<1>12. ASSUME NEW x \in NodeIds PROVE LoadedWell(x, Loaded[x])
  <2>1. CASE x = 0
    <3>1. Loaded[x] = Pages
      BY <2>1 DEF Loaded
    <3> QED
      BY <1>7, <2>1, <3>1
  <2>2. CASE x # 0 /\ x > Size
    <3>1. Loaded[x] = IF Class(x) = "Title" /\ Kind(x - Size) = "Page" THEN <<TitleText(x - Size)>> ELSE <<>>
      BY <2>2 DEF Loaded
    <3> QED
      BY <1>8, <1>9, <2>2, <3>1
  <2>3. CASE x # 0 /\ ~(x > Size)
    <3>1. x \in Ids
      BY <1>2, <1>3, <2>3
    <3>2. Kind(x) = "Page" => Loaded[x] = <<TitleOf(x)>> \o Loadable(x, children[x])
      BY <2>3 DEF Loaded
    <3>3. Kind(x) \in {"Section", "PageSeries", "Title"} => Loaded[x] = <<>>
      BY <2>3 DEF Loaded
    <3>4. Kind(x) \notin {"Section", "PageSeries", "Title", "Page"}
            => Loaded[x] = Loadable(x, contents[x] \o children[x])
      BY <2>3 DEF Loaded
    <3> QED
      BY <1>8, <1>10, <1>11, <3>1, <3>2, <3>3, <3>4
  <2> QED
    BY <2>1, <2>2, <2>3
<1>13. \A x \in NodeIds : Loaded[x] \in Seq(NodeIds)
  BY <1>12 DEF LoadedWell
<1>14. Loaded = [x \in NodeIds |-> Loaded[x]]
  BY DEF Loaded
<1>15. Loaded \in [NodeIds -> Seq(NodeIds)]
  BY <1>13, <1>14
<1> QED
  BY <1>12, <1>15

-----------------------------------------------------------------------------
(* The nodes and what a client does to them.                               *)
DomTypes ==
    /\ nodes \in [NodeIds -> Seq(NodeIds)] /\ parent \in Parents
    /\ shared \subseteq NodeIds /\ detached \subseteq 1..(Size + Size)
    /\ strayed \in BOOLEAN /\ edits \in Nat
    /\ \A y \in NodeIds : Range(nodes[y]) \subseteq 1..(Size + Size)
    /\ \A x \in NodeIds : x = 0 \/ x > Size + Size => parent[x] = NoNode
Linked ==
    /\ \A x \in NodeIds : parent[x] # NoNode /\ x \notin shared => x \in Range(nodes[parent[x]])
    /\ \A y \in NodeIds : IsInjective(nodes[y])
    /\ \A y \in NodeIds : \A x \in Range(nodes[y]) \ shared : parent[x] = y
DomInv == DomTypes /\ (~strayed => Linked /\ NoCircle)

Untouched == shared = {} /\ detached = {} /\ strayed = FALSE /\ edits = 0

LEMMA DomNumbers ==
    ASSUME TreeIsSeq
    PROVE  /\ Size \in Nat /\ Len(tree) \in Nat /\ NodeIds = 0..(Size + Size + Len(tree))
           /\ 0 \in NodeIds /\ 1..(Size + Size) \subseteq NodeIds /\ NoNode \notin NodeIds
           /\ \A x \in NodeIds : x \in Nat
<1>1. Len(tree) \in Nat /\ Size = 2 * Len(tree) /\ NoNode \notin NodeIds
  BY NodeNumbers
<1>2. NodeIds = 0..(Size + Size + Len(tree))
  BY DEF NodeIds
<1> QED
  BY <1>1, <1>2

LEMMA NodesStay ==
    ASSUME UNCHANGED tree
    PROVE  /\ NodeIds' = NodeIds /\ Size' = Size /\ Parents' = Parents /\ NoNode' = NoNode
           /\ Ids' = Ids /\ TreeIsSeq' = TreeIsSeq
BY DEF NodeIds, Size, Parents, NoNode, Ids, TreeIsSeq

LEMMA LoadMakesTree ==
    ASSUME ConvInv, Untouched, Load
    PROVE  DomInv'
<1> DEFINE listed(x) == \E y \in NodeIds : x \in Range(Loaded[y])
<1>1. /\ TreeIsSeq /\ tree' = tree /\ nodes' = Loaded
      /\ shared' = {} /\ detached' = {} /\ strayed' = FALSE /\ edits' = 0
  BY IdNumbers DEF Load, Untouched, Source, ConvInv
<1>2. /\ Loaded \in [NodeIds -> Seq(NodeIds)]
      /\ \A x \in NodeIds : IsInjective(Loaded[x])
      /\ \A x \in NodeIds : \A y \in Range(Loaded[x]) : /\ y \in 1..(Size + Size) /\ y \in NodeIds
                                                       /\ Rank[y] > Rank[x] /\ x = Lister(y)
  BY LoadedFacts DEF LoadedWell
<1>3. \A x \in NodeIds : parent'[x] = IF listed(x) THEN CHOOSE y \in NodeIds : x \in Range(Loaded[y])
                                      ELSE NoNode
  <2>1. parent' = [x \in NodeIds |-> IF listed(x) THEN CHOOSE y \in NodeIds : x \in Range(Loaded[y])
                                      ELSE NoNode]
    <3>1. parent' = [x \in NodeIds |-> IF \E y \in NodeIds : x \in Range(nodes'[y])
                                       THEN CHOOSE y \in NodeIds : x \in Range(nodes'[y]) ELSE NoNode]
      BY DEF Load
    <3> QED
      BY <1>1, <3>1
  <2> QED
    BY <2>1
<1>4. \A x, y \in NodeIds : x \in Range(Loaded[y]) => parent'[x] = y
  <2> SUFFICES ASSUME NEW x \in NodeIds, NEW y \in NodeIds, x \in Range(Loaded[y]) PROVE parent'[x] = y
    OBVIOUS
  <2>1. PICK z \in NodeIds : x \in Range(Loaded[z]) /\ parent'[x] = z
    BY <1>3
  <2>2. z = Lister(x) /\ y = Lister(x)
    BY <1>2, <2>1
  <2> QED
    BY <2>1, <2>2
<1>5. \A x \in NodeIds : ~listed(x) => parent'[x] = NoNode
  BY <1>3
<1>6. parent' \in [NodeIds -> NodeIds \cup {NoNode}]
  <2>1. \A x \in NodeIds : parent'[x] \in NodeIds \cup {NoNode}
    <3> TAKE x \in NodeIds
    <3>1. CASE listed(x)
      BY <1>4, <3>1
    <3>2. CASE ~listed(x)
      BY <1>5, <3>2
    <3> QED
      BY <3>1, <3>2
  <2>2. parent' = [x \in NodeIds |-> parent'[x]]
    BY DEF Load
  <2> QED
    BY <2>1, <2>2
<1>7. \A x \in NodeIds : x = 0 \/ x > Size + Size => parent'[x] = NoNode
  <2> SUFFICES ASSUME NEW x \in NodeIds, x = 0 \/ x > Size + Size PROVE ~listed(x)
    BY <1>5
  <2>1. x \notin 1..(Size + Size)
    BY <1>1, DomNumbers
  <2> QED
    BY <1>2, <2>1
<1>8. \A x \in NodeIds : parent'[x] # NoNode => parent'[x] \in NodeIds /\ x \in Range(Loaded[parent'[x]])
  <2> SUFFICES ASSUME NEW x \in NodeIds, listed(x)
               PROVE  parent'[x] \in NodeIds /\ x \in Range(Loaded[parent'[x]])
    BY <1>5
  <2> QED
    BY <1>4
<1>9. ASSUME NEW s \in SUBSET NodeIds, s # {} PROVE \E x \in s : parent'[x] \notin s
  <2> DEFINE ranks == {Rank[x] : x \in s}
  <2>1. Rank \in [NodeIds -> 0..(5 * Len(tree))] /\ \A x \in NodeIds : Rank[x] \in Nat
    BY RankFacts DEF ConvInv
  <2>2. ranks \subseteq Nat /\ ranks # {}
    BY <1>9, <2>1
  <2>3. PICK r \in ranks : \A q \in ranks : r <= q
    <3> HIDE DEF ranks
    <3> QED
      BY <2>2, LeastNatural
  <2>4. PICK x \in s : Rank[x] = r
    OBVIOUS
  <2>5. ASSUME parent'[x] \in s PROVE FALSE
    <3>1. parent'[x] # NoNode
      BY <1>1, <2>5, DomNumbers
    <3>2. x \in Range(Loaded[parent'[x]]) /\ parent'[x] \in NodeIds
      BY <1>8, <3>1
    <3>3. Rank[x] > Rank[parent'[x]]
      BY <1>2, <3>2
    <3>4. Rank[x] <= Rank[parent'[x]]
      BY <2>3, <2>4, <2>5
    <3> QED
      BY <2>1, <3>2, <3>3, <3>4
  <2> QED
    BY <2>5
<1>10. DomTypes'
  <2>1. \A y \in NodeIds : Range(nodes'[y]) \subseteq 1..(Size + Size)
    BY <1>1, <1>2
  <2> QED
    BY <1>1, <1>2, <1>6, <1>7, <2>1, NodesStay DEF DomTypes, Parents
<1>11. Linked'
  BY <1>1, <1>2, <1>4, <1>8, NodesStay DEF Linked
<1>12. NoCircle'
  BY <1>1, <1>9, NodesStay DEF NoCircle
<1> QED
  BY <1>10, <1>11, <1>12 DEF DomInv

LEMMA InsertKeepsTree ==
    ASSUME ConvInv, DomInv, InsertChild
    PROVE  DomInv'
<1>1. TreeIsSeq /\ tree' = tree /\ edits' = edits + 1 /\ UNCHANGED <<shared, detached, strayed>>
  BY IdNumbers DEF InsertChild, Edit, Rest, treeVars, Source, ConvInv
<1>2. PICK node \in detached, list \in InDocument :
        /\ parent[node] = NoNode /\ ~Listed(node)
        /\ \E place \in 1..(Len(nodes[list]) + 1) : Inserted(list, place, node)
  BY DEF InsertChild
<1>3. PICK place \in 1..(Len(nodes[list]) + 1) : Inserted(list, place, node)
  BY <1>2
<1>4. DomTypes
  BY DEF DomInv
<1>5. node \in NodeIds /\ node \in 1..(Size + Size) /\ node # 0 /\ list \in NodeIds
  BY <1>1, <1>4, DomNumbers, DocumentClosed DEF DomTypes
<1> DEFINE new == InsertAt(nodes[list], place, node)
<1>6. /\ nodes' = [nodes EXCEPT ![list] = new]
      /\ parent' = [parent EXCEPT ![node] = list]
  BY <1>3 DEF Inserted
<1>7. \A y \in NodeIds : node \notin Range(nodes[y])
  BY <1>2 DEF Listed
<1>8. /\ new \in Seq(NodeIds) /\ Range(new) = Range(nodes[list]) \cup {node}
      /\ IsInjective(nodes[list]) => IsInjective(new)
  <2>1. nodes[list] \in Seq(NodeIds) /\ node \notin Range(nodes[list])
    BY <1>4, <1>5, <1>7 DEF DomTypes
  <2> QED
    BY <1>5, <2>1, InsertAtFacts
<1> HIDE DEF new
<1>9. \A y \in NodeIds : nodes'[y] = IF y = list THEN new ELSE nodes[y]
  BY <1>4, <1>6 DEF DomTypes
<1>10. \A x \in NodeIds : parent'[x] = IF x = node THEN list ELSE parent[x]
  BY <1>4, <1>6 DEF DomTypes, Parents
<1>11. DomTypes'
  <2>1. nodes' \in [NodeIds -> Seq(NodeIds)]
    BY <1>4, <1>5, <1>6, <1>8 DEF DomTypes
  <2>2. parent' \in [NodeIds -> NodeIds \cup {NoNode}]
    BY <1>4, <1>5, <1>6 DEF DomTypes, Parents
  <2>3. \A y \in NodeIds : Range(nodes'[y]) \subseteq 1..(Size + Size)
    BY <1>4, <1>5, <1>8, <1>9 DEF DomTypes
  <2>4. \A x \in NodeIds : x = 0 \/ x > Size + Size => parent'[x] = NoNode
    <3>1. Size \in Nat /\ node \in Nat
      BY <1>1, <1>5, DomNumbers
    <3> QED
      BY <1>4, <1>5, <1>10, <3>1 DEF DomTypes
  <2>5. edits' \in Nat
    BY <1>1, <1>4 DEF DomTypes
  <2> QED
    BY <1>1, <1>4, <2>1, <2>2, <2>3, <2>4, <2>5, NodesStay DEF DomTypes, Parents
<1>12. ASSUME ~strayed PROVE Linked' /\ NoCircle'
  <2>1. Linked /\ NoCircle
    BY <1>12 DEF DomInv
  <2>2. Linked'
    <3>1. ASSUME NEW x \in NodeIds, parent'[x] # NoNode, x \notin shared
          PROVE  x \in Range(nodes'[parent'[x]])
      <4>1. CASE x = node
        BY <1>5, <1>8, <1>9, <1>10, <4>1
      <4>2. CASE x # node
        <5>1. parent'[x] = parent[x] /\ parent[x] \in NodeIds /\ x \in Range(nodes[parent[x]])
          BY <1>4, <1>10, <2>1, <3>1, <4>2 DEF Linked, DomTypes, Parents
        <5> QED
          BY <1>8, <1>9, <5>1
      <4> QED
        BY <4>1, <4>2
    <3>2. \A y \in NodeIds : IsInjective(nodes'[y])
      BY <1>8, <1>9, <2>1, <1>5 DEF Linked
    <3>3. ASSUME NEW y \in NodeIds, NEW x \in Range(nodes'[y]) \ shared PROVE parent'[x] = y
      <4>1. (x = node /\ y = list) \/ (x # node /\ x \in Range(nodes[y]))
        BY <1>5, <1>7, <1>8, <1>9
      <4>2. x \in NodeIds
        <5>1. nodes[y] \in Seq(NodeIds)
          BY <1>4 DEF DomTypes
        <5> QED
          BY <1>5, <4>1, <5>1, RangeOf
      <4> QED
        BY <1>10, <2>1, <4>1, <4>2 DEF Linked
    <3> QED
      BY <1>1, <3>1, <3>2, <3>3, NodesStay DEF Linked
  <2>3. ASSUME NEW s \in SUBSET NodeIds, s # {}, \A x \in s : parent'[x] \in s PROVE FALSE
    <3>1. CASE node \notin s
      <4>1. \A x \in s : parent[x] \in s
        BY <1>10, <2>3, <3>1
      <4> QED
        BY <2>1, <2>3, <4>1 DEF NoCircle
    <3>2. CASE node \in s
      <4>1. list \in s
        BY <1>5, <1>10, <2>3, <3>2
      <4>2. \A y \in s \ {0} : parent[y] \in InDocument => parent[y] \in s
        <5> SUFFICES ASSUME NEW y \in s \ {0}, parent[y] \in InDocument PROVE parent[y] \in s
          OBVIOUS
        <5>1. parent[y] # NoNode
          BY <1>1, DomNumbers, DocumentClosed
        <5>2. y # node
          BY <1>2, <5>1
        <5> QED
          BY <1>10, <2>3, <5>2
      <4>3. 0 \in s
        BY <1>1, <1>2, <2>3, <4>1, <4>2, UpReachesDocument
      <4>4. parent'[0] = NoNode
        BY <1>1, <1>4, <1>5, <1>10, DomNumbers DEF DomTypes
      <4> QED
        BY <1>1, <2>3, <4>3, <4>4, DomNumbers
    <3> QED
      BY <3>1, <3>2
  <2>4. NoCircle'
    BY <1>1, <2>3, NodesStay DEF NoCircle
  <2> QED
    BY <2>2, <2>4
<1> QED
  BY <1>1, <1>11, <1>12 DEF DomInv

LEMMA RemoveAtType ==
    ASSUME NEW S, NEW s \in Seq(S), NEW place \in 1..Len(s)
    PROVE  RemoveAt(s, place) \in Seq(S) /\ Range(RemoveAt(s, place)) \subseteq Range(s)
<1> DEFINE n == Len(s)
           a == SubSeq(s, 1, place - 1)
           b == SubSeq(s, place + 1, n)
<1>1. n \in Nat /\ place \in Nat /\ place >= 1 /\ place <= n
  BY LenProperties
<1>2. a \in Seq(S) /\ Range(a) \subseteq Range(s)
  <2>1. 1 \in 1..(n + 1) /\ place - 1 \in (1 - 1)..n
    BY <1>1
  <2> QED
    BY <2>1, RangeSubSeq
<1>3. b \in Seq(S) /\ Range(b) \subseteq Range(s)
  <2>1. place + 1 \in 1..(n + 1) /\ n \in ((place + 1) - 1)..n
    BY <1>1
  <2> QED
    BY <2>1, RangeSubSeq
<1>4. RemoveAt(s, place) = a \o b
  BY DEF RemoveAt
<1> HIDE DEF a, b
<1>5. a \o b \in Seq(S) /\ Range(a \o b) = Range(a) \cup Range(b)
  BY <1>2, <1>3, RangeConcat
<1> QED
  BY <1>2, <1>3, <1>4, <1>5

LEMMA MinOfPlaces ==
    ASSUME NEW T, T \subseteq Nat, T # {}
    PROVE  Min(T) \in T
<1>1. \E x \in T : \A y \in T : x <= y
  BY LeastNatural
<1> QED
  BY <1>1 DEF Min

LEMMA RemoveKeepsTree ==
    ASSUME ConvInv, DomInv, RemoveChild
    PROVE  DomInv'
<1>1. TreeIsSeq /\ tree' = tree /\ edits' = edits + 1 /\ shared' = shared
  BY IdNumbers DEF RemoveChild, Edit, Rest, treeVars, Source, ConvInv
<1>2. DomTypes
  BY DEF DomInv
<1> DEFINE places(list, node) == {i \in DOMAIN nodes[list] :
                             nodes[list][i] = node \/ Alike(nodes[list][i], node)}
           effect(list, node, equal) ==
             IF nodes[list][equal] # node /\ Endless(nodes[list][equal])
             THEN UNCHANGED <<nodes, parent, detached, strayed>>
             ELSE /\ Removed(list, equal, node)
                  /\ detached' = detached \cup {node}
                  /\ strayed' = (strayed \/ nodes[list][equal] # node)
<1>3. PICK list \in InDocument : \E node \in Range(nodes[list]) :
                                     effect(list, node, Min(places(list, node)))
  BY DEF RemoveChild
<1>9. PICK node \in Range(nodes[list]) : effect(list, node, Min(places(list, node)))
  BY <1>3
<1>10. PICK equal : equal = Min(places(list, node)) /\ effect(list, node, equal)
  BY <1>9
<1>4. list \in NodeIds /\ nodes[list] \in Seq(NodeIds)
  BY <1>1, <1>2, DocumentClosed DEF DomTypes
<1>5. node \in NodeIds /\ node \in 1..(Size + Size)
  BY <1>1, <1>2, <1>4, DomNumbers DEF DomTypes
<1>6. equal \in 1..Len(nodes[list])
  <2>1. DOMAIN nodes[list] = 1..Len(nodes[list])
    BY <1>4, LenProperties
  <2>2. places(list, node) \subseteq 1..Len(nodes[list]) /\ places(list, node) \subseteq Nat
    <3>1. Len(nodes[list]) \in Nat
      BY <1>4, LenProperties
    <3> QED
      BY <2>1, <3>1
  <2>3. places(list, node) # {}
    <3>1. PICK i \in 1..Len(nodes[list]) : nodes[list][i] = node
      BY <1>4, RangeOf
    <3> QED
      BY <2>1, <3>1
  <2> HIDE DEF places
  <2>4. Min(places(list, node)) \in places(list, node)
    BY <2>2, <2>3, MinOfPlaces
  <2> QED
    BY <1>10, <2>2, <2>4
<1> HIDE DEF places
<1>7. CASE UNCHANGED <<nodes, parent, detached, strayed>>
  <2>1. edits' \in Nat
    BY <1>1, <1>2 DEF DomTypes
  <2>2. DomTypes'
    BY <1>1, <1>2, <1>7, <2>1, NodesStay DEF DomTypes
  <2>3. Linked' <=> Linked
    BY <1>1, <1>7, NodesStay DEF Linked
  <2>4. NoCircle' <=> NoCircle
    BY <1>1, <1>7, NodesStay DEF NoCircle
  <2> QED
    BY <1>7, <2>2, <2>3, <2>4 DEF DomInv
<1>8. CASE /\ Removed(list, equal, node)
           /\ detached' = detached \cup {node}
           /\ strayed' = (strayed \/ nodes[list][equal] # node)
  <2> DEFINE new == RemoveAt(nodes[list], equal)
  <2>1. /\ nodes' = [nodes EXCEPT ![list] = new]
        /\ parent' = [parent EXCEPT ![node] = NoNode]
    BY <1>8 DEF Removed
  <2>2. new \in Seq(NodeIds) /\ Range(new) \subseteq Range(nodes[list])
    BY <1>4, <1>6, RemoveAtType
  <2>3. IsInjective(nodes[list]) => IsInjective(new) /\ Range(new) = Range(nodes[list]) \ {nodes[list][equal]}
    BY <1>4, <1>6, RemoveAtFacts
  <2> HIDE DEF new
  <2>4. \A y \in NodeIds : nodes'[y] = IF y = list THEN new ELSE nodes[y]
    BY <1>2, <2>1 DEF DomTypes
  <2>5. \A x \in NodeIds : parent'[x] = IF x = node THEN NoNode ELSE parent[x]
    BY <1>2, <2>1 DEF DomTypes, Parents
  <2>6. DomTypes'
    <3>1. nodes' \in [NodeIds -> Seq(NodeIds)]
      BY <1>2, <1>4, <2>1, <2>2 DEF DomTypes
    <3>2. parent' \in [NodeIds -> NodeIds \cup {NoNode}]
      BY <1>2, <1>5, <2>1 DEF DomTypes, Parents
    <3>3. \A y \in NodeIds : Range(nodes'[y]) \subseteq 1..(Size + Size)
      BY <1>2, <1>4, <2>2, <2>4 DEF DomTypes
    <3>4. \A x \in NodeIds : x = 0 \/ x > Size + Size => parent'[x] = NoNode
      BY <1>2, <2>5 DEF DomTypes
    <3>5. edits' \in Nat /\ strayed' \in BOOLEAN /\ detached' \subseteq 1..(Size + Size)
      BY <1>1, <1>2, <1>5, <1>8 DEF DomTypes
    <3> QED
      BY <1>1, <1>2, <3>1, <3>2, <3>3, <3>4, <3>5, NodesStay DEF DomTypes, Parents
  <2>7. ASSUME ~strayed' PROVE Linked' /\ NoCircle'
    <3>1. Linked /\ NoCircle /\ nodes[list][equal] = node
      BY <1>8, <2>7 DEF DomInv
    <3>2. IsInjective(new) /\ Range(new) = Range(nodes[list]) \ {node}
      BY <1>4, <2>3, <3>1 DEF Linked
    <3>3. ASSUME NEW x \in NodeIds, parent'[x] # NoNode, x \notin shared
          PROVE  x \in Range(nodes'[parent'[x]])
      <4>1. x # node /\ parent'[x] = parent[x] /\ parent[x] \in NodeIds /\ x \in Range(nodes[parent[x]])
        BY <1>2, <2>5, <3>1, <3>3 DEF Linked, DomTypes, Parents
      <4> QED
        BY <2>4, <3>2, <4>1
    <3>4. \A y \in NodeIds : IsInjective(nodes'[y])
      BY <2>4, <3>1, <3>2 DEF Linked
    <3>5. ASSUME NEW y \in NodeIds, NEW x \in Range(nodes'[y]) \ shared PROVE parent'[x] = y
      <4>1. x \in Range(nodes[y]) /\ x \notin shared /\ (y = list => x # node)
        BY <2>4, <3>2
      <4>2. parent[x] = y
        BY <3>1, <4>1 DEF Linked
      <4>3. x # node
        <5>1. x = node => parent[x] = list
          BY <1>4, <3>1, <4>1 DEF Linked
        <5> QED
          BY <4>1, <4>2, <5>1
      <4>4. x \in NodeIds
        <5>1. nodes[y] \in Seq(NodeIds)
          BY <1>2 DEF DomTypes
        <5> QED
          BY <4>1, <5>1, RangeOf
      <4> QED
        BY <2>5, <4>2, <4>3, <4>4
    <3>6. Linked'
      BY <1>1, <3>3, <3>4, <3>5, NodesStay DEF Linked
    <3>7. ASSUME NEW s \in SUBSET NodeIds, s # {}, \A x \in s : parent'[x] \in s PROVE FALSE
      <4>1. node \notin s
        BY <1>1, <1>5, <2>5, <3>7, DomNumbers
      <4>2. \A x \in s : parent[x] \in s
        BY <2>5, <3>7, <4>1
      <4> QED
        BY <3>1, <3>7, <4>2 DEF NoCircle
    <3>8. NoCircle'
      BY <1>1, <3>7, NodesStay DEF NoCircle
    <3> QED
      BY <3>6, <3>8
  <2> QED
    BY <2>6, <2>7 DEF DomInv
<1> QED
  BY <1>7, <1>8, <1>10

LEMMA CloneKeepsTree ==
    ASSUME ConvInv, DomInv, ClonePage
    PROVE  DomInv'
<1>1. TreeIsSeq /\ tree' = tree /\ edits' = edits + 1 /\ UNCHANGED <<detached, strayed>>
  BY IdNumbers DEF ClonePage, Edit, Rest, treeVars, Source, ConvInv
<1>2. DomTypes
  BY DEF DomInv
<1>3. PICK p \in Range(nodes[0]) :
        /\ p \in Nodes /\ nodes[CloneOf(p)] = <<>>
        /\ nodes' = [nodes EXCEPT ![CloneOf(p)] = nodes[p]]
        /\ parent' = [x \in NodeIds |-> IF x \in Range(nodes[p]) THEN CloneOf(p) ELSE parent[x]]
        /\ shared' = shared \cup Range(nodes[p])
  BY DEF ClonePage
<1> DEFINE c == CloneOf(p)
           below == Range(nodes[p])
<1>4. /\ c \in NodeIds /\ c > Size + Size /\ p \in NodeIds /\ c \notin 1..(Size + Size)
  <2>1. p \in Nat /\ p > 0 /\ p <= Len(tree) /\ Size \in Nat /\ Len(tree) \in Nat
    BY <1>1, <1>3, NodeNumbers, DomNumbers
  <2>2. c = Size + Size + p
    BY DEF CloneOf
  <2> QED
    BY <1>1, <2>1, <2>2, DomNumbers
<1>5. nodes[p] \in Seq(NodeIds) /\ below \subseteq NodeIds /\ below \subseteq 1..(Size + Size) /\ c \notin below
  <2>1. nodes[p] \in Seq(NodeIds) /\ below \subseteq 1..(Size + Size)
    BY <1>2, <1>4 DEF DomTypes
  <2> QED
    BY <1>4, <2>1, RangeOf
<1>6. /\ nodes[c] = <<>> /\ nodes' = [nodes EXCEPT ![c] = nodes[p]]
      /\ parent' = [x \in NodeIds |-> IF x \in below THEN c ELSE parent[x]]
      /\ shared' = shared \cup below
  BY <1>3
<1> HIDE DEF c, below
<1>7. \A y \in NodeIds : nodes'[y] = IF y = c THEN nodes[p] ELSE nodes[y]
  BY <1>2, <1>6 DEF DomTypes
<1>8. \A x \in NodeIds : parent'[x] = IF x \in below THEN c ELSE parent[x]
  BY <1>6
<1>9. parent[c] = NoNode /\ parent'[c] = NoNode
  BY <1>2, <1>4, <1>5, <1>8 DEF DomTypes
<1>10. DomTypes'
  <2>1. nodes' \in [NodeIds -> Seq(NodeIds)]
    BY <1>2, <1>5, <1>6 DEF DomTypes
  <2>2. parent' \in [NodeIds -> NodeIds \cup {NoNode}]
    BY <1>2, <1>4, <1>6 DEF DomTypes, Parents
  <2>3. \A y \in NodeIds : Range(nodes'[y]) \subseteq 1..(Size + Size)
    BY <1>2, <1>4, <1>7 DEF DomTypes
  <2>4. \A x \in NodeIds : x = 0 \/ x > Size + Size => parent'[x] = NoNode
    <3> SUFFICES ASSUME NEW x \in NodeIds, x = 0 \/ x > Size + Size PROVE parent'[x] = NoNode
      OBVIOUS
    <3>1. x \notin below
      <4>1. Size \in Nat /\ x \in Nat
        BY <1>1, DomNumbers
      <4> QED
        BY <1>5, <4>1
    <3> QED
      BY <1>2, <1>8, <3>1 DEF DomTypes
  <2>5. edits' \in Nat /\ shared' \subseteq NodeIds
    BY <1>1, <1>2, <1>5, <1>6 DEF DomTypes
  <2> QED
    BY <1>1, <1>2, <2>1, <2>2, <2>3, <2>4, <2>5, NodesStay DEF DomTypes, Parents
<1>11. ASSUME ~strayed PROVE Linked' /\ NoCircle'
  <2>1. Linked /\ NoCircle
    BY <1>11 DEF DomInv
  <2>2. ASSUME NEW x \in NodeIds, parent'[x] # NoNode, x \notin shared'
        PROVE  x \in Range(nodes'[parent'[x]])
    <3>1. x \notin shared /\ parent'[x] = parent[x] /\ parent[x] \in NodeIds /\ x \in Range(nodes[parent[x]])
      BY <1>2, <1>6, <1>8, <2>1, <2>2 DEF Linked, DomTypes, Parents
    <3>2. parent[x] # c
      BY <1>6, <3>1, RangeEmpty
    <3> QED
      BY <1>7, <3>1, <3>2
  <2>3. \A y \in NodeIds : IsInjective(nodes'[y])
    BY <1>4, <1>7, <2>1 DEF Linked
  <2>4. ASSUME NEW y \in NodeIds, NEW x \in Range(nodes'[y]) \ shared' PROVE parent'[x] = y
    <3>1. x \notin below /\ x \notin shared
      BY <1>6
    <3>2. y # c
      BY <1>7, <3>1 DEF below
    <3>3. x \in Range(nodes[y])
      BY <1>7, <3>2
    <3>4. x \in NodeIds
      <4>1. nodes[y] \in Seq(NodeIds)
        BY <1>2 DEF DomTypes
      <4> QED
        BY <3>3, <4>1, RangeOf
    <3> QED
      BY <1>8, <2>1, <3>1, <3>3, <3>4 DEF Linked
  <2>5. Linked'
    BY <1>1, <2>2, <2>3, <2>4, NodesStay DEF Linked
  <2>6. ASSUME NEW s \in SUBSET NodeIds, s # {}, \A x \in s : parent'[x] \in s PROVE FALSE
    <3>1. NoNode \notin s
      BY <1>1, DomNumbers
    <3>2. \A x \in s : x \notin below
      <4> SUFFICES ASSUME NEW x \in s, x \in below PROVE FALSE
        OBVIOUS
      <4>1. c \in s
        BY <1>8, <2>6
      <4> QED
        BY <1>9, <2>6, <3>1, <4>1
    <3>3. \A x \in s : parent[x] \in s
      BY <1>8, <2>6, <3>2
    <3> QED
      BY <2>1, <2>6, <3>3 DEF NoCircle
  <2>7. NoCircle'
    BY <1>1, <2>6, NodesStay DEF NoCircle
  <2> QED
    BY <2>5, <2>7
<1> QED
  BY <1>1, <1>10, <1>11 DEF DomInv

Early == {"convert", "fill", "load"}
Late  == {"client", "pages", "build", "done"}
DocumentInv ==
    /\ ConvInv
    /\ \/ doing \in Early /\ Untouched
       \/ doing \in Late /\ DomInv

LEMMA DomStays ==
    ASSUME UNCHANGED <<tree, domVars>>
    PROVE  (DomInv' <=> DomInv) /\ (Untouched' <=> Untouched)
<1>1. /\ tree' = tree /\ nodes' = nodes /\ parent' = parent
      /\ shared' = shared /\ detached' = detached /\ strayed' = strayed /\ edits' = edits
  BY DEF domVars
<1>2. DomTypes' <=> DomTypes
  BY <1>1, NodesStay DEF DomTypes
<1>3. Linked' <=> Linked
  BY <1>1, NodesStay DEF Linked
<1>4. NoCircle' <=> NoCircle
  BY <1>1, NodesStay DEF NoCircle
<1> QED
  BY <1>1, <1>2, <1>3, <1>4 DEF DomInv, Untouched

LEMMA DocumentBegins == DocumentInit => DocumentInv
BY ConvInit DEF DocumentInit, DomInit, TreeInit, DocumentInv, Untouched, Early

LEMMA DocumentKeeps ==
    ASSUME DocumentInv, [DocumentNext]_documentVars
    PROVE  DocumentInv'
<1>1. ConvInv'
  <2>1. CASE DocumentNext
    BY <2>1, ConvKeeps DEF DocumentInv
  <2>2. CASE UNCHANGED documentVars
    <3>1. at' = at /\ at \in 1..(Len(tree) + 1) /\ at' >= at /\ ConvInv
      BY <2>2, IdNumbers DEF DocumentInv, ConvInv, documentVars, treeVars
    <3> QED
      BY <2>2, <3>1, ConvStays DEF documentVars, treeVars, Source
  <2> QED
    BY <2>1, <2>2
<1>2. CASE TreeNext /\ UNCHANGED <<storyVars, domVars>>
  <2>1. tree' = tree /\ doing \in Early /\ doing' \in Early
    BY <1>2 DEF TreeNext, ConvertNode, DropNode, EndConvert, FillGroup, Source, Early
  <2>2. Untouched /\ Untouched'
    BY <1>2, <2>1, DomStays DEF DocumentInv, Early, Late
  <2> QED
    BY <1>1, <2>1, <2>2 DEF DocumentInv
<1>3. CASE StoryNext /\ UNCHANGED domVars
  <2>1. tree' = tree /\ doing \in Late /\ doing' \in Late
    <3>1. CASE RenderPage \/ EndOutline \/ PassElement \/ EndStory \/ Split \/ Build
      BY <3>1 DEF RenderPage, EndOutline, PassElement, EndStory, Split, Build, treeVars, Source, Late
    <3>2. CASE RenderOutline \/ RenderElement \/ RenderText
      BY <3>2 DEF RenderOutline, RenderElement, RenderText, Rendering, treeVars, Source, Late
    <3>3. CASE RenderImage \/ RenderFile \/ RenderTable
      BY <3>3 DEF RenderImage, RenderFile, RenderTable, Rendering, treeVars, Source, Late
    <3> QED
      BY <1>3, <3>1, <3>2, <3>3 DEF StoryNext
  <2>2. DomInv /\ DomInv'
    BY <1>3, <2>1, DomStays DEF DocumentInv, Early, Late
  <2> QED
    BY <1>1, <2>1, <2>2 DEF DocumentInv
<1>4. CASE Load
  <2>1. doing \in Early /\ doing' \in Late
    BY <1>4 DEF Load, Early, Late
  <2>2. ConvInv /\ Untouched
    BY <2>1 DEF DocumentInv, Early, Late
  <2> QED
    BY <1>1, <1>4, <2>1, <2>2, LoadMakesTree DEF DocumentInv
<1>5. CASE InsertChild \/ RemoveChild \/ ClonePage
  <2>1. doing = "client" /\ doing' = doing
    BY <1>5 DEF InsertChild, RemoveChild, ClonePage, Edit, Rest, treeVars
  <2>2. ConvInv /\ DomInv
    BY <2>1 DEF DocumentInv, Early, Late
  <2>3. DomInv'
    BY <1>5, <2>2, InsertKeepsTree, RemoveKeepsTree, CloneKeepsTree
  <2> QED
    BY <1>1, <2>1, <2>3 DEF DocumentInv, Late
<1>6. CASE Save
  <2>1. doing = "client" /\ doing' = "pages" /\ UNCHANGED <<tree, domVars>>
    BY <1>6 DEF Save, StartStory, Source
  <2>2. DomInv
    BY <2>1 DEF DocumentInv, Early, Late
  <2> QED
    BY <1>1, <2>1, <2>2, DomStays DEF DocumentInv, Late
<1>7. CASE UNCHANGED documentVars
  <2>1. doing' = doing /\ UNCHANGED <<tree, domVars>>
    BY <1>7 DEF documentVars, treeVars
  <2> QED
    BY <1>1, <2>1, DomStays DEF DocumentInv, Late, Early
<1> QED
  BY <1>2, <1>3, <1>4, <1>5, <1>6, <1>7 DEF DocumentNext, DomNext

LEMMA TreeInvariant == DocumentInv => NodesFormTree
<1> SUFFICES ASSUME DocumentInv, doing = "client", ~strayed
             PROVE  /\ \A x \in NodeIds :
                         /\ NoNode \in Above(x)
                         /\ parent[x] # NoNode /\ x \notin shared => x \in Range(nodes[parent[x]])
                    /\ \A y \in NodeIds :
                         /\ \A x \in Range(nodes[y]) \ shared : parent[x] = y
                         /\ IsInjective(nodes[y])
  BY DEF NodesFormTree
<1>1. DomTypes /\ Linked /\ NoCircle /\ TreeIsSeq
  BY IdNumbers DEF DocumentInv, Early, Late, DomInv, ConvInv
<1>2. \A x \in NodeIds : NoNode \in Above(x)
  BY <1>1, WayEnds DEF DomTypes
<1> QED
  BY <1>1, <1>2 DEF Linked

(* The nodes of a document form a tree, whatever a client does with them,  *)
(* as long as no removal takes an equal sibling for the node it was given: *)
(* CompositeNode's methods together keep the lists of children and         *)
(* ParentNode in step.                                                     *)
THEOREM NodesStayTree == DocumentSpec => []NodesFormTree
<1>1. DocumentInit => DocumentInv
  BY DocumentBegins
<1>2. DocumentInv /\ [DocumentNext]_documentVars => DocumentInv'
  BY DocumentKeeps
<1>3. DocumentInv => NodesFormTree
  BY TreeInvariant
<1> QED
  BY <1>1, <1>2, <1>3, PTL DEF DocumentSpec

-----------------------------------------------------------------------------
(* Lists of anything.                                                      *)
IsList(s) == \E S : s \in Seq(S)

LEMMA ListConcat ==
    ASSUME NEW s, NEW t, IsList(s), IsList(t)
    PROVE  IsList(s \o t) /\ Range(s \o t) = Range(s) \cup Range(t)
<1>1. PICK S : s \in Seq(S)
  BY DEF IsList
<1>2. PICK T : t \in Seq(T)
  BY DEF IsList
<1> DEFINE B == S \cup T
<1>3. s \in Seq(B) /\ t \in Seq(B)
  <2>1. S \subseteq B /\ T \subseteq B
    OBVIOUS
  <2> HIDE DEF B
  <2> QED
    BY <1>1, <1>2, <2>1, WiderList
<1> HIDE DEF B
<1>4. s \o t \in Seq(B) /\ Range(s \o t) = Range(s) \cup Range(t)
  BY <1>3, RangeConcat
<1> QED
  BY <1>4 DEF IsList

LEMMA ListTail ==
    ASSUME NEW s, IsList(s), s # <<>>
    PROVE  IsList(Tail(s)) /\ Range(Tail(s)) \subseteq Range(s) /\ Head(s) \in Range(s)
<1>1. PICK S : s \in Seq(S)
  BY DEF IsList
<1>2. Tail(s) \in Seq(S) /\ Range(Tail(s)) \subseteq Range(s) /\ Head(s) \in Range(s)
  BY <1>1, RangeTail
<1> QED
  BY <1>2 DEF IsList

LEMMA ListSmall ==
    /\ IsList(<<>>) /\ Range(<<>>) = {}
    /\ \A e : IsList(<<e>>) /\ Range(<<e>>) = {e}
<1>1. <<>> \in Seq({})
  BY EmptySeq
<1>2. ASSUME NEW e PROVE IsList(<<e>>) /\ Range(<<e>>) = {e}
  <2>1. e \in {e}
    OBVIOUS
  <2>2. <<e>> \in Seq({e}) /\ Range(<<e>>) = {e}
    BY <2>1, OneMember
  <2> QED
    BY <2>2 DEF IsList
<1> QED
  BY <1>1, <1>2, RangeEmpty DEF IsList

LEMMA ListTwo ==
    ASSUME NEW a, NEW b
    PROVE  IsList(<<a, b>>) /\ Range(<<a, b>>) = {a, b}
<1>1. <<a, b>> \in Seq({a, b})
  OBVIOUS
<1>2. DOMAIN <<a, b>> = 1..2
  OBVIOUS
<1>3. Range(<<a, b>>) = {a, b}
  BY <1>2 DEF Range
<1> QED
  BY <1>1, <1>3 DEF IsList

LEMMA ListMade ==
    ASSUME NEW n \in Nat, NEW f, f = [i \in 1..n |-> f[i]]
    PROVE  IsList(f) /\ \A x \in Range(f) : \E i \in 1..n : x = f[i]
<1> DEFINE B == {f[i] : i \in 1..n}
<1>1. f \in [1..n -> B]
  OBVIOUS
<1>2. f \in Seq(B)
  <2> HIDE DEF B
  <2> QED
    BY <1>1
<1> QED
  BY <1>2 DEF IsList, Range

LEMMA ListPart ==
    ASSUME NEW s, IsList(s), NEW i \in DOMAIN s
    PROVE  /\ IsList(SubSeq(s, 1, i - 1)) /\ Range(SubSeq(s, 1, i - 1)) \subseteq Range(s)
           /\ IsList(SubSeq(s, i + 1, Len(s))) /\ Range(SubSeq(s, i + 1, Len(s))) \subseteq Range(s)
           /\ s[i] \in Range(s)
<1>1. PICK S : s \in Seq(S)
  BY DEF IsList
<1>2. Len(s) \in Nat /\ i \in 1..Len(s)
  BY <1>1, LenProperties
<1>3. SubSeq(s, 1, i - 1) \in Seq(S) /\ Range(SubSeq(s, 1, i - 1)) \subseteq Range(s)
  <2>1. 1 \in 1..(Len(s) + 1) /\ i - 1 \in (1 - 1)..Len(s)
    BY <1>2
  <2> QED
    BY <1>1, <2>1, RangeSubSeq
<1>4. SubSeq(s, i + 1, Len(s)) \in Seq(S) /\ Range(SubSeq(s, i + 1, Len(s))) \subseteq Range(s)
  <2>1. i + 1 \in 1..(Len(s) + 1) /\ Len(s) \in ((i + 1) - 1)..Len(s)
    BY <1>2
  <2> QED
    BY <1>1, <2>1, RangeSubSeq
<1>5. s[i] \in Range(s)
  BY DEF Range
<1> QED
  BY <1>3, <1>4, <1>5 DEF IsList

(* The insertion sort loses nothing and finds nothing else.                *)
Before(placed, e) == {k \in DOMAIN placed : tree[placed[k]].y <= tree[e].y}
Place1(placed, e) == Cardinality(Before(placed, e)) + 1

LEMMA PlaceInList ==
    ASSUME NEW S, NEW placed \in Seq(S), NEW e
    PROVE  Place1(placed, e) \in 1..(Len(placed) + 1)
<1> DEFINE n == Len(placed)
           b == Before(placed, e)
<1>1. n \in Nat /\ DOMAIN placed = 1..n
  BY LenProperties
<1>2. b \subseteq 1..n
  BY <1>1 DEF Before
<1> HIDE DEF b, n
<1>3. IsFiniteSet(1..n) /\ Cardinality(1..n) = n
  <2>1. 1 \in Int /\ n \in Int /\ (n >= 1 \/ n = 0)
    BY <1>1
  <2>2. CASE n >= 1
    <3>1. Cardinality(1..n) = n - 1 + 1 /\ IsFiniteSet(1..n)
      BY <2>1, <2>2, FS_Interval
    <3> QED
      BY <1>1, <3>1
  <2>3. CASE n = 0
    <3>1. 1..n = {}
      BY <2>3
    <3> QED
      BY <2>3, <3>1, FS_EmptySet
  <2> QED
    BY <2>1, <2>2, <2>3
<1>4. IsFiniteSet(b) /\ Cardinality(b) <= n
  BY <1>2, <1>3, FS_Subset
<1>5. Cardinality(b) \in Nat
  BY <1>4, FS_CardinalityType
<1> QED
  BY <1>1, <1>4, <1>5 DEF Place1, b, n

(* What holds at 0, and from one number to the next, holds up to n.        *)
LEMMA UpTo ==
    ASSUME NEW n \in Nat, NEW P, 0 \in P, \A k \in 1..n : k - 1 \in P => k \in P
    PROVE  n \in P
<1> DEFINE Bad == {k \in 0..n : k \notin P}
<1> SUFFICES ASSUME Bad # {} PROVE FALSE
  OBVIOUS
<1>1. PICK k \in Bad : \A j \in Bad : k <= j
  <2>1. Bad \subseteq Nat
    OBVIOUS
  <2> HIDE DEF Bad
  <2> QED
    BY <2>1, LeastNatural
<1>2. k \in 1..n /\ k - 1 \in 0..n /\ k - 1 < k
  OBVIOUS
<1>3. k - 1 \notin Bad
  BY <1>1, <1>2
<1> QED
  BY <1>2, <1>3

PlaceLoop(g, seq) ==
    /\ g \in [0..Len(seq) -> Seq(Range(seq))]
    /\ g[0] = <<>> /\ ByPlace(seq) = g[Len(seq)]
    /\ \A k \in 1..Len(seq) : g[k] = InsertAt(g[k - 1], Place1(g[k - 1], seq[k]), seq[k])

LEMMA ByPlaceIs ==
    ASSUME NEW S, NEW seq \in Seq(S)
    PROVE  \E g : PlaceLoop(g, seq)
<1> DEFINE n == Len(seq)
           R == Range(seq)
           turn  == [k \in Nat \ {0} |-> [t \in Seq(R) |->
                       IF k \in 1..n THEN InsertAt(t, Place1(t, seq[k]), seq[k]) ELSE t]]
           Is(f) == f = [k \in 0..n |->
                          IF k = 0 THEN <<>>
                          ELSE InsertAt(f[k - 1], Place1(f[k - 1], seq[k]), seq[k])]
           out   == CHOOSE f : Is(f)
<1>1. n \in Nat /\ <<>> \in Seq(R) /\ R \subseteq S /\ \A k \in 1..n : seq[k] \in R
  BY LenProperties, EmptySeq, RangeOf
<1> HIDE DEF n, R
<1>2. turn \in [Nat \ {0} -> [Seq(R) -> Seq(R)]]
  <2> SUFFICES ASSUME NEW k \in 1..n, NEW t \in Seq(R)
               PROVE  InsertAt(t, Place1(t, seq[k]), seq[k]) \in Seq(R)
    OBVIOUS
  <2>1. Place1(t, seq[k]) \in 1..(Len(t) + 1)
    BY PlaceInList
  <2> QED
    BY <1>1, <2>1, InsertAtFacts
<1>3. PICK g \in [0..n -> Seq(R)] : IsLoop(g, n, <<>>, turn)
  <2> HIDE DEF turn
  <2> QED
    BY <1>1, <1>2, LoopExists
<1>4. g[0] = <<>> /\ \A k \in 1..n : g[k] = turn[k][g[k - 1]]
  BY <1>3 DEF IsLoop
<1>5. \A k \in 1..n : g[k] = InsertAt(g[k - 1], Place1(g[k - 1], seq[k]), seq[k])
  <2> TAKE k \in 1..n
  <2>1. k \in Nat \ {0} /\ k - 1 \in 0..n /\ k \in 1..n
    BY <1>1
  <2>2. g[k - 1] \in Seq(R)
    BY <2>1
  <2> QED
    BY <1>4, <2>1, <2>2
<1>6. Is(g)
  <2>1. \A k \in 0..n : k # 0 => k \in 1..n
    BY <1>1
  <2>2. \A k \in 0..n : g[k] = IF k = 0 THEN <<>>
                               ELSE InsertAt(g[k - 1], Place1(g[k - 1], seq[k]), seq[k])
    BY <1>4, <1>5, <2>1
  <2>3. g = [k \in 0..n |-> g[k]]
    OBVIOUS
  <2> QED
    BY <2>2, <2>3
<1>7. Is(out)
  <2> HIDE DEF Is
  <2> QED
    BY <1>6
<1>8. PICK h : Is(h) /\ ByPlace(seq) = h[n]
  <2>1. ByPlace(seq) = out[n]
    BY DEF ByPlace, Place1, Before, n
  <2> HIDE DEF Is, out
  <2> QED
    BY <1>7, <2>1
<1>9. h[0] = <<>> /\ \A k \in 1..n : h[k] = InsertAt(h[k - 1], Place1(h[k - 1], seq[k]), seq[k])
  <2>1. 0 \in 0..n /\ \A k \in 1..n : k \in 0..n /\ k # 0
    BY <1>1
  <2> QED
    BY <1>8, <2>1
<1>10. h[n] = g[n]
  <2>1. h[0] = g[0]
    BY <1>4, <1>9
  <2>2. \A k \in 1..n : h[k - 1] = g[k - 1] => h[k] = g[k]
    BY <1>5, <1>9
  <2> QED
    BY <1>1, <2>1, <2>2, StepsAgree
<1> QED
  BY <1>4, <1>5, <1>8, <1>10 DEF PlaceLoop, n, R

LEMMA ByPlaceFacts ==
    ASSUME NEW S, NEW seq \in Seq(S)
    PROVE  /\ ByPlace(seq) \in Seq(S) /\ Range(ByPlace(seq)) \subseteq Range(seq)
           /\ IsInjective(seq) => IsInjective(ByPlace(seq))
<1> DEFINE n == Len(seq)
           R == Range(seq)
<1>1. n \in Nat /\ DOMAIN seq = 1..n /\ R \subseteq S /\ \A k \in 1..n : seq[k] \in R
  BY LenProperties, RangeOf
<1>2. PICK g : PlaceLoop(g, seq)
  BY ByPlaceIs
<1>3. /\ g \in [0..n -> Seq(R)] /\ g[0] = <<>> /\ ByPlace(seq) = g[n]
      /\ \A k \in 1..n : g[k] = InsertAt(g[k - 1], Place1(g[k - 1], seq[k]), seq[k])
  BY <1>2 DEF PlaceLoop
<1> HIDE DEF n, R
<1>4. ByPlace(seq) \in Seq(R)
  BY <1>1, <1>3
<1>5. Range(ByPlace(seq)) \subseteq R /\ ByPlace(seq) \in Seq(S)
  BY <1>1, <1>4, RangeOf, WiderList
<1> DEFINE Fine == {k \in 0..n : IsInjective(g[k]) /\ \A x \in Range(g[k]) : \E i \in 1..k : x = seq[i]}
<1>6. ASSUME IsInjective(seq) PROVE IsInjective(ByPlace(seq))
  <2>1. 0 \in Fine
    BY <1>1, <1>3, RangeEmpty
  <2>2. ASSUME NEW k \in 1..n, k - 1 \in Fine PROVE k \in Fine
    <3> DEFINE t == g[k - 1]
               p == Place1(t, seq[k])
    <3>1. /\ k - 1 \in 0..n /\ k \in 0..n /\ k \in Nat /\ k - 1 \in Nat
          /\ t \in Seq(R) /\ IsInjective(t) /\ \A x \in Range(t) : \E i \in 1..(k - 1) : x = seq[i]
      BY <1>1, <1>3, <2>2
    <3>2. p \in 1..(Len(t) + 1) /\ seq[k] \in R
      BY <1>1, <3>1, PlaceInList
    <3>3. g[k] = InsertAt(t, p, seq[k])
      BY <1>3
    <3> HIDE DEF t, p
    <3>4. seq[k] \notin Range(t)
      <4> SUFFICES ASSUME seq[k] \in Range(t) PROVE FALSE
        OBVIOUS
      <4>1. PICK i \in 1..(k - 1) : seq[k] = seq[i]
        BY <3>1
      <4>2. i \in 1..n /\ i # k /\ k \in 1..n
        BY <1>1, <3>1
      <4> QED
        BY <1>1, <1>6, <4>1, <4>2 DEF IsInjective
    <3>5. IsInjective(g[k]) /\ Range(g[k]) = Range(t) \cup {seq[k]}
      BY <3>1, <3>2, <3>3, <3>4, InsertAtFacts
    <3>6. \A x \in Range(g[k]) : \E i \in 1..k : x = seq[i]
      <4> TAKE x \in Range(g[k])
      <4>1. CASE x \in Range(t)
        <5>1. PICK i \in 1..(k - 1) : x = seq[i]
          BY <3>1, <4>1
        <5> QED
          BY <3>1, <5>1
      <4>2. CASE x = seq[k]
        BY <3>1, <4>2
      <4> QED
        BY <3>5, <4>1, <4>2
    <3> QED
      BY <3>1, <3>5, <3>6
  <2> HIDE DEF Fine
  <2>3. n \in Fine
    BY <1>1, <2>1, <2>2, UpTo
  <2> QED
    BY <1>3, <2>3 DEF Fine
<1> QED
  BY <1>5, <1>6 DEF R

-----------------------------------------------------------------------------
(* What is shown of a document that no client has touched.                 *)
AsLoaded == ConvInv /\ DomInv /\ nodes = Loaded /\ shared = {} /\ ~strayed
Shown(x) == x \in InDocument /\ x \in Range(nodes[parent[x]])
Passed   == {"Title", "TableCell"}
Good(x)  == x = 0 \/ (x \in Ids /\ (Shown(x) \/ Kind(x) \in Passed))

LEMMA ShownBelow ==
    ASSUME AsLoaded, NEW x \in InDocument, NEW y \in Range(nodes[x])
    PROVE  Shown(y)
<1>1. TreeIsSeq /\ DomTypes /\ Linked
  BY IdNumbers DEF AsLoaded, ConvInv, DomInv
<1>2. x \in NodeIds
  BY <1>1, DocumentClosed
<1>3. y \in NodeIds
  <2>1. nodes[x] \in Seq(NodeIds)
    BY <1>1, <1>2 DEF DomTypes
  <2> QED
    BY <2>1, RangeOf
<1>4. parent[y] = x
  BY <1>1, <1>2 DEF Linked, AsLoaded
<1> QED
  BY <1>1, <1>3, <1>4, DocumentClosed DEF Shown

LEMMA LoadedBelow ==
    ASSUME ConvInv, NEW x \in Ids, Kind(x) \notin {"Section", "PageSeries", "Title"}
    PROVE  /\ Range(children[x]) \cap Loadables(x) \subseteq Range(Loaded[x])
           /\ Kind(x) # "Page" => Range(contents[x]) \cap Loadables(x) \subseteq Range(Loaded[x])
<1>1. TreeIsFile /\ x # 0 /\ x \in NodeIds /\ ~(x > Size)
  <2>1. TreeIsFile
    BY DEF ConvInv
  <2>2. x \in NodeIds /\ x <= Size /\ x \in Nat
    BY <2>1, RankFacts
  <2>3. Size \in Nat
    BY <2>1, IdNumbers, DomNumbers
  <2> QED
    BY <2>1, <2>2, <2>3 DEF Kind
<1>2. /\ children[x] \in Seq(Ids) /\ contents[x] \o children[x] \in Seq(Ids)
      /\ Range(contents[x] \o children[x]) = Range(children[x]) \cup Range(contents[x])
  BY ListsApart
<1>3. CASE Kind(x) = "Page"
  <2> DEFINE l == Loadable(x, children[x])
             o == <<TitleOf(x)>>
  <2>1. Loaded[x] = o \o l
    BY <1>1, <1>3 DEF Loaded
  <2>2. l = Only(children[x], Loadables(x))
    BY DEF Loadable, Loadables
  <2>3. l \in Seq(Ids) /\ Range(l) = Range(children[x]) \cap Loadables(x)
    BY <1>2, <2>2, OnlyType, OnlyFacts
  <2>4. IsList(l) /\ IsList(o)
    BY <2>3, ListSmall DEF IsList
  <2> HIDE DEF l, o
  <2>5. Range(o \o l) = Range(o) \cup Range(l)
    BY <2>4, ListConcat
  <2> QED
    BY <1>3, <2>1, <2>3, <2>5
<1>4. CASE Kind(x) # "Page"
  <2> DEFINE c == contents[x] \o children[x]
  <2>1. Loaded[x] = Loadable(x, c)
    BY <1>1, <1>4 DEF Loaded
  <2>2. Loadable(x, c) = Only(c, Loadables(x))
    BY DEF Loadable, Loadables
  <2>3. c \in Seq(Ids) /\ Range(c) = Range(children[x]) \cup Range(contents[x])
    BY <1>2
  <2> HIDE DEF c
  <2>4. Range(Loaded[x]) = Range(c) \cap Loadables(x)
    BY <2>1, <2>2, <2>3, OnlyFacts
  <2> QED
    BY <2>3, <2>4
<1> QED
  BY <1>3, <1>4

LEMMA ShownChild ==
    ASSUME AsLoaded, NEW x \in Ids, x \in InDocument, Kind(x) \notin {"Section", "PageSeries", "Title"}
    PROVE  \A y \in Range(children[x]) \cup Range(contents[x]) :
             (y \in Range(contents[x]) => Kind(x) # "Page") =>
               /\ y \in Ids /\ y > 0
               /\ Shown(y) \/ Kind(y) = "Title" \/ (Kind(y) = "TableCell" /\ Kind(x) # "TableRow")
<1> SUFFICES ASSUME NEW y \in Range(children[x]) \cup Range(contents[x]),
                    y \in Range(contents[x]) => Kind(x) # "Page"
             PROVE  /\ y \in Ids /\ y > 0
                    /\ Shown(y) \/ Kind(y) = "Title" \/ (Kind(y) = "TableCell" /\ Kind(x) # "TableRow")
  OBVIOUS
<1>1. y \in Ids /\ y > 0
  BY OwnerFacts DEF AsLoaded
<1>2. ASSUME y \in Loadables(x) PROVE Shown(y)
  <2>1. y \in Range(Loaded[x])
    BY <1>2, LoadedBelow DEF AsLoaded
  <2> QED
    BY <2>1, ShownBelow DEF AsLoaded
<1> QED
  BY <1>1, <1>2 DEF Loadables

LEMMA ShownInside ==
    ASSUME AsLoaded, NEW x \in Ids, Shown(x), Kind(x) \notin {"Section", "PageSeries", "Title"}
    PROVE  /\ \A y \in Range(children[x]) : Good(y) /\ y \in Ids /\ y > 0
           /\ Kind(x) # "Page" => \A y \in Range(contents[x]) : Good(y) /\ y \in Ids /\ y > 0
<1>1. x \in InDocument
  BY DEF Shown
<1>2. ASSUME NEW y \in Range(children[x]) \cup Range(contents[x]),
             y \in Range(contents[x]) => Kind(x) # "Page"
      PROVE  Good(y) /\ y \in Ids /\ y > 0
  BY <1>1, <1>2, ShownChild DEF Good, Passed
<1>3. \A y \in Range(children[x]) : Kind(x) = "Page" => y \notin Range(contents[x])
  BY ListsApart DEF AsLoaded
<1> QED
  BY <1>2, <1>3

LEMMA PagesShown ==
    ASSUME AsLoaded, NEW p \in Range(Pages)
    PROVE  p \in Ids /\ p > 0 /\ Kind(p) = "Page" /\ Shown(p)
<1>1. p \in Nodes /\ p \in Ids /\ Kind(p) = "Page"
  BY PagesFacts DEF AsLoaded
<1>2. TreeIsSeq /\ Nodes = 1..Len(tree) /\ Len(tree) \in Nat
  BY IdNumbers DEF AsLoaded, ConvInv
<1>3. Loaded[0] = Pages
  BY <1>2, DomNumbers DEF Loaded
<1>4. Shown(p)
  BY <1>2, <1>3, DocumentClosed, ShownBelow DEF AsLoaded
<1> QED
  BY <1>1, <1>2, <1>4

-----------------------------------------------------------------------------
(* The story.                                                              *)
IsFlowable(f) ==
    f = [what |-> f.what, id |-> f.id, marker |-> f.marker, tags |-> f.tags, lines |-> f.lines]
GoodWork(w)  == IsList(w) /\ \A t \in Range(w) : Good(t.id)
GoodStory(s) == IsList(s) /\ \A f \in Range(s) : IsFlowable(f) /\ (f.what # "break" => Shown(f.id))

LEMMA GoodConcat ==
    ASSUME NEW s, NEW t
    PROVE  /\ GoodWork(s) /\ GoodWork(t) => GoodWork(s \o t)
           /\ GoodStory(s) /\ GoodStory(t) => GoodStory(s \o t)
<1>1. IsList(s) /\ IsList(t) => IsList(s \o t) /\ Range(s \o t) = Range(s) \cup Range(t)
  BY ListConcat
<1> QED
  BY <1>1 DEF GoodWork, GoodStory

LEMMA GoodNone == GoodWork(<<>>) /\ GoodStory(<<>>) /\ GoodWork(<<EndTask>>)
<1>1. EndTask.id = 0
  BY DEF EndTask, Task
<1> QED
  BY <1>1, ListSmall DEF GoodWork, GoodStory, Good

LEMMA GoodTail ==
    ASSUME NEW w, GoodWork(w), w # <<>>
    PROVE  GoodWork(Tail(w)) /\ Good(Head(w).id)
BY ListTail DEF GoodWork

LEMMA GoodTasks ==
    ASSUME NEW seq \in Seq(Ids), \A y \in Range(seq) : Good(y), NEW level
    PROVE  GoodWork(Tasks(seq, level))
<1> DEFINE f == Tasks(seq, level)
           n == Len(seq)
<1>1. n \in Nat /\ DOMAIN seq = 1..n /\ \A i \in 1..n : seq[i] \in Range(seq)
  BY LenProperties, RangeOf
<1>2. f = [i \in 1..n |-> f[i]] /\ \A i \in 1..n : f[i].id = seq[i]
  BY <1>1 DEF Tasks, Task
<1> HIDE DEF f, n
<1>3. IsList(f) /\ \A x \in Range(f) : \E i \in 1..n : x = f[i]
  BY <1>1, <1>2, ListMade
<1>4. \A x \in Range(f) : Good(x.id)
  BY <1>1, <1>2, <1>3
<1> QED
  BY <1>3, <1>4 DEF GoodWork, f

LEMMA GoodItemTasks ==
    ASSUME NEW elem, contents[elem] \in Seq(Ids), \A y \in Range(contents[elem]) : Good(y),
           NEW level, NEW marker
    PROVE  GoodWork(ItemTasks(elem, level, marker))
<1> DEFINE f == ItemTasks(elem, level, marker)
           seq == contents[elem]
           n == Len(seq)
<1>1. n \in Nat /\ DOMAIN seq = 1..n /\ \A i \in 1..n : seq[i] \in Range(seq)
  BY LenProperties, RangeOf
<1>2. f = [i \in 1..n |-> f[i]] /\ \A i \in 1..n : f[i].id = seq[i]
  BY <1>1 DEF ItemTasks, Task
<1> HIDE DEF f, n
<1>3. IsList(f) /\ \A x \in Range(f) : \E i \in 1..n : x = f[i]
  BY <1>1, <1>2, ListMade
<1>4. \A x \in Range(f) : Good(x.id)
  BY <1>1, <1>2, <1>3
<1> QED
  BY <1>3, <1>4 DEF GoodWork, f

LEMMA GoodFlowable ==
    ASSUME NEW what, NEW id, NEW marker, NEW tags, NEW lines, Shown(id) \/ what = "break"
    PROVE  GoodStory(<<Flowable(what, id, marker, tags, lines)>>)
<1> DEFINE f == Flowable(what, id, marker, tags, lines)
<1>1. IsFlowable(f) /\ f.what = what /\ f.id = id
  BY DEF Flowable, IsFlowable
<1> HIDE DEF f
<1>2. GoodStory(<<f>>)
  BY <1>1, ListSmall DEF GoodStory
<1> QED
  BY <1>2 DEF f

LEMMA GoodIcons ==
    ASSUME NEW x, Shown(x)
    PROVE  GoodStory(Icons(x))
BY GoodNone, GoodFlowable DEF Icons

(* What is left of the contents of a cell: itself or what its parts leave. *)
CellStep(x) ==
    IF Kind(x) = "OutlineElement"
    THEN CellContent[x] = Joined(contents[x] \o children[x], CellContent)
    ELSE /\ CellContent[x] \in {<<>>, <<x>>}
         /\ CellContent[x] = <<x>> => Kind(x) \notin Passed /\ x # 0
         /\ IsText(x) => CellContent[x] = <<x>>

LEMMA CellIs ==
    ASSUME ConvInv
    PROVE  CellContent \in [Ids -> Seq(Ids)] /\ \A x \in Ids : CellStep(x)
<1> DEFINE leaves == {x \in Ids : Kind(x) # "OutlineElement"}
           own   == [x \in Ids |-> CASE Kind(x) = "RichText" -> IF tree[x].text THEN <<x>> ELSE <<>>
                                     [] Kind(x) = "Image" -> IF options.images THEN <<x>> ELSE <<>>
                                     [] Kind(x) \in {"Table", "File"} -> <<x>>
                                     [] OTHER -> <<>>]
           both  == [x \in Ids |-> contents[x] \o children[x]]
           base  == LeafBase(Ids, leaves, own)
           table == LeafTable(Ids, leaves, both)
           bound == 5 * Len(tree)
           turn(h, x) == CASE Kind(x) = "OutlineElement" -> Joined(contents[x] \o children[x], h)
                           [] Kind(x) = "RichText" -> IF tree[x].text THEN <<x>> ELSE <<>>
                           [] Kind(x) = "Image" -> IF options.images THEN <<x>> ELSE <<>>
                           [] Kind(x) \in {"Table", "File"} -> <<x>>
                           [] OTHER -> <<>>
           Is(h) == h = [x \in Ids |-> turn(h, x)]
           out   == CHOOSE h : Is(h)
<1>1. ConvInv /\ TreeIsFile /\ Len(tree) \in Nat
  <2>1. ConvInv /\ TreeIsFile
    BY DEF ConvInv
  <2> QED
    BY <2>1, IdNumbers
<1>2. /\ <<>> \in Seq(Ids) /\ Range(<<>>) = {}
      /\ \A x \in Ids : <<x>> \in Seq(Ids) /\ Range(<<x>>) = {x}
  BY EmptySeq, RangeEmpty, OneMember
<1>3. \A x \in Ids : contents[x] \o children[x] \in Seq(Ids)
                     /\ Range(contents[x] \o children[x]) = Range(children[x]) \cup Range(contents[x])
  BY <1>1, ListsApart
<1>4. Feeds(Ids, both, IdRank, bound)
  <2>1. bound \in Nat /\ IdRank \in [Ids -> 0..bound]
    BY <1>1, RankFacts
  <2>2. both \in [Ids -> Seq(Ids)]
    BY <1>3
  <2>3. ASSUME NEW x \in Ids, NEW y \in Range(both[x]) PROVE IdRank[y] > IdRank[x]
    <3>1. y \in Range(children[x]) \cup Range(contents[x])
      BY <1>3
    <3>2. y \in Ids /\ Rank[y] > Rank[x]
      BY <1>1, <3>1, OwnerFacts
    <3> QED
      BY <1>1, <3>2, RankFacts
  <2> HIDE DEF bound, both
  <2> QED
    BY <2>1, <2>2, <2>3 DEF Feeds
<1>5. \A x \in Ids : own[x] \in {<<>>, <<x>>}
                     /\ (own[x] = <<x>> => Kind(x) \notin Passed /\ x # 0)
                     /\ (IsText(x) => own[x] = <<x>>)
  <2> TAKE x \in Ids
  <2>0. Kind(0) = "Section"
    BY DEF Kind
  <2>1. CASE Kind(x) = "RichText"
    BY <2>0, <2>1 DEF Passed, IsText
  <2>2. CASE Kind(x) = "Image"
    BY <2>0, <2>2 DEF Passed, IsText
  <2>3. CASE Kind(x) \in {"Table", "File"}
    BY <2>0, <2>3 DEF Passed, IsText
  <2>4. CASE Kind(x) \notin {"RichText", "Image", "Table", "File"}
    <3>1. own[x] = <<>>
      BY <2>4
    <3>2. <<x>> # <<>>
      OBVIOUS
    <3> QED
      BY <2>4, <3>1, <3>2 DEF IsText
  <2> QED
    BY <2>1, <2>2, <2>3, <2>4
<1>6. own \in [Ids -> Seq(Ids)]
  <2>1. \A x \in Ids : own[x] \in Seq(Ids)
    <3> HIDE DEF own
    <3> QED
      BY <1>2, <1>5
  <2>2. own = [x \in Ids |-> own[x]]
    OBVIOUS
  <2> HIDE DEF own
  <2> QED
    BY <2>1, <2>2
<1>7. \A h : Is(h) <=> Leaved(Ids, leaves, own, both, h)
  <2> SUFFICES ASSUME NEW h, NEW x \in Ids
               PROVE  turn(h, x) = IF x \in leaves THEN own[x] ELSE Joined(both[x], h)
    <3> HIDE DEF turn, leaves, own, both
    <3> QED
      BY DEF Leaved
  <2>1. CASE Kind(x) = "OutlineElement"
    BY <2>1
  <2>2. CASE Kind(x) = "RichText"
    BY <2>2
  <2>3. CASE Kind(x) = "Image"
    BY <2>3
  <2>4. CASE Kind(x) \in {"Table", "File"}
    BY <2>4
  <2>5. CASE Kind(x) \notin {"OutlineElement", "RichText", "Image", "Table", "File"}
    BY <2>5
  <2> QED
    BY <2>1, <2>2, <2>3, <2>4, <2>5
<1>8. /\ base \in [Ids -> Seq(Ids)] /\ Feeds(Ids, table, IdRank, bound)
      /\ \E F \in [Ids -> Seq(Ids)] : /\ JoinsUp(Ids, base, table, F)
                                     /\ Leaved(Ids, leaves, own, both, F)
                                     /\ \A h : Leaved(Ids, leaves, own, both, h) => h = F
  <2> HIDE DEF own, bound, leaves, both
  <2>1. Ends(Ids, Ids, leaves, own, both, IdRank, bound)
    BY <1>4, <1>6, LeafRecursion
  <2> QED
    BY <2>1 DEF Ends
<1>9. PICK F \in [Ids -> Seq(Ids)] : /\ JoinsUp(Ids, base, table, F)
                                   /\ Leaved(Ids, leaves, own, both, F)
                                   /\ \A h : Leaved(Ids, leaves, own, both, h) => h = F
  BY <1>8
<1> HIDE DEF turn
<1>10. Is(out)
  <2>1. Is(F)
    <3> HIDE DEF Is, leaves, own, both
    <3> QED
      BY <1>7, <1>9
  <2> HIDE DEF Is
  <2> QED
    BY <2>1
<1>11. out = F
  <2> HIDE DEF Is, leaves, own, out, both
  <2> QED
    BY <1>7, <1>9, <1>10
<1>12. CellContent = F
  <2>1. CellContent = out
    BY DEF CellContent, turn
  <2> HIDE DEF out
  <2> QED
    BY <1>11, <2>1
<1>13. ASSUME NEW x \in Ids PROVE CellStep(x)
  <2>1. /\ x \in leaves => F[x] = own[x]
        /\ x \notin leaves => F[x] = Joined(both[x], F)
    <3> HIDE DEF leaves, own, both
    <3> QED
      BY <1>9 DEF Leaved
  <2>2. both[x] = contents[x] \o children[x]
    OBVIOUS
  <2> HIDE DEF own, both
  <2> QED
    BY <1>5, <1>12, <2>1, <2>2 DEF CellStep
<1> QED
  BY <1>9, <1>12, <1>13

LEMMA CellFacts ==
    ASSUME AsLoaded
    PROVE  /\ CellContent \in [Ids -> Seq(Ids)]
           /\ \A x \in Ids : Good(x) => \A z \in Range(CellContent[x]) : Shown(z)
<1> DEFINE F == CellContent
           Fine == {x \in Ids : Good(x) => \A z \in Range(F[x]) : Shown(z)}
<1>1. ConvInv /\ TreeIsFile
  BY DEF ConvInv, AsLoaded
<1>2. F \in [Ids -> Seq(Ids)] /\ \A x \in Ids : CellStep(x)
  BY <1>1, CellIs
<1>3. 5 * Len(tree) \in Nat /\ IdRank \in [Ids -> 0..(5 * Len(tree))]
  BY <1>1, RankFacts
<1> HIDE DEF F
<1>4. ASSUME NEW x \in Ids, \A y \in Ids : IdRank[y] > IdRank[x] => y \in Fine
      PROVE  x \in Fine
  <2> SUFFICES ASSUME Good(x), NEW z \in Range(F[x]) PROVE Shown(z)
    OBVIOUS
  <2>1. CASE Kind(x) = "OutlineElement"
    <3> DEFINE c == contents[x] \o children[x]
    <3>1. F[x] = Joined(c, F) /\ c \in Seq(Ids) /\ Range(c) = Range(children[x]) \cup Range(contents[x])
      BY <1>1, <1>2, <2>1, ListsApart DEF CellStep, F
    <3> HIDE DEF c
    <3>2. Joins(Ids, c, F)
      <4>1. Range(c) \subseteq Ids
        BY <3>1, RangeOf
      <4> QED
        BY <1>2, <4>1 DEF Joins
    <3>3. PICK y \in Range(c) : z \in Range(F[y])
      BY <3>1, <3>2, JoinedFacts
    <3>4. Shown(x)
      <4>1. Kind(0) = "Section"
        BY DEF Kind
      <4> QED
        BY <2>1, <4>1 DEF Good, Passed
    <3>5. Good(y) /\ y \in Ids
      BY <2>1, <3>1, <3>3, <3>4, ShownInside
    <3>6. IdRank[y] > IdRank[x]
      <4>1. Rank[y] > Rank[x]
        BY <1>1, <3>1, <3>3, OwnerFacts
      <4> QED
        BY <1>1, <3>5, <4>1, RankFacts
    <3> QED
      BY <1>4, <3>3, <3>5, <3>6
  <2>2. CASE Kind(x) # "OutlineElement"
    <3>1. F[x] = <<x>> /\ Kind(x) \notin Passed /\ x # 0
      BY <1>2, <2>2, RangeEmpty DEF CellStep, F
    <3>2. z = x
      BY <3>1, OneMember
    <3> QED
      BY <3>1, <3>2 DEF Good
  <2> QED
    BY <2>1, <2>2
<1>5. Ids \subseteq Fine
  <2> HIDE DEF Fine
  <2> QED
    BY <1>3, <1>4, RankInduction
<1> QED
  BY <1>2, <1>5 DEF F

StoryShown == GoodStory(story) /\ GoodWork(work) /\ page \in Nat \ {0}
NextShown  == GoodStory(story') /\ GoodWork(work') /\ page' \in Nat \ {0}

LEMMA ChildLists ==
    ASSUME AsLoaded, NEW x \in Ids
    PROVE  children[x] \in Seq(Ids) /\ contents[x] \in Seq(Ids)
BY ListsApart DEF AsLoaded

LEMMA TopFacts ==
    ASSUME StoryShown, work # <<>>, top.id > 0
    PROVE  GoodWork(Tail(work)) /\ top.id \in Ids /\ (Kind(top.id) \notin Passed => Shown(top.id))
<1>1. GoodWork(Tail(work)) /\ Good(top.id)
  BY GoodTail DEF StoryShown, top
<1> QED
  BY <1>1 DEF Good

LEMMA DoneShown ==
    ASSUME StoryShown, work # <<>>, NEW flowables, GoodStory(flowables), Done(flowables)
    PROVE  NextShown
<1>1. GoodWork(Tail(work))
  BY GoodTail DEF StoryShown
<1>2. GoodStory(story \o flowables)
  BY GoodConcat DEF StoryShown
<1> QED
  BY <1>1, <1>2 DEF Done, NextShown, StoryShown

LEMMA RenderPageShows ==
    ASSUME AsLoaded, StoryShown, RenderPage
    PROVE  NextShown
<1> DEFINE p == Pages[page]
           b == IF page = 1 THEN <<>> ELSE <<Plain("break", p)>>
           h == IF tree[p].text THEN <<Plain("heading", p)>> ELSE <<>>
<1>1. p \in Range(Pages)
  <2>1. page \in 1..Len(Pages)
    BY PagesFacts, LenProperties DEF RenderPage, StoryShown, AsLoaded
  <2> QED
    BY <2>1, PagesFacts, RangeOf DEF AsLoaded
<1>2. p \in Ids /\ p > 0 /\ Kind(p) = "Page" /\ Shown(p)
  BY <1>1, PagesShown
<1>3. GoodStory(b)
  BY GoodNone, GoodFlowable DEF Plain
<1>4. GoodStory(h)
  BY <1>2, GoodNone, GoodFlowable DEF Plain
<1>5. story' = (story \o b) \o h /\ work' = Tasks(PageItems(p), 0) /\ page' = page + 1
  BY DEF RenderPage
<1> DEFINE outlines == {x \in Ids : Kind(x) = "Outline"}
           c == children[p]
           s == Only(c, outlines)
           t == ByPlace(s)
           u == Only(c, Ids \ outlines)
<1>6. \A y \in Range(c) : Good(y)
  BY <1>2, ShownInside
<1>7. c \in Seq(Ids)
  BY <1>2, ChildLists
<1>8. PageItems(p) = t \o u
  BY DEF PageItems
<1> HIDE DEF outlines, b, h, p, c
<1>9. s \in Seq(Ids) /\ u \in Seq(Ids) /\ Range(s) \subseteq Range(c) /\ Range(u) \subseteq Range(c)
  BY <1>7, OnlyType, OnlyFacts
<1> HIDE DEF s, u
<1>10. t \in Seq(Ids) /\ Range(t) \subseteq Range(s)
  BY <1>9, ByPlaceFacts
<1> HIDE DEF t
<1> DEFINE v == t \o u
<1>11. v \in Seq(Ids) /\ Range(v) = Range(t) \cup Range(u)
  BY <1>9, <1>10, RangeConcat
<1>12. \A y \in Range(v) : Good(y)
  BY <1>6, <1>9, <1>10, <1>11
<1> HIDE DEF v
<1>13. GoodWork(Tasks(v, 0))
  BY <1>11, <1>12, GoodTasks
<1>14. GoodStory((story \o b) \o h)
  BY <1>3, <1>4, GoodConcat DEF StoryShown
<1>15. page + 1 \in Nat \ {0}
  BY DEF StoryShown
<1> QED
  BY <1>5, <1>8, <1>13, <1>14, <1>15 DEF NextShown, v

LEMMA RenderOutlineShows ==
    ASSUME AsLoaded, StoryShown, RenderOutline
    PROVE  NextShown
<1> DEFINE x == top.id
<1>1. work # <<>> /\ x > 0 /\ Kind(x) = "Outline"
  BY DEF RenderOutline, Rendering
<1>2. x \in Ids /\ Shown(x) /\ GoodWork(Tail(work))
  BY <1>1, TopFacts DEF Passed
<1>3. \A y \in Range(children[x]) : Good(y)
  BY <1>1, <1>2, ShownInside
<1>4. GoodWork(Tasks(children[x], 0))
  BY <1>2, <1>3, ChildLists, GoodTasks
<1>5. GoodWork(Tasks(children[x], 0) \o <<EndTask>>)
  BY <1>4, GoodNone, GoodConcat
<1>6. GoodWork((Tasks(children[x], 0) \o <<EndTask>>) \o Tail(work))
  BY <1>2, <1>5, GoodConcat
<1> QED
  BY <1>6 DEF RenderOutline, NextShown, StoryShown

LEMMA RenderElementShows ==
    ASSUME AsLoaded, StoryShown, RenderElement
    PROVE  NextShown
<1> DEFINE x == top.id
           marker == IF lists = <<>> THEN NoMarker ELSE Marker(Head(lists), x, top.level)
           items  == IF marker = NoMarker THEN Tasks(contents[x], top.level)
                     ELSE ItemTasks(x, top.level, marker)
           kids   == Tasks(children[x], top.level + 1)
<1>1. /\ work # <<>> /\ x > 0 /\ Kind(x) = "OutlineElement"
      /\ work' = (items \o kids) \o Tail(work) /\ story' = story /\ page' = page
  BY DEF RenderElement, Rendering
<1>2. x \in Ids /\ Shown(x) /\ GoodWork(Tail(work))
  BY <1>1, TopFacts DEF Passed
<1>3. /\ \A y \in Range(children[x]) : Good(y)
      /\ \A y \in Range(contents[x]) : Good(y)
      /\ children[x] \in Seq(Ids) /\ contents[x] \in Seq(Ids)
  BY <1>1, <1>2, ShownInside, ChildLists
<1>4. GoodWork(kids)
  BY <1>3, GoodTasks
<1>5. GoodWork(items)
  <2> HIDE DEF marker, x
  <2> QED
    BY <1>3, GoodTasks, GoodItemTasks
<1> HIDE DEF kids, items
<1>6. GoodWork((items \o kids) \o Tail(work))
  BY <1>2, <1>4, <1>5, GoodConcat
<1> QED
  BY <1>1, <1>6 DEF NextShown, StoryShown

LEMMA RenderTextShows ==
    ASSUME AsLoaded, StoryShown, RenderText
    PROVE  NextShown
<1> DEFINE x == top.id
           f == IF tree[x].text THEN <<Flowable("text", x, top.marker, top.tags, tree[x].lines)>> ELSE <<>>
<1>1. work # <<>> /\ x > 0 /\ Kind(x) = "RichText" /\ Done(f)
  BY DEF RenderText, Rendering
<1>2. Shown(x)
  BY <1>1, TopFacts DEF Passed
<1>3. GoodStory(f)
  BY <1>2, GoodNone, GoodFlowable
<1> HIDE DEF f
<1> QED
  BY <1>1, <1>3, DoneShown

LEMMA RenderImageShows ==
    ASSUME AsLoaded, StoryShown, RenderImage \/ RenderFile
    PROVE  NextShown
<1> DEFINE x == top.id
<1>1. /\ work # <<>> /\ x > 0 /\ Kind(x) \notin Passed
      /\ \E what : Done(Icons(x) \o <<Plain(what, x)>>) \/ Done(<<>>)
  BY DEF RenderImage, RenderFile, Rendering, Passed
<1>2. PICK what : Done(Icons(x) \o <<Plain(what, x)>>) \/ Done(<<>>)
  BY <1>1
<1>3. Shown(x)
  BY <1>1, TopFacts
<1>4. GoodStory(Icons(x)) /\ GoodStory(<<Plain(what, x)>>)
  BY <1>3, GoodIcons, GoodFlowable DEF Plain
<1>5. GoodStory(Icons(x) \o <<Plain(what, x)>>) /\ GoodStory(<<>>)
  BY <1>4, GoodNone, GoodConcat
<1> QED
  BY <1>1, <1>2, <1>5, DoneShown

LEMMA InCells ==
    ASSUME AsLoaded, NEW x \in Ids, Shown(x), Kind(x) = "Table"
    PROVE  LET inner == Joined(Joined(Joined(children[x], children), children), CellContent) IN
           inner \in Seq(Ids) /\ \A z \in Range(inner) : Shown(z)
<1> DEFINE rows  == children[x]
           cells == Joined(rows, children)
           found == Joined(cells, children)
           inner == Joined(found, CellContent)
<1>1. ConvInv /\ children \in [Ids -> Seq(Ids)] /\ CellContent \in [Ids -> Seq(Ids)]
  BY CellFacts DEF AsLoaded, ConvInv, ChildrenStand
<1>2. \A list \in Seq(Ids) : Joins(Ids, list, children) /\ Joins(Ids, list, CellContent)
  <2> TAKE list \in Seq(Ids)
  <2>1. Range(list) \subseteq Ids
    BY RangeOf
  <2> QED
    BY <1>1, <2>1 DEF Joins
<1>3. rows \in Seq(Ids) /\ \A r \in Range(rows) : r \in Ids /\ Kind(r) = "TableRow" /\ Shown(r)
  <2>1. rows \in Seq(Ids) /\ \A r \in Range(rows) : r \in Ids /\ Kind(r) = "TableRow" /\ Good(r) /\ r > 0
    BY <1>1, ShownInside, KindsBelow
  <2> QED
    BY <2>1 DEF Good, Passed
<1> HIDE DEF rows
<1>4. cells \in Seq(Ids) /\ \A c \in Range(cells) : \E r \in Range(rows) : c \in Range(children[r])
  BY <1>2, <1>3, JoinedType, JoinedFacts
<1> HIDE DEF cells
<1>5. \A c \in Range(cells) : c \in Ids /\ Kind(c) = "TableCell" /\ Shown(c)
  <2> TAKE c \in Range(cells)
  <2>1. PICK r \in Range(rows) : c \in Range(children[r])
    BY <1>4
  <2>2. r \in Ids /\ Kind(r) = "TableRow" /\ r \in InDocument
    BY <1>3 DEF Shown
  <2>3. Kind(c) = "TableCell"
    BY <1>1, <2>1, <2>2, KindsBelow
  <2>4. c \notin Range(contents[r])
    BY <1>1, <2>1, <2>2, ListsApart
  <2> QED
    BY <2>1, <2>2, <2>3, <2>4, ShownChild
<1>6. found \in Seq(Ids) /\ \A f \in Range(found) : \E c \in Range(cells) : f \in Range(children[c])
  BY <1>2, <1>4, JoinedType, JoinedFacts
<1> HIDE DEF found
<1>7. \A f \in Range(found) : f \in Ids /\ Good(f)
  <2> TAKE f \in Range(found)
  <2>1. PICK c \in Range(cells) : f \in Range(children[c])
    BY <1>6
  <2> QED
    BY <1>5, <2>1, ShownInside
<1>8. inner \in Seq(Ids) /\ \A z \in Range(inner) : \E f \in Range(found) : z \in Range(CellContent[f])
  BY <1>2, <1>6, JoinedType, JoinedFacts
<1>9. \A z \in Range(inner) : Shown(z)
  <2> HIDE DEF inner
  <2> TAKE z \in Range(inner)
  <2>1. PICK f \in Range(found) : z \in Range(CellContent[f])
    BY <1>8
  <2> QED
    BY <1>7, <2>1, CellFacts
<1> QED
  BY <1>8, <1>9 DEF found, cells, rows

LEMMA RenderTableShows ==
    ASSUME AsLoaded, StoryShown, RenderTable
    PROVE  NextShown
<1> DEFINE x == top.id
           inner == Joined(Joined(Joined(children[x], children), children), CellContent)
           whats == [i \in DOMAIN inner |-> IF Kind(inner[i]) = "RichText" THEN "cell" ELSE "words"]
           parts == [i \in DOMAIN inner |->
                       Flowable(whats[i], inner[i], NoMarker,
                                IF whats[i] = "cell" THEN Tags(inner[i]) ELSE <<>>,
                                IF whats[i] = "cell" THEN tree[inner[i]].lines ELSE 1)]
<1>1. /\ work # <<>> /\ x > 0 /\ Kind(x) = "Table"
      /\ Done(IF children[x] = <<>> THEN <<>> ELSE Icons(x) \o parts)
  BY DEF RenderTable, Rendering
<1>2. x \in Ids /\ Shown(x)
  BY <1>1, TopFacts DEF Passed
<1>3. inner \in Seq(Ids) /\ \A z \in Range(inner) : Shown(z)
  BY <1>1, <1>2, InCells
<1> HIDE DEF inner
<1> DEFINE n == Len(inner)
<1>4. n \in Nat /\ DOMAIN inner = 1..n /\ \A i \in 1..n : inner[i] \in Range(inner)
  BY <1>3, LenProperties, RangeOf
<1>5. parts = [i \in 1..n |-> parts[i]]
      /\ \A i \in 1..n : IsFlowable(parts[i]) /\ parts[i].id = inner[i]
  BY <1>4 DEF Flowable, IsFlowable
<1> HIDE DEF parts, n
<1>6. IsList(parts) /\ \A f \in Range(parts) : \E i \in 1..n : f = parts[i]
  BY <1>4, <1>5, ListMade
<1>7. GoodStory(parts)
  BY <1>3, <1>4, <1>5, <1>6 DEF GoodStory
<1>8. GoodStory(Icons(x))
  BY <1>2, GoodIcons
<1>9. GoodStory(Icons(x) \o parts) /\ GoodStory(<<>>)
  BY <1>7, <1>8, GoodNone, GoodConcat
<1>10. CASE children[x] = <<>>
  BY <1>1, <1>9, <1>10, DoneShown
<1>11. CASE children[x] # <<>>
  BY <1>1, <1>9, <1>11, DoneShown
<1> QED
  BY <1>10, <1>11

(* A paragraph cut in two: only the first part has the marker and icons.   *)
IsPart(f, g)  == IsFlowable(g) /\ g.id = f.id
IsFirst(f, g) == IsPart(f, g) /\ g.marker = f.marker /\ g.tags = f.tags
IsRest(f, g)  == IsPart(f, g) /\ g.marker = NoMarker /\ g.tags = <<>>

LEMMA SplitParts ==
    ASSUME NEW f, IsFlowable(f), NEW n
    PROVE  \E one, two : /\ Parts(f, n) = <<one, two>> /\ IsFirst(f, one) /\ IsRest(f, two)
                         /\ one.lines = n /\ two.lines = f.lines - n
<1> DEFINE one == [f EXCEPT !.lines = n]
           two == [f EXCEPT !.lines = @ - n, !.marker = NoMarker, !.tags = <<>>]
<1>1. Parts(f, n) = <<one, two>>
  BY DEF Parts
<1> DEFINE g == [what |-> f.what, id |-> f.id, marker |-> f.marker, tags |-> f.tags, lines |-> f.lines]
<1>2. f = g
  BY DEF IsFlowable
<1>3. one = [g EXCEPT !.lines = n]
  BY <1>2
<1> DEFINE k == f.lines - n
<1>4. two = [g EXCEPT !.lines = k, !.marker = NoMarker, !.tags = <<>>]
  BY <1>2
<1> HIDE DEF k
<1>5. one = [what |-> f.what, id |-> f.id, marker |-> f.marker, tags |-> f.tags, lines |-> n]
  BY <1>3
<1>6. two = [what |-> f.what, id |-> f.id, marker |-> NoMarker, tags |-> <<>>, lines |-> k]
  <2> DEFINE h == [what |-> f.what, id |-> f.id, marker |-> f.marker, tags |-> f.tags, lines |-> k]
             o == [what |-> f.what, id |-> f.id, marker |-> NoMarker, tags |-> f.tags, lines |-> k]
  <2>1. [g EXCEPT !.lines = k] = h
    OBVIOUS
  <2>2. [h EXCEPT !.marker = NoMarker] = o
    OBVIOUS
  <2>3. [o EXCEPT !.tags = <<>>]
          = [what |-> f.what, id |-> f.id, marker |-> NoMarker, tags |-> <<>>, lines |-> k]
    OBVIOUS
  <2>4. two = [[[g EXCEPT !.lines = k] EXCEPT !.marker = NoMarker] EXCEPT !.tags = <<>>]
    <3> HIDE DEF g
    <3> QED
      BY <1>4
  <2> HIDE DEF two, g, h, o
  <2> QED
    BY <2>1, <2>2, <2>3, <2>4, Zenon
<1>7. one.lines = n /\ two.lines = f.lines - n
  <2> HIDE DEF one, two
  <2> QED
    BY <1>5, <1>6 DEF k
<1> HIDE DEF one, two
<1> QED
  BY <1>1, <1>5, <1>6, <1>7 DEF IsFlowable, IsPart, IsFirst, IsRest

LEMMA SplitShows ==
    ASSUME StoryShown, Split
    PROVE  NextShown
<1>1. PICK i \in DOMAIN story : \E n \in 1..(story[i].lines - 1) :
        story' = SubSeq(story, 1, i - 1) \o Parts(story[i], n) \o SubSeq(story, i + 1, Len(story))
        /\ story[i].what = "text"
  BY DEF Split
<1>2. PICK n \in 1..(story[i].lines - 1) :
        story' = SubSeq(story, 1, i - 1) \o Parts(story[i], n) \o SubSeq(story, i + 1, Len(story))
        /\ story[i].what = "text"
  BY <1>1
<1> DEFINE f == story[i]
           a == SubSeq(story, 1, i - 1)
           z == SubSeq(story, i + 1, Len(story))
           p == Parts(f, n)
<1>3. /\ IsList(a) /\ Range(a) \subseteq Range(story) /\ IsList(z) /\ Range(z) \subseteq Range(story)
      /\ f \in Range(story)
  BY ListPart DEF StoryShown, GoodStory
<1>4. IsFlowable(f) /\ Shown(f.id)
  BY <1>2, <1>3 DEF StoryShown, GoodStory
<1>5. story' = (a \o p) \o z
  BY <1>2
<1> HIDE DEF f, a, z, p
<1>6. GoodStory(a) /\ GoodStory(z)
  BY <1>3 DEF StoryShown, GoodStory
<1>7. PICK one, two : p = <<one, two>> /\ IsFirst(f, one) /\ IsRest(f, two)
  BY <1>4, SplitParts DEF p
<1>8. GoodStory(p)
  BY <1>4, <1>7, ListTwo DEF GoodStory, IsFirst, IsRest, IsPart
<1>9. GoodStory((a \o p) \o z)
  BY <1>6, <1>8, GoodConcat
<1>10. work' = work /\ page' = page
  BY DEF Split
<1> QED
  BY <1>5, <1>9, <1>10 DEF StoryShown, NextShown

LEMMA StoryShows ==
    ASSUME AsLoaded, StoryShown, StoryNext
    PROVE  NextShown
<1>1. CASE EndOutline
  <2>1. work # <<>> /\ work' = Tail(work) /\ story' = story /\ page' = page
    BY <1>1 DEF EndOutline
  <2> QED
    BY <2>1, GoodTail DEF StoryShown, NextShown
<1>2. CASE PassElement
  <2>1. work # <<>> /\ Done(<<>>)
    BY <1>2 DEF PassElement
  <2> QED
    BY <2>1, GoodNone, DoneShown
<1>3. CASE EndStory \/ Build
  <2>1. work' = work /\ story' = story /\ page' = page
    BY <1>3 DEF EndStory, Build, storyVars
  <2> QED
    BY <2>1 DEF StoryShown, NextShown
<1> QED
  BY <1>1, <1>2, <1>3, RenderPageShows, RenderOutlineShows, RenderElementShows, RenderTextShows,
     RenderImageShows, RenderTableShows, SplitShows DEF StoryNext

-----------------------------------------------------------------------------
(* The invariant of a document no client touches.                          *)
StoryBegins == story = <<>> /\ work = <<>> /\ page = 1
Drawing     == {"pages", "build", "done"}
DrawnInv ==
    /\ DocumentInv
    /\ doing \in Late /\ edits = 0 => nodes = Loaded /\ shared = {} /\ ~strayed
    /\ doing \notin Drawing => StoryBegins
    /\ doing \in Drawing /\ edits = 0 => StoryShown

LEMMA LoadedStays ==
    ASSUME UNCHANGED <<tree, children, contents>>
    PROVE  Loaded' = Loaded
BY DEF Loaded, Pages, Loadable, Kind, Class, TitleOf, TitleText, NodeIds, Size, Ids

LEMMA ShownStays ==
    ASSUME UNCHANGED <<tree, nodes, parent>>
    PROVE  /\ \A x : Shown(x)' <=> Shown(x)
           /\ \A x : Good(x)' <=> Good(x)
<1>1. InDocument' = InDocument
  BY DEF InDocument, Height, NodeIds, Size
<1> QED
  BY <1>1 DEF Shown, Good, Kind, Ids

LEMMA ShownNext ==
    ASSUME UNCHANGED <<tree, nodes, parent>>, NextShown
    PROVE  StoryShown'
BY ShownStays DEF NextShown, StoryShown, GoodStory, GoodWork

LEMMA DrawnInit == DocumentInit => DrawnInv
<1>1. DocumentInit => DocumentInv
  BY DocumentBegins
<1> QED
  BY <1>1 DEF DrawnInv, DocumentInit, TreeInit, StoryInit, Late, Drawing, StoryBegins

LEMMA DrawnKeeps ==
    ASSUME DrawnInv, [DocumentNext]_documentVars
    PROVE  DrawnInv'
<1>1. DocumentInv /\ DocumentInv'
  BY DocumentKeeps DEF DrawnInv
<1>2. CASE TreeNext /\ UNCHANGED <<storyVars, domVars>>
  <2>1. doing \in Early /\ doing' \in Early
    BY <1>2 DEF TreeNext, ConvertNode, DropNode, EndConvert, FillGroup, Source, Early
  <2> QED
    BY <1>1, <1>2, <2>1 DEF DrawnInv, Early, Late, Drawing, StoryBegins, storyVars
<1>3. CASE StoryNext /\ UNCHANGED domVars
  <2>1. /\ UNCHANGED <<tree, children, contents, nodes, parent, shared, strayed, edits>>
        /\ doing \in Drawing /\ doing' \in Drawing
    <3>1. CASE RenderPage \/ EndOutline \/ PassElement \/ EndStory \/ Split \/ Build
      BY <1>3, <3>1 DEF RenderPage, EndOutline, PassElement, EndStory, Split, Build, treeVars, Source,
         Drawing, domVars
    <3>2. CASE RenderOutline \/ RenderElement \/ RenderText
      BY <1>3, <3>2 DEF RenderOutline, RenderElement, RenderText, Rendering, treeVars, Source, Drawing, domVars
    <3>3. CASE RenderImage \/ RenderFile \/ RenderTable
      BY <1>3, <3>3 DEF RenderImage, RenderFile, RenderTable, Rendering, treeVars, Source, Drawing, domVars
    <3> QED
      BY <1>3, <3>1, <3>2, <3>3 DEF StoryNext
  <2>2. Loaded' = Loaded
    BY <2>1, LoadedStays
  <2>3. CASE edits = 0
    <3>1. AsLoaded /\ StoryShown
      BY <1>1, <2>1, <2>3 DEF DrawnInv, DocumentInv, AsLoaded, Drawing, Late, Early
    <3>2. StoryShown'
      BY <1>3, <2>1, <3>1, StoryShows, ShownNext
    <3> QED
      BY <1>1, <2>1, <2>2, <3>1, <3>2 DEF DrawnInv, AsLoaded
  <2>4. CASE edits # 0
    BY <1>1, <2>1, <2>4 DEF DrawnInv
  <2> QED
    BY <2>3, <2>4
<1>4. CASE Load
  <2>1. /\ doing \in Early /\ doing' = "client" /\ UNCHANGED <<tree, children, contents, storyVars>>
        /\ UNCHANGED <<shared, strayed>> /\ nodes' = Loaded
    BY <1>4 DEF Load, Early, Source
  <2>2. Loaded' = Loaded /\ shared = {} /\ ~strayed
    BY <1>1, <2>1, LoadedStays DEF DocumentInv, Early, Late, Untouched
  <2> QED
    BY <1>1, <2>1, <2>2 DEF DrawnInv, Early, Late, Drawing, StoryBegins, storyVars
<1>5. CASE InsertChild \/ RemoveChild \/ ClonePage
  <2>1. doing = "client" /\ doing' = doing /\ edits' = edits + 1 /\ UNCHANGED storyVars
    BY <1>5 DEF InsertChild, RemoveChild, ClonePage, Edit, Rest, treeVars
  <2>2. edits' # 0
    BY <1>1, <2>1 DEF DocumentInv, DomInv, DomTypes, Early, Late
  <2> QED
    BY <1>1, <2>1, <2>2 DEF DrawnInv, Drawing, StoryBegins, storyVars
<1>6. CASE Save
  <2>1. /\ doing = "client" /\ doing' = "pages"
        /\ UNCHANGED <<tree, children, contents, storyVars, domVars>>
    BY <1>6 DEF Save, StartStory, Source
  <2>2. Loaded' = Loaded
    BY <2>1, LoadedStays
  <2>3. story' = <<>> /\ work' = <<>> /\ page' = 1
    BY <2>1 DEF DrawnInv, Drawing, StoryBegins, storyVars
  <2>4. NextShown
    BY <2>3, GoodNone DEF NextShown
  <2>5. StoryShown'
    BY <2>1, <2>4, ShownNext DEF domVars
  <2> QED
    BY <1>1, <2>1, <2>2, <2>5 DEF DrawnInv, Drawing, Late, domVars
<1>7. CASE UNCHANGED documentVars
  <2>1. UNCHANGED <<tree, children, contents, doing, storyVars, domVars>>
    BY <1>7 DEF documentVars, treeVars
  <2>2. Loaded' = Loaded
    BY <2>1, LoadedStays
  <2>3. StoryShown => StoryShown'
    <3>1. StoryShown => NextShown
      BY <2>1 DEF StoryShown, NextShown, storyVars
    <3> QED
      BY <2>1, <3>1, ShownNext DEF domVars
  <2> QED
    BY <1>1, <2>1, <2>2, <2>3 DEF DrawnInv, StoryBegins, storyVars, domVars
<1> QED
  BY <1>2, <1>3, <1>4, <1>5, <1>6, <1>7 DEF DocumentNext, DomNext

(* The title of a page and the title's text are nodes under the page.      *)
LEMMA TitleShown ==
    ASSUME AsLoaded, NEW p \in Ids, p \in InDocument, Kind(p) = "Page"
    PROVE  /\ Shown(TitleOf(p)) /\ Shown(TitleText(p))
           /\ parent[TitleOf(p)] = p /\ parent[TitleText(p)] = TitleOf(p)
<1> DEFINE t == TitleOf(p)
           r == TitleText(p)
           l == Loadable(p, children[p])
<1>1. TreeIsFile /\ DomTypes /\ Linked
  BY DEF AsLoaded, ConvInv, DomInv
<1>2. p \in Nat \ {0} /\ p <= Size /\ p <= Len(tree) /\ Size \in Nat /\ Len(tree) \in Nat /\ Size = 2 * Len(tree)
  <2>1. p \in Nodes /\ p <= Len(tree)
    BY <1>1, PageIsNode
  <2>2. Len(tree) \in Nat /\ p \in Nat /\ p > 0
    BY <1>1, <2>1, IdNumbers
  <2> QED
    BY <2>1, <2>2 DEF Size
<1>3. p \in NodeIds /\ t \in NodeIds /\ r \in NodeIds
  BY <1>2 DEF NodeIds, TitleOf, TitleText
<1>4. t \in Range(nodes[p])
  <2>1. Loaded[p] = <<t>> \o l
    BY <1>2, <1>3 DEF Loaded
  <2>2. l \in Seq(Ids)
    <3>1. children[p] \in Seq(Ids)
      BY ChildLists
    <3> QED
      BY <3>1, OnlyType DEF Loadable
  <2>3. IsList(<<t>>) /\ IsList(l) /\ Range(<<t>>) = {t}
    BY <2>2, ListSmall DEF IsList
  <2> HIDE DEF l, t
  <2>4. Range(<<t>> \o l) = {t} \cup Range(l)
    BY <2>3, ListConcat
  <2> QED
    BY <2>1, <2>4 DEF AsLoaded
<1>5. r \in Range(nodes[t])
  <2>1. t > Size /\ t - Size = p /\ Class(t) = "Title" /\ t # 0
    BY <1>2 DEF TitleOf, Class
  <2>2. Loaded[t] = <<r>>
    BY <1>3, <2>1 DEF Loaded
  <2> QED
    BY <2>2, ListSmall DEF AsLoaded
<1>6. parent[t] = p /\ parent[r] = t
  BY <1>1, <1>3, <1>4, <1>5 DEF Linked, AsLoaded
<1>7. Shown(t)
  BY <1>4, ShownBelow
<1>8. Shown(r)
  <2>1. t \in InDocument
    BY <1>7 DEF Shown
  <2> QED
    BY <1>5, <2>1, ShownBelow
<1> QED
  BY <1>6, <1>7, <1>8

LEMMA DrawnInvariant == DrawnInv => DrawnIsInDocument
<1> SUFFICES ASSUME DrawnInv, doing = "done", edits = 0, NEW i \in DOMAIN story, story[i].what # "break"
             PROVE  LET x == story[i].id IN
                    /\ \A y \in ShownBy(x) : y \in InDocument /\ y \in Range(nodes[parent[y]])
                    /\ Kind(x) = "Page" => parent[TitleText(x)] = TitleOf(x) /\ parent[TitleOf(x)] = x
  BY DEF DrawnIsInDocument
<1> DEFINE x == story[i].id
<1>1. StoryShown /\ story[i] \in Range(story)
  BY DEF DrawnInv, Drawing, Range
<1>2. Shown(x)
  BY <1>1 DEF StoryShown, GoodStory
<1>3. AsLoaded
  BY DEF DrawnInv, DocumentInv, AsLoaded, Late, Early
<1> HIDE DEF x
<1>4. CASE Kind(x) = "Page"
  <2>1. x \in Ids /\ x \in InDocument
    <3>1. TreeIsFile
      BY <1>3 DEF AsLoaded, ConvInv
    <3>2. TreeIsSeq /\ Len(tree) \in Nat /\ Ids = 0..(2 * Len(tree))
      BY <3>1, IdNumbers
    <3>3. x \in InDocument /\ x \in NodeIds /\ x \in Nat
      BY <1>2, <3>2, DocumentClosed, DomNumbers DEF Shown
    <3>4. ~(x > Len(tree))
      BY <1>4, <3>2, <3>3 DEF Kind
    <3> QED
      BY <3>2, <3>3, <3>4
  <2>2. /\ Shown(TitleOf(x)) /\ Shown(TitleText(x))
        /\ parent[TitleOf(x)] = x /\ parent[TitleText(x)] = TitleOf(x)
    BY <1>3, <1>4, <2>1, TitleShown
  <2> QED
    BY <1>2, <1>4, <2>2 DEF Shown, ShownBy, x
<1>5. CASE Kind(x) # "Page"
  BY <1>2, <1>5 DEF Shown, ShownBy, x
<1> QED
  BY <1>4, <1>5

(* What a saved document shows is in the object model: whatever Save draws *)
(* of a document no client has edited is a node of it that its parent      *)
(* lists, a page's heading the text in the title of that page, although    *)
(* Save walks the tree the document was loaded from.                       *)
THEOREM SavedIsLoaded == DocumentSpec => []DrawnIsInDocument
<1>1. DocumentInit => DrawnInv
  BY DrawnInit
<1>2. DrawnInv /\ [DocumentNext]_documentVars => DrawnInv'
  BY DrawnKeeps
<1>3. DrawnInv => DrawnIsInDocument
  BY DrawnInvariant
<1> QED
  BY <1>1, <1>2, <1>3, PTL DEF DocumentSpec

-----------------------------------------------------------------------------
(* The elements a walk comes by, and the images' data.                     *)
WalkTable == [x \in Ids |-> children[x] \o contents[x]]
WalkBase  == [x \in Ids |-> <<x>>]
Made(z)   == z \in Ids /\ Maker(z) \in kept \ {0}

LEMMA WalkFeeds ==
    ASSUME ConvInv
    PROVE  /\ Feeds(Ids, WalkTable, IdRank, 5 * Len(tree))
           /\ WalkBase \in [Ids -> Seq(Ids)] /\ \A x \in Ids : Range(WalkBase[x]) = {x}
           /\ \A x \in Ids : \A y \in Range(WalkTable[x]) : Made(y)
<1>1. \A x \in Ids : /\ children[x] \in Seq(Ids) /\ contents[x] \in Seq(Ids)
                     /\ children[x] \o contents[x] \in Seq(Ids)
                     /\ Range(children[x] \o contents[x]) = Range(children[x]) \cup Range(contents[x])
  <2> TAKE x \in Ids
  <2> DEFINE c == children[x]
             d == contents[x]
  <2>1. c \in Seq(Ids) /\ d \in Seq(Ids)
    BY DEF ConvInv, ChildrenStand, ContentsStand
  <2> HIDE DEF c, d
  <2>2. c \o d \in Seq(Ids) /\ Range(c \o d) = Range(c) \cup Range(d)
    BY <2>1, RangeConcat
  <2> QED
    BY <2>1, <2>2 DEF c, d
<1>2. ASSUME NEW x \in Ids, NEW y \in Range(WalkTable[x])
      PROVE  y \in Ids /\ IdRank[y] > IdRank[x] /\ Made(y)
  <2>1. y \in Range(children[x]) \cup Range(contents[x])
    BY <1>1, <1>2 DEF WalkTable
  <2>2. y \in Ids /\ Rank[y] > Rank[x]
    BY <2>1, OwnerFacts
  <2>3. Maker(y) \in kept \ {0}
    BY <2>1 DEF ConvInv, ChildrenStand, ContentsStand
  <2> QED
    BY <2>2, <2>3 DEF IdRank, Made
<1>3. 5 * Len(tree) \in Nat /\ IdRank \in [Ids -> 0..(5 * Len(tree))]
  BY RankFacts DEF ConvInv
<1>4. WalkTable \in [Ids -> Seq(Ids)]
  BY <1>1 DEF WalkTable
<1>5. ASSUME NEW x \in Ids PROVE <<x>> \in Seq(Ids) /\ Range(<<x>>) = {x}
  BY OneMember
<1> QED
  BY <1>2, <1>3, <1>4, <1>5 DEF Feeds, WalkBase

LEMMA WalkFacts ==
    ASSUME ConvInv
    PROVE  Walk \in Seq(Ids) /\ \A z \in Range(Walk) : z = 0 \/ Made(z)
<1> DEFINE is(F) == F = [x \in Ids |-> <<x>> \o Joined(children[x] \o contents[x], F)]
           walk  == CHOOSE F : is(F)
<1>1. \A F : is(F) <=> JoinsUp(Ids, WalkBase, WalkTable, F)
  <2> TAKE F
  <2>1. [x \in Ids |-> <<x>> \o Joined(children[x] \o contents[x], F)]
          = [x \in Ids |-> WalkBase[x] \o Joined(WalkTable[x], F)]
    BY DEF WalkBase, WalkTable
  <2> QED
    BY <2>1, Zenon DEF JoinsUp
<1>2. /\ Feeds(Ids, WalkTable, IdRank, 5 * Len(tree)) /\ WalkBase \in [Ids -> Seq(Ids)]
      /\ \A x \in Ids : Range(WalkBase[x]) = {x}
      /\ \A x \in Ids : \A y \in Range(WalkTable[x]) : Made(y)
  BY WalkFeeds
<1>3. PICK F \in [Ids -> Seq(Ids)] : JoinsUp(Ids, WalkBase, WalkTable, F)
  BY <1>2, JoinRecursion
<1>4. is(walk)
  <2>1. is(F)
    BY <1>1, <1>3
  <2> HIDE DEF is
  <2> QED
    BY <2>1
<1>5. Walk = Tail(walk[0])
  BY DEF Walk
<1> HIDE DEF walk
<1>6. walk = F
  <2>1. JoinsUp(Ids, WalkBase, WalkTable, walk)
    BY <1>1, <1>4
  <2> DEFINE bound == 5 * Len(tree)
  <2>2. Feeds(Ids, WalkTable, IdRank, bound)
    BY <1>2
  <2> HIDE DEF is, bound
  <2>3. F \in [Ids -> Seq(Ids)] /\ JoinsUp(Ids, WalkBase, WalkTable, F)
    BY <1>3
  <2> QED
    BY <2>1, <2>2, <2>3, JoinUnique
<1> HIDE DEF is
<1> DEFINE Fine == {x \in Ids : \A z \in Range(F[x]) : z = x \/ Made(z)}
<1>7. Ids \subseteq Fine
  <2>1. ASSUME NEW x \in Ids, \A y \in Ids : IdRank[y] > IdRank[x] => y \in Fine
        PROVE  x \in Fine
    <3> SUFFICES ASSUME NEW z \in Range(F[x]) PROVE z = x \/ Made(z)
      OBVIOUS
    <3>1. WalkTable \in [Ids -> Seq(Ids)]
      BY <1>2 DEF Feeds
    <3>2. Comes(WalkBase, WalkTable, F, x, z)
      BY <1>2, <1>3, <3>1, JoinedOne
    <3>3. CASE z \in Range(WalkBase[x])
      BY <1>2, <3>3
    <3>4. CASE z \notin Range(WalkBase[x])
      <4>1. PICK y \in Range(WalkTable[x]) : z \in Range(F[y])
        BY <3>2, <3>4 DEF Comes
      <4>2. y \in Ids /\ IdRank[y] > IdRank[x] /\ Made(y)
        BY <1>2, <4>1 DEF Feeds, Made
      <4> QED
        BY <2>1, <4>1, <4>2
    <3> QED
      BY <3>3, <3>4
  <2>2. 5 * Len(tree) \in Nat /\ IdRank \in [Ids -> 0..(5 * Len(tree))]
    BY <1>2 DEF Feeds
  <2> HIDE DEF Fine
  <2> QED
    BY <2>1, <2>2, RankInduction
<1>8. 0 \in Ids
  BY IdNumbers DEF ConvInv
<1>9. F[0] \in Seq(Ids) /\ \A z \in Range(F[0]) : z = 0 \/ Made(z)
  BY <1>3, <1>7, <1>8
<1>10. F[0] # <<>>
  <2>1. Comes(WalkBase, WalkTable, F, 0, 0)
    BY <1>2, <1>3, <1>8, JoinedOne DEF Feeds
  <2>2. 0 \in Range(F[0])
    BY <1>2, <1>8, <2>1 DEF Comes
  <2> QED
    BY <2>2, RangeEmpty
<1>11. Tail(F[0]) \in Seq(Ids) /\ Range(Tail(F[0])) \subseteq Range(F[0])
  BY <1>9, <1>10, RangeTail, HeadTailProperties
<1> QED
  BY <1>5, <1>6, <1>9, <1>11

(* An image of a page has the data found by its references or, if there    *)
(* are none, a picture of the store; images of a guid without data of      *)
(* their own get their picture in one step.                                *)
Supplied(i) == data[i] = FileData(i) \/ (FileData(i) = NoData /\ data[i] \in DOMAIN blobs)
Shared(i, j) ==
    tree[i].oid.guid = tree[j].oid.guid /\ FileData(i) = FileData(j) => data[i] = data[j]
Supply ==
    /\ \A i \in Range(Images) : Supplied(i)
    /\ \A i, j \in Range(Images) : Shared(i, j)
Lacking == {i \in Range(Images) : data[i] = NoData}
DataInv ==
    /\ data \in [Ids -> Int]
    /\ doing = "convert" => \A i \in kept \ {0} : tree[i].kind = "Image" => data[i] = FileData(i)
    /\ doing \in {"fill", "load"} => Supply
    /\ doing = "fill" => missing \in Seq(Ids) /\ Range(missing) = Lacking
    /\ doing = "load" => blobs = <<>> \/ Lacking = {}

LEMMA ImagesFacts ==
    ASSUME ConvInv
    PROVE  /\ Images \in Seq(Ids)
           /\ Range(Images) = Range(Walk) \cap {x \in Ids : Kind(x) = "Image"}
           /\ \A i \in Range(Images) : /\ i \in Ids /\ i \in kept \ {0} /\ tree[i].kind = "Image"
                                       /\ i \in Range(Walk) /\ Kind(i) = "Image"
<1> DEFINE w == Walk
           wanted == {x \in Ids : Kind(x) = "Image"}
<1>1. w \in Seq(Ids) /\ \A z \in Range(w) : z = 0 \/ Made(z)
  BY WalkFacts
<1>2. Images = Only(w, wanted)
  BY DEF Images
<1> HIDE DEF w, wanted
<1>3. Images \in Seq(Ids) /\ Range(Images) = Range(w) \cap wanted
  BY <1>1, <1>2, OnlyType, OnlyFacts
<1>4. ASSUME NEW i \in Range(Images)
      PROVE  i \in Ids /\ i \in kept \ {0} /\ tree[i].kind = "Image" /\ Kind(i) = "Image"
  <2>1. i \in Ids /\ Kind(i) = "Image" /\ (i = 0 \/ Made(i))
    BY <1>1, <1>3, <1>4 DEF wanted
  <2>2. i # 0 /\ ~(i > Len(tree)) /\ tree[i].kind = "Image"
    BY <2>1 DEF Kind
  <2> QED
    BY <2>1, <2>2 DEF Made, Maker
<1> QED
  BY <1>3, <1>4 DEF w, wanted

LEMMA FileDataValues == \A i : FileData(i) \in {Own, NoData}
BY DEF FileData

LEMMA PicturesAreNumbers ==
    ASSUME TreeIsFile
    PROVE  DOMAIN blobs \subseteq Nat \ {0}
<1>1. blobs \in Seq(Nat)
  BY DEF TreeIsFile
<1>2. DOMAIN blobs = 1..Len(blobs) /\ Len(blobs) \in Nat
  BY <1>1, LenProperties
<1> QED
  BY <1>2

LEMMA DataInit == TreeInit => DataInv
BY DEF TreeInit, DataInv, NoData

LEMMA ConvertGivesData ==
    ASSUME ConvInv, DataInv, ConvertNode
    PROVE  DataInv'
<1>1. /\ doing = "convert" /\ doing' = doing /\ at \in Nodes /\ kept' = kept \cup {at}
      /\ tree' = tree /\ blobs' = blobs
      /\ data' = [data EXCEPT ![at] = IF tree[at].kind \in {"Image", "File"} THEN FileData(at) ELSE @]
  BY DEF ConvertNode, Source
<1>2. at \in Ids /\ at \in Nat /\ at # 0 /\ Ids' = Ids
  BY <1>1, IdNumbers, PlaceAgrees DEF ConvInv
<1>3. data \in [Ids -> Int] /\ \A i \in kept \ {0} : tree[i].kind = "Image" => data[i] = FileData(i)
  BY <1>1 DEF DataInv
<1>4. FileData(at) \in Int
  BY FileDataValues DEF Own, NoData
<1>5. kept \subseteq Ids /\ at \notin kept
  <2>1. kept \subseteq 0..(at - 1) /\ at \in 1..(Len(tree) + 1) /\ Len(tree) \in Nat /\ Ids = 0..(2 * Len(tree))
    BY IdNumbers DEF ConvInv
  <2> QED
    BY <2>1
<1>6. data' \in [Ids' -> Int]
  BY <1>1, <1>2, <1>3, <1>4
<1>7. ASSUME NEW i \in kept' \ {0}, tree[i].kind = "Image" PROVE data'[i] = FileData(i)
  <2>1. CASE i = at
    BY <1>1, <1>2, <1>3, <1>7, <2>1
  <2>2. CASE i # at
    BY <1>1, <1>2, <1>3, <1>5, <1>7, <2>2
  <2> QED
    BY <2>1, <2>2
<1>8. \A i : FileData(i)' = FileData(i)
  BY <1>1, PlaceAgrees
<1> QED
  BY <1>1, <1>6, <1>7, <1>8 DEF DataInv

LEMMA EndGivesMissing ==
    ASSUME ConvInv, DataInv, EndConvert
    PROVE  DataInv'
<1> DEFINE wanted == {x \in Ids : Kind(x) = "Image" /\ data[x] = NoData}
           w == Walk
<1>1. /\ doing = "convert" /\ UNCHANGED <<tree, blobs, at, kept, children, contents, title, data>>
      /\ missing' = Only(w, wanted)
      /\ doing' = IF missing' = <<>> \/ blobs = <<>> THEN "load" ELSE "fill"
  BY DEF EndConvert, Source
<1>2. w \in Seq(Ids) /\ Range(Images) = Range(w) \cap {x \in Ids : Kind(x) = "Image"}
  BY WalkFacts, ImagesFacts
<1> HIDE DEF w
<1>3. missing' \in Seq(Ids) /\ Range(missing') = Lacking
  <2>1. Range(missing') = Range(w) \cap wanted /\ missing' \in Seq(Ids)
    <3> HIDE DEF wanted
    <3> QED
      BY <1>1, <1>2, OnlyType, OnlyFacts
  <2> QED
    BY <1>2, <2>1 DEF Lacking
<1>4. Images' = Images /\ Ids' = Ids /\ \A i : FileData(i)' = FileData(i)
  BY <1>1, PlaceAgrees DEF Images, Walk, Ids, Kind
<1>5. \A i \in Range(Images) : data[i] = FileData(i)
  BY <1>1, ImagesFacts DEF DataInv
<1>6. Supply' /\ Lacking' = Lacking /\ data' \in [Ids' -> Int]
  BY <1>1, <1>4, <1>5 DEF Supply, Supplied, Shared, Lacking, DataInv
<1>7. missing' = <<>> => Lacking' = {}
  BY <1>3, <1>6, RangeEmpty
<1>8. missing' \in Seq(Ids') /\ Range(missing') = Lacking'
  BY <1>3, <1>4, <1>6
<1> QED
  BY <1>1, <1>6, <1>7, <1>8 DEF DataInv

LEMMA FillGivesPicture ==
    ASSUME ConvInv, DataInv, FillGroup
    PROVE  DataInv'
<1> DEFINE first == Head(missing)
           group == Group(first)
<1>1. PICK blob \in DOMAIN blobs : data' = [x \in Ids |-> IF x \in group THEN blob ELSE data[x]]
  BY DEF FillGroup
<1>2. /\ doing = "fill" /\ missing # <<>> /\ UNCHANGED <<tree, blobs, at, kept, children, contents, title>>
      /\ missing' = Only(missing, Ids \ group)
      /\ doing' = IF missing' = <<>> THEN "load" ELSE "fill"
  BY DEF FillGroup, Source
<1>3. /\ data \in [Ids -> Int] /\ Supply /\ missing \in Seq(Ids) /\ Range(missing) = Lacking
  BY <1>2 DEF DataInv
<1>4. group = {x \in Lacking : tree[x].oid.guid = tree[first].oid.guid}
  BY <1>3 DEF Group
<1> HIDE DEF group, first
<1>5. blob \in Nat \ {0}
  BY PicturesAreNumbers DEF ConvInv
<1>6. \A i \in Range(Images) : i \in Ids
  BY ImagesFacts
<1>7. Images' = Images /\ Ids' = Ids /\ \A i : FileData(i)' = FileData(i)
  BY <1>2, PlaceAgrees DEF Images, Walk, Ids, Kind
<1>8. data' \in [Ids -> Int]
  BY <1>1, <1>3, <1>5
<1>9. \A i \in Range(Images) : data'[i] = IF i \in group THEN blob ELSE data[i]
  BY <1>1, <1>6
<1>10. \A i \in group : i \in Range(Images) /\ data[i] = NoData /\ FileData(i) = NoData
  <2> TAKE i \in group
  <2>1. i \in Range(Images) /\ data[i] = NoData /\ Supplied(i)
    BY <1>3, <1>4 DEF Lacking, Supply
  <2>2. DOMAIN blobs \subseteq Nat \ {0}
    BY PicturesAreNumbers DEF ConvInv
  <2> QED
    BY <2>1, <2>2 DEF Supplied, NoData
<1>11. Supply'
  <2>1. ASSUME NEW i \in Range(Images) PROVE Supplied(i)'
    BY <1>2, <1>3, <1>7, <1>9, <1>10 DEF Supply, Supplied
  <2>2. ASSUME NEW i \in Range(Images), NEW j \in Range(Images),
               tree[i].oid.guid = tree[j].oid.guid, FileData(i) = FileData(j)
        PROVE  data'[i] = data'[j]
    <3>1. data[i] = data[j]
      BY <1>3, <2>2 DEF Supply, Shared
    <3>2. i \in group <=> j \in group
      BY <1>4, <2>2, <3>1 DEF Lacking
    <3> QED
      BY <1>9, <3>1, <3>2
  <2> QED
    BY <1>2, <1>7, <2>1, <2>2 DEF Supply, Shared
<1>12. missing' \in Seq(Ids) /\ Range(missing') = Lacking'
  <2>1. missing' \in Seq(Ids) /\ Range(missing') = Range(missing) \cap (Ids \ group)
    BY <1>2, <1>3, OnlyType, OnlyFacts
  <2>2. Lacking' = {i \in Range(Images) : data'[i] = NoData}
    BY <1>7 DEF Lacking, NoData
  <2>3. \A i \in Range(Images) : data'[i] = NoData <=> i \in Lacking /\ i \notin group
    BY <1>5, <1>9, <1>10 DEF Lacking, NoData
  <2>4. Lacking' = Lacking \ group
    BY <2>2, <2>3 DEF Lacking
  <2> QED
    BY <1>3, <1>6, <2>1, <2>4 DEF Lacking
<1>13. missing' = <<>> => Lacking' = {}
  BY <1>12, RangeEmpty
<1> QED
  BY <1>2, <1>7, <1>8, <1>11, <1>12, <1>13 DEF DataInv

LEMMA DataStays ==
    ASSUME DataInv, UNCHANGED treeVars
    PROVE  DataInv'
<1>1. /\ tree' = tree /\ blobs' = blobs /\ doing' = doing /\ kept' = kept /\ children' = children
      /\ contents' = contents /\ data' = data /\ missing' = missing
  BY DEF treeVars
<1>2. Images' = Images /\ Ids' = Ids /\ \A i : FileData(i)' = FileData(i)
  BY <1>1, PlaceAgrees DEF Images, Walk, Ids, Kind
<1>3. (Supply' <=> Supply) /\ Lacking' = Lacking
  BY <1>1, <1>2 DEF Supply, Supplied, Shared, Lacking, NoData
<1> QED
  BY <1>1, <1>2, <1>3 DEF DataInv

LEMMA DataKeeps ==
    ASSUME ConvInv, DataInv, [DocumentNext]_documentVars
    PROVE  DataInv'
<1>1. CASE TreeNext
  <2>1. CASE DropNode
    <3>1. /\ doing = "convert" /\ doing' = doing /\ tree' = tree /\ blobs' = blobs /\ kept' = kept /\ data' = data
      BY <2>1 DEF DropNode, Source
    <3>2. Ids' = Ids /\ \A i : FileData(i)' = FileData(i)
      BY <3>1, PlaceAgrees
    <3> QED
      BY <3>1, <3>2 DEF DataInv
  <2> QED
    BY <1>1, <2>1, ConvertGivesData, EndGivesMissing, FillGivesPicture DEF TreeNext
<1>2. CASE UNCHANGED treeVars
  BY <1>2, DataStays
<1>3. CASE doing' \in Late /\ tree' = tree /\ data' = data
  <2>1. Ids' = Ids
    BY <1>3 DEF Ids
  <2> QED
    BY <1>3, <2>1 DEF DataInv, Late
<1>4. StoryNext => doing' \in Late /\ tree' = tree /\ data' = data
  <2>1. RenderPage \/ EndOutline \/ PassElement \/ EndStory \/ Split \/ Build
          => doing' \in Late /\ tree' = tree /\ data' = data
    BY DEF RenderPage, EndOutline, PassElement, EndStory, Split, Build, treeVars, Source, Late
  <2>2. RenderOutline \/ RenderElement \/ RenderText => doing' \in Late /\ tree' = tree /\ data' = data
    BY DEF RenderOutline, RenderElement, RenderText, Rendering, treeVars, Source, Late
  <2>3. RenderImage \/ RenderFile \/ RenderTable => doing' \in Late /\ tree' = tree /\ data' = data
    BY DEF RenderImage, RenderFile, RenderTable, Rendering, treeVars, Source, Late
  <2> QED
    BY <2>1, <2>2, <2>3 DEF StoryNext
<1>5. Load \/ Save => doing' \in Late /\ tree' = tree /\ data' = data
  BY DEF Load, Save, StartStory, Source, Late
<1>6. InsertChild \/ RemoveChild \/ ClonePage => UNCHANGED treeVars
  BY DEF InsertChild, RemoveChild, ClonePage, Rest
<1>7. UNCHANGED documentVars => UNCHANGED treeVars
  BY DEF documentVars
<1> QED
  BY <1>1, <1>2, <1>3, <1>4, <1>5, <1>6, <1>7 DEF DocumentNext, DomNext

LEMMA DataInvariant == ConvInv /\ DataInv => ImagesShareData
<1> SUFFICES ASSUME ConvInv, DataInv, doing = "load", NEW i \in Range(Images), NEW j \in Range(Images)
             PROVE  /\ data[i] = NoData => blobs = <<>>
                    /\ tree[i].oid = tree[j].oid /\ FileData(i) = FileData(j) => data[i] = data[j]
  BY DEF ImagesShareData
<1>1. Supply /\ (blobs = <<>> \/ Lacking = {})
  BY DEF DataInv
<1> QED
  BY <1>1 DEF Supply, Shared, Lacking

(* Every image of an object shows the same picture, however many documents *)
(* and images there are; and no image of a page is without a picture if    *)
(* the store has one: _populate_missing_image_data_from_file_data_store    *)
(* leaves no group out and gives none two pictures.                        *)
THEOREM PicturesAreShared == DocumentSpec => []ImagesShareData
<1>1. DocumentInit => ConvInv /\ DataInv
  BY ConvInit, DataInit DEF DocumentInit
<1>2. ConvInv /\ DataInv /\ [DocumentNext]_documentVars => ConvInv' /\ DataInv'
  <2> SUFFICES ASSUME ConvInv, DataInv, [DocumentNext]_documentVars PROVE ConvInv' /\ DataInv'
    OBVIOUS
  <2>1. DataInv'
    BY DataKeeps
  <2>2. CASE DocumentNext
    BY <2>1, <2>2, ConvKeeps
  <2>3. CASE UNCHANGED documentVars
    <3>1. at' = at /\ at \in 1..(Len(tree) + 1) /\ at' >= at
      BY <2>3, IdNumbers DEF ConvInv, documentVars, treeVars
    <3> QED
      BY <2>1, <2>3, <3>1, ConvStays DEF documentVars, treeVars, Source
  <2> QED
    BY <2>2, <2>3
<1>3. ConvInv /\ DataInv => ImagesShareData
  BY DataInvariant
<1> QED
  BY <1>1, <1>2, <1>3, PTL DEF DocumentSpec

-----------------------------------------------------------------------------
(* What lies under an element.                                             *)
Kids(x)  == Range(children[x]) \cup Range(contents[x])
BelowOf  == CHOOSE F : JoinsUp(Ids, WalkBase, WalkTable, F)
Under(x) == Range(BelowOf[x])
Holds(x, z) == z \in Under(x) <=> z = x \/ \E y \in Kids(x) : z \in Under(y)

LEMMA KidFacts ==
    ASSUME ConvInv, NEW x \in Ids, NEW y \in Kids(x)
    PROVE  y \in Ids /\ IdRank[x] \in Nat /\ IdRank[y] \in Nat /\ IdRank[y] > IdRank[x] /\ x = Owner(y) /\ y > 0
<1>1. y \in Ids /\ y > 0 /\ x = Owner(y) /\ Rank[y] > Rank[x]
  BY OwnerFacts DEF Kids
<1>2. TreeIsFile
  BY DEF ConvInv
<1>3. 5 * Len(tree) \in Nat /\ IdRank \in [Ids -> 0..(5 * Len(tree))] /\ \A z \in Ids : IdRank[z] = Rank[z]
  BY <1>2, RankFacts
<1> QED
  BY <1>1, <1>3

LEMMA UnderIs ==
    ASSUME ConvInv
    PROVE  /\ \A x \in Ids : Under(x) \subseteq Ids /\ IdRank[x] \in Nat
           /\ \A x \in Ids : \A z : Holds(x, z)
           /\ \A x \in Ids : \A z \in Under(x) : IdRank[z] >= IdRank[x]
           /\ \A x, y \in Ids : IdRank[x] = IdRank[y] => x = y
<1> DEFINE bound == 5 * Len(tree)
<1>1. /\ Feeds(Ids, WalkTable, IdRank, bound) /\ WalkBase \in [Ids -> Seq(Ids)]
      /\ \A x \in Ids : Range(WalkBase[x]) = {x}
  BY WalkFeeds
<1>2. /\ bound \in Nat /\ IdRank \in [Ids -> 0..bound] /\ \A x, y \in Ids : IdRank[x] = IdRank[y] => x = y
  BY RankFacts DEF ConvInv
<1> HIDE DEF bound
<1>3. PICK F \in [Ids -> Seq(Ids)] : JoinsUp(Ids, WalkBase, WalkTable, F)
  BY <1>1, JoinRecursion
<1>4. JoinsUp(Ids, WalkBase, WalkTable, BelowOf)
  BY <1>3 DEF BelowOf
<1>5. BelowOf = F
  BY <1>1, <1>3, <1>4, JoinUnique
<1>6. \A x \in Ids : Range(WalkTable[x]) = Kids(x)
  <2> TAKE x \in Ids
  <2> DEFINE c == children[x]
             d == contents[x]
  <2>1. c \in Seq(Ids) /\ d \in Seq(Ids)
    BY DEF ConvInv, ChildrenStand, ContentsStand
  <2>2. WalkTable[x] = c \o d
    BY DEF WalkTable
  <2> HIDE DEF c, d
  <2>3. Range(c \o d) = Range(c) \cup Range(d)
    BY <2>1, RangeConcat
  <2> QED
    BY <2>2, <2>3 DEF c, d, Kids
<1>7. WalkTable \in [Ids -> Seq(Ids)]
  BY <1>1 DEF Feeds
<1>8. ASSUME NEW x \in Ids, NEW z PROVE Holds(x, z)
  <2>1. Comes(WalkBase, WalkTable, F, x, z)
    BY <1>1, <1>3, <1>7, JoinedOne
  <2> QED
    BY <1>1, <1>5, <1>6, <2>1 DEF Comes, Holds, Under
<1>9. ASSUME NEW x \in Ids PROVE Under(x) \subseteq Ids
  BY <1>3, <1>5, RangeOf DEF Under
<1>10. \A x \in Ids : \A z \in Range(F[x]) : \E v \in Ids : z \in Range(WalkBase[v]) /\ IdRank[v] >= IdRank[x]
  BY <1>1, <1>3, JoinFrom
<1>11. \A x \in Ids : \A z \in Under(x) : IdRank[z] >= IdRank[x]
  BY <1>1, <1>5, <1>10 DEF Under
<1> QED
  BY <1>2, <1>8, <1>9, <1>11

(* What lies under an element but is not the element itself: so does what  *)
(* it stands in.                                                           *)
LEMMA OwnerUnder ==
    ASSUME ConvInv
    PROVE  \A x \in Ids : \A z \in Under(x) : z # x => Owner(z) \in Under(x) /\ Owner(z) \in Ids /\ z \in Kids(Owner(z))
<1> DEFINE Fine == {x \in Ids : \A z \in Under(x) : z # x => Owner(z) \in Under(x) /\ Owner(z) \in Ids /\ z \in Kids(Owner(z))}
<1>1. ASSUME NEW x \in Ids, \A y \in Ids : IdRank[y] > IdRank[x] => y \in Fine
      PROVE  x \in Fine
  <2> SUFFICES ASSUME NEW z \in Under(x), z # x
               PROVE  Owner(z) \in Under(x) /\ Owner(z) \in Ids /\ z \in Kids(Owner(z))
    OBVIOUS
  <2>1. Holds(x, z) /\ Holds(x, x) /\ Holds(x, Owner(z))
    BY UnderIs
  <2>2. PICK y \in Kids(x) : z \in Under(y)
    BY <2>1 DEF Holds
  <2>3. y \in Ids /\ IdRank[y] > IdRank[x] /\ x = Owner(y)
    BY <2>2, KidFacts
  <2>4. CASE z = y
    BY <2>1, <2>2, <2>3, <2>4 DEF Holds
  <2>5. CASE z # y
    <3>1. Owner(z) \in Under(y) /\ Owner(z) \in Ids /\ z \in Kids(Owner(z))
      BY <1>1, <2>2, <2>3, <2>5
    <3> QED
      BY <2>1, <2>2, <3>1 DEF Holds
  <2> QED
    BY <2>4, <2>5
<1>2. 5 * Len(tree) \in Nat /\ IdRank \in [Ids -> 0..(5 * Len(tree))]
  BY RankFacts DEF ConvInv
<1> HIDE DEF Fine
<1>3. Ids \subseteq Fine
  BY <1>1, <1>2, RankInduction
<1> QED
  BY <1>3 DEF Fine

(* Of two elements that something lies under one lies under the other.     *)
LEMMA Nested ==
    ASSUME ConvInv, NEW z
    PROVE  \A x, y \in Ids : z \in Under(x) /\ z \in Under(y) /\ IdRank[x] <= IdRank[y] => y \in Under(x)
<1> DEFINE Fine == {x \in Ids : \A y \in Ids : z \in Under(x) /\ z \in Under(y) /\ IdRank[x] <= IdRank[y] => y \in Under(x)}
<1>1. ASSUME NEW x \in Ids, \A y \in Ids : IdRank[y] > IdRank[x] => y \in Fine
      PROVE  x \in Fine
  <2> SUFFICES ASSUME NEW y \in Ids, z \in Under(x), z \in Under(y), IdRank[x] <= IdRank[y]
               PROVE  y \in Under(x)
    OBVIOUS
  <2>1. /\ IdRank[x] \in Nat /\ IdRank[y] \in Nat /\ Holds(x, x) /\ Holds(x, y) /\ Holds(x, z)
        /\ IdRank[x] = IdRank[y] => x = y
    BY UnderIs
  <2>2. CASE x = y
    BY <2>1, <2>2 DEF Holds
  <2>3. CASE x # y
    <3>1. IdRank[x] < IdRank[y]
      BY <2>1, <2>3
    <3>2. z # x
      <4>1. IdRank[z] >= IdRank[y]
        BY UnderIs
      <4> QED
        BY <2>1, <3>1, <4>1
    <3>3. PICK k \in Kids(x) : z \in Under(k)
      BY <2>1, <3>2 DEF Holds
    <3>4. k \in Ids /\ IdRank[k] \in Nat /\ IdRank[k] > IdRank[x] /\ x = Owner(k)
      BY <3>3, KidFacts
    <3>5. CASE IdRank[k] <= IdRank[y]
      <4>1. y \in Under(k)
        BY <1>1, <3>3, <3>4, <3>5
      <4> QED
        BY <2>1, <3>3, <4>1 DEF Holds
    <3>6. CASE IdRank[k] > IdRank[y]
      <4>1. k \in Under(y) /\ k # y
        BY <1>1, <2>1, <3>1, <3>3, <3>4, <3>6
      <4>2. x \in Under(y)
        BY <3>4, <4>1, OwnerUnder
      <4>3. IdRank[x] >= IdRank[y]
        BY <4>2, UnderIs
      <4> QED
        BY <2>1, <3>1, <4>3
    <3> QED
      BY <2>1, <3>4, <3>5, <3>6
  <2> QED
    BY <2>2, <2>3
<1>2. 5 * Len(tree) \in Nat /\ IdRank \in [Ids -> 0..(5 * Len(tree))]
  BY RankFacts DEF ConvInv
<1> HIDE DEF Fine
<1>3. Ids \subseteq Fine
  BY <1>1, <1>2, RankInduction
<1> QED
  BY <1>3 DEF Fine

Disjoint(x, y) == Under(x) \cap Under(y) = {}

LEMMA UnderFacts ==
    ASSUME ConvInv, NEW x \in Ids
    PROVE  /\ x \in Under(x) /\ Under(x) \subseteq Ids
           /\ \A y \in Kids(x) : y \in Ids /\ y # x /\ y \in Under(x) /\ Under(y) \subseteq Under(x) /\ x \notin Under(y)
           /\ \A y, z \in Kids(x) : y # z => Disjoint(y, z)
<1>1. Holds(x, x) /\ Under(x) \subseteq Ids /\ \A z : Holds(x, z)
  BY UnderIs
<1>2. ASSUME NEW y \in Kids(x)
      PROVE  y \in Ids /\ y # x /\ y \in Under(x) /\ Under(y) \subseteq Under(x) /\ x \notin Under(y)
  <2>1. y \in Ids /\ IdRank[x] \in Nat /\ IdRank[y] \in Nat /\ IdRank[y] > IdRank[x]
    BY <1>2, KidFacts
  <2>2. Under(y) \subseteq Under(x)
    BY <1>1, <1>2 DEF Holds
  <2>3. x \notin Under(y)
    <3>1. x \in Under(y) => IdRank[x] >= IdRank[y]
      BY <2>1, UnderIs
    <3> QED
      BY <2>1, <3>1
  <2>4. Holds(y, y)
    BY <2>1, UnderIs
  <2> QED
    BY <2>1, <2>2, <2>3, <2>4 DEF Holds
<1>3. ASSUME NEW y \in Kids(x), NEW z \in Kids(x), y # z, NEW v \in Under(y), v \in Under(z) PROVE FALSE
  <2>1. /\ y \in Ids /\ IdRank[y] \in Nat /\ x = Owner(y)
        /\ z \in Ids /\ IdRank[z] \in Nat /\ x = Owner(z)
    BY <1>3, KidFacts
  <2>2. CASE IdRank[y] <= IdRank[z]
    <3>1. z \in Under(y)
      BY <1>3, <2>1, <2>2, Nested
    <3>2. x \in Under(y)
      BY <1>3, <2>1, <3>1, OwnerUnder
    <3> QED
      BY <1>2, <3>2
  <2>3. CASE IdRank[z] <= IdRank[y]
    <3>1. y \in Under(z)
      BY <1>3, <2>1, <2>3, Nested
    <3>2. x \in Under(z)
      BY <1>3, <2>1, <3>1, OwnerUnder
    <3> QED
      BY <1>2, <3>2
  <2> QED
    BY <2>1, <2>2, <2>3
<1> QED
  BY <1>1, <1>2, <1>3 DEF Holds, Disjoint

(* No page lies in a page.                                                 *)
LEMMA NoPageInside ==
    ASSUME ConvInv
    PROVE  \A x \in Ids : \A z \in Under(x) : z # x /\ Kind(z) \in PageKinds => Kind(x) \in {"Section", "PageSeries"}
<1> DEFINE Fine == {x \in Ids : \A z \in Under(x) : z # x /\ Kind(z) \in PageKinds => Kind(x) \in {"Section", "PageSeries"}}
<1>1. ASSUME NEW x \in Ids, \A y \in Ids : IdRank[y] > IdRank[x] => y \in Fine
      PROVE  x \in Fine
  <2> SUFFICES ASSUME NEW z \in Under(x), z # x, Kind(z) \in PageKinds
               PROVE  Kind(x) \in {"Section", "PageSeries"}
    OBVIOUS
  <2>1. Holds(x, z)
    BY UnderIs
  <2>2. PICK y \in Kids(x) : z \in Under(y)
    BY <2>1 DEF Holds
  <2>3. y \in Ids /\ IdRank[y] > IdRank[x]
    BY <2>2, KidFacts
  <2>4. Kind(y) \in PageKinds
    BY <1>1, <2>2, <2>3 DEF PageKinds
  <2>5. y \in Range(children[x]) /\ Kind(y) \in PageKinds
    BY <2>2, <2>4, KindsBelow DEF Kids
  <2> QED
    BY <2>5, KindsBelow
<1>2. 5 * Len(tree) \in Nat /\ IdRank \in [Ids -> 0..(5 * Len(tree))]
  BY RankFacts DEF ConvInv
<1> HIDE DEF Fine
<1>3. Ids \subseteq Fine
  BY <1>1, <1>2, RankInduction
<1> QED
  BY <1>3 DEF Fine

LEMMA PagesApart ==
    ASSUME ConvInv
    PROVE  \A p, q \in Range(Pages) : p # q => Disjoint(p, q)
<1> SUFFICES ASSUME NEW p \in Range(Pages), NEW q \in Range(Pages), p # q,
                    NEW z \in Under(p), z \in Under(q)
             PROVE  FALSE
  BY DEF Disjoint
<1>1. p \in Ids /\ q \in Ids /\ Kind(p) = "Page" /\ Kind(q) = "Page"
  BY PagesFacts
<1>2. IdRank[p] \in Nat /\ IdRank[q] \in Nat
  BY <1>1, UnderIs
<1>3. q \in Under(p) \/ p \in Under(q)
  BY <1>1, <1>2, Nested
<1> QED
  BY <1>1, <1>3, NoPageInside DEF PageKinds

-----------------------------------------------------------------------------
(* Lists by the places of their members.                                   *)
Places(s)   == IsList(s) => Len(s) \in Nat /\ DOMAIN s = 1..Len(s)
                            /\ \A x : x \in Range(s) <=> \E i \in 1..Len(s) : x = s[i]
Follows(s, t) ==
    /\ Len(s \o t) = Len(s) + Len(t)
    /\ \A i \in 1..(Len(s) + Len(t)) : (s \o t)[i] = IF i <= Len(s) THEN s[i] ELSE t[i - Len(s)]

LEMMA ListPlaces == \A s : Places(s)
<1> SUFFICES ASSUME NEW s, IsList(s)
             PROVE  /\ Len(s) \in Nat /\ DOMAIN s = 1..Len(s)
                    /\ \A x : x \in Range(s) <=> \E i \in 1..Len(s) : x = s[i]
  BY DEF Places
<1>1. PICK S : s \in Seq(S)
  BY DEF IsList
<1>2. Len(s) \in Nat /\ DOMAIN s = 1..Len(s)
  BY <1>1, LenProperties
<1> QED
  BY <1>2 DEF Range

LEMMA ListFollows ==
    ASSUME NEW s, NEW t, IsList(s), IsList(t)
    PROVE  IsList(s \o t) /\ Follows(s, t) /\ Places(s) /\ Places(t) /\ Places(s \o t)
<1>1. PICK S : s \in Seq(S)
  BY DEF IsList
<1>2. PICK T : t \in Seq(T)
  BY DEF IsList
<1> DEFINE B == S \cup T
<1>3. s \in Seq(B) /\ t \in Seq(B)
  <2>1. S \subseteq B /\ T \subseteq B
    OBVIOUS
  <2> HIDE DEF B
  <2> QED
    BY <1>1, <1>2, <2>1
<1> HIDE DEF B
<1>4. Follows(s, t)
  BY <1>3 DEF Follows
<1> QED
  BY <1>4, ListConcat, ListPlaces

LEMMA TailPlaces ==
    ASSUME NEW s, IsList(s), s # <<>>
    PROVE  /\ IsList(Tail(s)) /\ Len(s) \in Nat \ {0} /\ Len(Tail(s)) = Len(s) - 1 /\ Head(s) = s[1]
           /\ \A i \in 1..(Len(s) - 1) : Tail(s)[i] = s[i + 1]
<1>1. PICK S : s \in Seq(S)
  BY DEF IsList
<1> QED
  BY <1>1, ListTail, HeadTailProperties, EmptySeq, LenProperties

(* The first of some members, the only one with a marker.                  *)
First(s, own, m) ==
    \E p \in DOMAIN s : /\ s[p].id \in own
                        /\ \A j \in DOMAIN s : s[j].id \in own =>
                             j >= p /\ s[j].marker = IF j = p THEN m ELSE NoMarker
Without(s, own) == \A x \in Range(s) : x.id \notin own
Bare(s, own)    == \A x \in Range(s) : x.id \in own => x.marker = NoMarker

LEMMA FirstAfter ==
    ASSUME NEW s, NEW t, NEW own, NEW m, IsList(s), IsList(t), Without(s, own), First(t, own, m)
    PROVE  First(s \o t, own, m)
<1> DEFINE a == Len(s)
           b == Len(t)
           u == s \o t
<1>1. /\ a \in Nat /\ DOMAIN s = 1..a /\ b \in Nat /\ DOMAIN t = 1..b
      /\ \A i \in 1..a : s[i] \in Range(s)
  BY ListPlaces DEF Places
<1>2. DOMAIN u = 1..(a + b) /\ \A i \in 1..(a + b) : u[i] = IF i <= a THEN s[i] ELSE t[i - a]
  BY ListFollows DEF Follows, Places
<1>3. PICK p \in 1..b : t[p].id \in own /\ \A j \in 1..b : t[j].id \in own =>
                             j >= p /\ t[j].marker = IF j = p THEN m ELSE NoMarker
  BY <1>1 DEF First
<1> HIDE DEF a, b, u
<1>4. a + p \in 1..(a + b) /\ u[a + p] = t[p]
  BY <1>1, <1>2
<1>5. ASSUME NEW j \in 1..(a + b), u[j].id \in own
      PROVE  j >= a + p /\ u[j].marker = IF j = a + p THEN m ELSE NoMarker
  <2>1. CASE j <= a
    <3>1. j \in 1..a /\ u[j] = s[j]
      BY <1>1, <1>2, <2>1
    <3> QED
      BY <1>1, <1>5, <3>1 DEF Without
  <2>2. CASE j > a
    <3>1. j - a \in 1..b /\ u[j] = t[j - a]
      BY <1>1, <1>2, <2>2
    <3>2. j - a >= p /\ t[j - a].marker = IF j - a = p THEN m ELSE NoMarker
      BY <1>3, <1>5, <3>1
    <3> QED
      BY <1>1, <3>1, <3>2
  <2> QED
    BY <1>1, <2>1, <2>2
<1>6. First(u, own, m)
  BY <1>2, <1>3, <1>4, <1>5 DEF First
<1> QED
  BY <1>6 DEF u

LEMMA FirstBefore ==
    ASSUME NEW s, NEW t, NEW own, NEW m, IsList(s), IsList(t), Bare(t, own), First(s, own, m)
    PROVE  First(s \o t, own, m)
<1> DEFINE a == Len(s)
           b == Len(t)
           u == s \o t
<1>1. /\ a \in Nat /\ DOMAIN s = 1..a /\ b \in Nat /\ DOMAIN t = 1..b
      /\ \A i \in 1..b : t[i] \in Range(t)
  BY ListPlaces DEF Places
<1>2. DOMAIN u = 1..(a + b) /\ \A i \in 1..(a + b) : u[i] = IF i <= a THEN s[i] ELSE t[i - a]
  BY ListFollows DEF Follows, Places
<1>3. PICK p \in 1..a : s[p].id \in own /\ \A j \in 1..a : s[j].id \in own =>
                             j >= p /\ s[j].marker = IF j = p THEN m ELSE NoMarker
  BY <1>1 DEF First
<1> HIDE DEF a, b, u
<1>4. p \in 1..(a + b) /\ u[p] = s[p]
  BY <1>1, <1>2
<1>5. ASSUME NEW j \in 1..(a + b), u[j].id \in own
      PROVE  j >= p /\ u[j].marker = IF j = p THEN m ELSE NoMarker
  <2>1. CASE j <= a
    <3>1. j \in 1..a /\ u[j] = s[j]
      BY <1>1, <1>2, <2>1
    <3> QED
      BY <1>3, <1>5, <3>1
  <2>2. CASE j > a
    <3>1. j - a \in 1..b /\ u[j] = t[j - a]
      BY <1>1, <1>2, <2>2
    <3>2. u[j].marker = NoMarker
      BY <1>1, <1>5, <3>1 DEF Bare
    <3> QED
      BY <1>1, <2>2, <3>2
  <2> QED
    BY <1>1, <2>1, <2>2
<1>6. First(u, own, m)
  BY <1>2, <1>3, <1>4, <1>5 DEF First
<1> QED
  BY <1>6 DEF u

LEMMA FirstTail ==
    ASSUME NEW s, NEW own, NEW m, IsList(s), s # <<>>, First(s, own, m)
    PROVE  /\ Head(s).id \notin own => First(Tail(s), own, m)
           /\ Head(s).id \in own => Head(s).marker = m /\ Bare(Tail(s), own)
<1> DEFINE a == Len(s)
           t == Tail(s)
<1>1. /\ a \in Nat \ {0} /\ DOMAIN s = 1..a /\ Head(s) = s[1]
      /\ Len(t) = a - 1 /\ DOMAIN t = 1..(a - 1) /\ \A i \in 1..(a - 1) : t[i] = s[i + 1]
      /\ \A x : x \in Range(t) <=> \E i \in 1..(a - 1) : x = t[i]
  <2>1. /\ IsList(t) /\ a \in Nat \ {0} /\ Len(t) = a - 1 /\ Head(s) = s[1]
        /\ \A i \in 1..(a - 1) : t[i] = s[i + 1]
    BY TailPlaces
  <2>2. DOMAIN s = 1..a /\ Places(t)
    BY ListPlaces DEF Places
  <2> HIDE DEF t, a
  <2> QED
    BY <2>1, <2>2 DEF Places
<1>2. PICK p \in 1..a : s[p].id \in own /\ \A j \in 1..a : s[j].id \in own =>
                             j >= p /\ s[j].marker = IF j = p THEN m ELSE NoMarker
  BY <1>1 DEF First
<1> HIDE DEF a, t
<1>3. ASSUME Head(s).id \notin own PROVE First(t, own, m)
  <2>1. p # 1
    BY <1>1, <1>2, <1>3
  <2>2. PICK q \in 1..(a - 1) : q = p - 1 /\ t[q] = s[p]
    BY <1>1, <2>1
  <2>3. ASSUME NEW j \in 1..(a - 1), t[j].id \in own
        PROVE  j >= q /\ t[j].marker = IF j = q THEN m ELSE NoMarker
    <3>1. j + 1 \in 1..a /\ t[j] = s[j + 1]
      BY <1>1
    <3>2. j + 1 >= p /\ s[j + 1].marker = IF j + 1 = p THEN m ELSE NoMarker
      BY <1>2, <2>3, <3>1
    <3> QED
      BY <1>1, <2>2, <3>1, <3>2
  <2>4. DOMAIN t = 1..(a - 1) /\ t[q].id \in own /\ q \in 1..(a - 1)
    BY <1>1, <1>2, <2>2
  <2> QED
    BY <2>3, <2>4 DEF First
<1>4. ASSUME Head(s).id \in own PROVE Head(s).marker = m /\ Bare(t, own)
  <2>1. 1 \in 1..a /\ p = 1
    BY <1>1, <1>2, <1>4
  <2>2. ASSUME NEW x \in Range(t), x.id \in own PROVE x.marker = NoMarker
    <3>1. PICK i \in 1..(a - 1) : x = t[i]
      BY <1>1
    <3>2. i + 1 \in 1..a /\ x = s[i + 1] /\ i + 1 # 1
      BY <1>1, <3>1
    <3> QED
      BY <1>2, <2>1, <2>2, <3>2
  <2> QED
    BY <1>1, <1>2, <1>4, <2>1, <2>2 DEF Bare
<1> QED
  BY <1>3, <1>4 DEF t

LEMMA FirstOne ==
    ASSUME NEW f, NEW own, NEW m, f.id \in own, f.marker = m
    PROVE  First(<<f>>, own, m)
<1>1. DOMAIN <<f>> = {1} /\ <<f>>[1] = f
  OBVIOUS
<1> QED
  BY <1>1 DEF First

(* Where the members of a list are after one of them was cut in two.       *)
Cut(s, i, one, two) == (SubSeq(s, 1, i - 1) \o <<one, two>>) \o SubSeq(s, i + 1, Len(s))
CutPlaces(s, i, one, two) ==
    /\ Len(Cut(s, i, one, two)) = Len(s) + 1
    /\ \A j \in 1..(Len(s) + 1) :
         Cut(s, i, one, two)[j] = IF j < i THEN s[j] ELSE IF j = i THEN one
                                  ELSE IF j = i + 1 THEN two ELSE s[j - 1]

LEMMA CutFacts ==
    ASSUME NEW s, IsList(s), NEW i \in DOMAIN s, NEW one, NEW two
    PROVE  IsList(Cut(s, i, one, two)) /\ CutPlaces(s, i, one, two)
<1> DEFINE n == Len(s)
           a == SubSeq(s, 1, i - 1)
           p == <<one, two>>
           z == SubSeq(s, i + 1, n)
<1>1. PICK S : s \in Seq(S)
  BY DEF IsList
<1>2. n \in Nat /\ i \in 1..n
  BY <1>1, LenProperties
<1>3. IsList(a) /\ IsList(z) /\ IsList(p)
  BY ListPart, ListTwo
<1>4. /\ Len(a) = i - 1 /\ \A j \in 1..(i - 1) : a[j] = s[j]
      /\ Len(z) = n - i /\ \A j \in 1..(n - i) : z[j] = s[i + j]
  <2>1. /\ 1 \in 1..(n + 1) /\ i - 1 \in (1 - 1)..n
        /\ i + 1 \in 1..(n + 1) /\ n \in ((i + 1) - 1)..n
    BY <1>2
  <2>2. Len(a) = (i - 1) - 1 + 1 /\ \A j \in 1..((i - 1) - 1 + 1) : a[j] = s[1 + j - 1]
    BY <1>1, <2>1, SubSeqProperties
  <2>3. Len(z) = n - (i + 1) + 1 /\ \A j \in 1..(n - (i + 1) + 1) : z[j] = s[(i + 1) + j - 1]
    BY <1>1, <2>1, SubSeqProperties
  <2> HIDE DEF a, z, n
  <2> QED
    BY <1>2, <2>2, <2>3
<1>5. Len(p) = 2 /\ p[1] = one /\ p[2] = two
  OBVIOUS
<1>6. Cut(s, i, one, two) = (a \o p) \o z
  BY DEF Cut
<1> HIDE DEF a, p, z, n
<1> DEFINE b == a \o p
<1>7. IsList(b) /\ Len(b) = i + 1 /\ \A j \in 1..(i + 1) : b[j] = IF j <= i - 1 THEN a[j] ELSE p[j - (i - 1)]
  <2>1. /\ IsList(b) /\ Len(b) = Len(a) + Len(p)
        /\ \A j \in 1..(Len(a) + Len(p)) : b[j] = IF j <= Len(a) THEN a[j] ELSE p[j - Len(a)]
    BY <1>3, ListFollows DEF Follows
  <2>2. Len(a) = i - 1 /\ Len(p) = 2 /\ (i - 1) + 2 = i + 1
    BY <1>2, <1>4, <1>5
  <2> HIDE DEF b
  <2> QED
    BY <2>1, <2>2
<1> HIDE DEF b
<1> DEFINE u == b \o z
<1>8. IsList(u) /\ Len(u) = n + 1 /\ \A j \in 1..(n + 1) : u[j] = IF j <= i + 1 THEN b[j] ELSE z[j - (i + 1)]
  <2>1. /\ IsList(u) /\ Len(u) = Len(b) + Len(z)
        /\ \A j \in 1..(Len(b) + Len(z)) : u[j] = IF j <= Len(b) THEN b[j] ELSE z[j - Len(b)]
    BY <1>3, <1>7, ListFollows DEF Follows
  <2>2. Len(b) = i + 1 /\ Len(z) = n - i /\ (i + 1) + (n - i) = n + 1
    BY <1>2, <1>4, <1>7
  <2> HIDE DEF u
  <2> QED
    BY <2>1, <2>2
<1> HIDE DEF u
<1>9. ASSUME NEW j \in 1..(n + 1)
      PROVE  u[j] = IF j < i THEN s[j] ELSE IF j = i THEN one ELSE IF j = i + 1 THEN two ELSE s[j - 1]
  <2>0. /\ \A l \in 1..(i + 1) : l \in 1..(n + 1) /\ l <= i + 1
        /\ i \in 1..(i + 1) /\ i + 1 \in 1..(i + 1)
    BY <1>2
  <2>1. CASE j < i
    <3>1. j \in 1..(i - 1) /\ j \in 1..(i + 1) /\ j <= i - 1
      BY <1>2, <2>1
    <3>2. u[j] = b[j] /\ b[j] = a[j] /\ a[j] = s[j]
      BY <1>4, <1>7, <1>8, <2>0, <3>1
    <3> QED
      BY <2>1, <3>2
  <2>2. CASE j = i
    <3>1. i \in 1..(i + 1) /\ ~(i <= i - 1) /\ i - (i - 1) = 1 /\ ~(i < i)
      BY <1>2
    <3>2. u[i] = b[i]
      BY <1>8, <2>0
    <3>3. b[i] = p[1]
      BY <1>7, <3>1
    <3> QED
      BY <1>5, <2>2, <3>1, <3>2, <3>3
  <2>3. CASE j = i + 1
    <3>1. ~(i + 1 <= i - 1) /\ (i + 1) - (i - 1) = 2 /\ i + 1 # i /\ ~(i + 1 < i)
      BY <1>2
    <3>2. u[i + 1] = b[i + 1]
      BY <1>8, <2>0
    <3>3. b[i + 1] = p[2]
      BY <1>7, <2>0, <3>1
    <3> QED
      BY <1>5, <2>3, <3>1, <3>2, <3>3
  <2>4. CASE j > i + 1
    <3>1. j - (i + 1) \in 1..(n - i) /\ ~(j <= i + 1) /\ i + (j - (i + 1)) = j - 1 /\ j # i /\ ~(j < i) /\ j # i + 1
      BY <1>2, <2>4
    <3>2. u[j] = z[j - (i + 1)] /\ z[j - (i + 1)] = s[i + (j - (i + 1))]
      BY <1>4, <1>8, <3>1
    <3> QED
      BY <3>1, <3>2
  <2> QED
    BY <1>2, <2>1, <2>2, <2>3, <2>4
<1>10. Cut(s, i, one, two) = u
  BY <1>6 DEF b, u
<1> QED
  BY <1>8, <1>9, <1>10 DEF CutPlaces, n

LEMMA FirstCut ==
    ASSUME NEW s, IsList(s), NEW i \in DOMAIN s, NEW one, NEW two, NEW own, NEW m, First(s, own, m),
           one.id = s[i].id, two.id = s[i].id, one.marker = s[i].marker, two.marker = NoMarker
    PROVE  First(Cut(s, i, one, two), own, m)
<1> DEFINE n == Len(s)
           u == Cut(s, i, one, two)
<1>1. /\ n \in Nat /\ DOMAIN s = 1..n /\ i \in 1..n
  BY ListPlaces DEF Places
<1>2. /\ DOMAIN u = 1..(n + 1)
      /\ \A j \in 1..(n + 1) : u[j] = IF j < i THEN s[j] ELSE IF j = i THEN one
                                      ELSE IF j = i + 1 THEN two ELSE s[j - 1]
  BY CutFacts, ListPlaces DEF CutPlaces, Places
<1>3. PICK p \in 1..n : s[p].id \in own /\ \A j \in 1..n : s[j].id \in own =>
                             j >= p /\ s[j].marker = IF j = p THEN m ELSE NoMarker
  BY <1>1 DEF First
<1> HIDE DEF n, u
<1>4. PICK q \in 1..(n + 1) : q = IF p <= i THEN p ELSE p + 1
  BY <1>1
<1>5. u[q].id \in own
  <2>1. CASE p < i
    BY <1>1, <1>2, <1>3, <1>4, <2>1
  <2>2. CASE p = i
    BY <1>1, <1>2, <1>3, <1>4, <2>2
  <2>3. CASE p > i
    <3>1. q = p + 1 /\ ~(q < i) /\ q # i /\ q # i + 1 /\ q - 1 = p
      BY <1>1, <1>4, <2>3
    <3> QED
      BY <1>2, <1>3, <3>1
  <2> QED
    BY <1>1, <2>1, <2>2, <2>3
<1>6. ASSUME NEW j \in 1..(n + 1), u[j].id \in own
      PROVE  j >= q /\ u[j].marker = IF j = q THEN m ELSE NoMarker
  <2>1. CASE j < i
    <3>1. u[j] = s[j] /\ j \in 1..n
      BY <1>1, <1>2, <2>1
    <3>2. j >= p /\ s[j].marker = IF j = p THEN m ELSE NoMarker
      BY <1>3, <1>6, <3>1
    <3>3. q = p
      BY <1>1, <1>4, <2>1, <3>2
    <3> QED
      BY <3>1, <3>2, <3>3
  <2>2. CASE j = i
    <3>1. u[j] = one /\ s[i].id \in own
      BY <1>1, <1>2, <1>6, <2>2
    <3>2. i >= p /\ s[i].marker = IF i = p THEN m ELSE NoMarker
      BY <1>1, <1>3, <3>1
    <3>3. q = p
      BY <1>4, <3>2
    <3> QED
      BY <2>2, <3>1, <3>2, <3>3
  <2>3. CASE j = i + 1
    <3>1. u[j] = two /\ s[i].id \in own
      BY <1>1, <1>2, <1>6, <2>3
    <3>2. i >= p
      BY <1>1, <1>3, <3>1
    <3>3. q = p /\ j # q /\ j >= q
      BY <1>1, <1>4, <2>3, <3>2
    <3> QED
      BY <3>1, <3>3
  <2>4. CASE j > i + 1
    <3>1. u[j] = s[j - 1] /\ j - 1 \in 1..n
      BY <1>1, <1>2, <2>4
    <3>2. j - 1 >= p /\ s[j - 1].marker = IF j - 1 = p THEN m ELSE NoMarker
      BY <1>3, <1>6, <3>1
    <3>3. j >= q /\ (j = q <=> j - 1 = p)
      BY <1>1, <1>4, <2>4, <3>2
    <3> QED
      BY <3>1, <3>2, <3>3
  <2> QED
    BY <1>1, <2>1, <2>2, <2>3, <2>4
<1>7. First(u, own, m)
  BY <1>2, <1>5, <1>6 DEF First
<1> QED
  BY <1>7 DEF u

(* No two members of a list for the same element have a tag in common.     *)
TagsOnce(s) ==
    \A i, j \in DOMAIN s : i # j /\ s[i].id = s[j].id => Range(s[i].tags) \cap Range(s[j].tags) = {}

LEMMA TagsFollow ==
    ASSUME NEW s, NEW t, IsList(s), IsList(t), TagsOnce(s), TagsOnce(t),
           \A x \in Range(s), y \in Range(t) : x.id = y.id => Range(x.tags) \cap Range(y.tags) = {}
    PROVE  TagsOnce(s \o t)
<1> DEFINE a == Len(s)
           b == Len(t)
           u == s \o t
<1>1. /\ a \in Nat /\ DOMAIN s = 1..a /\ b \in Nat /\ DOMAIN t = 1..b
      /\ \A i \in 1..a : s[i] \in Range(s)
      /\ \A i \in 1..b : t[i] \in Range(t)
  BY ListPlaces DEF Places
<1>2. DOMAIN u = 1..(a + b) /\ \A i \in 1..(a + b) : u[i] = IF i <= a THEN s[i] ELSE t[i - a]
  BY ListFollows DEF Follows, Places
<1> HIDE DEF a, b, u
<1>3. ASSUME NEW i \in 1..(a + b), NEW j \in 1..(a + b), i # j, u[i].id = u[j].id
      PROVE  Range(u[i].tags) \cap Range(u[j].tags) = {}
  <2>1. CASE i <= a /\ j <= a
    <3>1. i \in 1..a /\ j \in 1..a /\ u[i] = s[i] /\ u[j] = s[j]
      BY <1>1, <1>2, <2>1
    <3> QED
      BY <1>1, <1>3, <3>1 DEF TagsOnce
  <2>2. CASE i > a /\ j > a
    <3>1. i - a \in 1..b /\ j - a \in 1..b /\ u[i] = t[i - a] /\ u[j] = t[j - a] /\ i - a # j - a
      BY <1>1, <1>2, <1>3, <2>2
    <3> QED
      BY <1>1, <1>3, <3>1 DEF TagsOnce
  <2>3. CASE i <= a /\ j > a
    <3>1. i \in 1..a /\ j - a \in 1..b /\ u[i] = s[i] /\ u[j] = t[j - a]
      BY <1>1, <1>2, <2>3
    <3> QED
      BY <1>1, <1>3, <3>1
  <2>4. CASE i > a /\ j <= a
    <3>1. i - a \in 1..b /\ j \in 1..a /\ u[i] = t[i - a] /\ u[j] = s[j]
      BY <1>1, <1>2, <2>4
    <3> QED
      BY <1>1, <1>3, <3>1
  <2> QED
    BY <1>1, <2>1, <2>2, <2>3, <2>4
<1>4. TagsOnce(u)
  BY <1>2, <1>3 DEF TagsOnce
<1> QED
  BY <1>4 DEF u

LEMMA TagsCut ==
    ASSUME NEW s, IsList(s), NEW i \in DOMAIN s, NEW one, NEW two, TagsOnce(s),
           one.id = s[i].id, two.id = s[i].id, one.tags = s[i].tags, Range(two.tags) = {}
    PROVE  TagsOnce(Cut(s, i, one, two))
<1> DEFINE n == Len(s)
           u == Cut(s, i, one, two)
<1>1. /\ n \in Nat /\ DOMAIN s = 1..n /\ i \in 1..n
  BY ListPlaces DEF Places
<1>2. /\ DOMAIN u = 1..(n + 1)
      /\ \A j \in 1..(n + 1) : u[j] = IF j < i THEN s[j] ELSE IF j = i THEN one
                                      ELSE IF j = i + 1 THEN two ELSE s[j - 1]
  BY CutFacts, ListPlaces DEF CutPlaces, Places
<1> HIDE DEF n, u
<1> DEFINE was(j) == IF j <= i THEN j ELSE j - 1
<1>3. \A j \in 1..(n + 1) : /\ was(j) \in 1..n /\ u[j].id = s[was(j)].id
                            /\ j # i + 1 => u[j].tags = s[was(j)].tags
                            /\ j = i + 1 => Range(u[j].tags) = {}
  <2> TAKE j \in 1..(n + 1)
  <2>1. CASE j < i
    BY <1>1, <1>2, <2>1
  <2>2. CASE j = i
    BY <1>1, <1>2, <2>2
  <2>3. CASE j = i + 1
    <3>1. u[j] = two /\ was(j) = i
      BY <1>1, <1>2, <2>3
    <3> QED
      BY <1>1, <2>3, <3>1
  <2>4. CASE j > i + 1
    BY <1>1, <1>2, <2>4
  <2> QED
    BY <1>1, <2>1, <2>2, <2>3, <2>4
<1>4. ASSUME NEW j \in 1..(n + 1), NEW k \in 1..(n + 1), j # k, u[j].id = u[k].id
      PROVE  Range(u[j].tags) \cap Range(u[k].tags) = {}
  <2>1. CASE j = i + 1 \/ k = i + 1
    BY <1>3, <2>1
  <2>2. CASE j # i + 1 /\ k # i + 1
    <3>1. was(j) # was(k)
      BY <1>1, <1>4, <2>2
    <3>2. was(j) \in 1..n /\ was(k) \in 1..n /\ s[was(j)].id = s[was(k)].id
          /\ u[j].tags = s[was(j)].tags /\ u[k].tags = s[was(k)].tags
      BY <1>3, <1>4, <2>2
    <3> HIDE DEF was
    <3> QED
      BY <1>1, <3>1, <3>2 DEF TagsOnce
  <2> QED
    BY <2>1, <2>2
<1>5. TagsOnce(u)
  BY <1>2, <1>4 DEF TagsOnce
<1> QED
  BY <1>5 DEF u

-----------------------------------------------------------------------------
(* Lists of elements that have nothing in common.                          *)
Unrelated(list) == IsInjective(list) /\ \A y, z \in Range(list) : y # z => Disjoint(y, z)

LEMMA KidsSeparate ==
    ASSUME ConvInv, NEW x \in Ids
    PROVE  Unrelated(children[x]) /\ Unrelated(contents[x]) /\ Unrelated(contents[x] \o children[x])
BY ListsApart, UnderFacts DEF Unrelated, Kids

LEMMA JoinedKids ==
    ASSUME ConvInv, NEW list \in Seq(Ids), Unrelated(list)
    PROVE  /\ Joined(list, children) \in Seq(Ids) /\ Unrelated(Joined(list, children))
           /\ \A z \in Range(Joined(list, children)) : \E x \in Range(list) : z \in Kids(x)
<1> DEFINE j == Joined(list, children)
<1>1. Range(list) \subseteq Ids
  BY RangeOf
<1>2. Joins(Ids, list, children)
  BY <1>1, ListsApart DEF Joins
<1>3. j \in Seq(Ids)
  BY <1>2, JoinedType
<1>4. \A x, y \in Range(list) : x # y => Disjoint(x, y)
  BY DEF Unrelated
<1>5. \A x \in Range(list) : \A z \in Kids(x) : z \in Under(x) /\ Under(z) \subseteq Under(x)
  BY <1>1, UnderFacts
<1>6. Apart(list, children)
  <2>1. \A x \in Range(list) : IsInjective(children[x]) /\ Range(children[x]) \subseteq Under(x)
    BY <1>1, <1>5, ListsApart DEF Kids
  <2> QED
    BY <1>4, <2>1 DEF Apart, Unrelated, Disjoint
<1>7. /\ \A z \in Range(j) : \E x \in Range(list) : z \in Kids(x)
      /\ IsInjective(j)
  <2>1. /\ \A z : z \in Range(j) <=> \E x \in Range(list) : z \in Range(children[x])
        /\ IsInjective(j)
    BY <1>2, <1>6, JoinedFacts
  <2> QED
    BY <2>1 DEF Kids
<1> HIDE DEF j
<1>8. ASSUME NEW y \in Range(j), NEW z \in Range(j), y # z PROVE Disjoint(y, z)
  <2>1. PICK a \in Range(list) : y \in Kids(a)
    BY <1>7
  <2>2. PICK b \in Range(list) : z \in Kids(b)
    BY <1>7
  <2>3. CASE a = b
    BY <1>1, <1>8, <2>1, <2>2, <2>3, UnderFacts
  <2>4. CASE a # b
    <3>1. Disjoint(a, b) /\ Under(y) \subseteq Under(a) /\ Under(z) \subseteq Under(b)
      BY <1>4, <1>5, <2>1, <2>2, <2>4
    <3> QED
      BY <3>1 DEF Disjoint
  <2> QED
    BY <2>3, <2>4
<1> QED
  BY <1>3, <1>7, <1>8 DEF Unrelated, j

LEMMA CellsApart ==
    ASSUME ConvInv
    PROVE  \A x \in Ids : IsInjective(CellContent[x]) /\ Range(CellContent[x]) \subseteq Under(x)
<1> DEFINE F == CellContent
           Fine == {x \in Ids : IsInjective(F[x]) /\ Range(F[x]) \subseteq Under(x)}
<1>1. TreeIsFile
  BY DEF ConvInv
<1>2. F \in [Ids -> Seq(Ids)] /\ \A x \in Ids : CellStep(x)
  BY CellIs
<1>3. 5 * Len(tree) \in Nat /\ IdRank \in [Ids -> 0..(5 * Len(tree))]
  BY <1>1, RankFacts
<1> HIDE DEF F
<1>4. ASSUME NEW x \in Ids, \A y \in Ids : IdRank[y] > IdRank[x] => y \in Fine
      PROVE  x \in Fine
  <2>1. CASE Kind(x) = "OutlineElement"
    <3> DEFINE c == contents[x] \o children[x]
    <3>1. /\ F[x] = Joined(c, F) /\ c \in Seq(Ids) /\ Range(c) = Range(children[x]) \cup Range(contents[x])
          /\ Unrelated(c)
      BY <1>2, <2>1, ListsApart, KidsSeparate DEF CellStep, F
    <3> HIDE DEF c
    <3>2. Range(c) = Kids(x)
      BY <3>1 DEF Kids
    <3>3. \A y \in Range(c) : y \in Ids /\ IdRank[y] > IdRank[x] /\ Under(y) \subseteq Under(x)
      BY <3>2, KidFacts, UnderFacts
    <3>4. \A y \in Range(c) : IsInjective(F[y]) /\ Range(F[y]) \subseteq Under(y)
      BY <1>4, <3>3
    <3>5. Joins(Ids, c, F)
      BY <1>2, <3>3 DEF Joins
    <3>6. Apart(c, F)
      <4>1. ASSUME NEW y \in Range(c), NEW z \in Range(c), y # z PROVE Range(F[y]) \cap Range(F[z]) = {}
        <5>1. Disjoint(y, z)
          BY <3>1, <4>1 DEF Unrelated
        <5> QED
          BY <3>4, <5>1 DEF Disjoint
      <4>2. IsInjective(c)
        BY <3>1 DEF Unrelated
      <4> QED
        BY <3>4, <4>1, <4>2 DEF Apart
    <3>7. /\ \A z : z \in Range(Joined(c, F)) <=> \E y \in Range(c) : z \in Range(F[y])
          /\ IsInjective(Joined(c, F))
      BY <3>1, <3>5, <3>6, JoinedFacts
    <3>8. Range(Joined(c, F)) \subseteq Under(x)
      BY <3>3, <3>4, <3>7
    <3> QED
      BY <3>1, <3>7, <3>8
  <2>2. CASE Kind(x) # "OutlineElement"
    <3>1. F[x] \in {<<>>, <<x>>}
      BY <1>2, <2>2 DEF CellStep, F
    <3>2. x \in Under(x)
      BY UnderFacts
    <3>3. IsInjective(<<x>>) /\ Range(<<x>>) = {x} /\ IsInjective(<<>>) /\ Range(<<>>) = {}
      BY OneMember, RangeEmpty
    <3> QED
      BY <3>1, <3>2, <3>3
  <2> QED
    BY <2>1, <2>2
<1>5. Ids \subseteq Fine
  <2> HIDE DEF Fine
  <2> QED
    BY <1>3, <1>4, RankInduction
<1> QED
  BY <1>5 DEF F

(* What is drawn of a table: nothing twice, and nothing but its own.       *)
LEMMA InnerFacts ==
    ASSUME ConvInv, NEW x \in Ids
    PROVE  LET inner == Joined(Joined(Joined(children[x], children), children), CellContent) IN
           inner \in Seq(Ids) /\ IsInjective(inner) /\ \A z \in Range(inner) : z \in Under(x) /\ z # x
<1> DEFINE rows  == children[x]
           cells == Joined(rows, children)
           found == Joined(cells, children)
           inner == Joined(found, CellContent)
           Inside(list) == \A z \in Range(list) : z \in Ids /\ Under(z) \subseteq Under(x) /\ x \notin Under(z)
<1>1. rows \in Seq(Ids) /\ Unrelated(rows) /\ Inside(rows)
  <2>1. rows \in Seq(Ids) /\ Unrelated(rows)
    BY ListsApart, KidsSeparate
  <2>2. \A z \in Range(rows) : z \in Kids(x)
    BY DEF Kids
  <2> QED
    BY <2>1, <2>2, UnderFacts
<1>2. ASSUME NEW list \in Seq(Ids), Inside(list), NEW j, \A z \in Range(j) : \E y \in Range(list) : z \in Kids(y)
      PROVE  Inside(j)
  <2> TAKE z \in Range(j)
  <2>1. PICK y \in Range(list) : z \in Kids(y)
    BY <1>2
  <2>2. y \in Ids /\ Under(y) \subseteq Under(x) /\ x \notin Under(y)
    BY <1>2, <2>1
  <2>3. z \in Ids /\ Under(z) \subseteq Under(y)
    BY <2>1, <2>2, UnderFacts
  <2> QED
    BY <2>2, <2>3
<1> HIDE DEF Inside, rows
<1>3. cells \in Seq(Ids) /\ Unrelated(cells) /\ Inside(cells)
  BY <1>1, <1>2, JoinedKids
<1> HIDE DEF cells
<1>4. found \in Seq(Ids) /\ Unrelated(found) /\ Inside(found)
  BY <1>2, <1>3, JoinedKids
<1> HIDE DEF found
<1>5. CellContent \in [Ids -> Seq(Ids)] /\ Range(found) \subseteq Ids
  BY <1>4, CellIs, RangeOf
<1>6. Joins(Ids, found, CellContent)
  BY <1>5 DEF Joins
<1>7. \A y \in Range(found) : IsInjective(CellContent[y]) /\ Range(CellContent[y]) \subseteq Under(y)
  BY <1>5, CellsApart
<1>8. Apart(found, CellContent)
  <2>1. ASSUME NEW y \in Range(found), NEW z \in Range(found), y # z
        PROVE  Range(CellContent[y]) \cap Range(CellContent[z]) = {}
    <3>1. Disjoint(y, z)
      BY <1>4, <2>1 DEF Unrelated
    <3> QED
      BY <1>7, <3>1 DEF Disjoint
  <2> QED
    BY <1>4, <1>7, <2>1 DEF Apart, Unrelated
<1>9. inner \in Seq(Ids) /\ IsInjective(inner)
      /\ \A z \in Range(inner) : \E y \in Range(found) : z \in Range(CellContent[y])
  BY <1>4, <1>6, <1>8, JoinedType, JoinedFacts
<1>10. \A z \in Range(inner) : z \in Under(x) /\ z # x
  BY <1>4, <1>7, <1>9 DEF Inside
<1> QED
  BY <1>9, <1>10 DEF found, cells, rows

(* Icons: every tag once.                                                  *)
DedupTurn(t, tag) == IF tag \in Range(t) THEN t ELSE Append(t, tag)
DedupLoop(g, tags) ==
    /\ g \in [0..Len(tags) -> Seq(Range(tags))]
    /\ g[0] = <<>> /\ Deduped(tags) = g[Len(tags)]
    /\ \A k \in 1..Len(tags) : g[k] = DedupTurn(g[k - 1], tags[k])

LEMMA DedupedIs ==
    ASSUME NEW S, NEW tags \in Seq(S)
    PROVE  \E g : DedupLoop(g, tags)
<1> DEFINE n == Len(tags)
           R == Range(tags)
           turn  == [k \in Nat \ {0} |-> [t \in Seq(R) |->
                       IF k \in 1..n THEN DedupTurn(t, tags[k]) ELSE t]]
           Is(f) == f = [k \in 0..n |-> IF k = 0 THEN <<>> ELSE DedupTurn(f[k - 1], tags[k])]
           out   == CHOOSE f : Is(f)
<1>1. n \in Nat /\ <<>> \in Seq(R) /\ R \subseteq S /\ \A k \in 1..n : tags[k] \in R
  BY LenProperties, EmptySeq, RangeOf
<1> HIDE DEF n, R
<1>2. turn \in [Nat \ {0} -> [Seq(R) -> Seq(R)]]
  <2> SUFFICES ASSUME NEW k \in 1..n, NEW t \in Seq(R)
               PROVE  DedupTurn(t, tags[k]) \in Seq(R)
    OBVIOUS
  <2>1. Append(t, tags[k]) \in Seq(R)
    BY <1>1, AppendProperties
  <2> QED
    BY <2>1 DEF DedupTurn
<1>3. PICK g \in [0..n -> Seq(R)] : IsLoop(g, n, <<>>, turn)
  <2> HIDE DEF turn
  <2> QED
    BY <1>1, <1>2, LoopExists
<1>4. g[0] = <<>> /\ \A k \in 1..n : g[k] = turn[k][g[k - 1]]
  BY <1>3 DEF IsLoop
<1>5. \A k \in 1..n : g[k] = DedupTurn(g[k - 1], tags[k])
  <2> TAKE k \in 1..n
  <2>1. k \in Nat \ {0} /\ k - 1 \in 0..n /\ k \in 1..n
    BY <1>1
  <2>2. g[k - 1] \in Seq(R)
    BY <2>1
  <2> QED
    BY <1>4, <2>1, <2>2
<1>6. Is(g)
  <2>1. \A k \in 0..n : k # 0 => k \in 1..n
    BY <1>1
  <2>2. \A k \in 0..n : g[k] = IF k = 0 THEN <<>> ELSE DedupTurn(g[k - 1], tags[k])
    BY <1>4, <1>5, <2>1
  <2>3. g = [k \in 0..n |-> g[k]]
    OBVIOUS
  <2> QED
    BY <2>2, <2>3
<1>7. Is(out)
  <2> HIDE DEF Is
  <2> QED
    BY <1>6
<1>8. PICK h : Is(h) /\ Deduped(tags) = h[n]
  <2>1. Deduped(tags) = out[n]
    BY DEF Deduped, DedupTurn, n
  <2> HIDE DEF Is, out
  <2> QED
    BY <1>7, <2>1
<1>9. h[0] = <<>> /\ \A k \in 1..n : h[k] = DedupTurn(h[k - 1], tags[k])
  <2>1. 0 \in 0..n /\ \A k \in 1..n : k \in 0..n /\ k # 0
    BY <1>1
  <2> QED
    BY <1>8, <2>1
<1>10. h[n] = g[n]
  <2>1. h[0] = g[0]
    BY <1>4, <1>9
  <2>2. \A k \in 1..n : h[k - 1] = g[k - 1] => h[k] = g[k]
    BY <1>5, <1>9
  <2> QED
    BY <1>1, <2>1, <2>2, StepsAgree
<1> QED
  BY <1>4, <1>5, <1>8, <1>10 DEF DedupLoop, n, R

LEMMA DedupedFacts ==
    ASSUME NEW tags, IsList(tags)
    PROVE  IsInjective(Deduped(tags)) /\ (tags = <<>> => Deduped(tags) = <<>>)
<1> DEFINE n == Len(tags)
           R == Range(tags)
<1>1. PICK S : tags \in Seq(S)
  BY DEF IsList
<1>2. n \in Nat /\ \A k \in 1..n : tags[k] \in R
  BY <1>1, LenProperties, RangeOf
<1>3. PICK g : DedupLoop(g, tags)
  BY <1>1, DedupedIs
<1>4. /\ g \in [0..n -> Seq(R)] /\ g[0] = <<>> /\ Deduped(tags) = g[n]
      /\ \A k \in 1..n : g[k] = DedupTurn(g[k - 1], tags[k])
  BY <1>3 DEF DedupLoop
<1>5. tags = <<>> => n = 0
  BY EmptySeq
<1> HIDE DEF n, R
<1> DEFINE Fine == {k \in 0..n : IsInjective(g[k])}
<1>6. 0 \in Fine
  BY <1>2, <1>4, RangeEmpty
<1>7. ASSUME NEW k \in 1..n, k - 1 \in Fine PROVE k \in Fine
  <2> DEFINE t == g[k - 1]
  <2>1. t \in Seq(R) /\ IsInjective(t) /\ k \in 0..n
    BY <1>2, <1>4, <1>7
  <2>2. g[k] = DedupTurn(t, tags[k]) /\ tags[k] \in R
    BY <1>2, <1>4
  <2> HIDE DEF t
  <2>3. tags[k] \notin Range(t) => IsInjective(Append(t, tags[k]))
    BY <2>1, <2>2, RangeAppend
  <2> QED
    BY <2>1, <2>2, <2>3 DEF DedupTurn
<1> HIDE DEF Fine
<1>8. n \in Fine
  BY <1>2, <1>6, <1>7, UpTo
<1> QED
  BY <1>4, <1>5, <1>8 DEF Fine

LEMMA TagsListed ==
    ASSUME ConvInv, NEW x \in Ids, x > 0
    PROVE  IsList(Tags(x))
<1>1. <<>> \in Seq(STRING)
  BY EmptySeq
<1>2. TreeIsFile
  BY DEF ConvInv
<1>3. x \in Nat /\ Len(tree) \in Nat /\ Nodes = 1..Len(tree) /\ \A i \in Nodes : tree[i] \in TreeNode
  BY <1>2, IdNumbers, RankFacts
<1>4. ~(x > Len(tree)) => tree[x].tags \in Seq(STRING)
  <2> SUFFICES ASSUME ~(x > Len(tree)) PROVE tree[x].tags \in Seq(STRING)
    OBVIOUS
  <2>1. tree[x] \in TreeNode
    BY <1>3
  <2> QED
    BY <2>1 DEF TreeNode
<1> QED
  BY <1>1, <1>4 DEF Tags, IsList

-----------------------------------------------------------------------------
(* Tasks that have nothing in common.                                      *)
Clash(s, t) == s.id # 0 /\ t.id # 0 /\ ~Disjoint(s.id, t.id)
Spread(w)   == \A i, j \in DOMAIN w : i # j => ~Clash(w[i], w[j])

LEMMA SpreadFollow ==
    ASSUME NEW s, NEW t, IsList(s), IsList(t), Spread(s), Spread(t),
           \A x \in Range(s), y \in Range(t) : ~Clash(x, y)
    PROVE  Spread(s \o t)
<1> DEFINE a == Len(s)
           b == Len(t)
           u == s \o t
<1>1. /\ a \in Nat /\ DOMAIN s = 1..a /\ b \in Nat /\ DOMAIN t = 1..b
      /\ \A i \in 1..a : s[i] \in Range(s)
      /\ \A i \in 1..b : t[i] \in Range(t)
  BY ListPlaces DEF Places
<1>2. DOMAIN u = 1..(a + b) /\ \A i \in 1..(a + b) : u[i] = IF i <= a THEN s[i] ELSE t[i - a]
  BY ListFollows DEF Follows, Places
<1> HIDE DEF a, b, u
<1>3. ASSUME NEW i \in 1..(a + b), NEW j \in 1..(a + b), i # j
      PROVE  ~Clash(u[i], u[j])
  <2>1. CASE i <= a /\ j <= a
    <3>1. i \in 1..a /\ j \in 1..a /\ u[i] = s[i] /\ u[j] = s[j]
      BY <1>1, <1>2, <2>1
    <3> QED
      BY <1>1, <1>3, <3>1 DEF Spread
  <2>2. CASE i > a /\ j > a
    <3>1. i - a \in 1..b /\ j - a \in 1..b /\ u[i] = t[i - a] /\ u[j] = t[j - a] /\ i - a # j - a
      BY <1>1, <1>2, <1>3, <2>2
    <3> QED
      BY <1>1, <1>3, <3>1 DEF Spread
  <2>3. CASE i <= a /\ j > a
    <3>1. i \in 1..a /\ j - a \in 1..b /\ u[i] = s[i] /\ u[j] = t[j - a]
      BY <1>1, <1>2, <2>3
    <3> QED
      BY <1>1, <3>1
  <2>4. CASE i > a /\ j <= a
    <3>1. i - a \in 1..b /\ j \in 1..a /\ u[i] = t[i - a] /\ u[j] = s[j]
      BY <1>1, <1>2, <2>4
    <3>2. ~Clash(u[j], u[i])
      BY <1>1, <3>1
    <3> QED
      BY <3>2 DEF Clash, Disjoint
  <2> QED
    BY <1>1, <2>1, <2>2, <2>3, <2>4
<1>4. Spread(u)
  BY <1>2, <1>3 DEF Spread
<1> QED
  BY <1>4 DEF u

LEMMA SpreadTail ==
    ASSUME NEW w, IsList(w), w # <<>>, Spread(w)
    PROVE  Spread(Tail(w)) /\ \A t \in Range(Tail(w)) : ~Clash(Head(w), t)
<1> DEFINE a == Len(w)
           t == Tail(w)
<1>1. /\ a \in Nat \ {0} /\ DOMAIN w = 1..a /\ Head(w) = w[1]
      /\ Len(t) = a - 1 /\ DOMAIN t = 1..(a - 1) /\ \A i \in 1..(a - 1) : t[i] = w[i + 1]
      /\ \A x : x \in Range(t) <=> \E i \in 1..(a - 1) : x = t[i]
  <2>1. /\ IsList(t) /\ a \in Nat \ {0} /\ Len(t) = a - 1 /\ Head(w) = w[1]
        /\ \A i \in 1..(a - 1) : t[i] = w[i + 1]
    BY TailPlaces
  <2>2. DOMAIN w = 1..a /\ Places(t)
    BY ListPlaces DEF Places
  <2> HIDE DEF t, a
  <2> QED
    BY <2>1, <2>2 DEF Places
<1> HIDE DEF a, t
<1>2. \A i \in 1..(a - 1) : i + 1 \in 1..a /\ i + 1 # 1 /\ 1 \in 1..a
  BY <1>1
<1>3. ASSUME NEW i \in 1..(a - 1), NEW j \in 1..(a - 1), i # j PROVE ~Clash(t[i], t[j])
  <2>1. i + 1 \in 1..a /\ j + 1 \in 1..a /\ i + 1 # j + 1 /\ t[i] = w[i + 1] /\ t[j] = w[j + 1]
    BY <1>1, <1>3
  <2> QED
    BY <1>1, <2>1 DEF Spread
<1>4. ASSUME NEW x \in Range(t) PROVE ~Clash(Head(w), x)
  <2>1. PICK i \in 1..(a - 1) : x = t[i]
    BY <1>1
  <2>2. x = w[i + 1]
    BY <1>1, <2>1
  <2> QED
    BY <1>1, <1>2, <2>2 DEF Spread
<1> QED
  BY <1>1, <1>3, <1>4 DEF Spread, t

-----------------------------------------------------------------------------
(* What is still to be rendered: tasks w and pages c with nothing in       *)
(* common.  What is drawn or marked lies in none of them.                  *)
WorkStands(w) == IsList(w) /\ Spread(w) /\ \A t \in Range(w) : t.id \in Ids /\ IsList(t.tags)
Stands(w, c)  ==
    /\ WorkStands(w) /\ c \subseteq Range(Pages)
    /\ \A t \in Range(w), p \in c : t.id # 0 => Disjoint(t.id, p)
Past(x, w, c) ==
    /\ \A t \in Range(w) : t.id # 0 => x \notin Under(t.id)
    /\ \A p \in c : x \notin Under(p)
StoryStands(s) ==
    IsList(s) /\ TagsOnce(s) /\ \A f \in Range(s) : IsFlowable(f) /\ IsInjective(f.tags)
Behind(s, ms, w, c) ==
    /\ \A f \in Range(s) : Past(f.id, w, c)
    /\ \A m \in Range(ms) : m.id \in Ids /\ Past(m.id, w, c)

TextsOf(e) == {x \in Range(contents[e]) : IsText(x)}
MarkedIn(own, m, s, w) ==
    (First(w, own, m) /\ Without(s, own)) \/ (First(s, own, m) /\ Bare(w, own))
Marked(m, s, w) ==
    m.marker # NoMarker /\ TextsOf(m.id) # {} => MarkedIn(TextsOf(m.id), m.marker, s, w)
MarksStand(ms, s, w) == IsList(ms) /\ \A m \in Range(ms) : Marked(m, s, w)

StoryGoes(w, c, s, ms) ==
    Stands(w, c) /\ StoryStands(s) /\ Behind(s, ms, w, c) /\ MarksStand(ms, s, w)

LeftBy(t, fl) == \A f \in Range(fl) : t.id # 0 /\ f.id \in Under(t.id)

HeadLeaves(w, c, s, ms, fl) ==
    /\ Stands(Tail(w), c) /\ StoryStands(s \o fl) /\ Behind(s \o fl, ms, Tail(w), c)
    /\ Range(s \o fl) = Range(s) \cup Range(fl)

LEMMA TextsFacts ==
    ASSUME ConvInv, NEW e \in Ids
    PROVE  \A z \in TextsOf(e) : z \in Kids(e) /\ z # 0 /\ e = Owner(z) /\ Kind(z) = "RichText"
<1> TAKE z \in TextsOf(e)
<1>1. z \in Kids(e) /\ Kind(z) = "RichText"
  BY DEF TextsOf, Kids, IsText
<1> QED
  BY <1>1, KidFacts

(* A text inside a task that has not come yet is not of an element marked. *)
LEMMA OwnFresh ==
    ASSUME ConvInv, NEW w, NEW c, NEW s, NEW ms, StoryGoes(w, c, s, ms),
           NEW t \in Range(w), t.id # 0, NEW m \in Range(ms), NEW z \in Under(t.id), z \in TextsOf(m.id)
    PROVE  z = t.id
<1> SUFFICES ASSUME z # t.id PROVE FALSE
  OBVIOUS
<1>1. t.id \in Ids /\ m.id \in Ids /\ m.id \notin Under(t.id)
  BY DEF StoryGoes, Stands, WorkStands, Behind, Past
<1>2. Owner(z) \in Under(t.id) /\ m.id = Owner(z)
  BY <1>1, OwnerUnder, TextsFacts
<1> QED
  BY <1>1, <1>2

LEMMA HeadStands ==
    ASSUME NEW w, NEW c, Stands(w, c), w # <<>>
    PROVE  /\ Head(w) \in Range(w) /\ Head(w).id \in Ids /\ IsList(Head(w).tags)
           /\ IsList(Tail(w)) /\ Range(Tail(w)) \subseteq Range(w) /\ Stands(Tail(w), c)
           /\ \A t \in Range(Tail(w)) : ~Clash(Head(w), t)
<1>1. IsList(w) /\ Spread(w) /\ \A t \in Range(w) : t.id \in Ids /\ IsList(t.tags)
  BY DEF Stands, WorkStands
<1>2. IsList(Tail(w)) /\ Range(Tail(w)) \subseteq Range(w) /\ Head(w) \in Range(w)
  BY <1>1, ListTail
<1>3. Spread(Tail(w)) /\ \A t \in Range(Tail(w)) : ~Clash(Head(w), t)
  BY <1>1, SpreadTail
<1> QED
  BY <1>1, <1>2, <1>3 DEF Stands, WorkStands

(* What lies under the next task is past when it is done.                  *)
LEMMA PastHead ==
    ASSUME NEW w, NEW c, Stands(w, c), w # <<>>, Head(w).id # 0, NEW z \in Under(Head(w).id)
    PROVE  Past(z, Tail(w), c)
<1>1. /\ Head(w) \in Range(w) /\ Range(Tail(w)) \subseteq Range(w)
      /\ \A t \in Range(Tail(w)) : ~Clash(Head(w), t)
  BY HeadStands
<1>2. \A t \in Range(Tail(w)) : t.id # 0 => z \notin Under(t.id)
  BY <1>1 DEF Clash, Disjoint
<1>3. \A p \in c : z \notin Under(p)
  BY <1>1 DEF Stands, Disjoint
<1> QED
  BY <1>2, <1>3 DEF Past

LEMMA StoryFollow ==
    ASSUME NEW s, NEW t, StoryStands(s), StoryStands(t),
           \A f \in Range(s), g \in Range(t) : f.id = g.id => Range(f.tags) \cap Range(g.tags) = {}
    PROVE  StoryStands(s \o t) /\ Range(s \o t) = Range(s) \cup Range(t)
<1>1. IsList(s) /\ IsList(t) /\ TagsOnce(s) /\ TagsOnce(t)
  BY DEF StoryStands
<1>2. IsList(s \o t) /\ Range(s \o t) = Range(s) \cup Range(t)
  BY <1>1, ListConcat
<1>3. TagsOnce(s \o t)
  BY <1>1, TagsFollow
<1> QED
  BY <1>2, <1>3 DEF StoryStands

(* The next task is done and leaves its flowables.                         *)
LEMMA HeadDone ==
    ASSUME ConvInv, NEW w, NEW c, NEW s, NEW ms, NEW fl, StoryGoes(w, c, s, ms), w # <<>>,
           StoryStands(fl), LeftBy(Head(w), fl)
    PROVE  HeadLeaves(w, c, s, ms, fl)
<1>1. Stands(w, c) /\ StoryStands(s) /\ Behind(s, ms, w, c)
  BY DEF StoryGoes
<1>2. Stands(Tail(w), c) /\ Head(w) \in Range(w) /\ Range(Tail(w)) \subseteq Range(w)
  BY <1>1, HeadStands
<1>3. \A f \in Range(s), g \in Range(fl) : f.id # g.id
  <2> SUFFICES ASSUME NEW f \in Range(s), NEW g \in Range(fl), f.id = g.id PROVE FALSE
    OBVIOUS
  <2>1. Head(w).id # 0 /\ f.id \in Under(Head(w).id)
    BY DEF LeftBy
  <2> QED
    BY <1>1, <1>2, <2>1 DEF Behind, Past
<1>4. StoryStands(s \o fl) /\ Range(s \o fl) = Range(s) \cup Range(fl)
  BY <1>1, <1>3, StoryFollow
<1>5. \A x : Past(x, w, c) => Past(x, Tail(w), c)
  BY <1>2 DEF Past
<1>6. \A f \in Range(fl) : Past(f.id, Tail(w), c)
  BY <1>1, PastHead DEF LeftBy
<1> QED
  BY <1>1, <1>2, <1>4, <1>5, <1>6 DEF Behind, HeadLeaves

LEMMA OtherDone ==
    ASSUME ConvInv, NEW w, NEW c, NEW s, NEW ms, NEW fl, StoryGoes(w, c, s, ms), w # <<>>,
           StoryStands(fl), LeftBy(Head(w), fl),
           ~IsText(Head(w).id)
    PROVE  StoryGoes(Tail(w), c, s \o fl, ms)
<1>1. /\ Stands(Tail(w), c) /\ StoryStands(s \o fl) /\ Behind(s \o fl, ms, Tail(w), c)
      /\ Range(s \o fl) = Range(s) \cup Range(fl)
  <2>1. HeadLeaves(w, c, s, ms, fl)
    BY HeadDone
  <2> QED
    BY <2>1 DEF HeadLeaves
<1>2. Stands(w, c) /\ IsList(w) /\ IsList(s) /\ IsList(fl) /\ IsList(ms) /\ Behind(s, ms, w, c)
  BY DEF StoryGoes, Stands, WorkStands, StoryStands, MarksStand
<1>3. Head(w) \in Range(w) /\ Range(Tail(w)) \subseteq Range(w) /\ IsList(Tail(w))
  BY <1>2, HeadStands
<1>4. ASSUME NEW m \in Range(ms), m.marker # NoMarker, TextsOf(m.id) # {}
      PROVE  MarkedIn(TextsOf(m.id), m.marker, s \o fl, Tail(w))
  <2> DEFINE own == TextsOf(m.id)
  <2>1. MarkedIn(own, m.marker, s, w)
    BY <1>4 DEF StoryGoes, MarksStand, Marked
  <2>2. m.id \in Ids
    BY <1>2 DEF Behind
  <2>3. Head(w).id \notin own
    BY DEF TextsOf
  <2>4. Without(fl, own)
    <3> SUFFICES ASSUME NEW f \in Range(fl), f.id \in own PROVE FALSE
      BY DEF Without
    <3>0. Head(w).id # 0 /\ f.id \in Under(Head(w).id) /\ f.id \in TextsOf(m.id) /\ Head(w) \in Range(w)
      BY <1>3 DEF LeftBy
    <3> DEFINE z == f.id
               t == Head(w)
    <3>1. z = t.id
      <4>1. t \in Range(w) /\ t.id # 0 /\ z \in Under(t.id) /\ z \in TextsOf(m.id)
        BY <3>0
      <4> HIDE DEF z, t, own
      <4> QED
        BY <4>1, OwnFresh
    <3> QED
      BY <2>3, <3>1
  <2> HIDE DEF own
  <2>5. CASE First(w, own, m.marker) /\ Without(s, own)
    <3>1. First(Tail(w), own, m.marker)
      BY <1>2, <2>3, <2>5, FirstTail
    <3>2. Without(s \o fl, own)
      BY <1>1, <2>4, <2>5 DEF Without
    <3> QED
      BY <3>1, <3>2 DEF MarkedIn, own
  <2>6. CASE First(s, own, m.marker) /\ Bare(w, own)
    <3>1. Bare(Tail(w), own)
      BY <1>3, <2>6 DEF Bare
    <3>2. Bare(fl, own)
      BY <2>4 DEF Without, Bare
    <3>3. First(s \o fl, own, m.marker)
      BY <1>2, <2>6, <3>2, FirstBefore
    <3> QED
      BY <3>1, <3>3 DEF MarkedIn, own
  <2> QED
    BY <2>1, <2>5, <2>6 DEF MarkedIn
<1>5. MarksStand(ms, s \o fl, Tail(w))
  BY <1>2, <1>4 DEF MarksStand, Marked
<1> QED
  BY <1>1, <1>5 DEF StoryGoes

(* The text of the next task is drawn, with its marker if it has one.      *)
LEMMA TextDone ==
    ASSUME ConvInv, NEW w, NEW c, NEW s, NEW ms, NEW f, StoryGoes(w, c, s, ms), w # <<>>,
           Head(w).id # 0, IsFlowable(f), IsInjective(f.tags), f.id = Head(w).id, f.marker = Head(w).marker
    PROVE  StoryGoes(Tail(w), c, s \o <<f>>, ms)
<1> DEFINE fl == <<f>>
<1>1. IsList(fl) /\ Range(fl) = {f}
  BY ListSmall
<1>2. Stands(w, c) /\ IsList(w) /\ IsList(s) /\ IsList(ms) /\ Behind(s, ms, w, c)
  BY DEF StoryGoes, Stands, WorkStands, StoryStands, MarksStand
<1>3. Head(w) \in Range(w) /\ Range(Tail(w)) \subseteq Range(w) /\ IsList(Tail(w)) /\ Head(w).id \in Ids
  BY <1>2, HeadStands
<1>4. StoryStands(fl)
  <2>1. DOMAIN fl = {1}
    OBVIOUS
  <2>2. TagsOnce(fl)
    BY <2>1 DEF TagsOnce
  <2> HIDE DEF fl
  <2> QED
    BY <1>1, <2>2 DEF StoryStands
<1>5. Head(w).id \in Under(Head(w).id)
  BY <1>3, UnderFacts
<1>6. LeftBy(Head(w), fl)
  BY <1>1, <1>5 DEF LeftBy
<1> HIDE DEF fl
<1>7. /\ Stands(Tail(w), c) /\ StoryStands(s \o fl) /\ Behind(s \o fl, ms, Tail(w), c)
      /\ Range(s \o fl) = Range(s) \cup Range(fl)
  <2>1. HeadLeaves(w, c, s, ms, fl)
    BY <1>4, <1>6, HeadDone
  <2> QED
    BY <2>1 DEF HeadLeaves
<1>8. ASSUME NEW m \in Range(ms), m.marker # NoMarker, TextsOf(m.id) # {}
      PROVE  MarkedIn(TextsOf(m.id), m.marker, s \o fl, Tail(w))
  <2> DEFINE own == TextsOf(m.id)
  <2>1. MarkedIn(own, m.marker, s, w)
    BY <1>8 DEF StoryGoes, MarksStand, Marked
  <2> HIDE DEF own
  <2>2. CASE First(w, own, m.marker) /\ Without(s, own)
    <3>1. /\ Head(w).id \notin own => First(Tail(w), own, m.marker)
          /\ Head(w).id \in own => Head(w).marker = m.marker /\ Bare(Tail(w), own)
      BY <1>2, <2>2, FirstTail
    <3>2. CASE Head(w).id \notin own
      <4>1. Without(s \o fl, own)
        BY <1>1, <1>7, <2>2, <3>2 DEF Without
      <4> QED
        BY <3>1, <3>2, <4>1 DEF MarkedIn, own
    <3>3. CASE Head(w).id \in own
      <4>1. First(fl, own, m.marker)
        BY <3>1, <3>3, FirstOne DEF fl
      <4>2. First(s \o fl, own, m.marker)
        BY <1>1, <1>2, <2>2, <4>1, FirstAfter
      <4> QED
        BY <3>1, <3>3, <4>2 DEF MarkedIn, own
    <3> QED
      BY <3>2, <3>3
  <2>3. CASE First(s, own, m.marker) /\ Bare(w, own)
    <3>1. Bare(Tail(w), own) /\ (Head(w).id \in own => Head(w).marker = NoMarker)
      BY <1>3, <2>3 DEF Bare
    <3>2. Bare(fl, own)
      BY <1>1, <3>1 DEF Bare
    <3>3. First(s \o fl, own, m.marker)
      BY <1>1, <1>2, <2>3, <3>2, FirstBefore
    <3> QED
      BY <3>1, <3>3 DEF MarkedIn, own
  <2> QED
    BY <2>1, <2>2, <2>3 DEF MarkedIn
<1>9. MarksStand(ms, s \o fl, Tail(w))
  BY <1>2, <1>8 DEF MarksStand, Marked
<1>10. StoryGoes(Tail(w), c, s \o fl, ms)
  BY <1>7, <1>9 DEF StoryGoes
<1> QED
  BY <1>10 DEF fl

MadeOf(f, S) == \A t \in Range(f) : t.id \in S /\ t.id # 0
Unmarked(f)  == \A t \in Range(f) : t.marker = NoMarker
Inner(x, v)  == \A t \in Range(v) : t.id = 0 \/ t.id \in Kids(x)

LEMMA MadeStands ==
    ASSUME NEW seq \in Seq(Ids), Unrelated(seq), NEW f, f = [i \in 1..Len(seq) |-> f[i]],
           \A i \in 1..Len(seq) : f[i].id = seq[i] /\ IsList(f[i].tags)
    PROVE  WorkStands(f) /\ DOMAIN f = 1..Len(seq) /\ \A t \in Range(f) : \E i \in 1..Len(seq) : t = f[i]
<1> DEFINE n == Len(seq)
<1>1. n \in Nat /\ DOMAIN seq = 1..n /\ \A i \in 1..n : seq[i] \in Range(seq) /\ seq[i] \in Ids
  BY LenProperties, RangeOf
<1>2. f = [i \in 1..n |-> f[i]] /\ \A i \in 1..n : f[i].id = seq[i] /\ IsList(f[i].tags)
  OBVIOUS
<1>3. DOMAIN f = 1..n
  BY <1>2
<1> HIDE DEF n
<1>4. IsList(f) /\ \A t \in Range(f) : \E i \in 1..n : t = f[i]
  BY <1>1, <1>2, ListMade
<1>5. ASSUME NEW i \in 1..n, NEW j \in 1..n, i # j PROVE Disjoint(seq[i], seq[j])
  <2>1. seq[i] # seq[j]
    BY <1>1, <1>5 DEF Unrelated, IsInjective
  <2> QED
    BY <1>1, <2>1 DEF Unrelated
<1>6. Spread(f)
  BY <1>2, <1>3, <1>5 DEF Spread, Clash
<1>7. \A t \in Range(f) : t.id \in Ids /\ IsList(t.tags)
  <2> TAKE t \in Range(f)
  <2>1. PICK i \in 1..n : t = f[i]
    BY <1>4
  <2> QED
    BY <1>1, <1>2, <2>1
<1> QED
  BY <1>3, <1>4, <1>6, <1>7 DEF WorkStands, n

LEMMA TasksStand ==
    ASSUME ConvInv, NEW seq \in Seq(Ids), Unrelated(seq), \A y \in Range(seq) : y > 0, NEW level
    PROVE  /\ WorkStands(Tasks(seq, level)) /\ MadeOf(Tasks(seq, level), Range(seq))
           /\ Unmarked(Tasks(seq, level))
<1> DEFINE f == Tasks(seq, level)
           n == Len(seq)
           tags(i) == IF Kind(seq[i]) = "RichText" THEN Tags(seq[i]) ELSE <<>>
<1>1. n \in Nat /\ DOMAIN seq = 1..n /\ \A i \in 1..n : seq[i] \in Range(seq) /\ seq[i] \in Ids
  BY LenProperties, RangeOf
<1>2. ASSUME NEW i \in 1..n PROVE IsList(tags(i))
  <2>1. seq[i] \in Ids /\ seq[i] > 0
    BY <1>1
  <2>2. IsList(Tags(seq[i])) /\ IsList(<<>>)
    BY <2>1, TagsListed, ListSmall
  <2> QED
    BY <2>2
<1>3. f = [i \in 1..n |-> f[i]]
      /\ \A i \in 1..n : f[i].id = seq[i] /\ f[i].tags = tags(i) /\ f[i].marker = NoMarker
  BY <1>1 DEF Tasks, Task
<1> HIDE DEF f, tags
<1>4. \A i \in 1..n : f[i].id = seq[i] /\ IsList(f[i].tags)
  BY <1>2, <1>3
<1>5. WorkStands(f) /\ \A t \in Range(f) : \E i \in 1..n : t = f[i]
  BY <1>3, <1>4, MadeStands
<1> HIDE DEF n
<1>6. \A t \in Range(f) : t.id \in Range(seq) /\ t.id # 0 /\ t.marker = NoMarker
  <2> TAKE t \in Range(f)
  <2>1. PICK i \in 1..n : t = f[i]
    BY <1>5
  <2>2. t.id = seq[i] /\ t.marker = NoMarker /\ seq[i] \in Range(seq) /\ seq[i] \in Ids /\ seq[i] > 0
    BY <1>1, <1>3, <2>1
  <2> QED
    BY <2>2
<1> QED
  BY <1>5, <1>6 DEF MadeOf, Unmarked, f

(* The first text of a list item, and no other, gets the marker.           *)
LEMMA ItemTasksStand ==
    ASSUME ConvInv, NEW elem \in Ids, elem > 0, NEW level, NEW marker
    PROVE  /\ WorkStands(ItemTasks(elem, level, marker))
           /\ MadeOf(ItemTasks(elem, level, marker), Range(contents[elem]))
           /\ TextsOf(elem) # {} => First(ItemTasks(elem, level, marker), TextsOf(elem), marker)
<1> DEFINE f == ItemTasks(elem, level, marker)
           seq == contents[elem]
           n == Len(seq)
           own == TextsOf(elem)
           places == {i \in 1..n : IsText(seq[i])}
           first  == SelectInSeq(seq, IsText)
           tagged == SelectInSeq(seq, LAMBDA x : Kind(x) = "RichText" /\ Tags(x) # <<>>)
           tags   == Tags(elem) \o IF tagged = 0 THEN <<>> ELSE Tags(seq[tagged])
           shown(i) == IF Kind(seq[i]) = "RichText" /\ i = first THEN tags ELSE <<>>
<1>1. seq \in Seq(Ids) /\ Unrelated(seq) /\ \A y \in Range(seq) : y \in Kids(elem)
  BY ListsApart, KidsSeparate DEF Kids
<1>2. /\ n \in Nat /\ DOMAIN seq = 1..n
      /\ \A i \in 1..n : seq[i] \in Range(seq) /\ seq[i] \in Ids /\ seq[i] > 0
  <2>1. n \in Nat /\ DOMAIN seq = 1..n /\ \A i \in 1..n : seq[i] \in Range(seq) /\ seq[i] \in Ids
    BY <1>1, LenProperties, RangeOf
  <2> HIDE DEF seq, n
  <2> QED
    BY <1>1, <2>1, KidFacts
<1>3. IsList(tags)
  <2>1. tagged = 0 \/ tagged \in 1..n
    <3> DEFINE I == {i \in 1..n : Kind(seq[i]) = "RichText" /\ Tags(seq[i]) # <<>>}
    <3>1. tagged = IF I # {} THEN Min(I) ELSE 0
      BY DEF SelectInSeq
    <3>2. I \subseteq Nat
      OBVIOUS
    <3>3. I # {} => \E x \in I : \A y \in I : x <= y
      <4> HIDE DEF I
      <4> QED
        BY <3>2, LeastNatural
    <3>4. I # {} => Min(I) \in I
      <4> HIDE DEF I
      <4> QED
        BY <3>3 DEF Min
    <3> HIDE DEF tagged
    <3> QED
      BY <3>1, <3>4
  <2> HIDE DEF tagged, n, seq
  <2>2. IsList(Tags(elem)) /\ IsList(<<>>) /\ (tagged \in 1..n => IsList(Tags(seq[tagged])))
    BY <1>2, TagsListed, ListSmall
  <2> DEFINE rest == IF tagged = 0 THEN <<>> ELSE Tags(seq[tagged])
             own1 == Tags(elem)
  <2>3. IsList(rest) /\ IsList(own1)
    BY <2>1, <2>2
  <2> HIDE DEF rest, own1
  <2>4. IsList(own1 \o rest)
    BY <2>3, ListConcat
  <2> QED
    BY <2>4 DEF own1, rest
<1>4. /\ f = [i \in 1..n |-> f[i]]
      /\ \A i \in 1..n : /\ f[i].id = seq[i] /\ f[i].tags = shown(i)
                         /\ f[i].marker = IF Kind(seq[i]) = "RichText" /\ i = first THEN marker ELSE NoMarker
  BY <1>2 DEF ItemTasks, Task
<1>5. /\ first = IF places # {} THEN Min(places) ELSE 0
  BY DEF SelectInSeq
<1> HIDE DEF tagged, tags, first
<1>6. \A i \in 1..n : IsList(shown(i))
  BY <1>3, ListSmall
<1> HIDE DEF shown, f
<1>7. \A i \in 1..n : f[i].id = seq[i] /\ IsList(f[i].tags)
  BY <1>4, <1>6
<1>8. WorkStands(f) /\ DOMAIN f = 1..n /\ \A t \in Range(f) : \E i \in 1..n : t = f[i]
  <2> HIDE DEF seq
  <2> QED
    BY <1>1, <1>4, <1>7, MadeStands
<1> HIDE DEF n
<1>9. MadeOf(f, Range(seq))
  <2> SUFFICES ASSUME NEW t \in Range(f) PROVE t.id \in Range(seq) /\ t.id # 0
    BY DEF MadeOf
  <2>1. PICK i \in 1..n : t = f[i]
    BY <1>8
  <2>2. t.id = seq[i] /\ seq[i] \in Range(seq) /\ seq[i] > 0 /\ seq[i] \in Ids
    BY <1>2, <1>4, <2>1
  <2> QED
    BY <2>2
<1>10. ASSUME own # {} PROVE First(f, own, marker)
  <2>1. \A i \in 1..n : seq[i] \in own <=> i \in places
    BY <1>2 DEF TextsOf
  <2>2. places # {}
    <3>1. PICK z \in own : TRUE
      BY <1>10
    <3>2. z \in Range(seq)
      BY DEF TextsOf
    <3>3. PICK i \in 1..n : z = seq[i]
      BY <1>2, <3>2 DEF Range
    <3> QED
      BY <2>1, <3>3
  <2>3. first \in places /\ \A i \in places : first <= i
    <3>1. places \subseteq Nat
      OBVIOUS
    <3> HIDE DEF places
    <3>2. \E x \in places : \A y \in places : x <= y
      BY <2>2, <3>1, LeastNatural
    <3> QED
      BY <1>5, <2>2, <3>2 DEF Min
  <2>4. ASSUME NEW j \in 1..n, f[j].id \in own
        PROVE  j >= first /\ f[j].marker = IF j = first THEN marker ELSE NoMarker
    <3>1. j \in places /\ Kind(seq[j]) = "RichText"
      BY <1>4, <2>1, <2>4 DEF IsText
    <3> QED
      BY <1>2, <1>4, <2>3, <3>1
  <2>5. first \in 1..n /\ f[first].id \in own
    BY <1>4, <2>1, <2>3
  <2> QED
    BY <1>8, <2>4, <2>5 DEF First
<1> QED
  BY <1>8, <1>9, <1>10 DEF f

(* The next task is replaced by tasks for what it holds.                   *)
Opened(w, c, s, ms, v) ==
    /\ StoryGoes(v \o Tail(w), c, s, ms) /\ Past(Head(w).id, v \o Tail(w), c)
    /\ Without(s, TextsOf(Head(w).id)) /\ Without(Tail(w), TextsOf(Head(w).id))

LEMMA TaskOpened ==
    ASSUME ConvInv, NEW w, NEW c, NEW s, NEW ms, NEW v, StoryGoes(w, c, s, ms), w # <<>>,
           Head(w).id # 0, Kind(Head(w).id) # "RichText", WorkStands(v), Inner(Head(w).id, v)
    PROVE  Opened(w, c, s, ms, v)
<1> DEFINE x == Head(w).id
           z == Tail(w)
           u == v \o z
<1>1. Stands(w, c) /\ Behind(s, ms, w, c) /\ IsList(w) /\ IsList(s) /\ IsList(ms)
  BY DEF StoryGoes, Stands, WorkStands, StoryStands, MarksStand
<1>2. /\ Head(w) \in Range(w) /\ x \in Ids /\ IsList(z) /\ Range(z) \subseteq Range(w) /\ Stands(z, c)
      /\ \A t \in Range(z) : ~Clash(Head(w), t)
  BY <1>1, HeadStands
<1>3. /\ x \in Under(x) /\ \A y \in Kids(x) : Under(y) \subseteq Under(x) /\ x \notin Under(y)
  BY <1>2, UnderFacts
<1>4. x # 0 /\ Kind(x) # "RichText"
  OBVIOUS
<1>5. IsList(u) /\ Range(u) = Range(v) \cup Range(z) /\ IsList(v)
  BY <1>2, ListConcat DEF WorkStands
<1>6. \A t \in Range(z) : t.id # 0 => Disjoint(x, t.id)
  BY <1>2, <1>4 DEF Clash
<1>7. \A t \in Range(v) : t.id # 0 => Under(t.id) \subseteq Under(x) /\ x \notin Under(t.id)
  BY <1>3 DEF Inner
<1> HIDE DEF x, z
<1>8. Spread(u)
  <2>1. \A a \in Range(v), b \in Range(z) : ~Clash(a, b)
    BY <1>6, <1>7 DEF Clash, Disjoint
  <2>2. Spread(v) /\ Spread(z)
    BY <1>2 DEF Stands, WorkStands
  <2> QED
    BY <1>2, <1>5, <2>1, <2>2, SpreadFollow
<1>9. \A p \in c : Disjoint(x, p)
  BY <1>1, <1>2, <1>4 DEF Stands, x
<1> HIDE DEF u
<1>10. Stands(u, c)
  <2>1. \A t \in Range(u) : t.id \in Ids /\ IsList(t.tags)
    BY <1>2, <1>5 DEF Stands, WorkStands
  <2>2. \A t \in Range(u), p \in c : t.id # 0 => Disjoint(t.id, p)
    <3> SUFFICES ASSUME NEW t \in Range(u), NEW p \in c, t.id # 0 PROVE Disjoint(t.id, p)
      OBVIOUS
    <3>1. CASE t \in Range(v)
      BY <1>7, <1>9, <3>1 DEF Disjoint
    <3>2. CASE t \in Range(z)
      BY <1>2, <3>2 DEF Stands
    <3> QED
      BY <1>5, <3>1, <3>2
  <2> QED
    BY <1>1, <1>5, <1>8, <2>1, <2>2 DEF Stands, WorkStands
<1>11. \A y : Past(y, w, c) => Past(y, u, c)
  <2> SUFFICES ASSUME NEW y, Past(y, w, c), NEW t \in Range(u), t.id # 0 PROVE y \notin Under(t.id)
    BY DEF Past
  <2>1. y \notin Under(x)
    BY <1>2, <1>4 DEF Past, x
  <2>2. CASE t \in Range(v)
    BY <1>7, <2>1, <2>2
  <2>3. CASE t \in Range(z)
    BY <1>2, <2>3 DEF Past
  <2> QED
    BY <1>5, <2>2, <2>3
<1>12. Past(x, u, c)
  <2>1. \A t \in Range(u) : t.id # 0 => x \notin Under(t.id)
    BY <1>3, <1>5, <1>6, <1>7 DEF Disjoint
  <2> QED
    BY <1>3, <1>9, <2>1 DEF Past, Disjoint
<1>13. Behind(s, ms, u, c)
  BY <1>1, <1>11 DEF Behind
<1>14. \A m \in Range(ms) : m.id \in Ids /\ m.id \notin Under(x)
  BY <1>1, <1>2, <1>4 DEF Behind, Past, x
<1>15. ASSUME NEW m \in Range(ms), m.marker # NoMarker, TextsOf(m.id) # {}
       PROVE  MarkedIn(TextsOf(m.id), m.marker, s, u)
  <2> DEFINE own == TextsOf(m.id)
  <2>1. MarkedIn(own, m.marker, s, w)
    BY <1>15 DEF StoryGoes, MarksStand, Marked
  <2>2. \A y \in own : y \in Kids(m.id) /\ y # 0 /\ m.id = Owner(y) /\ Kind(y) = "RichText"
    BY <1>14, TextsFacts
  <2>3. Without(v, own)
    <3> SUFFICES ASSUME NEW t \in Range(v), t.id \in own PROVE FALSE
      BY DEF Without
    <3>1. t.id \in Kids(x) /\ m.id = Owner(t.id)
      BY <2>2 DEF Inner, x
    <3>2. x = m.id
      BY <1>2, <3>1, KidFacts
    <3> QED
      BY <1>3, <1>14, <3>2
  <2>4. x \notin own
    BY <1>4, <2>2
  <2> HIDE DEF own
  <2>5. CASE First(w, own, m.marker) /\ Without(s, own)
    <3>1. First(z, own, m.marker)
      BY <1>1, <2>4, <2>5, FirstTail DEF x, z
    <3>2. First(u, own, m.marker)
      BY <1>2, <1>5, <2>3, <3>1, FirstAfter DEF u
    <3> QED
      BY <2>5, <3>2 DEF MarkedIn, own
  <2>6. CASE First(s, own, m.marker) /\ Bare(w, own)
    <3>1. Bare(u, own)
      BY <1>2, <1>5, <2>3, <2>6 DEF Bare, Without
    <3> QED
      BY <2>6, <3>1 DEF MarkedIn, own
  <2> QED
    BY <2>1, <2>5, <2>6 DEF MarkedIn
<1>16. MarksStand(ms, s, u)
  BY <1>1, <1>15 DEF MarksStand, Marked
<1>17. StoryGoes(u, c, s, ms)
  BY <1>10, <1>13, <1>16 DEF StoryGoes
<1>18. \A y \in TextsOf(x) : y \in Under(x)
  BY <1>2, TextsFacts, UnderFacts
<1>19. Without(s, TextsOf(x))
  BY <1>1, <1>2, <1>4, <1>18 DEF Without, Behind, Past, x
<1>20. Without(z, TextsOf(x))
  <2> SUFFICES ASSUME NEW t \in Range(z), t.id \in TextsOf(x) PROVE FALSE
    BY DEF Without
  <2>1. t.id \in Ids /\ t.id # 0 /\ t.id \in Under(x)
    BY <1>2, <1>18, TextsFacts DEF Stands, WorkStands
  <2>2. t.id \in Under(t.id)
    BY <2>1, UnderFacts
  <2> QED
    BY <1>6, <2>1, <2>2 DEF Disjoint
<1> QED
  BY <1>12, <1>17, <1>19, <1>20 DEF Opened, u, x, z

(* A page begins when nothing is left of the page before.                  *)
LEMMA PageOpened ==
    ASSUME ConvInv, NEW c, NEW s, NEW ms, StoryGoes(<<>>, c, s, ms), NEW p \in c,
           NEW v, WorkStands(v), MadeOf(v, Kids(p)), Unmarked(v),
           NEW fl, StoryStands(fl), \A f \in Range(fl) : f.id = p
    PROVE  StoryGoes(v, c \ {p}, s \o fl, ms)
<1> DEFINE d == c \ {p}
           u == s \o fl
<1>1. /\ c \subseteq Range(Pages) /\ Behind(s, ms, <<>>, c) /\ IsList(s) /\ IsList(ms) /\ StoryStands(s)
      /\ IsList(v) /\ IsList(fl)
  BY DEF StoryGoes, Stands, StoryStands, MarksStand, WorkStands
<1>2. p \in Ids /\ Kind(p) = "Page" /\ \A q \in d : Disjoint(p, q) /\ q \in Range(Pages)
  BY <1>1, PagesFacts, PagesApart
<1>3. p \in Under(p) /\ \A y \in Kids(p) : Under(y) \subseteq Under(p) /\ p \notin Under(y)
  BY <1>2, UnderFacts
<1>4. \A y : Past(y, <<>>, c) => y \notin Under(p) /\ Past(y, v, d)
  BY <1>3 DEF Past, MadeOf
<1>5. \A f \in Range(s) : f.id \notin Under(p) /\ f.id # p
  BY <1>1, <1>3, <1>4 DEF Behind
<1>6. StoryStands(u) /\ Range(u) = Range(s) \cup Range(fl)
  BY <1>1, <1>5, StoryFollow
<1> HIDE DEF u
<1>7. Stands(v, d)
  <2>1. \A t \in Range(v), q \in d : t.id # 0 => Disjoint(t.id, q)
    BY <1>2, <1>3 DEF MadeOf, Disjoint
  <2> QED
    BY <1>1, <2>1 DEF Stands
<1>8. Past(p, v, d)
  BY <1>2, <1>3 DEF Past, MadeOf, Disjoint
<1>9. Behind(u, ms, v, d)
  BY <1>1, <1>4, <1>6, <1>8 DEF Behind
<1>10. ASSUME NEW m \in Range(ms), m.marker # NoMarker, TextsOf(m.id) # {}
       PROVE  MarkedIn(TextsOf(m.id), m.marker, u, v)
  <2> DEFINE own == TextsOf(m.id)
  <2>1. MarkedIn(own, m.marker, s, <<>>)
    BY <1>10 DEF StoryGoes, MarksStand, Marked
  <2>2. p \notin own
    BY <1>1, <1>2, TextsFacts DEF Behind
  <2> HIDE DEF own
  <2>3. ~First(<<>>, own, m.marker)
    <3>1. DOMAIN <<>> = {}
      OBVIOUS
    <3> QED
      BY <3>1 DEF First
  <2>4. First(s, own, m.marker)
    BY <2>1, <2>3 DEF MarkedIn
  <2>5. Bare(fl, own) /\ Bare(v, own)
    BY <2>2 DEF Bare, Unmarked
  <2>6. First(u, own, m.marker)
    BY <1>1, <2>4, <2>5, FirstBefore DEF u
  <2> QED
    BY <2>5, <2>6 DEF MarkedIn, own
<1>11. MarksStand(ms, u, v)
  BY <1>1, <1>10 DEF MarksStand, Marked
<1>12. StoryGoes(v, d, u, ms)
  BY <1>6, <1>7, <1>9, <1>11 DEF StoryGoes
<1> QED
  BY <1>12 DEF u

(* An element gets its mark.                                               *)
LEMMA MarkGiven ==
    ASSUME ConvInv, NEW w, NEW c, NEW s, NEW ms, StoryGoes(w, c, s, ms), NEW m,
           m.id \in Ids, Past(m.id, w, c),
           m.marker # NoMarker /\ TextsOf(m.id) # {} => First(w, TextsOf(m.id), m.marker),
           Without(s, TextsOf(m.id))
    PROVE  StoryGoes(w, c, s, Append(ms, m))
<1>1. Stands(w, c) /\ StoryStands(s) /\ Behind(s, ms, w, c) /\ MarksStand(ms, s, w) /\ IsList(ms)
  BY DEF StoryGoes, MarksStand
<1>2. IsList(Append(ms, m)) /\ Range(Append(ms, m)) = Range(ms) \cup {m}
  <2>1. PICK S : ms \in Seq(S)
    BY <1>1 DEF IsList
  <2> DEFINE B == S \cup {m}
  <2>2. S \subseteq B /\ m \in B
    OBVIOUS
  <2> HIDE DEF B
  <2>3. ms \in Seq(B)
    BY <2>1, <2>2, WiderList
  <2>4. Append(ms, m) \in Seq(B) /\ Range(Append(ms, m)) = Range(ms) \cup {m}
    BY <2>2, <2>3, RangeAppend, AppendProperties
  <2> QED
    BY <2>4 DEF IsList
<1>3. Marked(m, s, w)
  BY DEF Marked, MarkedIn
<1>4. MarksStand(Append(ms, m), s, w)
  BY <1>1, <1>2, <1>3 DEF MarksStand
<1>5. Behind(s, Append(ms, m), w, c)
  BY <1>1, <1>2 DEF Behind
<1> QED
  BY <1>1, <1>4, <1>5 DEF StoryGoes

-----------------------------------------------------------------------------
(* The steps of the story keep what stands between them.                   *)
ComingFrom(n) == {Pages[q] : q \in n..Len(Pages)}
MarksGo  == ConvInv /\ page \in Nat \ {0} /\ StoryGoes(work, ComingFrom(page), story, marks)
NextGoes == page' \in Nat \ {0} /\ StoryGoes(work', ComingFrom(page'), story', marks')
PlainStory(s, x) == StoryStands(s) /\ \A f \in Range(s) : f.id = x /\ f.tags = <<>>
ShownAs(s, x)    == StoryStands(s) /\ \A f \in Range(s) : f.id = x

LEMMA ListAssoc ==
    ASSUME NEW s, NEW t, NEW u, IsList(s), IsList(t), IsList(u)
    PROVE  (s \o t) \o u = s \o (t \o u) /\ s \o <<>> = s
<1>1. PICK S : s \in Seq(S)
  BY DEF IsList
<1>2. PICK T : t \in Seq(T)
  BY DEF IsList
<1>3. PICK U : u \in Seq(U)
  BY DEF IsList
<1> DEFINE B == (S \cup T) \cup U
<1>4. S \subseteq B /\ T \subseteq B /\ U \subseteq B
  OBVIOUS
<1> HIDE DEF B
<1>5. s \in Seq(B) /\ t \in Seq(B) /\ u \in Seq(B)
  BY <1>1, <1>2, <1>3, <1>4, WiderList
<1>6. (s \o t) \o u = s \o (t \o u)
  BY <1>5, ConcatAssociative
<1>7. s \o <<>> = s
  BY <1>5, ConcatEmptySeq
<1> QED
  BY <1>6, <1>7

FlowsAs(f, id, marker, tags) ==
    /\ IsFlowable(f) /\ f.id = id /\ f.marker = marker /\ IsInjective(f.tags)
    /\ tags = <<>> => f.tags = <<>>
    /\ StoryStands(<<f>>) /\ Range(<<f>>) = {f}

LEMMA FlowableStands ==
    ASSUME NEW what, NEW id, NEW marker, NEW tags, IsList(tags), NEW lines
    PROVE  FlowsAs(Flowable(what, id, marker, tags, lines), id, marker, tags)
<1> DEFINE f == Flowable(what, id, marker, tags, lines)
           s == <<f>>
           d == Deduped(tags)
<1>1. f = [what |-> what, id |-> id, marker |-> marker, tags |-> d, lines |-> lines]
  BY DEF Flowable
<1>2. IsInjective(d) /\ (tags = <<>> => d = <<>>)
  BY DedupedFacts
<1> HIDE DEF d, f
<1>3. IsFlowable(f) /\ f.id = id /\ f.marker = marker /\ f.tags = d
  BY <1>1 DEF IsFlowable
<1>4. DOMAIN s = {1}
  OBVIOUS
<1>5. IsList(s) /\ Range(s) = {f}
  BY ListSmall
<1>6. TagsOnce(s)
  BY <1>4 DEF TagsOnce
<1> HIDE DEF s
<1>7. StoryStands(s)
  BY <1>2, <1>3, <1>5, <1>6 DEF StoryStands
<1> QED
  BY <1>2, <1>3, <1>5, <1>7 DEF s, f, FlowsAs

LEMMA PlainFacts ==
    ASSUME NEW x
    PROVE  PlainStory(<<>>, x) /\ \A what : PlainStory(<<Plain(what, x)>>, x)
<1>1. PlainStory(<<>>, x)
  <2>1. IsList(<<>>) /\ Range(<<>>) = {}
    BY ListSmall
  <2>2. DOMAIN <<>> = {}
    OBVIOUS
  <2>3. TagsOnce(<<>>)
    BY <2>2 DEF TagsOnce
  <2> QED
    BY <2>1, <2>3 DEF PlainStory, StoryStands
<1>2. ASSUME NEW what PROVE PlainStory(<<Plain(what, x)>>, x)
  <2> DEFINE f == Flowable(what, x, NoMarker, <<>>, 1)
  <2>1. IsList(<<>>)
    BY ListSmall
  <2>2. f.id = x /\ f.tags = <<>> /\ StoryStands(<<f>>) /\ Range(<<f>>) = {f}
    BY <2>1, FlowableStands DEF FlowsAs
  <2>3. Plain(what, x) = f
    BY DEF Plain
  <2> HIDE DEF f
  <2> QED
    BY <2>2, <2>3 DEF PlainStory
<1> QED
  BY <1>1, <1>2

LEMMA PlainFollow ==
    ASSUME NEW s, NEW t, NEW x, ShownAs(s, x), PlainStory(t, x)
    PROVE  ShownAs(s \o t, x)
<1>1. \A f \in Range(s), g \in Range(t) : Range(f.tags) \cap Range(g.tags) = {}
  <2>1. Range(<<>>) = {}
    BY RangeEmpty
  <2> QED
    BY <2>1 DEF PlainStory
<1>2. StoryStands(s \o t) /\ Range(s \o t) = Range(s) \cup Range(t)
  BY <1>1, StoryFollow DEF ShownAs, PlainStory
<1> QED
  BY <1>2 DEF ShownAs, PlainStory

LEMMA IconsStand ==
    ASSUME ConvInv, NEW x \in Ids, x > 0
    PROVE  ShownAs(Icons(x), x) /\ \A what : ShownAs(Icons(x) \o <<Plain(what, x)>>, x)
<1>1. ShownAs(Icons(x), x)
  <2>1. CASE Tags(x) = <<>>
    <3>1. Icons(x) = <<>>
      BY <2>1 DEF Icons
    <3> QED
      BY <3>1, PlainFacts DEF PlainStory, ShownAs
  <2>2. CASE Tags(x) # <<>>
    <3> DEFINE f == Flowable("icons", x, NoMarker, Tags(x), 1)
    <3>1. IsList(Tags(x))
      BY TagsListed
    <3>2. f.id = x /\ StoryStands(<<f>>) /\ Range(<<f>>) = {f}
      BY <3>1, FlowableStands DEF FlowsAs
    <3>3. Icons(x) = <<f>>
      BY <2>2 DEF Icons
    <3> HIDE DEF f
    <3> QED
      BY <3>2, <3>3 DEF ShownAs
  <2> QED
    BY <2>1, <2>2
<1>2. \A what : PlainStory(<<Plain(what, x)>>, x)
  BY PlainFacts
<1> QED
  BY <1>1, <1>2, PlainFollow

(* The head of the work.                                                   *)
LEMMA TopStands ==
    ASSUME MarksGo, work # <<>>
    PROVE  /\ top.id \in Ids /\ IsList(top.tags) /\ IsList(story) /\ IsList(marks)
           /\ top.id > 0 <=> top.id # 0
           /\ top.id # 0 => top.id \in Under(top.id)
<1>1. Stands(work, ComingFrom(page)) /\ IsList(story) /\ IsList(marks) /\ ConvInv
  BY DEF MarksGo, StoryGoes, StoryStands, MarksStand
<1>2. Head(work).id \in Ids /\ IsList(Head(work).tags)
  BY <1>1, HeadStands
<1>3. top.id \in Under(top.id)
  BY <1>1, <1>2, UnderFacts DEF top
<1>4. Ids \subseteq Nat
  BY <1>1, IdNumbers DEF ConvInv
<1>5. top.id \in Ids /\ IsList(top.tags)
  BY <1>2 DEF top
<1>6. top.id \in Nat
  BY <1>4, <1>5
<1>7. top.id > 0 <=> top.id # 0
  BY <1>6
<1> QED
  BY <1>1, <1>3, <1>5, <1>7

LEMMA DoneGoes ==
    ASSUME MarksGo, work # <<>>, ~IsText(top.id), NEW fl, Done(fl), StoryStands(fl), LeftBy(top, fl)
    PROVE  NextGoes
<1>1. StoryGoes(Tail(work), ComingFrom(page), story \o fl, marks)
  BY OtherDone DEF MarksGo, top
<1> QED
  BY <1>1 DEF MarksGo, NextGoes, Done

LEMMA ShownGoes ==
    ASSUME MarksGo, work # <<>>, top.id > 0, ~IsText(top.id), NEW fl, Done(fl), ShownAs(fl, top.id)
    PROVE  NextGoes
<1>1. top.id # 0 /\ top.id \in Under(top.id)
  BY TopStands
<1>2. LeftBy(top, fl)
  BY <1>1 DEF LeftBy, ShownAs
<1> QED
  BY <1>2, DoneGoes DEF ShownAs

LEMMA OtherGoes ==
    ASSUME MarksGo, RenderImage \/ RenderFile \/ PassElement
    PROVE  NextGoes
<1> DEFINE x == top.id
<1>1. work # <<>> /\ x > 0 /\ Kind(x) # "RichText"
  BY DEF RenderImage, RenderFile, PassElement, Rendering
<1>2. \/ Done(<<>>) \/ \E what : Done(Icons(x) \o <<Plain(what, x)>>)
  BY DEF RenderImage, RenderFile, PassElement
<1>3. x \in Ids /\ ConvInv /\ ~IsText(x)
  BY <1>1, TopStands DEF MarksGo, IsText
<1>4. ShownAs(<<>>, x) /\ \A what : ShownAs(Icons(x) \o <<Plain(what, x)>>, x)
  BY <1>1, <1>3, IconsStand, PlainFacts DEF PlainStory, ShownAs
<1> QED
  BY <1>1, <1>2, <1>3, <1>4, ShownGoes

LEMMA RenderTextGoes ==
    ASSUME MarksGo, RenderText
    PROVE  NextGoes
<1> DEFINE x == top.id
           tags == top.tags
           marker == top.marker
           lines  == tree[x].lines
           f == Flowable("text", x, marker, tags, lines)
<1>1. work # <<>> /\ x > 0 /\ Done(IF tree[x].text THEN <<f>> ELSE <<>>)
  BY DEF RenderText, Rendering
<1>2. x # 0 /\ IsList(tags)
  BY <1>1, TopStands
<1> HIDE DEF tags, marker, lines
<1>3. CASE ~tree[x].text
  <2>1. ~IsText(x) /\ Done(<<>>)
    BY <1>1, <1>3 DEF IsText
  <2>2. ShownAs(<<>>, x)
    BY PlainFacts DEF PlainStory, ShownAs
  <2> HIDE DEF f
  <2> QED
    BY <1>1, <2>1, <2>2, ShownGoes
<1>4. CASE tree[x].text
  <2>1. IsFlowable(f) /\ IsInjective(f.tags) /\ f.id = x /\ f.marker = marker
    <3>1. FlowsAs(f, x, marker, tags)
      BY <1>2, FlowableStands
    <3> HIDE DEF f
    <3> QED
      BY <3>1 DEF FlowsAs
  <2>2. Done(<<f>>)
    BY <1>1, <1>4
  <2> HIDE DEF f
  <2>3. StoryGoes(Tail(work), ComingFrom(page), story \o <<f>>, marks)
    BY <1>1, <1>2, <2>1, TextDone DEF MarksGo, top, marker
  <2> QED
    BY <2>2, <2>3 DEF MarksGo, NextGoes, Done
<1> QED
  BY <1>3, <1>4

LEMMA EndOutlineGoes ==
    ASSUME MarksGo, EndOutline
    PROVE  NextGoes
<1>1. work # <<>> /\ top.id = 0 /\ work' = Tail(work) /\ story' = story /\ marks' = marks /\ page' = page
  BY DEF EndOutline, EndTask, Task
<1>2. ~IsText(top.id)
  BY <1>1 DEF IsText, Kind
<1>3. StoryStands(<<>>) /\ LeftBy(top, <<>>)
  BY PlainFacts, RangeEmpty DEF PlainStory, LeftBy
<1>4. StoryGoes(Tail(work), ComingFrom(page), story \o <<>>, marks)
  BY <1>1, <1>2, <1>3, OtherDone DEF MarksGo, top
<1>5. story \o <<>> = story
  BY <1>1, TopStands, ListAssoc
<1> QED
  BY <1>1, <1>4, <1>5 DEF MarksGo, NextGoes

LEMMA NextPages ==
    ASSUME ConvInv, NEW n \in Nat \ {0}, n <= Len(Pages)
    PROVE  /\ Pages[n] \in Range(Pages) /\ Pages[n] \in ComingFrom(n)
           /\ ComingFrom(n + 1) = ComingFrom(n) \ {Pages[n]}
<1> DEFINE k == Len(Pages)
<1>1. k \in Nat /\ DOMAIN Pages = 1..k /\ IsInjective(Pages)
  BY PagesFacts, LenProperties
<1>2. Pages[n] \in Range(Pages)
  BY <1>1 DEF Range
<1>3. Pages[n] \in ComingFrom(n)
  BY <1>1 DEF ComingFrom
<1>4. \A q \in (n + 1)..k : q \in n..k /\ Pages[q] # Pages[n]
  BY <1>1 DEF IsInjective
<1>5. \A q \in n..k : q = n \/ q \in (n + 1)..k
  BY <1>1
<1> HIDE DEF k
<1>6. \A p : p \in ComingFrom(n + 1) <=> p \in ComingFrom(n) /\ p # Pages[n]
  BY <1>4, <1>5 DEF ComingFrom, k
<1> QED
  BY <1>2, <1>3, <1>6

(* Of a page its outlines and then the rest, none twice.                   *)
LEMMA PageItemsStand ==
    ASSUME ConvInv, NEW p \in Ids
    PROVE  PageItems(p) \in Seq(Ids) /\ Unrelated(PageItems(p)) /\ Range(PageItems(p)) \subseteq Kids(p)
<1> DEFINE outlines == {x \in Ids : Kind(x) = "Outline"}
           rest == Ids \ outlines
           c == children[p]
           s == Only(c, outlines)
           t == ByPlace(s)
           u == Only(c, rest)
           v == t \o u
<1>1. c \in Seq(Ids) /\ Unrelated(c) /\ Range(c) \subseteq Kids(p)
  BY ListsApart, KidsSeparate DEF Kids
<1>2. PageItems(p) = v
  BY DEF PageItems
<1>3. outlines \cap rest = {}
  OBVIOUS
<1> HIDE DEF outlines, rest, c
<1>4. s \in Seq(Ids) /\ u \in Seq(Ids)
  BY <1>1, OnlyType
<1>5. /\ Range(s) = Range(c) \cap outlines /\ Range(u) = Range(c) \cap rest
      /\ IsInjective(s) /\ IsInjective(u)
  BY <1>1, OnlyFacts DEF Unrelated
<1> HIDE DEF s, u
<1>6. t \in Seq(Ids) /\ Range(t) \subseteq Range(s) /\ IsInjective(t)
  BY <1>4, <1>5, ByPlaceFacts
<1> HIDE DEF t
<1>7. v \in Seq(Ids) /\ Range(v) = Range(t) \cup Range(u)
  BY <1>4, <1>6, RangeConcat
<1>8. Range(t) \cap Range(u) = {}
  BY <1>3, <1>5, <1>6
<1>9. IsInjective(v)
  BY <1>4, <1>5, <1>6, <1>8, InjectiveConcat
<1>10. Range(v) \subseteq Range(c)
  BY <1>5, <1>6, <1>7
<1> HIDE DEF v
<1>11. Unrelated(v)
  BY <1>1, <1>9, <1>10 DEF Unrelated
<1> QED
  BY <1>1, <1>2, <1>7, <1>10, <1>11

LEMMA RenderPageGoes ==
    ASSUME MarksGo, RenderPage
    PROVE  NextGoes
<1> DEFINE p == Pages[page]
           b == IF page = 1 THEN <<>> ELSE <<Plain("break", p)>>
           h == IF tree[p].text THEN <<Plain("heading", p)>> ELSE <<>>
           v == Tasks(PageItems(p), 0)
           c == ComingFrom(page)
           fl == b \o h
<1>1. /\ work = <<>> /\ page \in Nat \ {0} /\ page <= Len(Pages) /\ ConvInv
      /\ story' = (story \o b) \o h /\ work' = v /\ page' = page + 1 /\ marks' = marks
  BY DEF RenderPage, MarksGo
<1>2. StoryGoes(<<>>, c, story, marks)
  BY <1>1 DEF MarksGo
<1>3. p \in c /\ p \in Range(Pages) /\ ComingFrom(page + 1) = c \ {p}
  BY <1>1, NextPages
<1>4. p \in Ids
  BY <1>1, <1>3, PagesFacts
<1>5. PageItems(p) \in Seq(Ids) /\ Unrelated(PageItems(p)) /\ Range(PageItems(p)) \subseteq Kids(p)
  BY <1>1, <1>4, PageItemsStand
<1>6. \A y \in Range(PageItems(p)) : y > 0 /\ y # 0
  BY <1>1, <1>4, <1>5, KidFacts
<1>7. PlainStory(b, p) /\ PlainStory(h, p)
  BY PlainFacts
<1> HIDE DEF p, b, h, c
<1>8. WorkStands(v) /\ MadeOf(v, Range(PageItems(p))) /\ Unmarked(v)
  BY <1>1, <1>5, <1>6, TasksStand
<1> HIDE DEF v
<1>9. MadeOf(v, Kids(p))
  BY <1>5, <1>8 DEF MadeOf
<1>10. ShownAs(fl, p)
  BY <1>7, PlainFollow DEF ShownAs, PlainStory
<1>11. fl = b \o h
  OBVIOUS
<1> HIDE DEF fl
<1>12. StoryGoes(v, c \ {p}, story \o fl, marks)
  BY <1>1, <1>2, <1>3, <1>8, <1>9, <1>10, PageOpened DEF ShownAs
<1>13. IsList(story) /\ IsList(b) /\ IsList(h)
  BY <1>2, <1>7 DEF StoryGoes, StoryStands, PlainStory
<1>14. (story \o b) \o h = story \o fl
  BY <1>11, <1>13, ListAssoc
<1>15. page + 1 \in Nat \ {0}
  BY <1>1
<1> QED
  BY <1>1, <1>3, <1>12, <1>14, <1>15 DEF NextGoes

LEMMA EndTaskStands ==
    ASSUME ConvInv
    PROVE  WorkStands(<<EndTask>>) /\ Range(<<EndTask>>) = {EndTask} /\ EndTask.id = 0
<1> DEFINE s == <<EndTask>>
<1>1. EndTask.id = 0 /\ EndTask.tags = <<>>
  BY DEF EndTask, Task
<1>2. DOMAIN s = {1}
  OBVIOUS
<1>3. IsList(s) /\ Range(s) = {EndTask} /\ IsList(<<>>)
  BY ListSmall
<1>4. 0 \in Ids
  BY IdNumbers DEF ConvInv
<1>5. Spread(s)
  BY <1>2 DEF Spread
<1> HIDE DEF s
<1>6. WorkStands(s)
  BY <1>1, <1>3, <1>4, <1>5 DEF WorkStands
<1> QED
  BY <1>1, <1>3, <1>6 DEF s

LEMMA WorkFollow ==
    ASSUME NEW s, NEW t, WorkStands(s), WorkStands(t), \A x \in Range(s), y \in Range(t) : ~Clash(x, y)
    PROVE  WorkStands(s \o t) /\ Range(s \o t) = Range(s) \cup Range(t)
<1>1. IsList(s \o t) /\ Range(s \o t) = Range(s) \cup Range(t)
  BY ListConcat DEF WorkStands
<1>2. Spread(s \o t)
  BY SpreadFollow DEF WorkStands
<1> QED
  BY <1>1, <1>2 DEF WorkStands

LEMMA RenderOutlineGoes ==
    ASSUME MarksGo, RenderOutline
    PROVE  NextGoes
<1> DEFINE x == top.id
           k == Tasks(children[x], 0)
           v == k \o <<EndTask>>
           c == ComingFrom(page)
<1>1. /\ work # <<>> /\ x > 0 /\ Kind(x) = "Outline" /\ ConvInv
      /\ work' = v \o Tail(work) /\ story' = story /\ marks' = marks /\ page' = page
  BY DEF RenderOutline, Rendering, MarksGo
<1>2. x \in Ids /\ x # 0
  BY <1>1, TopStands
<1>3. children[x] \in Seq(Ids) /\ Unrelated(children[x]) /\ Range(children[x]) \subseteq Kids(x)
  BY <1>1, <1>2, ListsApart, KidsSeparate DEF Kids
<1>4. \A y \in Range(children[x]) : y > 0
  BY <1>1, <1>2, <1>3, KidFacts
<1>5. WorkStands(k) /\ MadeOf(k, Range(children[x]))
  BY <1>1, <1>3, <1>4, TasksStand
<1> HIDE DEF k
<1>6. WorkStands(<<EndTask>>) /\ Range(<<EndTask>>) = {EndTask} /\ EndTask.id = 0
  BY <1>1, EndTaskStands
<1>7. \A a \in Range(k), b \in Range(<<EndTask>>) : ~Clash(a, b)
  BY <1>6 DEF Clash
<1>8. WorkStands(v) /\ Range(v) = Range(k) \cup {EndTask}
  BY <1>5, <1>6, <1>7, WorkFollow
<1> HIDE DEF v
<1>9. Inner(x, v)
  BY <1>3, <1>5, <1>6, <1>8 DEF Inner, MadeOf
<1>10. StoryGoes(work, c, story, marks)
  BY DEF MarksGo
<1>11. Opened(work, c, story, marks, v)
  BY <1>1, <1>2, <1>8, <1>9, <1>10, TaskOpened DEF top
<1>12. StoryGoes(v \o Tail(work), c, story, marks)
  BY <1>11 DEF Opened
<1> QED
  BY <1>1, <1>12 DEF MarksGo, NextGoes

LEMMA RenderElementGoes ==
    ASSUME MarksGo, RenderElement
    PROVE  NextGoes
<1> DEFINE x == top.id
           level  == top.level
           marker == IF lists = <<>> THEN NoMarker ELSE Marker(Head(lists), x, level)
           items  == IF marker = NoMarker THEN Tasks(contents[x], level) ELSE ItemTasks(x, level, marker)
           kids   == Tasks(children[x], level + 1)
           v == items \o kids
           u == v \o Tail(work)
           m == [id |-> x, level |-> level, marker |-> marker]
           c == ComingFrom(page)
           own == TextsOf(x)
<1>1. /\ work # <<>> /\ x > 0 /\ Kind(x) = "OutlineElement" /\ ConvInv
      /\ work' = u /\ story' = story /\ page' = page
      /\ marks' = marks \/ marks' = Append(marks, m)
  BY DEF RenderElement, Rendering, MarksGo
<1>2. x \in Ids /\ x # 0
  BY <1>1, TopStands
<1>3. /\ children[x] \in Seq(Ids) /\ Unrelated(children[x]) /\ Range(children[x]) \subseteq Kids(x)
      /\ contents[x] \in Seq(Ids) /\ Unrelated(contents[x]) /\ Range(contents[x]) \subseteq Kids(x)
      /\ Range(children[x]) \cap Range(contents[x]) = {}
  BY <1>1, <1>2, ListsApart, KidsSeparate DEF Kids
<1>4. \A y \in Kids(x) : y > 0
  BY <1>1, <1>2, KidFacts
<1>5. \A y, z \in Kids(x) : y # z => Disjoint(y, z)
  BY <1>1, <1>2, UnderFacts
<1>6. \A y \in Range(children[x]) \cup Range(contents[x]) : y > 0
  BY <1>3, <1>4
<1>7. own \subseteq Range(contents[x])
  BY DEF TextsOf
<1>8. StoryGoes(work, c, story, marks) /\ IsList(Tail(work))
  <2>1. StoryGoes(work, c, story, marks)
    BY DEF MarksGo
  <2>2. Stands(work, c)
    BY <2>1 DEF StoryGoes
  <2> QED
    BY <1>1, <2>1, <2>2, HeadStands
<1>9. m.id = x /\ m.marker = marker
  OBVIOUS
<1> HIDE DEF x, level, m, c
<1>10. WorkStands(kids) /\ MadeOf(kids, Range(children[x]))
  BY <1>1, <1>3, <1>6, TasksStand
<1>11. /\ WorkStands(items) /\ MadeOf(items, Range(contents[x]))
       /\ marker # NoMarker /\ own # {} => First(items, own, marker)
  <2> HIDE DEF marker
  <2>1. CASE marker = NoMarker
    <3>1. items = Tasks(contents[x], level)
      BY <2>1
    <3> QED
      BY <1>1, <1>3, <1>6, <2>1, <3>1, TasksStand
  <2>2. CASE marker # NoMarker
    <3>1. items = ItemTasks(x, level, marker)
      BY <2>2
    <3> QED
      BY <1>1, <1>2, <3>1, ItemTasksStand
  <2> QED
    BY <2>1, <2>2
<1> HIDE DEF kids, items, marker, own
<1>12. \A a \in Range(items), b \in Range(kids) : ~Clash(a, b)
  <2> TAKE a \in Range(items), b \in Range(kids)
  <2>1. a.id \in Range(contents[x]) /\ b.id \in Range(children[x])
    BY <1>10, <1>11 DEF MadeOf
  <2>2. a.id \in Kids(x) /\ b.id \in Kids(x) /\ a.id # b.id
    BY <1>3, <2>1
  <2> QED
    BY <1>5, <2>2 DEF Clash
<1>13. WorkStands(v) /\ Range(v) = Range(items) \cup Range(kids)
  BY <1>10, <1>11, <1>12, WorkFollow
<1>14. IsList(items) /\ IsList(kids) /\ IsList(v)
  BY <1>10, <1>11, <1>13 DEF WorkStands
<1>15. v = items \o kids
  OBVIOUS
<1> HIDE DEF v
<1>16. Inner(x, v)
  BY <1>3, <1>10, <1>11, <1>13 DEF Inner, MadeOf
<1>17. Opened(work, c, story, marks, v)
  BY <1>1, <1>2, <1>8, <1>13, <1>16, TaskOpened DEF top, x
<1>18. /\ StoryGoes(u, c, story, marks) /\ Past(x, u, c)
       /\ Without(story, own) /\ Without(Tail(work), own)
  BY <1>17 DEF Opened, top, x, own
<1>19. ASSUME marker # NoMarker, own # {} PROVE First(u, own, marker)
  <2>1. Bare(kids, own)
    BY <1>3, <1>7, <1>10 DEF Bare, MadeOf
  <2>2. First(v, own, marker)
    BY <1>11, <1>14, <1>15, <1>19, <2>1, FirstBefore
  <2>3. Bare(Tail(work), own)
    BY <1>18 DEF Bare, Without
  <2> QED
    BY <1>8, <1>14, <2>2, <2>3, FirstBefore
<1> HIDE DEF u
<1>20. StoryGoes(u, c, story, Append(marks, m))
  BY <1>1, <1>2, <1>9, <1>18, <1>19, MarkGiven DEF own
<1>21. StoryGoes(work', c, story', marks')
  BY <1>1, <1>18, <1>20
<1> QED
  BY <1>1, <1>21 DEF MarksGo, NextGoes, c

LEMMA RenderTableGoes ==
    ASSUME MarksGo, RenderTable
    PROVE  NextGoes
<1> DEFINE x == top.id
           inner == Joined(Joined(Joined(children[x], children), children), CellContent)
           whats == [i \in DOMAIN inner |-> IF Kind(inner[i]) = "RichText" THEN "cell" ELSE "words"]
           tags(i)  == IF whats[i] = "cell" THEN Tags(inner[i]) ELSE <<>>
           lines(i) == IF whats[i] = "cell" THEN tree[inner[i]].lines ELSE 1
           parts == [i \in DOMAIN inner |-> Flowable(whats[i], inner[i], NoMarker, tags(i), lines(i))]
           fl == Icons(x) \o parts
           n == Len(inner)
<1>1. /\ work # <<>> /\ x > 0 /\ Kind(x) = "Table" /\ ConvInv
      /\ Done(IF children[x] = <<>> THEN <<>> ELSE fl)
  BY DEF RenderTable, Rendering, MarksGo
<1>2. x \in Ids /\ x # 0 /\ x \in Under(x) /\ ~IsText(x)
  BY <1>1, TopStands DEF IsText
<1> HIDE DEF x
<1>3. inner \in Seq(Ids) /\ IsInjective(inner) /\ \A z \in Range(inner) : z \in Under(x) /\ z # x
  BY <1>1, <1>2, InnerFacts
<1> HIDE DEF inner
<1>4. n \in Nat /\ DOMAIN inner = 1..n /\ \A i \in 1..n : inner[i] \in Range(inner)
  BY <1>3, LenProperties, RangeOf
<1>5. ASSUME NEW i \in 1..n PROVE IsList(tags(i))
  <2>1. inner[i] \in Under(x) /\ inner[i] # x
    BY <1>3, <1>4
  <2>2. Owner(inner[i]) \in Ids /\ inner[i] \in Kids(Owner(inner[i]))
    BY <1>1, <1>2, <2>1, OwnerUnder
  <2>3. inner[i] \in Ids /\ inner[i] > 0
    BY <1>1, <2>2, KidFacts
  <2> QED
    BY <1>1, <2>3, TagsListed, ListSmall
<1>6. parts = [i \in 1..n |-> parts[i]]
      /\ \A i \in 1..n : parts[i] = Flowable(whats[i], inner[i], NoMarker, tags(i), lines(i))
  BY <1>4
<1> HIDE DEF parts, tags, lines, whats, n
<1>7. \A i \in 1..n : parts[i].id = inner[i] /\ IsFlowable(parts[i]) /\ IsInjective(parts[i].tags)
  <2> TAKE i \in 1..n
  <2>1. FlowsAs(parts[i], inner[i], NoMarker, tags(i))
    BY <1>5, <1>6, FlowableStands
  <2> QED
    BY <2>1 DEF FlowsAs
<1>8. IsList(parts) /\ DOMAIN parts = 1..n /\ \A f \in Range(parts) : \E i \in 1..n : f = parts[i]
  <2>1. DOMAIN parts = 1..n
    BY <1>6
  <2> QED
    BY <1>4, <1>6, <2>1, ListMade
<1>9. TagsOnce(parts)
  BY <1>3, <1>4, <1>7, <1>8 DEF TagsOnce, IsInjective
<1>10. StoryStands(parts) /\ \A f \in Range(parts) : f.id \in Under(x) /\ f.id # x
  <2>1. ASSUME NEW f \in Range(parts)
        PROVE  IsFlowable(f) /\ IsInjective(f.tags) /\ f.id \in Under(x) /\ f.id # x
    <3>1. PICK i \in 1..n : f = parts[i]
      BY <1>8
    <3> QED
      BY <1>3, <1>4, <1>7, <3>1
  <2> QED
    BY <1>8, <1>9, <2>1 DEF StoryStands
<1>11. ShownAs(Icons(x), x)
  BY <1>1, <1>2, IconsStand
<1>12. \A f \in Range(Icons(x)), g \in Range(parts) : f.id = g.id => Range(f.tags) \cap Range(g.tags) = {}
  BY <1>10, <1>11 DEF ShownAs
<1>13. StoryStands(fl) /\ Range(fl) = Range(Icons(x)) \cup Range(parts)
  BY <1>10, <1>11, <1>12, StoryFollow DEF ShownAs
<1> HIDE DEF fl
<1>14. LeftBy(top, fl)
  BY <1>2, <1>10, <1>11, <1>13 DEF LeftBy, ShownAs, x
<1>15. ShownAs(<<>>, x)
  BY PlainFacts DEF PlainStory, ShownAs
<1>16. CASE children[x] = <<>>
  <2>1. Done(<<>>)
    BY <1>1, <1>16
  <2> QED
    BY <1>1, <1>2, <1>15, <2>1, ShownGoes DEF x
<1>17. CASE children[x] # <<>>
  <2>1. Done(fl)
    BY <1>1, <1>17
  <2> QED
    BY <1>1, <1>2, <1>13, <1>14, <2>1, DoneGoes DEF x
<1> QED
  BY <1>16, <1>17

(* What stands when no work is left, and after every split.                *)
FirstOf(m, s) == m.marker # NoMarker /\ TextsOf(m.id) # {} => First(s, TextsOf(m.id), m.marker)
DoneWell(s, ms) == StoryStands(s) /\ \A m \in Range(ms) : FirstOf(m, s)

LEMMA StoryEnds ==
    ASSUME NEW c, NEW s, NEW ms, StoryGoes(<<>>, c, s, ms)
    PROVE  DoneWell(s, ms)
<1>1. StoryStands(s) /\ \A m \in Range(ms) : Marked(m, s, <<>>)
  BY DEF StoryGoes, MarksStand
<1>2. DOMAIN <<>> = {}
  OBVIOUS
<1>3. \A own, m : ~First(<<>>, own, m)
  BY <1>2 DEF First
<1>4. \A m \in Range(ms) : FirstOf(m, s)
  BY <1>1, <1>3 DEF Marked, MarkedIn, FirstOf
<1> QED
  BY <1>1, <1>4 DEF DoneWell

LEMMA SplitStands ==
    ASSUME DoneWell(story, marks), Split
    PROVE  DoneWell(story', marks)
<1>1. PICK i \in DOMAIN story : \E n \in 1..(story[i].lines - 1) :
        story' = SubSeq(story, 1, i - 1) \o Parts(story[i], n) \o SubSeq(story, i + 1, Len(story))
        /\ story[i].what = "text"
  BY DEF Split
<1>2. PICK n \in 1..(story[i].lines - 1) :
        story' = SubSeq(story, 1, i - 1) \o Parts(story[i], n) \o SubSeq(story, i + 1, Len(story))
        /\ story[i].what = "text"
  BY <1>1
<1> DEFINE f == story[i]
<1>3. IsList(story) /\ TagsOnce(story)
      /\ \A g \in Range(story) : IsFlowable(g) /\ IsInjective(g.tags)
  BY DEF DoneWell, StoryStands
<1>4. f \in Range(story)
  BY DEF Range
<1>5. IsFlowable(f) /\ IsInjective(f.tags)
  BY <1>3, <1>4
<1> HIDE DEF f
<1>6. PICK one, two : Parts(f, n) = <<one, two>> /\ IsFirst(f, one) /\ IsRest(f, two)
  BY <1>5, SplitParts
<1>7. story' = Cut(story, i, one, two)
  BY <1>2, <1>6 DEF Cut, f
<1>8. /\ IsFlowable(one) /\ one.id = story[i].id /\ one.marker = story[i].marker /\ one.tags = story[i].tags
      /\ IsFlowable(two) /\ two.id = story[i].id /\ two.marker = NoMarker /\ two.tags = <<>>
  BY <1>6 DEF IsFirst, IsRest, IsPart, f
<1>9. Range(two.tags) = {} /\ IsInjective(two.tags) /\ IsInjective(one.tags)
  BY <1>5, <1>8, RangeEmpty DEF f
<1> DEFINE t == Cut(story, i, one, two)
<1>10. IsList(t) /\ CutPlaces(story, i, one, two)
  BY <1>3, CutFacts
<1>11. TagsOnce(t)
  BY <1>3, <1>8, <1>9, TagsCut
<1>12. Places(story) /\ Places(t)
  BY ListPlaces
<1>13. \A g \in Range(t) : g = one \/ g = two \/ g \in Range(story)
  <2> TAKE g \in Range(t)
  <2>1. Len(story) \in Nat /\ DOMAIN story = 1..Len(story)
    BY <1>3, <1>12 DEF Places
  <2>2. PICK j \in 1..Len(t) : g = t[j]
    BY <1>10, <1>12 DEF Places
  <2>3. Len(t) = Len(story) + 1 /\ g = IF j < i THEN story[j] ELSE IF j = i THEN one
                                  ELSE IF j = i + 1 THEN two ELSE story[j - 1]
    BY <1>10, <2>2 DEF CutPlaces
  <2> HIDE DEF t
  <2>4. CASE j < i
    <3>1. j \in DOMAIN story /\ g = story[j]
      BY <2>1, <2>3, <2>4
    <3> QED
      BY <3>1 DEF Range
  <2>5. CASE j > i + 1
    <3>1. j - 1 \in DOMAIN story /\ g = story[j - 1]
      BY <2>1, <2>3, <2>5
    <3> QED
      BY <3>1 DEF Range
  <2>6. CASE j = i \/ j = i + 1
    BY <2>1, <2>3, <2>6
  <2> QED
    BY <2>1, <2>3, <2>4, <2>5, <2>6
<1>14. \A m \in Range(marks) : FirstOf(m, t)
  <2> TAKE m \in Range(marks)
  <2> DEFINE own == TextsOf(m.id)
             mark == m.marker
  <2>1. FirstOf(m, story)
    BY DEF DoneWell
  <2> SUFFICES ASSUME mark # NoMarker, own # {} PROVE First(t, own, mark)
    BY DEF FirstOf
  <2>2. First(story, own, mark)
    BY <2>1 DEF FirstOf
  <2> HIDE DEF own, mark
  <2> QED
    BY <1>3, <1>8, <2>2, FirstCut
<1> HIDE DEF t
<1>15. StoryStands(t)
  BY <1>3, <1>8, <1>9, <1>10, <1>11, <1>13 DEF StoryStands
<1> QED
  BY <1>7, <1>14, <1>15 DEF DoneWell, t

-----------------------------------------------------------------------------
MarksBegin == StoryBegins /\ marks = <<>>
MarkInv ==
    /\ DocumentInv
    /\ doing \notin Drawing => MarksBegin
    /\ doing = "pages" => MarksGo
    /\ doing \in {"build", "done"} => DoneWell(story, marks)

LEMMA TreeStays ==
    ASSUME UNCHANGED <<tree, children, contents>>
    PROVE  /\ BelowOf' = BelowOf /\ Pages' = Pages /\ Ids' = Ids
           /\ \A x : Kind(x)' = Kind(x) /\ IsText(x)' = IsText(x)
<1>1. Ids' = Ids /\ (\A x : Kind(x)' = Kind(x)) /\ Len(tree)' = Len(tree)
  BY DEF Ids, Kind
<1>2. Pages' = Pages
  BY DEF Pages, Kind, Ids
<1>3. BelowOf' = BelowOf
  BY DEF BelowOf, WalkBase, WalkTable, Ids, Kind
<1>4. \A x : IsText(x)' = IsText(x)
  BY DEF IsText, Kind
<1> QED
  BY <1>1, <1>2, <1>3, <1>4

LEMMA UnderStays ==
    ASSUME UNCHANGED <<tree, children, contents>>
    PROVE  /\ \A x, y : Disjoint(x, y)' <=> Disjoint(x, y)
           /\ \A x : Under(x)' = Under(x)
           /\ \A e : TextsOf(e)' = TextsOf(e)
<1>1. \A x : Under(x)' = Under(x)
  BY TreeStays DEF Under
<1>2. \A x, y : Disjoint(x, y)' <=> Disjoint(x, y)
  BY <1>1 DEF Disjoint
<1>3. \A e : TextsOf(e)' = TextsOf(e)
  BY TreeStays DEF TextsOf
<1> QED
  BY <1>1, <1>2, <1>3

LEMMA GoesNext ==
    ASSUME UNCHANGED <<tree, children, contents>>, NextGoes, ConvInv'
    PROVE  MarksGo'
<1>1. /\ \A x, y : Disjoint(x, y)' <=> Disjoint(x, y)
      /\ \A x : Under(x)' = Under(x)
      /\ \A e : TextsOf(e)' = TextsOf(e)
  BY UnderStays
<1>2. Pages' = Pages /\ Ids' = Ids
  BY TreeStays
<1>3. ComingFrom(page)' = ComingFrom(page')
  BY <1>2 DEF ComingFrom
<1>4. /\ Stands(work', ComingFrom(page')) /\ StoryStands(story')
      /\ Behind(story', marks', work', ComingFrom(page')) /\ MarksStand(marks', story', work')
  BY DEF NextGoes, StoryGoes
<1>5. Stands(work, ComingFrom(page))'
  BY <1>1, <1>2, <1>3, <1>4 DEF Stands, WorkStands, Spread, Clash
<1>6. Behind(story, marks, work, ComingFrom(page))'
  BY <1>1, <1>2, <1>3, <1>4 DEF Behind, Past
<1>7. MarksStand(marks, story, work)'
  BY <1>1, <1>4 DEF MarksStand, Marked
<1>8. page' \in Nat \ {0}
  BY DEF NextGoes
<1> QED
  BY <1>4, <1>5, <1>6, <1>7, <1>8 DEF MarksGo, StoryGoes

LEMMA DoneNext ==
    ASSUME UNCHANGED <<tree, children, contents>>, DoneWell(story', marks')
    PROVE  DoneWell(story, marks)'
<1>1. \A e : TextsOf(e)' = TextsOf(e)
  BY UnderStays
<1> QED
  BY <1>1 DEF DoneWell, FirstOf

LEMMA StoryStarts ==
    ASSUME ConvInv
    PROVE  StoryGoes(<<>>, ComingFrom(1), <<>>, <<>>)
<1> DEFINE c == ComingFrom(1)
<1>1. IsList(<<>>) /\ Range(<<>>) = {}
  BY ListSmall
<1>2. DOMAIN <<>> = {}
  OBVIOUS
<1>3. c \subseteq Range(Pages)
  <2>1. DOMAIN Pages = 1..Len(Pages)
    BY PagesFacts, LenProperties
  <2> QED
    BY <2>1 DEF ComingFrom, Range
<1> HIDE DEF c
<1>4. Stands(<<>>, c)
  BY <1>1, <1>2, <1>3 DEF Stands, WorkStands, Spread
<1>5. StoryStands(<<>>)
  BY <1>1, <1>2 DEF StoryStands, TagsOnce
<1>6. Behind(<<>>, <<>>, <<>>, c) /\ MarksStand(<<>>, <<>>, <<>>)
  BY <1>1 DEF Behind, MarksStand
<1> QED
  BY <1>4, <1>5, <1>6 DEF StoryGoes, c

LEMMA RendersOn ==
    ASSUME MarksGo, StoryNext, ~EndStory, ~Split, ~Build
    PROVE  NextGoes
BY RenderPageGoes, RenderOutlineGoes, EndOutlineGoes, RenderElementGoes, RenderTextGoes, OtherGoes,
   RenderTableGoes DEF StoryNext

LEMMA MarkKeeps ==
    ASSUME MarkInv, [DocumentNext]_documentVars
    PROVE  MarkInv'
<1>1. DocumentInv /\ DocumentInv' /\ ConvInv /\ ConvInv'
  BY DocumentKeeps DEF MarkInv, DocumentInv
<1>2. CASE TreeNext /\ UNCHANGED <<storyVars, domVars>>
  <2>1. doing \in Early /\ doing' \in Early
    BY <1>2 DEF TreeNext, ConvertNode, DropNode, EndConvert, FillGroup, Source, Early
  <2> QED
    BY <1>1, <1>2, <2>1 DEF MarkInv, Early, Drawing, MarksBegin, StoryBegins, storyVars
<1>3. CASE StoryNext /\ UNCHANGED domVars
  <2>1. UNCHANGED <<tree, children, contents>>
    <3>1. CASE RenderPage \/ EndOutline \/ PassElement \/ EndStory \/ Split \/ Build
      BY <1>3, <3>1, Zenon DEF RenderPage, EndOutline, PassElement, EndStory, Split, Build, treeVars, Source
    <3>2. CASE RenderOutline \/ RenderElement \/ RenderText \/ RenderImage \/ RenderFile \/ RenderTable
      BY <1>3, <3>2, Zenon DEF RenderOutline, RenderElement, RenderText, RenderImage, RenderFile, RenderTable,
         treeVars, Source
    <3> QED
      BY <1>3, <3>1, <3>2 DEF StoryNext
  <2>2. CASE ~EndStory /\ ~Split /\ ~Build
    <3>1. doing = "pages" /\ doing' = "pages"
      <4>1. CASE RenderPage \/ EndOutline \/ PassElement
        BY <4>1, Zenon DEF RenderPage, EndOutline, PassElement, treeVars
      <4>2. CASE RenderOutline \/ RenderElement \/ RenderText \/ RenderImage \/ RenderFile \/ RenderTable
        BY <4>2, Zenon DEF RenderOutline, RenderElement, RenderText, RenderImage, RenderFile, RenderTable,
           Rendering, treeVars
      <4> QED
        BY <1>3, <2>2, <4>1, <4>2 DEF StoryNext
    <3>2. NextGoes
      BY <1>3, <2>2, <3>1, RendersOn DEF MarkInv
    <3>3. MarksGo'
      BY <1>1, <2>1, <3>2, GoesNext
    <3> QED
      BY <1>1, <3>1, <3>3 DEF MarkInv, Drawing
  <2>3. CASE EndStory
    <3>1. doing = "pages" /\ doing' = "build" /\ work = <<>> /\ story' = story /\ marks' = marks
      BY <2>3 DEF EndStory, storyVars
    <3>2. StoryGoes(<<>>, ComingFrom(page), story, marks)
      BY <3>1 DEF MarkInv, MarksGo
    <3>3. DoneWell(story', marks')
      BY <3>1, <3>2, StoryEnds
    <3>4. DoneWell(story, marks)'
      BY <2>1, <3>3, DoneNext
    <3> QED
      BY <1>1, <3>1, <3>4 DEF MarkInv, Drawing
  <2>4. CASE Split \/ Build
    <3>1. doing = "build" /\ doing' \in {"build", "done"} /\ marks' = marks
      BY <2>4 DEF Split, Build, storyVars, treeVars
    <3>2. DoneWell(story, marks)
      BY <3>1 DEF MarkInv
    <3>3. DoneWell(story', marks')
      <4>1. CASE Split
        BY <3>1, <3>2, <4>1, SplitStands
      <4>2. CASE Build
        BY <3>1, <3>2, <4>2 DEF Build, storyVars
      <4> QED
        BY <2>4, <4>1, <4>2
    <3>4. DoneWell(story, marks)'
      BY <2>1, <3>3, DoneNext
    <3> QED
      BY <1>1, <3>1, <3>4 DEF MarkInv, Drawing
  <2> QED
    BY <2>2, <2>3, <2>4
<1>4. CASE Load
  <2>1. doing \in Early /\ doing' = "client" /\ UNCHANGED storyVars
    BY <1>4 DEF Load, Early
  <2> QED
    BY <1>1, <2>1 DEF MarkInv, Early, Drawing, MarksBegin, StoryBegins, storyVars
<1>5. CASE InsertChild \/ RemoveChild \/ ClonePage
  <2>1. doing = "client" /\ doing' = doing /\ UNCHANGED storyVars
    BY <1>5 DEF InsertChild, RemoveChild, ClonePage, Edit, Rest, treeVars
  <2> QED
    BY <1>1, <2>1 DEF MarkInv, Drawing, MarksBegin, StoryBegins, storyVars
<1>6. CASE Save
  <2>1. doing = "client" /\ doing' = "pages" /\ UNCHANGED <<tree, children, contents, storyVars>>
    BY <1>6 DEF Save, StartStory, Source
  <2>2. story' = <<>> /\ work' = <<>> /\ page' = 1 /\ marks' = <<>>
    BY <2>1 DEF MarkInv, Drawing, MarksBegin, StoryBegins, storyVars
  <2>3. NextGoes
    BY <1>1, <2>2, StoryStarts DEF NextGoes
  <2>4. MarksGo'
    BY <1>1, <2>1, <2>3, GoesNext
  <2> QED
    BY <1>1, <2>1, <2>4 DEF MarkInv, Drawing
<1>7. CASE UNCHANGED documentVars
  <2>1. UNCHANGED <<tree, children, contents, doing, storyVars>>
    BY <1>7 DEF documentVars, treeVars
  <2>2. story' = story /\ work' = work /\ page' = page /\ marks' = marks
    BY <2>1 DEF storyVars
  <2>3. MarksGo => MarksGo'
    <3>1. MarksGo => NextGoes
      BY <2>2 DEF MarksGo, NextGoes
    <3> QED
      BY <1>1, <2>1, <3>1, GoesNext
  <2>4. DoneWell(story, marks) => DoneWell(story, marks)'
    BY <2>1, <2>2, DoneNext
  <2> QED
    BY <1>1, <2>1, <2>2, <2>3, <2>4 DEF MarkInv, MarksBegin, StoryBegins
<1> QED
  BY <1>2, <1>3, <1>4, <1>5, <1>6, <1>7 DEF DocumentNext, DomNext

LEMMA MarkInvariant == MarkInv => MarkersOnce
<1> SUFFICES ASSUME MarkInv, doing \in {"build", "done"} PROVE MarkersOnce
  BY DEF MarkersOnce
<1>1. StoryStands(story) /\ \A m \in Range(marks) : FirstOf(m, story)
  BY DEF MarkInv, DoneWell
<1>2. ASSUME NEW k \in DOMAIN marks, marks[k].marker # NoMarker, TextsOf(marks[k].id) # {}
      PROVE  First(story, TextsOf(marks[k].id), marks[k].marker)
  <2>1. marks[k] \in Range(marks)
    BY DEF Range
  <2> QED
    BY <1>1, <1>2, <2>1 DEF FirstOf
<1>3. ASSUME NEW k \in DOMAIN marks
      PROVE  LET own   == {x \in Range(contents[marks[k].id]) : IsText(x)}
                 drawn == {i \in DOMAIN story : story[i].id \in own}
             IN marks[k].marker # NoMarker /\ own # {} =>
                  \E first \in drawn : \A i \in drawn :
                    i >= first /\ story[i].marker = IF i = first THEN marks[k].marker ELSE NoMarker
  BY <1>2 DEF First, TextsOf
<1>4. TagsOnce(story) /\ \A i \in DOMAIN story : IsInjective(story[i].tags)
  BY <1>1 DEF StoryStands, Range
<1> QED
  BY <1>3, <1>4 DEF MarkersOnce, TagsOnce

(* However paragraphs are split over the pages, a list item has its marker *)
(* once, in front of the first line of its first text, and no icon is      *)
(* drawn twice in front of a text: for every document the parser can make, *)
(* whatever a client did to it and whatever lists and options it has.      *)
THEOREM MarkedOnce == DocumentSpec => []MarkersOnce
<1>1. DocumentInit => MarkInv
  <2>1. DocumentInit => DocumentInv
    BY DocumentBegins
  <2> QED
    BY <2>1 DEF MarkInv, DocumentInit, TreeInit, StoryInit, Drawing, MarksBegin, StoryBegins
<1>2. MarkInv /\ [DocumentNext]_documentVars => MarkInv'
  BY MarkKeeps
<1>3. MarkInv => MarkersOnce
  BY MarkInvariant
<1> QED
  BY <1>1, <1>2, <1>3, PTL DEF DocumentSpec
=============================================================================
